-------------------------- MODULE MCPermissionRaw ---------------------------
(***************************************************************************)
(* Directories of up to three of eleven entries: both names of the JSON,   *)
(* JSON that names share files or does not, doubles of a name, a broken    *)
(* record, a broken local header, data that does not unpack or is stored   *)
(* with a wrong length; numbers of entries below and above the directory's.*)
(* They are replaced by packages with other profiles: one with other tags, *)
(* one with fewer, one that is no object, and none.                        *)
(***************************************************************************)
EXTENDS PermissionRaw, TLC

Entry(name, data) ==
    [name |-> name, record |-> TRUE, header |-> TRUE, method |-> "deflate",
     size |-> TRUE, data |-> data]

M == Entry("module", "naming")

Pool ==
    {M, Entry("module", "plain"), [M EXCEPT !.record = FALSE],
     [M EXCEPT !.header = FALSE], [M EXCEPT !.size = FALSE],
     [M EXCEPT !.method = "other"], [M EXCEPT !.method = "store", !.size = FALSE],
     Entry("config", "naming"), Entry("config", "plain2"),
     Entry("share", "shared"), [Entry("share", "shared2") EXCEPT !.size = FALSE]}

Directories(lengths) == UNION {[1..n -> Pool] : n \in lengths}

Profile(name, apl, permissions) ==
    [object |-> TRUE, tag |-> ("name" :> name @@ "apl" :> apl),
     permissions |-> permissions]

First == Profile("p1", "core", <<"camera">>)

Profiles ==
    {First, Profile("p2", "basic", <<>>), Profile("p2", None, <<"location">>),
     [First EXCEPT !.object = FALSE]}

File(dir, count, profile) ==
    [end |-> TRUE, inside |-> TRUE, count |-> count, dir |-> dir, profile |-> profile]

Pair == File(<<M, Entry("share", "shared")>>, 2, First)

MCFiles ==
    {File(d, Len(d), First) : d \in Directories(0..3)}
    \union {File(d, c, First) : d \in Directories(1..2), c \in {1, 5}}
    \union {[Pair EXCEPT !.end = FALSE], [Pair EXCEPT !.inside = FALSE]}

MCUpdates ==
    {File(<<Entry("module", "plain")>>, 1, p) : p \in Profiles \union {None}}
    \union {File(<<Entry("config", "plain2"), Entry("module", "plain")>>, 2, p) : p \in Profiles}

MCContents == {"naming", "plain", "plain2", "shared", "shared2"}

MCShareOf == [c \in MCContents |-> IF c = "naming" THEN "share" ELSE None]

=============================================================================
