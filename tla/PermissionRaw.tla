--------------------------- MODULE PermissionRaw ---------------------------
(***************************************************************************)
(* Scene 1 and scene 2-1 of VerifyOrParseHapPermission, from the reader to *)
(* the two objects that the caller keeps from call to call: BootstrapInfo, *)
(* which is replaced, and ProvisionInfo, into which scene 2-1 parses a     *)
(* profile as it is.  GetPermissionJsonEntries of scene 2-2-2-2 goes on    *)
(* with what a scene left.                                                 *)
(*                                                                         *)
(* A package of ZipReader has a profile as well, or None without a signing *)
(* block.  A profile is whether it is a JSON object, the tags that are set *)
(* once and the list of its permissions, which stands for every array.     *)
(***************************************************************************)
EXTENDS ZipReader

CONSTANTS
    Updates,    \* the packages that replace another
    Tags,       \* the keys of a profile that hold one value
    MaxParses   \* how often one ProvisionInfo is parsed into

ASSUME PermissionRawAssumption ==
    /\ MaxParses \in Nat
    /\ None \notin {"all", "fast", "entries"}
    /\ \A f \in Updates : IsFile(f)
    /\ \A f \in Files \cup Updates : f.profile # None =>
          /\ f.profile.tag = [t \in Tags |-> f.profile.tag[t]]
          /\ f.profile.permissions \in Seq(STRING)

VARIABLES
    scene,      \* the scene that runs
    boot,       \* bootstrapInfo
    info,       \* provisionInfo
    parses      \* how many profiles have been parsed into it

sceneVars == <<scene, boot, info, parses>>

NoBoot == [module |-> None, share |-> None, profile |-> None]
NoInfo == [tag |-> [t \in Tags |-> None], permissions |-> <<>>, appId |-> None]

SceneInit ==
    /\ Init
    /\ scene = None
    /\ boot = NoBoot
    /\ info = NoInfo
    /\ parses = 0

\* from_json: a tag that the profile lacks keeps its value, and an array is
\* appended to.
FromJson(i, p) ==
    [tag         |-> [t \in Tags |-> IF p.tag[t] # None THEN p.tag[t] ELSE i.tag[t]],
     permissions |-> i.permissions \o p.permissions,
     appId       |-> i.appId]

-----------------------------------------------------------------------------
\* The caller takes a new ProvisionInfo.
NewInfo ==
    /\ scene = None
    /\ parses > 0
    /\ info' = NoInfo
    /\ parses' = 0
    /\ UNCHANGED <<vars, scene, boot>>

NewPackage(f) ==
    /\ scene = None
    /\ Replace(f)
    /\ UNCHANGED sceneVars

\* Scene 1, when the verification has not failed: it finds no signature or
\* succeeds, which it does only with a profile that it could parse.
BeginAll ==
    /\ scene = None
    /\ file.profile # None => file.profile.object
    /\ scene' = "all"
    /\ Begin(IF file.profile = None THEN "unsigned" ELSE "raw", NoRaw)
    /\ UNCHANGED <<boot, info, parses>>

\* Scene 2-1
BeginFast ==
    /\ scene = None
    /\ parses < MaxParses
    /\ scene' = "fast"
    /\ Begin("raw", NoRaw)
    /\ UNCHANGED <<boot, info, parses>>

\* VerifyPermissionJsonChunksAndFullDigest, whose success changes nothing.
BeginEntries ==
    /\ scene = None
    /\ boot.module # None
    /\ scene' = "entries"
    /\ Begin("entries", [module |-> boot.module, share |-> boot.share])
    /\ UNCHANGED <<boot, info, parses>>

\* What ReadPermissionRaw has read.
Current == [module |-> raw.module, share |-> raw.share, profile |-> file.profile]

HasRaw == pc = "done" /\ file.profile # None

EndUnsigned ==
    /\ caller = "unsigned"
    /\ Close
    /\ scene' = None
    /\ boot' = [NoBoot EXCEPT !.module = raw.module]
    /\ UNCHANGED <<info, parses>>

EndAll ==
    /\ scene = "all" /\ caller = "raw"
    /\ Close
    /\ scene' = None
    /\ IF HasRaw
       THEN /\ boot' = Current
            /\ info' = [FromJson(NoInfo, file.profile) EXCEPT !.appId = file.profile]
            /\ parses' = 1
       ELSE UNCHANGED <<boot, info, parses>>

Changed == HasRaw /\ Current # boot

\* A mutant of KeepsCurrent: the data is taken over before the profile is
\* parsed.
KeepsChanged == Changed

KeepsCurrent == Changed /\ file.profile.object

EndFast ==
    /\ scene = "fast"
    /\ Close
    /\ scene' = None
    /\ boot' = IF KeepsCurrent THEN Current ELSE boot
    /\ IF Changed /\ file.profile.object
       THEN info' = FromJson(info, file.profile) /\ parses' = parses + 1
       ELSE UNCHANGED <<info, parses>>

EndEntries ==
    /\ scene = "entries"
    /\ Close
    /\ scene' = None
    /\ UNCHANGED <<boot, info, parses>>

SceneNext ==
    \/ NewInfo
    \/ \E f \in Updates : NewPackage(f)
    \/ BeginAll \/ BeginFast \/ BeginEntries
    \/ scene # None /\ Call /\ UNCHANGED sceneVars
    \/ EndUnsigned \/ EndAll \/ EndFast \/ EndEntries

Spec == SceneInit /\ [][SceneNext]_<<vars, sceneVars>>

-----------------------------------------------------------------------------
(* Properties.                                                             *)

IsSuffix(s, t) ==
    /\ Len(s) <= Len(t)
    /\ s = SubSeq(t, Len(t) - Len(s) + 1, Len(t))

\* The provision goes with the data that is kept: whatever calls fail and
\* whatever packages come, the tags that the kept profile has are the ones of
\* the provision and its permissions are the last ones there.  A provision that
\* one profile was parsed into is that profile and no other.
InfoFollowsBoot ==
    boot.profile # None /\ parses > 0 =>
        LET p == boot.profile
        IN  /\ p.object
            /\ \A t \in Tags : p.tag[t] # None => info.tag[t] = p.tag[t]
            /\ IsSuffix(p.permissions, info.permissions)
            /\ parses = 1 =>
                  /\ info.tag = p.tag
                  /\ info.permissions = p.permissions
                  /\ info.appId \in {None, p}

=============================================================================
