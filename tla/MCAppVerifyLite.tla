-------------------------- MODULE MCAppVerifyLite --------------------------
(***************************************************************************)
(* Packages of the gallery, of the system and of other signers, with debug *)
(* and release profiles, each with up to one defect of the package and up  *)
(* to one of the profile.                                                  *)
(***************************************************************************)
EXTENDS AppVerifyLite

MCSizes ==
    [d \in {"a", "b", "huge", "many"} |->
        CASE d = "a" -> [contents |-> 3, dir |-> 2, eocd |-> 1]
          [] d = "b" -> [contents |-> 4, dir |-> 1, eocd |-> 3]
          [] d = "huge" -> [contents |-> 12, dir |-> 1, eocd |-> 1]
          [] d = "many" -> [contents |-> 9, dir |-> 7, eocd |-> 1]]

MCHashLen == [alg \in {"sha256", "sha384"} |-> IF alg = "sha256" THEN 1 ELSE 2]

Release ==
    [head |-> "head", type |-> "release", dist |-> "enterprise",
     developer |-> "id", dev |-> None, release |-> "C1", bundle |-> "bundle",
     permissionObject |-> "object", permissions |-> <<"P", "Q">>,
     restricted |-> <<"R">>, idType |-> None, ids |-> None, issuer |-> "issuer"]

Debug ==
    [Release EXCEPT !.type = "debug", !.dist = None, !.dev = "C1",
                    !.release = "C2", !.idType = "udid", !.ids = <<"D2", "D1">>]

Texts ==
    {[t EXCEPT ![f] = None] : t \in {Release, Debug}, f \in DOMAIN Release}
    \cup {Release, Debug,
          [Release EXCEPT !.dist = "app_gallery"],
          [Release EXCEPT !.dist = "crowd"],
          [Release EXCEPT !.release = "two, one broken", !.dev = "C1"],
          [Release EXCEPT !.release = "C2", !.dev = "C1"],
          [Release EXCEPT !.type = "beta"],
          [Release EXCEPT !.permissions = <<"P", None>>],
          [Release EXCEPT !.restricted = <<>>],
          [Release EXCEPT !.ids = <<"D1">>],
          [Debug EXCEPT !.idType = "imei"],
          [Debug EXCEPT !.ids = <<"D2">>],
          [Debug EXCEPT !.ids = <<"D2", "D3", "D1">>],
          [Debug EXCEPT !.dev = "C2", !.release = "C1"],
          [Debug EXCEPT !.dev = "two, one broken", !.release = "C1"],
          [Debug EXCEPT !.release = "two, one broken"],
          [Debug EXCEPT !.dev = "C2", !.release = None]}

Listed(use, source, list) == [use |-> use, source |-> source, list |-> list]

Message(listed, content) ==
    [parses |-> TRUE, signs |-> TRUE, root |-> "release", deep |-> FALSE,
     listed |-> listed, cert |-> "C1", fits |-> TRUE, content |-> content]

Defective(m) ==
    {[m EXCEPT !.parses = FALSE], [m EXCEPT !.signs = FALSE],
     [m EXCEPT !.root = None], [m EXCEPT !.root = "debug"],
     [m EXCEPT !.deep = TRUE], [m EXCEPT !.fits = FALSE],
     [m EXCEPT !.listed = None]}
    \cup (IF m.listed = None THEN {} ELSE {[m EXCEPT !.listed.list = "test"]})

Block(t) == [raw |-> t, msg |-> Message(Listed("profile", "system", "release"), t)]

Content(d, block) ==
    [form |-> "whole", alg |-> "sha256", length |-> 1, data |-> d, profile |-> block]

Package(listed, d, block) ==
    [opens |-> TRUE, head |-> TRUE, data |-> d, profile |-> block,
     signature |-> Message(listed, Content(d, block))]

Kinds ==
    {None, Listed("app", "gallery", "release"), Listed("app", "system", "test"),
     Listed("profile", "system", "release")}

Good == {Package(k, "a", Block(t)) : k \in Kinds, t \in Texts}

LongDigest(content) == [content EXCEPT !.alg = "sha384", !.length = 2]

DefectivePackages(p) ==
    {[p EXCEPT !.opens = FALSE], [p EXCEPT !.head = FALSE],
     [p EXCEPT !.signature = None], [p EXCEPT !.profile = None],
     [p EXCEPT !.data = "b"], [p EXCEPT !.profile = Block(Debug)],
     [p EXCEPT !.profile.raw = None],
     [p EXCEPT !.data = "huge", !.signature.content.data = "huge"],
     [p EXCEPT !.data = "many", !.signature.content.data = "many"],
     [p EXCEPT !.data = "b", !.signature.content.data = "b"],
     [p EXCEPT !.signature.content.form = "short"],
     [p EXCEPT !.signature.content.form = "short", !.signature.content.length = 2],
     [p EXCEPT !.signature.content.form = "long"],
     [p EXCEPT !.signature.content.length = 2],
     [p EXCEPT !.signature.content.alg = "md5"],
     [p EXCEPT !.signature.content.alg = "sha384"],
     [p EXCEPT !.signature.content = LongDigest(@)],
     [p EXCEPT !.data = "b", !.signature.content = LongDigest(@)],
     [p EXCEPT !.data = "b", !.signature.content = LongDigest(Content("b", p.profile))]}
    \cup {[p EXCEPT !.signature = m] : m \in Defective(p.signature)}
    \cup {LET b == [p.profile EXCEPT !.msg = m]
          IN  [p EXCEPT !.profile = b, !.signature.content.profile = b] :
             m \in Defective(p.profile.msg) \cup {None}}

MCPackages ==
    Good \cup UNION {DefectivePackages(Package(k, "a", Block(Release))) : k \in Kinds}
=============================================================================
