----------------------------- MODULE LitePolicy -----------------------------
(***************************************************************************)
(* What APPVERI_AppVerify of the lite verifier promises, with no buffer,   *)
(* loop or step in it: which packages are accepted, and what the caller is *)
(* handed of the profile.  AppVerifyLite is shown to implement it.         *)
(*                                                                         *)
(* A message (PKCS#7) is a record of what LitePkcs7 finds out about it:    *)
(* whether it parses and its signature fits, the root its chain leads to,  *)
(* the trust list entry its signer is in, and what it is a signature of.   *)
(***************************************************************************)
EXTENDS Integers, Sequences

CONSTANTS
    None,
    Packages,   \* the packages that callers pass
    Sizes,      \* the length of contents, directory and end record, by data
    Certs,      \* the certificates, as the text that a profile carries
    Device,     \* the UDID of this device
    MaxIds,     \* MAX_UDID_NUM
    ChunkSize,  \* HASH_BLOB_LEN
    HashLen,    \* the length of a digest, by algorithm
    HashField,  \* NORMAL_HASH_SIZE
    MaxInt      \* INT_MAX

VARIABLES
    debug,      \* debug mode
    package,    \* the package of the running call, or None
    fault,      \* an allocation, a read or a computation of the call failed
    answer,     \* the return value of the call, or None
    result      \* the VerifyResult of the caller

-----------------------------------------------------------------------------
(* Profiles.  The text of a profile gives every tag a value or None.       *)

RequiredTags  == {"head", "type", "developer", "bundle", "permissionObject"}
ListTags      == {"permissions", "restricted", "ids"}
DefaultedTags == {"dist", "dev", "release", "issuer"}
OptionalTags  == ListTags \cup DefaultedTags \cup {"idType"}
Tags          == RequiredTags \cup OptionalTags

Distributions ==
    {"app_gallery", "enterprise", "enterprise_normal", "enterprise_mdm",
     "internaltesting", "os_integration"}

DefaultOf(tag) ==
    IF tag = "issuer" THEN "Huawei App Store"
    ELSE IF tag \in DefaultedTags THEN "" ELSE None

Elements(list) == {list[i] : i \in DOMAIN list}

\* A list is read whole; an empty one, or one with an element that is no
\* string, is read as no list.  The ids of devices count with their type only.
Value(text, tag) ==
    IF \/ tag = "ids" /\ text["idType"] = None
       \/ /\ tag \in ListTags /\ text[tag] # None
          /\ text[tag] = <<>> \/ None \in Elements(text[tag])
    THEN None ELSE text[tag]

\* What may be read of a text: everything or, when something fails, without
\* some of the optional tags.
Readings(text) ==
    {[tag \in Tags |-> IF tag \in lost \/ Value(text, tag) = None
                       THEN DefaultOf(tag) ELSE Value(text, tag)] :
        lost \in IF fault THEN SUBSET OptionalTags ELSE {{}}}

NamesDevice(ids) == ids # None /\ Len(ids) <= MaxIds /\ Device \in Elements(ids)

\* The certificate whose key becomes part of the appid.
AppidCert(t) == IF t["release"] # "" THEN t["release"] ELSE t["dev"]

ProfileAllowed(t) ==
    /\ t["type"] \in {"debug", "release"}
    /\ t["type"] = "release" => t["dist"] \in Distributions /\ t["release"] # ""
    /\ t["type"] = "debug" =>
           t["dev"] # "" /\ t["idType"] = "udid" /\ NamesDevice(t["ids"])
    /\ AppidCert(t) \in Certs

\* A profile names the certificate of the application.
NamesCert(t, cert) ==
    \/ t["type"] = "debug" /\ cert \in {t["dev"], t["release"]}
    \/ t["type"] = "release" /\ t["dist"] # "app_gallery" /\ cert = t["release"]

-----------------------------------------------------------------------------
(* Packages.                                                               *)

ListedFor(m, use) ==
    /\ m.listed # None
    /\ m.listed.use = use
    /\ debug \/ m.listed.list = "release"

Source(m, use) == IF ListedFor(m, use) THEN m.listed.source ELSE "other"

Vouched(m, use) ==
    /\ m.parses
    /\ m.signs
    /\ m.root = "release" \/ (debug /\ m.root = "debug")
    /\ ListedFor(m, use) => ~m.deep

Chunks(size) == (size + ChunkSize - 1) \div ChunkSize

Countable(data, hashLen) ==
    LET s == Sizes[data]
    IN  /\ \A part \in DOMAIN s : s[part] + ChunkSize <= MaxInt
        /\ (Chunks(s.contents) + Chunks(s.dir) + Chunks(s.eocd)) * hashLen + 5
               <= MaxInt

\* The content of the signature says what the package is, in as much of the
\* digest as it holds.
SignedAsIs(p) ==
    LET c == p.signature.content
    IN  /\ c.alg \in DOMAIN HashLen
        /\ c.length = HashLen[c.alg]
        /\ \/ c.form = "short"
           \/ c.form = "whole" /\ c.data = p.data /\ c.profile = p.profile
        /\ Countable(p.data, HashLen[c.alg])

\* The rest of the digest the program takes from memory that it did not write:
\* the content ends before it, or the field has no room for it.
DigestCut(p) ==
    LET c == p.signature.content
    IN  SignedAsIs(p) /\ (c.form = "short" \/ HashLen[c.alg] > HashField)

\* The text of the profile that the package is entitled to, or None: as it
\* stands for a package of the gallery, else out of a message of its own.
ProfileText(p) ==
    IF Source(p.signature, "app") = "gallery" THEN p.profile.raw
    ELSE LET m == p.profile.msg
         IN  IF /\ m # None
                /\ Vouched(m, "profile")
                /\ Source(m, "profile") # "other"
                /\ m.fits
             THEN m.content ELSE None

Complete(text) == \A tag \in RequiredTags : text[tag] # None

\* What the caller is handed of a reading.
Handed(t) ==
    [tag \in Tags \cup {"appid"} |->
        IF tag = "appid" THEN <<t["bundle"], AppidCert(t)>>
        ELSE IF tag \in {"dev", "release"} THEN None ELSE t[tag]]

NoResult == [tag \in Tags \cup {"appid"} |-> None]

\* The results with which the package may be accepted.
Accepts(p) ==
    IF ~(p.opens /\ p.head) \/ p.signature = None \/ p.profile = None THEN {}
    ELSE IF ~Vouched(p.signature, "app") \/ ~SignedAsIs(p) THEN {}
    ELSE IF ProfileText(p) = None \/ ~Complete(ProfileText(p)) THEN {}
    ELSE {Handed(t) : t \in
             {r \in Readings(ProfileText(p)) :
                 /\ ProfileAllowed(r)
                 /\ \/ Source(p.signature, "app") # "other"
                    \/ NamesCert(r, p.signature.cert)}}

-----------------------------------------------------------------------------
Init ==
    /\ debug = FALSE
    /\ package = None
    /\ fault = FALSE
    /\ answer = None
    /\ result = NoResult

SetDebugMode ==
    /\ package = None /\ answer = None
    /\ debug' \in BOOLEAN
    /\ UNCHANGED <<package, fault, answer, result>>

Begin(p) ==
    /\ package = None /\ answer = None
    /\ package' = p
    /\ fault' = FALSE
    /\ UNCHANGED <<debug, answer, result>>

Fail ==
    /\ package # None
    /\ fault' = TRUE
    /\ UNCHANGED <<debug, package, answer, result>>

Accept ==
    /\ package # None
    /\ answer' = "accepted"
    /\ result' \in Accepts(package)
    /\ package' = None
    /\ UNCHANGED <<debug, fault>>

\* A package that is acceptable is refused only when something fails or its
\* digest is cut, and a refusal hands out nothing.
Refuse ==
    /\ package # None
    /\ answer' = "refused"
    /\ fault \/ Accepts(package) = {} \/ DigestCut(package)
    /\ package' = None
    /\ UNCHANGED <<debug, fault, result>>

\* The caller frees the result.
Free ==
    /\ answer # None
    /\ answer' = None
    /\ result' = NoResult
    /\ UNCHANGED <<debug, package, fault>>

Next ==
    \/ SetDebugMode
    \/ package = None /\ \E p \in Packages : Begin(p)
    \/ Fail \/ Accept \/ Refuse \/ Free

Spec == Init /\ [][Next]_<<debug, package, fault, answer, result>>
=============================================================================
