--------------------------- MODULE AppVerifyLite ---------------------------
(***************************************************************************)
(* The lite verifier: APPVERI_AppVerify from the open of the package to    *)
(* the VerifyResult that the caller frees, with every exit on the way.     *)
(*                                                                         *)
(* Any step may fail although the package is good: an allocation, a read,  *)
(* a computation of mbedTLS.  What a step has allocated stands in held     *)
(* under the name it has in the code, the fields of the profile in result. *)
(* What the PKCS#7 functions decide is a fact of the message (LitePkcs7).  *)
(* One thread calls, and nobody writes the package during a call.          *)
(***************************************************************************)
EXTENDS Integers, Sequences

CONSTANTS
    None,
    Packages,   \* the packages that callers pass
    Sizes,      \* the length of contents, directory and end record, by data
    Certs,      \* the certificates, as the text that a profile carries
    Device,     \* the UDID of this device
    MaxIds,     \* MAX_UDID_NUM
    ChunkSize,  \* HASH_BLOB_LEN
    HashLen,    \* the length of a digest, by algorithm
    HashField,  \* NORMAL_HASH_SIZE
    MaxInt      \* INT_MAX

VARIABLES
    debug,      \* g_isDebugMode
    pkcsDebug,  \* g_debugModeEnabled of mbedtls_pkcs7.c
    pc,         \* where the call is
    pkg,        \* the package of the latest call
    ret,        \* ret
    certType,   \* certType of VerifyIntegrity
    held,       \* what is allocated or open, the result apart
    digests,    \* chunkDigest and the section that is being hashed
    text,       \* profBuf, what ParseProfile parses
    at,         \* the field that ParseProfile is at
    result,     \* verifyRst->profile
    faulted     \* history: a step of the call failed on a good package

call == <<debug, pkcsDebug, pkg>>
vars == <<debug, pkcsDebug, pc, pkg, ret, certType, held, digests, text, at,
          result, faulted>>

Lengths == [contents: Nat \ {0}, dir: Nat \ {0}, eocd: Nat \ {0}]

\* The signer has a certificate, and an entry of the trust lists that names it
\* is of the gallery or of the system.
IsMessage(m) ==
    /\ m.cert \in Certs
    /\ m.listed # None => /\ m.listed.source \in {"gallery", "system"}
                          /\ m.listed.list \in {"release", "test"}

\* No section is empty: GetSignHead has seen to that.  A signer digests some
\* data, of this package or of another.  Of a short content, what it does not
\* reach of algorithm and length is as malloc returned it.
IsPackage(p) ==
    /\ Sizes[p.data] \in Lengths
    /\ p.signature # None =>
          /\ IsMessage(p.signature)
          /\ p.signature.content.form \in {"whole", "short", "long"}
          /\ p.signature.content.length \in Nat
          /\ Sizes[p.signature.content.data] \in Lengths
    /\ p.profile # None /\ p.profile.msg # None => IsMessage(p.profile.msg)

ASSUME LiteAssumption ==
    /\ ChunkSize \in Nat \ {0}
    /\ \A alg \in DOMAIN HashLen : HashLen[alg] \in Nat \ {0}
    /\ HashField \in Nat
    /\ MaxInt \in Nat /\ MaxIds \in Nat
    /\ None \notin Packages /\ None \notin {"accepted", "refused"}
    /\ \A p \in Packages : IsPackage(p)

Fields ==
    <<"head", "type", "dist", "developer", "dev", "release", "bundle",
      "permissionObject", "permissions", "restricted", "idType", "ids", "issuer">>

Required  == {"head", "type", "developer", "bundle", "permissionObject"}
Arrays    == {"permissions", "restricted", "ids"}
Defaulted == {"dist", "dev", "release", "issuer"}

Elements(list) == {list[i] : i \in DOMAIN list}

NoProfile == [field \in Elements(Fields) \cup {"appid"} |-> None]
NoDigests == [room |-> 0, slots |-> <<>>, section |-> "contents", left |-> 0]

Init ==
    /\ debug = FALSE
    /\ pkcsDebug = FALSE
    /\ pc = "idle"
    /\ pkg = None
    /\ ret = None
    /\ certType = None
    /\ held = {}
    /\ digests = NoDigests
    /\ text = None
    /\ at = 1
    /\ result = NoProfile
    /\ faulted = FALSE

\* A step goes on when the package is good for it and nothing fails; else the
\* call goes to the exit of its function with an error.
Goes(ok, good, next, exit) ==
    /\ ok => good
    /\ faulted' = (faulted \/ (good /\ ~ok))
    /\ pc' = IF ok THEN next ELSE exit
    /\ ret' = IF ok THEN ret ELSE "refused"

Takes(ok, names) == held' = IF ok THEN held \cup names ELSE held

-----------------------------------------------------------------------------
(* The callers: APPVERI_SetDebugMode, APPVERI_AppVerify, _FreeVerifyRst.   *)
(* The locals of a call are gone when it has answered.                     *)

\* PKCS7_EnableDebugMode may fail to load the debug root; then nothing changes.
SetDebugMode(mode, ok) ==
    /\ pc = "idle"
    /\ IF mode = debug \/ ~ok
       THEN UNCHANGED <<debug, pkcsDebug>>
       ELSE debug' = mode /\ pkcsDebug' = mode
    /\ UNCHANGED <<pc, pkg, ret, certType, held, digests, text, at, result, faulted>>

AppVerify(p) ==
    /\ pc = "idle"
    /\ pc' = "open"
    /\ pkg' = p
    /\ ret' = None
    /\ faulted' = FALSE
    /\ UNCHANGED <<debug, pkcsDebug, certType, held, digests, text, at, result>>

InitVerify(ok) ==
    /\ pc = "open"
    /\ Goes(ok, pkg.opens, "signHead", "close")
    /\ Takes(ok, {"handle"})
    /\ UNCHANGED <<call, certType, digests, text, at, result>>

\* The end record, the offsets in it and the head of the signing block.
GetSignHead(ok) ==
    /\ pc = "signHead"
    /\ Goes(ok, pkg.head, "signBlock", "close")
    /\ Takes(ok, {"signHead"})
    /\ UNCHANGED <<call, certType, digests, text, at, result>>

\* The last reads of the package, then the end of the call.
StatFile(ok) ==
    /\ pc = "stat"
    /\ Goes(ok, TRUE, "close", "close")
    /\ result' = IF ok THEN result ELSE NoProfile
    /\ UNCHANGED <<call, certType, held, digests, text, at>>

CloseFile ==
    /\ pc = "close"
    /\ pc' = "answered"
    /\ ret' = IF ret = None THEN "accepted" ELSE ret
    /\ held' = held \ {"handle", "signHead"}
    /\ certType' = None
    /\ digests' = NoDigests
    /\ text' = None
    /\ at' = 1
    /\ UNCHANGED <<call, result, faulted>>

FreeVerifyRst ==
    /\ pc = "answered"
    /\ pc' = "idle"
    /\ result' = NoProfile
    /\ ret' = None
    /\ pkg' = None
    /\ UNCHANGED <<debug, pkcsDebug, certType, held, digests, text, at, faulted>>

-----------------------------------------------------------------------------
(* VerifyBinSign: the signature of the package.                            *)

GetSignBlock(ok) ==
    /\ pc = "signBlock"
    /\ Goes(ok, pkg.signature # None, "pkcs7", "close")
    /\ Takes(ok, {"signBuf"})
    /\ UNCHANGED <<call, certType, digests, text, at, result>>

\* A mutant of GetBinSignPkcs: the block is left to an exit that is not reached.
GetBinSignPkcsKeepsBlock(ok) ==
    /\ pc = "pkcs7"
    /\ Goes(ok, pkg.signature.parses, "fileRead", "close")
    /\ Takes(ok, {"pkcs7"})
    /\ UNCHANGED <<call, certType, digests, text, at, result>>

\* The message points into the block, which is freed after it or with it.
GetBinSignPkcs(ok) ==
    /\ pc = "pkcs7"
    /\ Goes(ok, pkg.signature.parses, "fileRead", "close")
    /\ held' = IF ok THEN held \cup {"pkcs7"} ELSE held \ {"signBuf"}
    /\ UNCHANGED <<call, certType, digests, text, at, result>>

GetFileRead(ok) ==
    /\ pc = "fileRead"
    /\ Goes(ok, TRUE, "certType", "exit")
    /\ Takes(ok, {"fileRead"})
    /\ UNCHANGED <<call, certType, digests, text, at, result>>

\* g_trustAppList, then in debug mode g_trustAppListTest.
InTrustList(m, use) ==
    /\ m.listed # None
    /\ m.listed.use = use
    /\ m.listed.list \in IF debug THEN {"release", "test"} ELSE {"release"}

TypeBySource(m, use) == IF InTrustList(m, use) THEN m.listed.source ELSE "other"

\* A listed signer must not stand too deep; any other is of type OTHER.
GetAppSingerCertType(ok) ==
    /\ pc = "certType"
    /\ Goes(ok, InTrustList(pkg.signature, "app") => ~pkg.signature.deep,
            "chain", "exit")
    /\ certType' = IF ok THEN TypeBySource(pkg.signature, "app") ELSE certType
    /\ UNCHANGED <<call, held, digests, text, at, result>>

TrustedRoots == IF pkcsDebug THEN {"release", "debug"} ELSE {"release"}

VerifyCertsChain(ok) ==
    /\ pc = "chain"
    /\ Goes(ok, pkg.signature.root \in TrustedRoots, "rawHash", "exit")
    /\ UNCHANGED <<call, certType, held, digests, text, at, result>>

NumberOfChunks(size) == (size - 1 + ChunkSize) \div ChunkSize

\* 0 stands for too many.
GetChunkSumCount(s, rootHashLen) ==
    LET count == NumberOfChunks(s.contents) + NumberOfChunks(s.dir)
                     + NumberOfChunks(s.eocd)
    IN  IF \/ \E part \in DOMAIN s : s[part] > MaxInt - ChunkSize
           \/ (MaxInt - 5) \div count < rootHashLen
        THEN 0 ELSE count

\* The digests of the package can be computed: the content of the signature fits
\* a ContentInfo and names an algorithm, and there are not too many chunks.
Computable(p) ==
    LET c == p.signature.content
    IN  /\ c.form # "long"
        /\ c.alg \in DOMAIN HashLen
        /\ GetChunkSumCount(Sizes[p.data], HashLen[c.alg]) # 0

\* The content is copied into a ContentInfo, and the buffers for the digests are
\* allocated.
BeginRawHash(ok) ==
    LET n == IF ok THEN GetChunkSumCount(Sizes[pkg.data],
                                         HashLen[pkg.signature.content.alg])
             ELSE 0
    IN  /\ pc = "rawHash"
        /\ Goes(ok, Computable(pkg), "chunks", "exit")
        /\ Takes(ok, {"content", "actualDigest", "chunkDigest"})
        /\ digests' = [room |-> n, slots |-> <<>>, section |-> "contents",
                       left |-> Sizes[pkg.data].contents]
        /\ UNCHANGED <<call, certType, text, at, result>>

RawHashBuffers == {"content", "actualDigest", "chunkDigest"}

\* HapPutData: what does not fit is dropped without a word.
Put(slots, digest) ==
    IF Len(slots) < digests.room THEN Append(slots, digest) ELSE slots

SectionAfter(section) == IF section = "contents" THEN "dir" ELSE "eocd"

ChunkLength == IF digests.left > ChunkSize THEN ChunkSize ELSE digests.left

\* One chunk of ComputerFileHash, ComputerCoreDirHash or ComputerEocdHash, the
\* end record with the offset of the signing block in it.
DigestChunk(ok) ==
    LET length == ChunkLength
        chunk  == [data |-> pkg.data, section |-> digests.section,
                   from |-> Sizes[pkg.data][digests.section] - digests.left,
                   length |-> length]
        ends   == digests.left = length
        last   == ends /\ digests.section = "eocd"
    IN  /\ pc = "chunks"
        /\ Goes(ok, TRUE, IF last THEN "block" ELSE "chunks", "exit")
        /\ held' = IF ok THEN held ELSE held \ RawHashBuffers
        /\ digests' =
               IF ends /\ ~last
               THEN [digests EXCEPT
                        !.slots = Put(@, chunk),
                        !.section = SectionAfter(@),
                        !.left = Sizes[pkg.data][SectionAfter(digests.section)]]
               ELSE [digests EXCEPT !.slots = Put(@, chunk), !.left = @ - length]
        /\ UNCHANGED <<call, certType, text, at, result>>

\* ComputeDigestsWithOptionalBlock reads the block of the profile; a package
\* without one is refused here.
DigestProfileBlock(ok) ==
    /\ pc = "block"
    /\ Goes(ok, pkg.profile # None, "compare", "exit")
    /\ held' = IF ok THEN held \ {"chunkDigest"} ELSE held \ RawHashBuffers
    /\ UNCHANGED <<call, certType, digests, text, at, result>>

\* The digest that the signer of a content has computed.
SignedDigest(c) ==
    LET Part(section) ==
            LET size == Sizes[c.data][section]
            IN  [n \in 1..((size + ChunkSize - 1) \div ChunkSize) |->
                    [data |-> c.data, section |-> section,
                     from |-> (n - 1) * ChunkSize,
                     length |-> IF n * ChunkSize <= size THEN ChunkSize
                                ELSE size - (n - 1) * ChunkSize]]
        all == Part("contents") \o Part("dir") \o Part("eocd")
    IN  [room |-> Len(all), slots |-> all, profile |-> c.profile]

\* The hash of the content is the digest, or the start of it.
SameDigest(c) ==
    [room |-> digests.room, slots |-> digests.slots, profile |-> pkg.profile]
        = SignedDigest(c)

\* The bytes of the digest are compared with as many from the hash on, which are
\* as malloc returned them behind a short content, and somebody else's behind a
\* hash that is shorter than the digest.
MayMatch(c) ==
    /\ c.length = HashLen[c.alg]
    /\ c.form = "short" \/ SameDigest(c)

MustMatch(c) == MayMatch(c) /\ c.form # "short" /\ HashLen[c.alg] <= HashField

CompareRawHash(same) ==
    LET c == pkg.signature.content
    IN  /\ pc = "compare"
        /\ same => MayMatch(c)
        /\ MustMatch(c) => same
        /\ pc' = IF same THEN "signature" ELSE "exit"
        /\ ret' = IF same THEN ret ELSE "refused"
        /\ held' = held \ RawHashBuffers
        /\ UNCHANGED <<call, certType, digests, text, at, result, faulted>>

VerifySignerSignature(ok) ==
    /\ pc = "signature"
    /\ Goes(ok, pkg.signature.signs, "certInfo", "exit")
    /\ UNCHANGED <<call, certType, held, digests, text, at, result>>

GetCertInfo(ok) ==
    /\ pc = "certInfo"
    /\ Goes(ok, TRUE, "exit", "exit")
    /\ Takes(ok, {"certInfo"})
    /\ UNCHANGED <<call, certType, digests, text, at, result>>

\* EXIT of VerifyBinSign.
FreeBinSign ==
    /\ pc = "exit"
    /\ pc' = IF ret = None THEN "profileBlock" ELSE "close"
    /\ held' = held \ {"signBuf", "pkcs7", "fileRead"}
    /\ UNCHANGED <<call, ret, certType, digests, text, at, result, faulted>>

-----------------------------------------------------------------------------
(* VerfiyAppSourceGetProfile: the profile of the package.                  *)

GetProfileBlock(ok) ==
    /\ pc = "profileBlock"
    /\ Goes(ok, pkg.profile # None, "profileSign", "freeInfo")
    /\ Takes(ok, {"profBuf"})
    /\ UNCHANGED <<call, certType, digests, text, at, result>>

\* VerifyProfileSignGetRaw: parse, chain, source, signature and size.
ProfileSigned(m) ==
    /\ m # None
    /\ m.parses
    /\ m.root \in TrustedRoots
    /\ InTrustList(m, "profile")
    /\ ~m.deep
    /\ m.signs
    /\ m.fits

\* The profile of a package of the gallery stands in the block as it is, covered
\* by the signature of the package; any other has a signature of its own.
VerifyProfileSign(ok) ==
    LET byGallery == certType = "gallery"
    IN  /\ pc = "profileSign"
        /\ byGallery => ok
        /\ Goes(ok, byGallery \/ ProfileSigned(pkg.profile.msg), "parse", "freeInfo")
        /\ held' = IF ok THEN held ELSE held \ {"profBuf"}
        /\ text' = IF ~ok THEN None
                   ELSE IF byGallery THEN pkg.profile.raw ELSE pkg.profile.msg.content
        /\ UNCHANGED <<call, certType, digests, at, result>>

\* ParseProfile up to the JSON: the result starts from nothing.
BeginParse(ok) ==
    /\ pc = "parse"
    /\ Goes(ok, text # None, "field", "freeInfo")
    /\ held' = IF ok THEN held \cup {"json"} ELSE held \ {"profBuf"}
    /\ at' = 1
    /\ result' = NoProfile
    /\ UNCHANGED <<call, certType, digests, text>>

\* GetStringTag and GetStringArrayTag; an array is read whole or not at all.
Tagged(field) ==
    IF field \in Arrays /\ text[field] # None
       /\ (text[field] = <<>> \/ None \in Elements(text[field]))
    THEN None ELSE text[field]

DefaultFor(field) == IF field = "issuer" THEN "Huawei App Store" ELSE ""

\* Without an id type the ids are not read.
Skipped(field) == field = "ids" /\ result["idType"] = None

\* One field.  got is what is read of it: None when the tag is missing or an
\* allocation fails.  A required field then ends the parse, a field with a
\* default ends it when the default cannot be allocated either, and any other
\* stays empty.
ReadField(got, ok) ==
    LET field == Fields[at]
        kept  == IF got = None /\ field \in Defaulted THEN DefaultFor(field) ELSE got
        good  == ~(field \in Required /\ Tagged(field) = None)
    IN  /\ pc = "field"
        /\ got \in IF Skipped(field) THEN {None} ELSE {Tagged(field), None}
        /\ ok => ~(field \in Required /\ got = None)
        /\ ~ok => got = None /\ field \in Required \cup Defaulted
        /\ faulted' =
              (\/ faulted
               \/ ~ok /\ good
               \/ got = None /\ ~Skipped(field) /\ Tagged(field) # None)
        /\ pc' = IF ~ok THEN "freeInfo" ELSE IF at < Len(Fields) THEN "field" ELSE "parsed"
        /\ ret' = IF ok THEN ret ELSE "refused"
        /\ held' = IF ok THEN held ELSE held \ {"json", "profBuf"}
        /\ at' = IF ok /\ at < Len(Fields) THEN at + 1 ELSE 1
        /\ result' = IF ok THEN [result EXCEPT ![field] = kept] ELSE NoProfile
        /\ UNCHANGED <<call, certType, digests, text>>

\* The text and the JSON are freed; the profile checks work on the result.
EndParse ==
    /\ pc = "parsed"
    /\ pc' = "content"
    /\ held' = held \ {"json", "profBuf"}
    /\ text' = None
    /\ UNCHANGED <<call, ret, certType, digests, at, result, faulted>>

VerifyAppTypeAndDistribution(pf) ==
    /\ pf["type"] \in {"debug", "release"}
    /\ pf["type"] = "release" =>
           pf["dist"] \in {"app_gallery", "enterprise", "enterprise_normal",
                           "enterprise_mdm", "internaltesting", "os_integration"}

VerifyAppBundleInfo(pf) ==
    IF pf["type"] = "debug" THEN pf["dev"] # "" ELSE pf["release"] # ""

VerifyUdid(pf) ==
    /\ pf["ids"] # None
    /\ Len(pf["ids"]) <= MaxIds
    /\ \E i \in DOMAIN pf["ids"] : pf["ids"][i] = Device

VerifyDebugInfo(pf) ==
    pf["type"] = "debug" => pf["idType"] = "udid" /\ VerifyUdid(pf)

\* On a failure from here on the result is freed.
VerifyProfileContent(ok) ==
    /\ pc = "content"
    /\ Goes(ok, /\ VerifyAppTypeAndDistribution(result)
                /\ VerifyAppBundleInfo(result)
                /\ VerifyDebugInfo(result), "appid", "freeInfo")
    /\ result' = IF ok THEN result ELSE NoProfile
    /\ UNCHANGED <<call, certType, held, digests, text, at>>

\* GetPkBuf: the text is a certificate with a key that can be written out.
HasKey(cert) == cert \in Certs

\* mbedTLS keeps what it has parsed of a list of certificates when it fails at a
\* later one, and the two callers of it do not free that.
KeepsPart(certs, ok) ==
    \/ held' = held
    \/ held' = held \cup {"certificates"} /\ (~ok \/ \E c \in certs : ~HasKey(c))

\* The key of the release certificate, or of the development one.
GetAppid(ok) ==
    LET cert == IF result["release"] # "" THEN result["release"] ELSE result["dev"]
    IN  /\ pc = "appid"
        /\ Goes(ok, HasKey(cert), "source", "freeInfo")
        /\ KeepsPart({cert}, ok)
        /\ result' = IF ok THEN [result EXCEPT !["appid"] = <<result["bundle"], cert>>]
                     ELSE NoProfile
        /\ UNCHANGED <<call, certType, digests, text, at>>

\* LoadCertAndCmpDest.
SameCert(cert) == HasKey(cert) /\ cert = pkg.signature.cert

CheckDebugAppSign ==
    /\ result["dev"] # ""
    /\ SameCert(result["dev"]) \/ SameCert(result["release"])

CheckReleaseAppSign ==
    /\ result["dist"] # "app_gallery"
    /\ SameCert(result["release"])

\* A mutant of CheckAppSignCert: for a debug profile either certificate will do,
\* for a release profile as well.
CheckAnyAppSignCert ==
    \/ certType \in {"gallery", "system"}
    \/ SameCert(result["dev"]) \/ SameCert(result["release"])

\* CheckAppSignCertWithProfile.
CheckAppSignCert ==
    \/ certType \in {"gallery", "system"}
    \/ result["type"] = "debug" /\ CheckDebugAppSign
    \/ result["type"] = "release" /\ CheckReleaseAppSign

\* The certificates are freed when they have served.
CheckAppSource(ok) ==
    /\ pc = "source"
    /\ Goes(ok, CheckAppSignCert, "freeInfo", "freeInfo")
    /\ IF certType \in {"gallery", "system"} THEN ok /\ UNCHANGED held
       ELSE KeepsPart({result["dev"], result["release"]}, ok)
    /\ result' = IF ok THEN [result EXCEPT !["dev"] = None, !["release"] = None]
                 ELSE NoProfile
    /\ UNCHANGED <<call, certType, digests, text, at>>

\* VerifyIntegrity, after either outcome.
FreeBinSignCert ==
    /\ pc = "freeInfo"
    /\ pc' = IF ret = None THEN "stat" ELSE "close"
    /\ held' = held \ {"certInfo"}
    /\ UNCHANGED <<call, ret, certType, digests, text, at, result, faulted>>

-----------------------------------------------------------------------------
Handler ==
    \/ \E ok \in BOOLEAN :
          \/ InitVerify(ok) \/ GetSignHead(ok) \/ StatFile(ok)
          \/ GetSignBlock(ok) \/ GetBinSignPkcs(ok) \/ GetFileRead(ok)
          \/ GetAppSingerCertType(ok) \/ VerifyCertsChain(ok) \/ BeginRawHash(ok)
          \/ DigestChunk(ok) \/ DigestProfileBlock(ok) \/ CompareRawHash(ok)
          \/ VerifySignerSignature(ok) \/ GetCertInfo(ok)
          \/ GetProfileBlock(ok) \/ VerifyProfileSign(ok) \/ BeginParse(ok)
          \/ VerifyProfileContent(ok) \/ GetAppid(ok) \/ CheckAppSource(ok)
    \/ /\ pc = "field"
       /\ \E got \in {Tagged(Fields[at]), None}, ok \in BOOLEAN : ReadField(got, ok)
    \/ FreeBinSign \/ EndParse \/ FreeBinSignCert \/ CloseFile

Caller ==
    \/ \E mode, ok \in BOOLEAN : SetDebugMode(mode, ok)
    \/ pc = "idle" /\ \E p \in Packages : AppVerify(p)
    \/ FreeVerifyRst

Next == Handler \/ Caller

Spec == Init /\ [][Next]_vars

-----------------------------------------------------------------------------
PCs ==
    {"idle", "open", "signHead", "signBlock", "pkcs7", "fileRead", "certType",
     "chain", "rawHash", "chunks", "block", "compare", "signature", "certInfo",
     "exit", "profileBlock", "profileSign", "parse", "field", "parsed", "content",
     "appid", "source", "freeInfo", "stat", "close", "answered"}

Resources ==
    {"handle", "signHead", "signBuf", "pkcs7", "fileRead", "certInfo", "profBuf",
     "json", "certificates"} \cup RawHashBuffers

\* Types: the digests never outgrow their buffer, no section ends below zero.
TypeOK ==
    /\ debug \in BOOLEAN /\ pkcsDebug \in BOOLEAN /\ faulted \in BOOLEAN
    /\ pc \in PCs
    /\ ret \in {None, "accepted", "refused"}
    /\ certType \in {None, "gallery", "system", "other"}
    /\ held \subseteq Resources
    /\ digests.room \in Nat /\ digests.left \in Nat
    /\ Len(digests.slots) <= digests.room
    /\ at \in DOMAIN Fields
    /\ DOMAIN result = DOMAIN NoProfile

\* Whichever of its steps failed, a call that has answered has closed the file
\* and freed all it allocated, but for the parts of a certificate list that the
\* two callers of mbedtls_x509_crt_parse lose when it fails.
NothingKept ==
    pc \in {"idle", "answered"} => held \subseteq {"certificates"}

Policy ==
    INSTANCE LitePolicy WITH
        debug   <- debug,
        package <- IF pc \in {"idle", "answered"} THEN None ELSE pkg,
        fault   <- faulted,
        answer  <- IF pc = "answered" THEN ret ELSE None,
        result  <- IF pc = "answered" THEN result ELSE NoProfile

\* The lite verifier implements LitePolicy: a package is accepted exactly when it
\* is signed as it lies there by a signer of this mode and its profile permits
\* it, unless something fails; what is handed out is what that profile says.
ImplementsPolicy == Policy!Spec
=============================================================================
