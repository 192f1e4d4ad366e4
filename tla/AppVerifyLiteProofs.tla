------------------------- MODULE AppVerifyLiteProofs -------------------------
(***************************************************************************)
(* A call of the lite verifier gives back what it takes, whatever package  *)
(* it is given and whichever of its steps fail; and it implements          *)
(* LitePolicy: for every set of packages, sizes, certificates and limits.  *)
(*                                                                         *)
(* The invariant for the first names, for each place of the code, what may *)
(* be held there.  It needs the error code as well: what GetCertInfo has   *)
(* filled in is freed by VerifyIntegrity, which only comes to it without   *)
(* an error.                                                               *)
(***************************************************************************)
EXTENDS AppVerifyLite, SequenceTheorems, TLAPS

-----------------------------------------------------------------------------
Package  == {"handle", "signHead"}
Signature == Package \cup {"signBuf", "pkcs7"}
Signer   == Signature \cup {"fileRead"}
Profile  == Package \cup {"certInfo"}

\* What may be allocated or open at a place, the lost certificates apart.
MayHold(place) ==
    CASE place \in {"idle", "open", "answered"}       -> {}
      [] place = "signHead"                           -> {"handle"}
      [] place \in {"signBlock", "stat", "close"}     -> Package
      [] place = "pkcs7"                              -> Package \cup {"signBuf"}
      [] place = "fileRead"                           -> Signature
      [] place \in {"certType", "chain", "rawHash",
                    "signature", "certInfo"}          -> Signer
      [] place \in {"chunks", "block", "compare"}     -> Signer \cup RawHashBuffers
      [] place = "exit"                               -> Signer \cup {"certInfo"}
      [] place \in {"profileBlock", "content", "appid",
                    "source", "freeInfo"}             -> Profile
      [] place \in {"profileSign", "parse"}           -> Profile \cup {"profBuf"}
      [] place \in {"field", "parsed"}                -> Profile \cup {"profBuf", "json"}

HeldWhereFreed == held \subseteq MayHold(pc) \cup {"certificates"}

\* Only an exit is reached with an error.
ErrorExits ==
    /\ ret # None => pc \in {"idle", "exit", "freeInfo", "close", "answered"}
    /\ pc = "exit" /\ ret # None => "certInfo" \notin held

HeldInv == pc \in PCs /\ HeldWhereFreed /\ ErrorExits

-----------------------------------------------------------------------------
LEMMA MayHoldAt ==
    /\ MayHold("idle") = {} /\ MayHold("open") = {} /\ MayHold("answered") = {}
    /\ MayHold("signHead") = {"handle"}
    /\ MayHold("signBlock") = Package /\ MayHold("stat") = Package
    /\ MayHold("close") = Package
    /\ MayHold("pkcs7") = Package \cup {"signBuf"}
    /\ MayHold("fileRead") = Signature
    /\ MayHold("certType") = Signer /\ MayHold("chain") = Signer
    /\ MayHold("rawHash") = Signer
    /\ MayHold("signature") = Signer /\ MayHold("certInfo") = Signer
    /\ MayHold("chunks") = Signer \cup RawHashBuffers
    /\ MayHold("block") = Signer \cup RawHashBuffers
    /\ MayHold("compare") = Signer \cup RawHashBuffers
    /\ MayHold("exit") = Signer \cup {"certInfo"}
    /\ MayHold("profileBlock") = Profile /\ MayHold("content") = Profile
    /\ MayHold("appid") = Profile /\ MayHold("source") = Profile
    /\ MayHold("freeInfo") = Profile
    /\ MayHold("profileSign") = Profile \cup {"profBuf"}
    /\ MayHold("parse") = Profile \cup {"profBuf"}
    /\ MayHold("field") = Profile \cup {"profBuf", "json"}
    /\ MayHold("parsed") = Profile \cup {"profBuf", "json"}
BY DEF MayHold

\* What a step does to held, pc and ret is all that matters to the invariant.
LEMMA HandlerKeepsHeld ==
    ASSUME HeldInv, Handler
    PROVE  HeldInv'
<1> USE MayHoldAt DEF Package, Signature, Signer, Profile, RawHashBuffers
<1>1. ASSUME NEW ok \in BOOLEAN, InitVerify(ok) PROVE HeldInv'
  BY <1>1 DEF InitVerify, Goes, Takes, HeldInv, HeldWhereFreed, ErrorExits, PCs
<1>2. ASSUME NEW ok \in BOOLEAN, GetSignHead(ok) PROVE HeldInv'
  BY <1>2 DEF GetSignHead, Goes, Takes, HeldInv, HeldWhereFreed, ErrorExits, PCs
<1>3. ASSUME NEW ok \in BOOLEAN, StatFile(ok) PROVE HeldInv'
  BY <1>3 DEF StatFile, Goes, HeldInv, HeldWhereFreed, ErrorExits, PCs
<1>4. ASSUME NEW ok \in BOOLEAN, GetSignBlock(ok) PROVE HeldInv'
  BY <1>4 DEF GetSignBlock, Goes, Takes, HeldInv, HeldWhereFreed, ErrorExits, PCs
<1>5. ASSUME NEW ok \in BOOLEAN, GetBinSignPkcs(ok) PROVE HeldInv'
  BY <1>5 DEF GetBinSignPkcs, Goes, HeldInv, HeldWhereFreed, ErrorExits, PCs
<1>6. ASSUME NEW ok \in BOOLEAN, GetFileRead(ok) PROVE HeldInv'
  BY <1>6 DEF GetFileRead, Goes, Takes, HeldInv, HeldWhereFreed, ErrorExits, PCs
<1>7. ASSUME NEW ok \in BOOLEAN, GetAppSingerCertType(ok) PROVE HeldInv'
  BY <1>7 DEF GetAppSingerCertType, Goes, HeldInv, HeldWhereFreed, ErrorExits, PCs
<1>8. ASSUME NEW ok \in BOOLEAN, VerifyCertsChain(ok) PROVE HeldInv'
  BY <1>8 DEF VerifyCertsChain, Goes, HeldInv, HeldWhereFreed, ErrorExits, PCs
<1>9. ASSUME NEW ok \in BOOLEAN, BeginRawHash(ok) PROVE HeldInv'
  BY <1>9 DEF BeginRawHash, Goes, Takes, HeldInv, HeldWhereFreed, ErrorExits, PCs
<1>10. ASSUME NEW ok \in BOOLEAN, DigestChunk(ok) PROVE HeldInv'
  BY <1>10 DEF DigestChunk, Goes, HeldInv, HeldWhereFreed, ErrorExits, PCs
<1>11. ASSUME NEW ok \in BOOLEAN, DigestProfileBlock(ok) PROVE HeldInv'
  BY <1>11 DEF DigestProfileBlock, Goes, HeldInv, HeldWhereFreed, ErrorExits, PCs
<1>12. ASSUME NEW ok \in BOOLEAN, CompareRawHash(ok) PROVE HeldInv'
  BY <1>12 DEF CompareRawHash, HeldInv, HeldWhereFreed, ErrorExits, PCs
<1>13. ASSUME NEW ok \in BOOLEAN, VerifySignerSignature(ok) PROVE HeldInv'
  BY <1>13 DEF VerifySignerSignature, Goes, HeldInv, HeldWhereFreed, ErrorExits, PCs
<1>14. ASSUME NEW ok \in BOOLEAN, GetCertInfo(ok) PROVE HeldInv'
  BY <1>14 DEF GetCertInfo, Goes, Takes, HeldInv, HeldWhereFreed, ErrorExits, PCs
<1>15. ASSUME NEW ok \in BOOLEAN, GetProfileBlock(ok) PROVE HeldInv'
  BY <1>15 DEF GetProfileBlock, Goes, Takes, HeldInv, HeldWhereFreed, ErrorExits, PCs
<1>16. ASSUME NEW ok \in BOOLEAN, VerifyProfileSign(ok) PROVE HeldInv'
  BY <1>16 DEF VerifyProfileSign, Goes, HeldInv, HeldWhereFreed, ErrorExits, PCs
<1>17. ASSUME NEW ok \in BOOLEAN, BeginParse(ok) PROVE HeldInv'
  BY <1>17 DEF BeginParse, Goes, HeldInv, HeldWhereFreed, ErrorExits, PCs
<1>18. ASSUME NEW ok \in BOOLEAN, VerifyProfileContent(ok) PROVE HeldInv'
  BY <1>18 DEF VerifyProfileContent, Goes, HeldInv, HeldWhereFreed, ErrorExits, PCs
<1>19. ASSUME NEW ok \in BOOLEAN, GetAppid(ok) PROVE HeldInv'
  BY <1>19 DEF GetAppid, Goes, KeepsPart, HeldInv, HeldWhereFreed, ErrorExits, PCs
<1>20. ASSUME NEW ok \in BOOLEAN, CheckAppSource(ok) PROVE HeldInv'
  BY <1>20 DEF CheckAppSource, Goes, KeepsPart, HeldInv, HeldWhereFreed, ErrorExits, PCs
<1>21. ASSUME NEW got, NEW ok \in BOOLEAN, ReadField(got, ok) PROVE HeldInv'
  BY <1>21 DEF ReadField, HeldInv, HeldWhereFreed, ErrorExits, PCs
<1>22. ASSUME FreeBinSign PROVE HeldInv'
  BY <1>22 DEF FreeBinSign, HeldInv, HeldWhereFreed, ErrorExits, PCs
<1>23. ASSUME EndParse PROVE HeldInv'
  BY <1>23 DEF EndParse, HeldInv, HeldWhereFreed, ErrorExits, PCs
<1>24. ASSUME FreeBinSignCert PROVE HeldInv'
  BY <1>24 DEF FreeBinSignCert, HeldInv, HeldWhereFreed, ErrorExits, PCs
<1>25. ASSUME CloseFile PROVE HeldInv'
  BY <1>25 DEF CloseFile, HeldInv, HeldWhereFreed, ErrorExits, PCs
<1> QED
  BY <1>1, <1>2, <1>3, <1>4, <1>5, <1>6, <1>7, <1>8, <1>9, <1>10, <1>11, <1>12, <1>13,
     <1>14, <1>15, <1>16, <1>17, <1>18, <1>19, <1>20, <1>21, <1>22, <1>23, <1>24, <1>25
     DEF Handler

LEMMA CallerKeepsHeld ==
    ASSUME HeldInv, Caller
    PROVE  HeldInv'
<1> USE MayHoldAt
<1>1. ASSUME NEW mode \in BOOLEAN, NEW ok \in BOOLEAN, SetDebugMode(mode, ok)
      PROVE  HeldInv'
  BY <1>1 DEF SetDebugMode, HeldInv, HeldWhereFreed, ErrorExits
<1>2. ASSUME NEW p \in Packages, AppVerify(p)
      PROVE  HeldInv'
  BY <1>2 DEF AppVerify, HeldInv, HeldWhereFreed, ErrorExits, PCs
<1>3. ASSUME FreeVerifyRst
      PROVE  HeldInv'
  BY <1>3 DEF FreeVerifyRst, HeldInv, HeldWhereFreed, ErrorExits, PCs
<1> QED
  BY <1>1, <1>2, <1>3 DEF Caller

\* Whatever fails, a call that has answered has nothing allocated and nothing
\* open but what mbedTLS kept of a broken certificate list.
THEOREM AllGivenBack == Spec => []NothingKept
<1>1. Init => HeldInv
  BY MayHoldAt DEF Init, HeldInv, HeldWhereFreed, ErrorExits, PCs
<1>2. HeldInv /\ [Next]_vars => HeldInv'
  <2>1. CASE UNCHANGED vars
    BY <2>1 DEF vars, call, HeldInv, HeldWhereFreed, ErrorExits
  <2>2. CASE Next
    BY <2>2, HandlerKeepsHeld, CallerKeepsHeld DEF Next
  <2> QED
    BY <2>1, <2>2
<1>3. HeldInv => NothingKept
  BY MayHoldAt DEF HeldInv, HeldWhereFreed, NothingKept
<1> QED
  BY <1>1, <1>2, <1>3, PTL DEF Spec

-----------------------------------------------------------------------------
(* Types.  The digests have room for as many as are counted, and a section *)
(* is read to its end and no further.                                      *)

Sections == {"contents", "dir", "eocd"}
Chunk == [data: {p.data : p \in Packages}, section: Sections, from: Int, length: Int]
Digests == [room: Nat, slots: Seq(Chunk), section: Sections, left: Nat]

TypeInv ==
    /\ TypeOK
    /\ digests \in Digests
    /\ pc # "idle" => pkg \in Packages
    /\ pc \in {"pkcs7", "fileRead", "certType"} => pkg.signature # None

LEMMA PackageSizes ==
    ASSUME NEW p \in Packages
    PROVE  Sizes[p.data] \in [contents: Nat, dir: Nat, eocd: Nat]
BY LiteAssumption DEF IsPackage, Lengths

LEMMA QuotientIsNat ==
    ASSUME NEW a \in Nat, NEW b \in Nat \ {0}
    PROVE  a \div b \in Nat
OBVIOUS

LEMMA ChunkSumIsNat ==
    ASSUME NEW s \in [contents: Nat, dir: Nat, eocd: Nat], NEW hashLen
    PROVE  GetChunkSumCount(s, hashLen) \in Nat
<1>1. ASSUME NEW n \in Nat PROVE NumberOfChunks(n) \in Nat
  <2>1. n - 1 + ChunkSize \in Nat
    BY LiteAssumption
  <2> QED
    BY <2>1, QuotientIsNat, LiteAssumption DEF NumberOfChunks
<1>2. NumberOfChunks(s.contents) + NumberOfChunks(s.dir) + NumberOfChunks(s.eocd) \in Nat
  BY <1>1
<1> QED
  BY <1>2 DEF GetChunkSumCount

LEMMA PutTyped ==
    ASSUME digests \in Digests, Len(digests.slots) <= digests.room, NEW c \in Chunk
    PROVE  /\ Put(digests.slots, c) \in Seq(Chunk)
           /\ Len(Put(digests.slots, c)) <= digests.room
BY DEF Put, Digests

LEMMA DigestChunkTyped ==
    ASSUME TypeInv, NEW ok \in BOOLEAN, DigestChunk(ok)
    PROVE  TypeInv'
<1> DEFINE length == ChunkLength
           chunk  == [data |-> pkg.data, section |-> digests.section,
                      from |-> Sizes[pkg.data][digests.section] - digests.left,
                      length |-> length]
           next   == SectionAfter(digests.section)
<1>1. pkg \in Packages /\ Sizes[pkg.data] \in [contents: Nat, dir: Nat, eocd: Nat]
  BY PackageSizes DEF TypeInv, DigestChunk
<1>2. digests.left \in Nat /\ digests.section \in Sections /\ digests.room \in Nat
      /\ digests \in Digests /\ Len(digests.slots) <= digests.room
  BY DEF TypeInv, TypeOK, Digests
<1>3. length \in Nat /\ length <= digests.left
  BY <1>2, LiteAssumption DEF ChunkLength
<1>4. Sizes[pkg.data][digests.section] \in Nat
  BY <1>1, <1>2 DEF Sections
<1>5. chunk \in Chunk
  BY <1>1, <1>2, <1>3, <1>4 DEF Chunk
<1>6. next \in Sections /\ Sizes[pkg.data][next] \in Nat
  BY <1>1 DEF SectionAfter, Sections
<1> DEFINE slots == Put(digests.slots, chunk)
<1>7. slots \in Seq(Chunk) /\ Len(slots) <= digests.room
  BY <1>2, <1>5, PutTyped
<1>8. \/ digests' = [digests EXCEPT !.slots = slots, !.section = next,
                                    !.left = Sizes[pkg.data][next]]
      \/ digests' = [digests EXCEPT !.slots = slots, !.left = digests.left - length]
  BY <1>2 DEF DigestChunk, Digests
<1>9. digests.left - length \in Nat
  BY <1>2, <1>3
<1> HIDE DEF length, chunk, next, slots
<1>10. /\ digests' \in Digests
       /\ digests'.room \in Nat /\ digests'.left \in Nat
       /\ Len(digests'.slots) <= digests'.room
  BY <1>2, <1>6, <1>7, <1>8, <1>9 DEF Digests
<1> QED
  BY <1>1, <1>10 DEF DigestChunk, Goes, call, TypeInv, TypeOK, PCs, Resources,
                     RawHashBuffers

LEMMA HandlerTyped ==
    ASSUME TypeInv, Handler
    PROVE  TypeInv'
<1> USE DEF TypeInv, TypeOK, PCs, Resources, RawHashBuffers, call
<1>1. ASSUME NEW ok \in BOOLEAN, InitVerify(ok) PROVE TypeInv'
  BY <1>1 DEF InitVerify, Goes, Takes
<1>2. ASSUME NEW ok \in BOOLEAN, GetSignHead(ok) PROVE TypeInv'
  BY <1>2 DEF GetSignHead, Goes, Takes
<1>3. ASSUME NEW ok \in BOOLEAN, StatFile(ok) PROVE TypeInv'
  BY <1>3 DEF StatFile, Goes
<1>4. ASSUME NEW ok \in BOOLEAN, GetSignBlock(ok) PROVE TypeInv'
  BY <1>4 DEF GetSignBlock, Goes, Takes
<1>5. ASSUME NEW ok \in BOOLEAN, GetBinSignPkcs(ok) PROVE TypeInv'
  BY <1>5 DEF GetBinSignPkcs, Goes
<1>6. ASSUME NEW ok \in BOOLEAN, GetFileRead(ok) PROVE TypeInv'
  BY <1>6 DEF GetFileRead, Goes, Takes
<1>7. ASSUME NEW ok \in BOOLEAN, VerifyCertsChain(ok) PROVE TypeInv'
  BY <1>7 DEF VerifyCertsChain, Goes
<1>8. ASSUME NEW ok \in BOOLEAN, DigestProfileBlock(ok) PROVE TypeInv'
  BY <1>8 DEF DigestProfileBlock, Goes
<1>9. ASSUME NEW ok \in BOOLEAN, CompareRawHash(ok) PROVE TypeInv'
  BY <1>9 DEF CompareRawHash
<1>10. ASSUME NEW ok \in BOOLEAN, VerifySignerSignature(ok) PROVE TypeInv'
  BY <1>10 DEF VerifySignerSignature, Goes
<1>11. ASSUME NEW ok \in BOOLEAN, GetCertInfo(ok) PROVE TypeInv'
  BY <1>11 DEF GetCertInfo, Goes, Takes
<1>12. ASSUME NEW ok \in BOOLEAN, GetProfileBlock(ok) PROVE TypeInv'
  BY <1>12 DEF GetProfileBlock, Goes, Takes
<1>13. ASSUME NEW ok \in BOOLEAN, VerifyProfileSign(ok) PROVE TypeInv'
  BY <1>13 DEF VerifyProfileSign, Goes
<1>14. ASSUME NEW ok \in BOOLEAN, BeginParse(ok) PROVE TypeInv'
  BY <1>14 DEF BeginParse, Goes
<1>15. ASSUME NEW ok \in BOOLEAN, VerifyProfileContent(ok) PROVE TypeInv'
  BY <1>15 DEF VerifyProfileContent, Goes
<1>16. ASSUME NEW ok \in BOOLEAN, GetAppid(ok) PROVE TypeInv'
  BY <1>16 DEF GetAppid, Goes, KeepsPart
<1>17. ASSUME NEW ok \in BOOLEAN, CheckAppSource(ok) PROVE TypeInv'
  BY <1>17 DEF CheckAppSource, Goes, KeepsPart
<1>18. ASSUME NEW ok \in BOOLEAN, GetAppSingerCertType(ok) PROVE TypeInv'
  <2>1. TypeBySource(pkg.signature, "app") \in {"gallery", "system", "other"}
    BY <1>18, LiteAssumption DEF GetAppSingerCertType, TypeBySource, InTrustList, IsPackage,
                                 IsMessage
  <2> QED
    BY <1>18, <2>1 DEF GetAppSingerCertType, Goes
<1>19. ASSUME NEW ok \in BOOLEAN, BeginRawHash(ok) PROVE TypeInv'
  <2> DEFINE room == IF ok THEN GetChunkSumCount(Sizes[pkg.data],
                                                 HashLen[pkg.signature.content.alg])
                     ELSE 0
  <2>1. Sizes[pkg.data] \in [contents: Nat, dir: Nat, eocd: Nat]
    BY <1>19, PackageSizes DEF BeginRawHash
  <2>2. room \in Nat /\ Sizes[pkg.data].contents \in Nat
    BY <2>1, ChunkSumIsNat
  <2>3. digests' = [room |-> room, slots |-> <<>>, section |-> "contents",
                    left |-> Sizes[pkg.data].contents]
    BY <1>19 DEF BeginRawHash
  <2> HIDE DEF room
  <2>4. digests' \in Digests /\ Len(digests'.slots) <= digests'.room
    BY <2>2, <2>3 DEF Digests, Sections
  <2> QED
    BY <1>19, <2>2, <2>3, <2>4 DEF BeginRawHash, Goes, Takes
<1>20. ASSUME NEW got, NEW ok \in BOOLEAN, ReadField(got, ok) PROVE TypeInv'
  <2>1. at' \in DOMAIN Fields
    BY <1>20 DEF ReadField, Fields
  <2> QED
    BY <1>20, <2>1 DEF ReadField
<1>21. ASSUME FreeBinSign PROVE TypeInv'
  BY <1>21 DEF FreeBinSign
<1>22. ASSUME EndParse PROVE TypeInv'
  BY <1>22 DEF EndParse
<1>23. ASSUME FreeBinSignCert PROVE TypeInv'
  BY <1>23 DEF FreeBinSignCert
<1>24. ASSUME CloseFile PROVE TypeInv'
  <2>1. NoDigests \in Digests /\ Len(NoDigests.slots) <= NoDigests.room
        /\ NoDigests.room \in Nat /\ NoDigests.left \in Nat
    BY DEF NoDigests, Digests, Sections
  <2>2. 1 \in DOMAIN Fields
    BY DEF Fields
  <2> QED
    BY <1>24, <2>1, <2>2 DEF CloseFile
<1> QED
  BY <1>1, <1>2, <1>3, <1>4, <1>5, <1>6, <1>7, <1>8, <1>9, <1>10, <1>11, <1>12, <1>13,
     <1>14, <1>15, <1>16, <1>17, <1>18, <1>19, <1>20, <1>21, <1>22, <1>23, <1>24,
     DigestChunkTyped DEF Handler

LEMMA CallerTyped ==
    ASSUME TypeInv, Caller
    PROVE  TypeInv'
<1> USE DEF TypeInv, TypeOK, PCs, call
<1>1. ASSUME NEW mode \in BOOLEAN, NEW ok \in BOOLEAN, SetDebugMode(mode, ok)
      PROVE  TypeInv'
  BY <1>1 DEF SetDebugMode
<1>2. ASSUME NEW p \in Packages, AppVerify(p)
      PROVE  TypeInv'
  BY <1>2 DEF AppVerify
<1>3. ASSUME FreeVerifyRst
      PROVE  TypeInv'
  BY <1>3 DEF FreeVerifyRst
<1> QED
  BY <1>1, <1>2, <1>3 DEF Caller

\* The state of a call has its types: the digests stay within the buffer that
\* was counted for them, and no section is read past its end.
THEOREM TypeCorrect == Spec => []TypeOK
<1>1. Init => TypeInv
  <2>1. NoDigests \in Digests /\ Len(NoDigests.slots) <= NoDigests.room
        /\ NoDigests.room \in Nat /\ NoDigests.left \in Nat
    BY DEF NoDigests, Digests, Sections
  <2>2. 1 \in DOMAIN Fields
    BY DEF Fields
  <2> QED
    BY <2>1, <2>2 DEF Init, TypeInv, TypeOK, PCs
<1>2. TypeInv /\ [Next]_vars => TypeInv'
  <2>1. CASE UNCHANGED vars
    BY <2>1 DEF vars, call, TypeInv, TypeOK
  <2>2. CASE Next
    BY <2>2, HandlerTyped, CallerTyped DEF Next
  <2> QED
    BY <2>1, <2>2
<1> QED
  BY <1>1, <1>2, PTL DEF Spec, TypeInv

-----------------------------------------------------------------------------
(* AppVerifyLite implements LitePolicy.  The invariant says what a call    *)
(* knows of its package at each place that it only reaches without an      *)
(* error, what it has digested of it, what the result says of the profile, *)
(* and for what reason an error stands.                                    *)

\* How far VerifyBinSign has come; all that follows it is the last stage.
Stage(place) ==
    CASE place \in {"idle", "open", "answered"} -> 0
      [] place = "signHead"                      -> 1
      [] place = "signBlock"                     -> 2
      [] place = "pkcs7"                         -> 3
      [] place \in {"fileRead", "certType"}      -> 4
      [] place = "chain"                         -> 5
      [] place = "rawHash"                       -> 6
      [] place \in {"chunks", "block"}           -> 7
      [] place = "compare"                       -> 8
      [] place = "signature"                     -> 9
      [] OTHER                                   -> 10

InCall == PCs \ {"idle", "answered"}

\* What the call knows of its package at a stage.
KnownAt(stage) ==
    /\ stage >= 1  => pkg.opens
    /\ stage >= 2  => pkg.head
    /\ stage >= 3  => pkg.signature # None
    /\ stage >= 4  => pkg.signature.parses
    /\ stage >= 5  => /\ certType = TypeBySource(pkg.signature, "app")
                      /\ InTrustList(pkg.signature, "app") => ~pkg.signature.deep
    /\ stage >= 6  => pkg.signature.root \in TrustedRoots
    /\ stage >= 7  => Computable(pkg)
    /\ stage >= 8  => pkg.profile # None
    /\ stage >= 9  => Policy!SignedAsIs(pkg)
    /\ stage >= 10 => pkg.signature.signs

Known == pkcsDebug = debug /\ (ret = None => KnownAt(Stage(pc)))

\* The n-th chunk of a section, and how many chunks come before the section.
Slice(data, section, n) ==
    [data |-> data, section |-> section, from |-> (n - 1) * ChunkSize,
     length |-> IF n * ChunkSize <= Sizes[data][section] THEN ChunkSize
                ELSE Sizes[data][section] - (n - 1) * ChunkSize]

ChunksBefore(data, section) ==
    CASE section = "contents" -> 0
      [] section = "dir"  -> NumberOfChunks(Sizes[data].contents)
      [] section = "eocd" -> NumberOfChunks(Sizes[data].contents)
                                 + NumberOfChunks(Sizes[data].dir)

\* The digests so far are those of the chunks of the package, in order.
Digested ==
    /\ digests.room = NumberOfChunks(Sizes[pkg.data].contents)
                          + NumberOfChunks(Sizes[pkg.data].dir)
                          + NumberOfChunks(Sizes[pkg.data].eocd)
    /\ \A section \in Sections :
          \A n \in 1..NumberOfChunks(Sizes[pkg.data][section]) :
              ChunksBefore(pkg.data, section) + n <= Len(digests.slots) =>
                  digests.slots[ChunksBefore(pkg.data, section) + n]
                      = Slice(pkg.data, section, n)

\* Where the loops over the chunks are.
ChunksPlaced ==
    LET done == Len(digests.slots) - ChunksBefore(pkg.data, digests.section)
    IN  /\ done \in 0..(NumberOfChunks(Sizes[pkg.data][digests.section]) - 1)
        /\ digests.left = Sizes[pkg.data][digests.section] - done * ChunkSize

DigestInv ==
    /\ pc \in {"chunks", "block", "compare"} => Digested
    /\ pc = "chunks" => ChunksPlaced
    /\ pc \in {"block", "compare"} => Len(digests.slots) = digests.room

\* A field of the result is what the profile says or, when something failed,
\* what stands for an optional one.
Profiled == Policy!ProfileText(pkg)

Full(field) ==
    IF Policy!Value(Profiled, field) = None THEN Policy!DefaultOf(field)
    ELSE Policy!Value(Profiled, field)

FieldRead(field) ==
    /\ field \in Policy!RequiredTags => Profiled[field] # None
    /\ \/ result[field] = Full(field)
       \/ /\ faulted /\ field \in Policy!OptionalTags
          /\ result[field] = Policy!DefaultOf(field)

IsResult(r) == r = [field \in DOMAIN NoProfile |-> r[field]]

BeforeParse == InCall \ {"field", "parsed", "content", "appid", "source", "freeInfo",
                         "stat", "close"}

AppidCert == IF result["release"] # "" THEN result["release"] ELSE result["dev"]

ResultInv ==
    /\ IsResult(result)
    /\ pc \in BeforeParse \cup {"idle"} => result = NoProfile
    /\ pc \in {"parse", "field", "parsed"} => text = Profiled
    /\ pc \in {"field", "parsed", "content", "appid", "source"} => Profiled # None
    /\ pc = "field" => /\ \A i \in 1..13 : i < at => FieldRead(Fields[i])
    /\ pc \in {"parsed", "content", "appid", "source"} =>
          \A field \in Policy!Tags : FieldRead(field)
    /\ pc \in {"appid", "source"} => /\ VerifyAppTypeAndDistribution(result)
                                     /\ VerifyAppBundleInfo(result)
                                     /\ VerifyDebugInfo(result)
    /\ pc = "source" => /\ AppidCert \in Certs
                        /\ result["appid"] = <<result["bundle"], AppidCert>>
    /\ pc \in {"freeInfo", "stat", "close"} /\ ret = None =>
          result \in Policy!Accepts(pkg)

\* Only for a reason is a package refused, and then there is no result.
Reason == faulted \/ Policy!Accepts(pkg) = {} \/ Policy!DigestCut(pkg)

RefusedInv == pc \in InCall /\ ret # None => ret = "refused" /\ result = NoProfile /\ Reason

-----------------------------------------------------------------------------
(* Lemmas about the operators of the two modules.                          *)

LEMMA TrustAgrees ==
    ASSUME debug \in BOOLEAN, NEW m, IsMessage(m), NEW use
    PROVE  /\ InTrustList(m, use) <=> Policy!ListedFor(m, use)
           /\ TypeBySource(m, use) = Policy!Source(m, use)
           /\ TypeBySource(m, use) \in {"gallery", "system", "other"}
           /\ TypeBySource(m, use) # "other" <=> InTrustList(m, use)
<1>1. InTrustList(m, use) <=> Policy!ListedFor(m, use)
  BY DEF IsMessage, InTrustList, Policy!ListedFor
<1>2. InTrustList(m, use) => m.listed.source \in {"gallery", "system"}
  BY DEF IsMessage, InTrustList
<1> QED
  BY <1>1, <1>2 DEF TypeBySource, Policy!Source

LEMMA PackageFacts ==
    ASSUME NEW p \in Packages
    PROVE  /\ Sizes[p.data] \in Lengths
           /\ p.signature # None =>
                 /\ IsMessage(p.signature)
                 /\ p.signature.content.form \in {"whole", "short", "long"}
                 /\ Sizes[p.signature.content.data] \in Lengths
           /\ p.profile # None /\ p.profile.msg # None => IsMessage(p.profile.msg)
BY LiteAssumption DEF IsPackage

LEMMA TimesOrder ==
    ASSUME NEW c \in Nat \ {0}, NEW a \in Int, NEW b \in Int
    PROVE  /\ a * c \in Int
           /\ a < b <=> a * c < b * c
           /\ a <= b <=> a * c <= b * c
           /\ (a + 1) * c = a * c + c
<1>1. a < b => a * c < b * c
  OBVIOUS
<1>2. b < a => b * c < a * c
  OBVIOUS
<1>3. a * c \in Int /\ b * c \in Int /\ (a + 1) * c = a * c + c
  OBVIOUS
<1> QED
  BY <1>1, <1>2, <1>3

LEMMA Quotient ==
    ASSUME NEW n \in Int, NEW c \in Nat \ {0}
    PROVE  n \div c \in Int /\ (n \div c) * c <= n /\ n < (n \div c) * c + c
OBVIOUS

\* The quotient is at least h when h times the divisor is not too much.
LEMMA QuotientAtLeast ==
    ASSUME NEW n \in Int, NEW c \in Nat \ {0}, NEW h \in Int
    PROVE  h <= n \div c <=> h * c <= n
<1> DEFINE q == n \div c
<1>1. q \in Int /\ q * c <= n /\ n < q * c + c
  BY Quotient
<1> HIDE DEF q
<1>2. h <= q => h * c <= q * c
  BY <1>1, TimesOrder
<1>3. q < h => (q + 1) * c <= h * c
  BY <1>1, TimesOrder
<1>4. (q + 1) * c = q * c + c /\ h * c \in Int /\ q * c \in Int
  BY <1>1, TimesOrder
<1>5. h <= q <=> h * c <= n
  BY <1>1, <1>2, <1>3, <1>4
<1> QED
  BY <1>5 DEF q

\* A section that is not empty has a chunk, and as many as begin before its end.
LEMMA ChunksCover ==
    ASSUME NEW size \in Nat \ {0}
    PROVE  /\ NumberOfChunks(size) \in Nat \ {0}
           /\ NumberOfChunks(size) = Policy!Chunks(size)
           /\ \A k \in Nat : k * ChunkSize < size <=> k < NumberOfChunks(size)
<1> DEFINE N == NumberOfChunks(size)
<1>1. ChunkSize \in Nat \ {0} /\ size - 1 + ChunkSize \in Nat
  BY LiteAssumption
<1>2. N = Policy!Chunks(size)
  <2>1. size - 1 + ChunkSize = size + ChunkSize - 1
    BY <1>1
  <2> QED
    BY <2>1 DEF NumberOfChunks, Policy!Chunks
<1>3. N \in Int /\ \A h \in Int : h <= N <=> h * ChunkSize <= size - 1 + ChunkSize
  BY <1>1, Quotient, QuotientAtLeast DEF NumberOfChunks
<1> HIDE DEF N
<1>4. ASSUME NEW k \in Nat PROVE k * ChunkSize < size <=> k < N
  <2>1. (k + 1) * ChunkSize = k * ChunkSize + ChunkSize /\ k * ChunkSize \in Int
    BY <1>1, TimesOrder
  <2>2. k + 1 <= N <=> (k + 1) * ChunkSize <= size - 1 + ChunkSize
    BY <1>3
  <2> QED
    BY <1>1, <1>3, <2>1, <2>2
<1>5. 0 < N
  BY <1>4, <1>1
<1> QED
  BY <1>2, <1>3, <1>4, <1>5 DEF N

\* The program counts the chunks of the package when LitePolicy can.
LEMMA CountAgrees ==
    ASSUME NEW data, Sizes[data] \in Lengths, NEW hashLen \in Nat \ {0}
    PROVE  /\ GetChunkSumCount(Sizes[data], hashLen) # 0 <=> Policy!Countable(data, hashLen)
           /\ GetChunkSumCount(Sizes[data], hashLen) # 0 =>
                 GetChunkSumCount(Sizes[data], hashLen) =
                     NumberOfChunks(Sizes[data].contents)
                     + NumberOfChunks(Sizes[data].dir)
                     + NumberOfChunks(Sizes[data].eocd)
<1> DEFINE s == Sizes[data]
           count == NumberOfChunks(s.contents) + NumberOfChunks(s.dir)
                        + NumberOfChunks(s.eocd)
           tooLong == \E part \in DOMAIN s : s[part] > MaxInt - ChunkSize
<1>1. /\ s.contents \in Nat \ {0} /\ s.dir \in Nat \ {0} /\ s.eocd \in Nat \ {0}
      /\ s["contents"] = s.contents /\ s["dir"] = s.dir /\ s["eocd"] = s.eocd
      /\ DOMAIN s = {"contents", "dir", "eocd"}
  BY DEF Lengths
<1>2. /\ NumberOfChunks(s.contents) \in Nat \ {0}
      /\ NumberOfChunks(s.dir) \in Nat \ {0}
      /\ NumberOfChunks(s.eocd) \in Nat \ {0}
      /\ count = Policy!Chunks(s.contents) + Policy!Chunks(s.dir) + Policy!Chunks(s.eocd)
  BY <1>1, ChunksCover
<1>3. count \in Nat \ {0}
  BY <1>2
<1>4. tooLong <=> ~ \A part \in DOMAIN s : s[part] + ChunkSize <= MaxInt
  BY <1>1, LiteAssumption
<1>5. GetChunkSumCount(s, hashLen) =
         IF tooLong \/ (MaxInt - 5) \div count < hashLen THEN 0 ELSE count
  BY DEF GetChunkSumCount
<1>6. Policy!Countable(data, hashLen) <=>
         /\ \A part \in DOMAIN s : s[part] + ChunkSize <= MaxInt
         /\ count * hashLen + 5 <= MaxInt
  BY <1>2 DEF Policy!Countable
<1> HIDE DEF count, tooLong
<1>7. (MaxInt - 5) \div count < hashLen <=> ~ (count * hashLen + 5 <= MaxInt)
  <2>1. MaxInt - 5 \in Int /\ hashLen \in Int
    BY LiteAssumption
  <2>2. hashLen <= (MaxInt - 5) \div count <=> hashLen * count <= MaxInt - 5
    BY <1>3, <2>1, QuotientAtLeast
  <2>3. hashLen * count = count * hashLen /\ count * hashLen \in Int
    BY <1>3, <2>1
  <2>4. (MaxInt - 5) \div count \in Int
    BY <1>3, <2>1, Quotient
  <2> QED
    BY <2>1, <2>2, <2>3, <2>4, LiteAssumption
<1>8. /\ GetChunkSumCount(s, hashLen) # 0 <=> Policy!Countable(data, hashLen)
      /\ GetChunkSumCount(s, hashLen) # 0 => GetChunkSumCount(s, hashLen) = count
  BY <1>3, <1>4, <1>5, <1>6, <1>7
<1> QED
  BY <1>8 DEF count

-----------------------------------------------------------------------------
(* The digests of a package, and those of what its signer has seen.        *)

Count(data, section) == NumberOfChunks(Sizes[data][section])

Total(data) ==
    Count(data, "contents") + Count(data, "dir") + Count(data, "eocd")

SectionChunks(data, section) ==
    [n \in 1..Count(data, section) |-> Slice(data, section, n)]

AllChunks(data) ==
    SectionChunks(data, "contents") \o SectionChunks(data, "dir")
        \o SectionChunks(data, "eocd")

ChunksOf(data) == [data: {data}, section: Sections, from: Int, length: Int]

LEMMA CountIsPositive ==
    ASSUME NEW data, Sizes[data] \in Lengths, NEW section \in Sections
    PROVE  /\ Sizes[data][section] \in Nat \ {0}
           /\ Count(data, section) \in Nat \ {0}
           /\ \A k \in Nat : k * ChunkSize < Sizes[data][section]
                                 <=> k < Count(data, section)
<1>1. Sizes[data][section] \in Nat \ {0}
  BY DEF Lengths, Sections
<1> QED
  BY <1>1, ChunksCover DEF Count

LEMMA SliceTyped ==
    ASSUME NEW data, Sizes[data] \in Lengths, NEW section \in Sections, NEW n \in Nat
    PROVE  Slice(data, section, n) \in ChunksOf(data)
<1>1. ChunkSize \in Int /\ n - 1 \in Int /\ Sizes[data][section] \in Int
  BY CountIsPositive, LiteAssumption
<1>2. (n - 1) * ChunkSize \in Int
  BY <1>1
<1> QED
  BY <1>1, <1>2 DEF Slice, ChunksOf

LEMMA AllChunksPlaced ==
    ASSUME NEW data, Sizes[data] \in Lengths
    PROVE  /\ AllChunks(data) \in Seq(ChunksOf(data))
           /\ Len(AllChunks(data)) = Total(data)
           /\ \A section \in Sections : \A n \in 1..Count(data, section) :
                 AllChunks(data)[ChunksBefore(data, section) + n] = Slice(data, section, n)
<1> DEFINE S == ChunksOf(data)
           a == SectionChunks(data, "contents")
           b == SectionChunks(data, "dir")
           c == SectionChunks(data, "eocd")
           p == Count(data, "contents")
           q == Count(data, "dir")
           r == Count(data, "eocd")
<1>1. p \in Nat \ {0} /\ q \in Nat \ {0} /\ r \in Nat \ {0}
  BY CountIsPositive DEF Sections
<1>2. ASSUME NEW section \in Sections
      PROVE  /\ SectionChunks(data, section) \in Seq(S)
             /\ Len(SectionChunks(data, section)) = Count(data, section)
             /\ \A n \in 1..Count(data, section) :
                   SectionChunks(data, section)[n] = Slice(data, section, n)
  <2>1. Count(data, section) \in Nat
    BY CountIsPositive
  <2>2. \A n \in 1..Count(data, section) : Slice(data, section, n) \in S
    BY <2>1, SliceTyped
  <2> HIDE DEF S
  <2> QED
    BY <2>1, <2>2 DEF SectionChunks
<1>3. /\ a \in Seq(S) /\ Len(a) = p /\ \A n \in 1..p : a[n] = Slice(data, "contents", n)
      /\ b \in Seq(S) /\ Len(b) = q /\ \A n \in 1..q : b[n] = Slice(data, "dir", n)
      /\ c \in Seq(S) /\ Len(c) = r /\ \A n \in 1..r : c[n] = Slice(data, "eocd", n)
  BY <1>2 DEF Sections
<1>4. /\ ChunksBefore(data, "contents") = 0
      /\ ChunksBefore(data, "dir") = p
      /\ ChunksBefore(data, "eocd") = p + q
  BY DEF ChunksBefore, Count, Lengths
<1>5. AllChunks(data) = a \o b \o c /\ Total(data) = p + q + r
  BY DEF AllChunks, Total
<1> HIDE DEF S, a, b, c, p, q, r
<1>6. /\ a \o b \in Seq(S) /\ Len(a \o b) = p + q
      /\ \A i \in 1..(p + q) : (a \o b)[i] = IF i <= p THEN a[i] ELSE b[i - p]
  BY <1>3, ConcatProperties
<1> DEFINE ab == a \o b
<1> HIDE DEF ab
<1>7. /\ ab \o c \in Seq(S) /\ Len(ab \o c) = p + q + r
      /\ \A i \in 1..(p + q + r) :
            (ab \o c)[i] = IF i <= p + q THEN ab[i] ELSE c[i - (p + q)]
  BY <1>3, <1>6, ConcatProperties DEF ab
<1> DEFINE all == ab \o c
<1> HIDE DEF all
<1>8. ASSUME NEW n \in 1..p PROVE all[n] = Slice(data, "contents", n)
  <2>1. n \in 1..(p + q) /\ n \in 1..(p + q + r) /\ n <= p /\ n <= p + q
    BY <1>1
  <2>2. all[n] = ab[n]
    BY <1>7, <2>1 DEF all
  <2>3. ab[n] = a[n]
    BY <1>6, <2>1 DEF ab
  <2> QED
    BY <1>3, <2>2, <2>3
<1>9. ASSUME NEW n \in 1..q PROVE all[p + n] = Slice(data, "dir", n)
  <2>1. /\ p + n \in 1..(p + q) /\ p + n \in 1..(p + q + r) /\ ~(p + n <= p)
        /\ p + n <= p + q /\ (p + n) - p = n
    BY <1>1
  <2>2. all[p + n] = ab[p + n]
    BY <1>7, <2>1 DEF all
  <2>3. ab[p + n] = b[n]
    BY <1>6, <2>1 DEF ab
  <2> QED
    BY <1>3, <2>2, <2>3
<1>10. ASSUME NEW n \in 1..r PROVE all[p + q + n] = Slice(data, "eocd", n)
  <2>1. /\ p + q + n \in 1..(p + q + r) /\ ~(p + q + n <= p + q)
        /\ (p + q + n) - (p + q) = n
    BY <1>1
  <2>2. all[p + q + n] = c[n]
    BY <1>7, <2>1 DEF all
  <2> QED
    BY <1>3, <2>2
<1>11. AllChunks(data) = all
  BY <1>5 DEF all, ab
<1>12. all \in Seq(S) /\ Len(all) = Total(data)
  BY <1>5, <1>7 DEF all
<1>13. ASSUME NEW section \in Sections, NEW n \in 1..Count(data, section)
       PROVE  all[ChunksBefore(data, section) + n] = Slice(data, section, n)
  <2>1. CASE section = "contents"
    <3>1. n \in 1..p /\ 0 + n = n
      BY <1>1, <2>1 DEF p
    <3> QED
      BY <1>4, <1>8, <2>1, <3>1
  <2>2. CASE section = "dir"
    <3>1. n \in 1..q
      BY <2>2 DEF q
    <3> QED
      BY <1>4, <1>9, <2>2, <3>1
  <2>3. CASE section = "eocd"
    <3>1. n \in 1..r
      BY <2>3 DEF r
    <3> QED
      BY <1>4, <1>10, <2>3, <3>1
  <2> QED
    BY <2>1, <2>2, <2>3 DEF Sections
<1> QED
  BY <1>11, <1>12, <1>13 DEF S

\* Every place among the digests is that of one chunk of one section.
LEMMA PlaceOfChunk ==
    ASSUME NEW data, Sizes[data] \in Lengths, NEW i \in 1..Total(data)
    PROVE  \E section \in Sections : \E n \in 1..Count(data, section) :
               i = ChunksBefore(data, section) + n
<1> DEFINE p == Count(data, "contents")
           q == Count(data, "dir")
           r == Count(data, "eocd")
<1>1. p \in Nat \ {0} /\ q \in Nat \ {0} /\ r \in Nat \ {0}
  BY CountIsPositive DEF Sections
<1>2. /\ ChunksBefore(data, "contents") = 0
      /\ ChunksBefore(data, "dir") = p
      /\ ChunksBefore(data, "eocd") = p + q
  BY DEF ChunksBefore, Count, Lengths
<1>3. i \in 1..(p + q + r)
  BY DEF Total
<1>4. "contents" \in Sections /\ "dir" \in Sections /\ "eocd" \in Sections
  BY DEF Sections
<1>5. CASE i <= p
  <2>1. i \in 1..Count(data, "contents") /\ i = ChunksBefore(data, "contents") + i
    BY <1>1, <1>2, <1>3, <1>5
  <2> QED
    BY <1>4, <2>1
<1>6. CASE p < i /\ i <= p + q
  <2> HIDE DEF p, q, r
  <2>1. i - p \in 1..q /\ i = p + (i - p)
    BY <1>1, <1>3, <1>6
  <2>2. i - p \in 1..Count(data, "dir")
    BY <2>1 DEF q
  <2> QED
    BY <1>2, <1>4, <2>1, <2>2
<1>7. CASE p + q < i
  <2> HIDE DEF p, q, r
  <2>1. i - (p + q) \in 1..r /\ i = p + q + (i - (p + q))
    BY <1>1, <1>3, <1>7
  <2>2. i - (p + q) \in 1..Count(data, "eocd")
    BY <2>1 DEF r
  <2> QED
    BY <1>2, <1>4, <2>1, <2>2
<1> QED
  BY <1>1, <1>3, <1>5, <1>6, <1>7

LEMMA SignedDigestIs ==
    ASSUME NEW c, Sizes[c.data] \in Lengths
    PROVE  SignedDigest(c) = [room |-> Total(c.data), slots |-> AllChunks(c.data),
                              profile |-> c.profile]
<1> DEFINE Part(section) ==
               LET size == Sizes[c.data][section]
               IN  [n \in 1..((size + ChunkSize - 1) \div ChunkSize) |->
                       [data |-> c.data, section |-> section,
                        from |-> (n - 1) * ChunkSize,
                        length |-> IF n * ChunkSize <= size THEN ChunkSize
                                   ELSE size - (n - 1) * ChunkSize]]
           all == Part("contents") \o Part("dir") \o Part("eocd")
<1>1. SignedDigest(c) = [room |-> Len(all), slots |-> all, profile |-> c.profile]
  BY DEF SignedDigest
<1>2. ASSUME NEW section \in Sections PROVE Part(section) = SectionChunks(c.data, section)
  <2>1. (Sizes[c.data][section] + ChunkSize - 1) \div ChunkSize = Count(c.data, section)
    BY CountIsPositive, ChunksCover DEF Count, Policy!Chunks
  <2> QED
    BY <2>1 DEF SectionChunks, Slice
<1>3. Part("contents") = SectionChunks(c.data, "contents")
      /\ Part("dir") = SectionChunks(c.data, "dir")
      /\ Part("eocd") = SectionChunks(c.data, "eocd")
  BY <1>2 DEF Sections
<1> HIDE DEF Part
<1>4. all = AllChunks(c.data)
  BY <1>3 DEF AllChunks
<1> QED
  BY <1>1, <1>4, AllChunksPlaced

LEMMA PlacesApart ==
    ASSUME NEW data, Sizes[data] \in Lengths,
           NEW s \in Sections, NEW t \in Sections,
           NEW m \in 1..Count(data, s), NEW n \in 1..Count(data, t),
           ChunksBefore(data, s) + m = ChunksBefore(data, t) + n
    PROVE  s = t /\ m = n
<1>1. /\ Count(data, "contents") \in Nat \ {0}
      /\ Count(data, "dir") \in Nat \ {0}
      /\ Count(data, "eocd") \in Nat \ {0}
  BY CountIsPositive DEF Sections
<1>2. /\ ChunksBefore(data, "contents") = 0
      /\ ChunksBefore(data, "dir") = Count(data, "contents")
      /\ ChunksBefore(data, "eocd") = Count(data, "contents") + Count(data, "dir")
  BY DEF ChunksBefore, Count, Lengths
<1> QED
  BY <1>1, <1>2 DEF Sections

LEMMA ChunksAreAll ==
    ASSUME pkg \in Packages, digests \in Digests, Digested,
           Len(digests.slots) = digests.room
    PROVE  digests.slots = AllChunks(pkg.data) /\ digests.room = Total(pkg.data)
<1> DEFINE data == pkg.data
           slots == digests.slots
           all == AllChunks(pkg.data)
<1>1. Sizes[data] \in Lengths
  BY PackageFacts
<1>2. digests.room = Total(data)
  BY DEF Digested, Total, Count, Lengths
<1>3. slots \in Seq(Chunk) /\ Len(slots) = Total(data)
  BY <1>2 DEF Digests
<1>4. ChunksOf(data) \subseteq Chunk
  BY DEF ChunksOf, Chunk
<1>5. all \in Seq(Chunk) /\ Len(all) = Total(data)
  BY <1>1, <1>4, AllChunksPlaced, SeqMonotonic
<1>6. ASSUME NEW i \in 1..Total(data) PROVE slots[i] = all[i]
  <2>1. PICK section \in Sections : \E n \in 1..Count(data, section) :
            i = ChunksBefore(data, section) + n
    BY <1>1, PlaceOfChunk
  <2>2. PICK n \in 1..Count(data, section) : i = ChunksBefore(data, section) + n
    BY <2>1
  <2>3. i <= Len(slots)
    BY <1>3
  <2>4. slots[i] = Slice(data, section, n)
    BY <2>2, <2>3 DEF Digested, Count
  <2>5. all[i] = Slice(data, section, n)
    BY <1>1, <2>2, AllChunksPlaced
  <2> QED
    BY <2>4, <2>5
<1> HIDE DEF slots, all
<1>7. slots = all
  BY <1>3, <1>5, <1>6, SeqEqual
<1> QED
  BY <1>2, <1>7 DEF slots, all

\* The program can compute the digests of the package when LitePolicy can.
LEMMA ComputableAgrees ==
    ASSUME NEW p \in Packages, p.signature # None
    PROVE  Computable(p) <=>
               /\ p.signature.content.form # "long"
               /\ p.signature.content.alg \in DOMAIN HashLen
               /\ Policy!Countable(p.data, HashLen[p.signature.content.alg])
<1>1. Sizes[p.data] \in Lengths
  BY LiteAssumption DEF IsPackage
<1>2. \A alg \in DOMAIN HashLen : HashLen[alg] \in Nat \ {0}
  BY LiteAssumption
<1>3. \A alg \in DOMAIN HashLen :
         GetChunkSumCount(Sizes[p.data], HashLen[alg]) # 0
             <=> Policy!Countable(p.data, HashLen[alg])
  BY <1>1, <1>2, CountAgrees
<1> QED
  BY <1>3 DEF Computable

\* The digest may compare equal when the signer has digested this package, and
\* has to when the content holds all of it.
LEMMA CompareAgrees ==
    ASSUME pkg \in Packages, pkg.signature # None, digests \in Digests, Digested,
           Len(digests.slots) = digests.room,
           Computable(pkg)
    PROVE  /\ MayMatch(pkg.signature.content) <=> Policy!SignedAsIs(pkg)
           /\ Policy!SignedAsIs(pkg) =>
                 MustMatch(pkg.signature.content) \/ Policy!DigestCut(pkg)
<1> DEFINE c == pkg.signature.content
<1>1. /\ Sizes[pkg.data] \in Lengths /\ Sizes[c.data] \in Lengths
      /\ c.form \in {"whole", "short", "long"}
  BY PackageFacts
<1>2. digests.slots = AllChunks(pkg.data) /\ digests.room = Total(pkg.data)
  BY ChunksAreAll
<1>3. SignedDigest(c) = [room |-> Total(c.data), slots |-> AllChunks(c.data),
                         profile |-> c.profile]
  BY <1>1, SignedDigestIs
<1>4. SameDigest(c) <=> /\ Total(pkg.data) = Total(c.data)
                        /\ AllChunks(pkg.data) = AllChunks(c.data)
                        /\ pkg.profile = c.profile
  BY <1>2, <1>3 DEF SameDigest
<1>5. ASSUME AllChunks(pkg.data) = AllChunks(c.data) PROVE pkg.data = c.data
  <2>1. ASSUME NEW data, Sizes[data] \in Lengths
        PROVE  AllChunks(data)[1].data = data
    <3>1. "contents" \in Sections /\ 1 \in 1..Count(data, "contents")
      BY <2>1, CountIsPositive DEF Sections
    <3>2. AllChunks(data)[ChunksBefore(data, "contents") + 1] = Slice(data, "contents", 1)
      BY <2>1, <3>1, AllChunksPlaced
    <3>3. ChunksBefore(data, "contents") + 1 = 1
      BY DEF ChunksBefore
    <3> QED
      BY <3>2, <3>3 DEF Slice
  <2> QED
    BY <1>1, <1>5, <2>1
<1>6. SameDigest(c) <=> c.data = pkg.data /\ c.profile = pkg.profile
  BY <1>4, <1>5
<1>7. /\ c.form # "long" /\ c.alg \in DOMAIN HashLen
      /\ Policy!Countable(pkg.data, HashLen[c.alg])
  BY <1>1, ComputableAgrees
<1>8. MayMatch(c) <=> Policy!SignedAsIs(pkg)
  BY <1>1, <1>6, <1>7 DEF MayMatch, Policy!SignedAsIs
<1>9. HashLen[c.alg] <= HashField \/ HashLen[c.alg] > HashField
  BY <1>7, LiteAssumption
<1> QED
  BY <1>8, <1>9 DEF MustMatch, Policy!DigestCut


LEMMA DigestChunkPlaced ==
    ASSUME TypeInv, pc = "chunks", Digested, ChunksPlaced, DigestChunk(TRUE)
    PROVE  /\ Digested'
           /\ pc' = "chunks" => ChunksPlaced'
           /\ pc' = "block" => Len(digests'.slots) = digests'.room
           /\ pc' \in {"chunks", "block"}
<1> DEFINE data == pkg.data
           section == digests.section
           size == Sizes[data][section]
           before == ChunksBefore(data, section)
           count == Count(data, section)
           slots == digests.slots
           done == Len(slots) - before
           length == ChunkLength
           chunk == [data |-> data, section |-> section, from |-> size - digests.left,
                     length |-> length]
           ends == digests.left = length
           last == ends /\ section = "eocd"
           next == SectionAfter(section)
<1>1. /\ pkg \in Packages /\ Sizes[data] \in Lengths
      /\ digests \in Digests /\ section \in Sections
      /\ slots \in Seq(Chunk) /\ Len(slots) \in Nat
  BY PackageFacts DEF TypeInv, Digests
<1>2. /\ size \in Nat \ {0} /\ count \in Nat \ {0}
      /\ \A k \in Nat : k * ChunkSize < size <=> k < count
  BY <1>1, CountIsPositive
<1>3. ChunkSize \in Nat \ {0}
  BY LiteAssumption
<1>4. /\ Count(data, "contents") \in Nat \ {0}
      /\ Count(data, "dir") \in Nat \ {0}
      /\ Count(data, "eocd") \in Nat \ {0}
  BY <1>1, CountIsPositive DEF Sections
<1>5. /\ ChunksBefore(data, "contents") = 0
      /\ ChunksBefore(data, "dir") = Count(data, "contents")
      /\ ChunksBefore(data, "eocd") = Count(data, "contents") + Count(data, "dir")
  BY DEF ChunksBefore, Count, Lengths
<1>6. before \in Nat
  BY <1>1, <1>4, <1>5 DEF Sections
<1>7. digests.room = Total(data)
  BY DEF Digested, Total, Count, Lengths
<1>8. before + count <= Total(data) /\ Total(data) \in Nat
  BY <1>1, <1>4, <1>5 DEF Sections, Total
<1>9. done \in 0..(count - 1) /\ digests.left = size - done * ChunkSize
  BY DEF ChunksPlaced, Count
<1>10. digests' = IF ends /\ ~last
                  THEN [digests EXCEPT !.slots = Put(@, chunk),
                                       !.section = SectionAfter(@),
                                       !.left = Sizes[data][next]]
                  ELSE [digests EXCEPT !.slots = Put(@, chunk), !.left = @ - length]
  BY DEF DigestChunk
<1>11. pc' = (IF last THEN "block" ELSE "chunks") /\ pkg' = pkg
  BY DEF DigestChunk, Goes, call
<1>12. ASSUME NEW n \in Nat PROVE n * ChunkSize \in Nat
                                  /\ (n + 1) * ChunkSize = n * ChunkSize + ChunkSize
  BY <1>3, TimesOrder
<1>13. length = IF digests.left > ChunkSize THEN ChunkSize ELSE digests.left
  BY DEF ChunkLength
<1>14. Put(slots, chunk) = Append(slots, chunk)
  <2>1. Len(slots) < digests.room
    <3> HIDE DEF before, count
    <3>1. Len(slots) < before + count
      BY <1>1, <1>2, <1>6, <1>9
    <3> QED
      BY <1>1, <1>2, <1>6, <1>7, <1>8, <3>1
  <2> QED
    BY <2>1 DEF Put
<1>15. /\ digests'.room = digests.room
       /\ digests'.slots = Append(slots, chunk)
       /\ ends /\ ~last => /\ digests'.section = next
                           /\ digests'.left = Sizes[data][next]
       /\ ~ends => /\ digests'.section = section
                   /\ digests'.left = digests.left - length
  BY <1>1, <1>10, <1>14 DEF Digests
<1> HIDE DEF size, before, count, slots, length, ends, last, next, chunk
<1>16. done \in Nat /\ done + 1 \in 1..count /\ Len(slots) + 1 = before + (done + 1)
  BY <1>1, <1>2, <1>6, <1>9
<1>17. ends <=> done + 1 = count
  <2>1. done * ChunkSize \in Nat /\ (done + 1) * ChunkSize = done * ChunkSize + ChunkSize
    BY <1>12, <1>16
  <2>2. (done + 1) * ChunkSize < size <=> done + 1 < count
    BY <1>2, <1>16
  <2>3. ends <=> ~ (digests.left > ChunkSize)
    BY <1>2, <1>3, <1>9, <1>13, <2>1 DEF ends
  <2> QED
    BY <1>2, <1>3, <1>9, <1>16, <2>1, <2>2, <2>3
<1>18. chunk = Slice(data, section, done + 1)
  <2>1. done * ChunkSize \in Nat /\ (done + 1) * ChunkSize = done * ChunkSize + ChunkSize
        /\ (done + 1) - 1 = done
    BY <1>12, <1>16
  <2>2. size - digests.left = done * ChunkSize
    BY <1>2, <1>9, <2>1
  <2>3. length = IF (done + 1) * ChunkSize <= size THEN ChunkSize
                 ELSE size - done * ChunkSize
    BY <1>2, <1>3, <1>9, <1>13, <2>1
  <2> QED
    BY <2>1, <2>2, <2>3 DEF chunk, Slice, size
<1>19. Len(Append(slots, chunk)) = Len(slots) + 1
       /\ Append(slots, chunk)[Len(slots) + 1] = chunk
       /\ \A i \in 1..Len(slots) : Append(slots, chunk)[i] = slots[i]
  BY <1>1, AppendProperties DEF slots
<1>20. Digested'
  <2>1. ASSUME NEW s \in Sections, NEW n \in 1..Count(data, s),
               ChunksBefore(data, s) + n <= Len(slots) + 1
        PROVE  Append(slots, chunk)[ChunksBefore(data, s) + n] = Slice(data, s, n)
    <3>1. ChunksBefore(data, s) \in Nat /\ Count(data, s) \in Nat
      BY <1>4, <1>5 DEF Sections
    <3>2. CASE ChunksBefore(data, s) + n <= Len(slots)
      <4>1. ChunksBefore(data, s) + n \in 1..Len(slots)
        BY <1>1, <3>1, <3>2 DEF slots
      <4>2. slots[ChunksBefore(data, s) + n] = Slice(data, s, n)
        BY <3>2 DEF Digested, Count, slots
      <4> QED
        BY <1>19, <4>1, <4>2
    <3>3. CASE ~ (ChunksBefore(data, s) + n <= Len(slots))
      <4>1. ChunksBefore(data, s) + n = Len(slots) + 1
        BY <1>1, <2>1, <3>1, <3>3 DEF slots
      <4>2. s = section /\ n = done + 1
        BY <1>1, <1>16, <4>1, PlacesApart DEF before, count
      <4> QED
        BY <1>18, <1>19, <4>1, <4>2
    <3> QED
      BY <3>2, <3>3
  <2> HIDE DEF done
  <2>2. digests'.room = Total(data) /\ Len(digests'.slots) = Len(slots) + 1
    BY <1>7, <1>15, <1>19
  <2>3. \A s \in Sections : \A n \in 1..Count(pkg.data, s) :
            ChunksBefore(pkg.data, s) + n <= Len(digests'.slots) =>
                digests'.slots[ChunksBefore(pkg.data, s) + n] = Slice(pkg.data, s, n)
    BY <1>15, <2>1, <2>2
  <2>4. digests'.room = Total(pkg.data)
    BY <2>2
  <2> HIDE DEF slots, data, chunk
  <2> QED
    BY <1>11, <2>3, <2>4 DEF Digested, Total, Count
<1>21. ASSUME pc' = "chunks" PROVE ChunksPlaced'
  <2>1. ~last
    BY <1>11, <1>21
  <2>2. CASE ends
    <3>1. /\ section # "eocd" /\ next \in Sections
          /\ ChunksBefore(data, next) = before + count
      BY <1>1, <1>4, <1>5, <2>1, <2>2 DEF last, next, SectionAfter, Sections, before, count
    <3>2. Len(digests'.slots) = before + count
      BY <1>15, <1>16, <1>17, <1>19, <2>2
    <3>3. Len(digests'.slots) - ChunksBefore(data, next) = 0
      BY <1>2, <1>6, <3>1, <3>2
    <3>4. digests'.left = Sizes[data][next] - 0 * ChunkSize
      <4>1. Sizes[data][next] \in Nat
        BY <1>1, <3>1, CountIsPositive
      <4> QED
        BY <1>3, <1>15, <2>1, <2>2, <4>1
    <3>5. 0 \in 0..(Count(data, next) - 1)
      BY <1>1, <3>1, CountIsPositive
    <3>6. digests'.section = next
      BY <1>15, <2>1, <2>2
    <3> QED
      BY <1>11, <3>3, <3>4, <3>5, <3>6 DEF ChunksPlaced, Count, ChunksBefore
  <2>3. CASE ~ends
    <3>1. digests'.section = section /\ digests'.left = digests.left - length
      BY <1>15, <2>3
    <3>2. Len(digests'.slots) - before = done + 1
      BY <1>1, <1>6, <1>15, <1>16, <1>19
    <3>3. done + 1 \in 0..(count - 1)
      BY <1>2, <1>16, <1>17, <2>3
    <3>4. digests'.left = size - (done + 1) * ChunkSize
      <4>1. done * ChunkSize \in Nat /\ (done + 1) * ChunkSize = done * ChunkSize + ChunkSize
        BY <1>12, <1>16
      <4>2. length = ChunkSize
        BY <1>13, <2>3 DEF ends
      <4> QED
        BY <1>2, <1>3, <1>9, <3>1, <4>1, <4>2
    <3> HIDE DEF done
    <3> QED
      BY <1>11, <3>1, <3>2, <3>3, <3>4
         DEF ChunksPlaced, Count, ChunksBefore, before, count, size
  <2> QED
    BY <2>2, <2>3
<1>22. ASSUME pc' = "block" PROVE Len(digests'.slots) = digests'.room
  <2>1. ends /\ section = "eocd"
    BY <1>11, <1>22 DEF last
  <2>2. before + count = Total(data)
    BY <1>4, <1>5, <2>1 DEF before, count, Total
  <2> QED
    BY <1>7, <1>15, <1>16, <1>17, <1>19, <2>1, <2>2
<1> QED
  BY <1>11, <1>20, <1>21, <1>22

-----------------------------------------------------------------------------
(* The profile: what the result says of it, and what LitePolicy wants.     *)

LEMMA TagsAreFields ==
    /\ Policy!Tags = {"head", "type", "dist", "developer", "dev", "release", "bundle",
                      "permissionObject", "permissions", "restricted", "idType", "ids",
                      "issuer"}
    /\ Elements(Fields) = Policy!Tags
    /\ DOMAIN NoProfile = Policy!Tags \cup {"appid"}
    /\ NoProfile = Policy!NoResult
    /\ Policy!RequiredTags \subseteq Policy!Tags
    /\ Policy!OptionalTags \subseteq Policy!Tags
    /\ \A tag \in Policy!Tags :
          tag \in Policy!RequiredTags <=> tag \notin Policy!OptionalTags
<1>1. Policy!Tags = {"head", "type", "dist", "developer", "dev", "release", "bundle",
                     "permissionObject", "permissions", "restricted", "idType", "ids",
                     "issuer"}
  BY DEF Policy!Tags, Policy!RequiredTags, Policy!OptionalTags, Policy!ListTags,
         Policy!DefaultedTags
<1>2. Elements(Fields) = Policy!Tags
  <2>1. DOMAIN Fields = 1..13
    BY DEF Fields
  <2>2. \A i \in 1..13 : Fields[i] \in Policy!Tags
    BY <1>1 DEF Fields
  <2>3. \A tag \in Policy!Tags : \E i \in 1..13 : Fields[i] = tag
    BY <1>1 DEF Fields
  <2> QED
    BY <2>1, <2>2, <2>3 DEF Elements
<1>3. DOMAIN NoProfile = Policy!Tags \cup {"appid"} /\ NoProfile = Policy!NoResult
  BY <1>2 DEF NoProfile, Policy!NoResult
<1>4. /\ Policy!RequiredTags \subseteq Policy!Tags
      /\ Policy!OptionalTags \subseteq Policy!Tags
  BY DEF Policy!Tags
<1>5. \A tag \in Policy!Tags : tag \in Policy!RequiredTags <=> tag \notin Policy!OptionalTags
  BY <1>1 DEF Policy!RequiredTags, Policy!OptionalTags, Policy!ListTags,
              Policy!DefaultedTags
<1> QED
  BY <1>1, <1>2, <1>3, <1>4, <1>5

LEMMA NotAccepted ==
    ASSUME NEW p,
           \/ ~(p.opens /\ p.head) \/ p.signature = None \/ p.profile = None
           \/ ~Policy!Vouched(p.signature, "app") \/ ~Policy!SignedAsIs(p)
           \/ Policy!ProfileText(p) = None
           \/ ~Policy!Complete(Policy!ProfileText(p))
    PROVE  Policy!Accepts(p) = {}
BY DEF Policy!Accepts

\* The fields of the profile as they stand in the result.
Read == [tag \in Policy!Tags |-> result[tag]]

LEMMA ResultIsReading ==
    ASSUME \A field \in Policy!Tags : FieldRead(field)
    PROVE  Read \in Policy!Readings(Profiled)
<1> DEFINE lost == {tag \in Policy!OptionalTags : result[tag] # Full(tag)}
<1>1. lost \in (IF faulted THEN SUBSET Policy!OptionalTags ELSE {{}})
  BY TagsAreFields DEF FieldRead
<1>2. ASSUME NEW tag \in Policy!Tags
      PROVE  result[tag] = IF tag \in lost \/ Policy!Value(Profiled, tag) = None
                           THEN Policy!DefaultOf(tag) ELSE Policy!Value(Profiled, tag)
  BY TagsAreFields DEF FieldRead, Full
<1> HIDE DEF lost
<1>3. Read = [tag \in Policy!Tags |->
                 IF tag \in lost \/ Policy!Value(Profiled, tag) = None
                 THEN Policy!DefaultOf(tag) ELSE Policy!Value(Profiled, tag)]
  BY <1>2 DEF Read
<1> QED
  BY <1>1, <1>3 DEF Policy!Readings

LEMMA ResultIsOnlyReading ==
    ASSUME \A field \in Policy!Tags : FieldRead(field), ~faulted,
           NEW r \in Policy!Readings(Profiled)
    PROVE  r = Read
<1>1. r = [tag \in Policy!Tags |-> IF tag \in {} \/ Policy!Value(Profiled, tag) = None
                                   THEN Policy!DefaultOf(tag)
                                   ELSE Policy!Value(Profiled, tag)]
  BY DEF Policy!Readings
<1>2. \A tag \in Policy!Tags : result[tag] = Full(tag)
  BY DEF FieldRead
<1> QED
  BY <1>1, <1>2 DEF Full, Read

LEMMA ReadFields ==
    /\ Read["type"] = result["type"] /\ Read["dist"] = result["dist"]
    /\ Read["dev"] = result["dev"] /\ Read["release"] = result["release"]
    /\ Read["idType"] = result["idType"] /\ Read["ids"] = result["ids"]
    /\ Read["bundle"] = result["bundle"]
    /\ Policy!AppidCert(Read) = AppidCert
<1>1. \A tag \in Policy!Tags : Read[tag] = result[tag]
  BY DEF Read
<1>2. {"type", "dist", "dev", "release", "idType", "ids", "bundle"} \subseteq Policy!Tags
  BY TagsAreFields
<1> QED
  BY <1>1, <1>2 DEF Policy!AppidCert, AppidCert

LEMMA ContentAgrees ==
    Policy!ProfileAllowed(Read) <=> /\ VerifyAppTypeAndDistribution(result)
                                    /\ VerifyAppBundleInfo(result)
                                    /\ VerifyDebugInfo(result)
                                    /\ AppidCert \in Certs
<1>1. VerifyUdid(result) <=> Policy!NamesDevice(result["ids"])
  BY DEF VerifyUdid, Policy!NamesDevice, Policy!Elements
<1> QED
  BY <1>1, ReadFields
     DEF Policy!ProfileAllowed, Policy!Distributions, VerifyAppTypeAndDistribution,
         VerifyAppBundleInfo, VerifyDebugInfo

LEMMA SourceAgrees ==
    ASSUME debug \in BOOLEAN, pkg \in Packages, pkg.signature # None,
           certType = TypeBySource(pkg.signature, "app"),
           VerifyAppTypeAndDistribution(result), VerifyAppBundleInfo(result)
    PROVE  CheckAppSignCert <=> \/ Policy!Source(pkg.signature, "app") # "other"
                                \/ Policy!NamesCert(Read, pkg.signature.cert)
<1>1. IsMessage(pkg.signature) /\ pkg.signature.cert \in Certs
  BY PackageFacts DEF IsMessage
<1>2. certType \in {"gallery", "system"} <=> Policy!Source(pkg.signature, "app") # "other"
  BY <1>1, TrustAgrees
<1>3. \A cert : SameCert(cert) <=> cert = pkg.signature.cert
  BY <1>1 DEF SameCert, HasKey
<1> QED
  BY <1>2, <1>3, ReadFields
     DEF CheckAppSignCert, CheckDebugAppSign, CheckReleaseAppSign, Policy!NamesCert,
         VerifyAppTypeAndDistribution, VerifyAppBundleInfo

LEMMA ResultIsHanded ==
    ASSUME IsResult(result),
           result["appid"] = <<result["bundle"], AppidCert>>
    PROVE  [result EXCEPT !["dev"] = None, !["release"] = None] = Policy!Handed(Read)
<1> DEFINE handed == [result EXCEPT !["dev"] = None, !["release"] = None]
<1>1. /\ DOMAIN NoProfile = Policy!Tags \cup {"appid"} /\ "appid" \notin Policy!Tags
      /\ "dev" \in Policy!Tags /\ "release" \in Policy!Tags
  BY TagsAreFields
<1>2. /\ handed = [field \in Policy!Tags \cup {"appid"} |-> handed[field]]
      /\ \A field \in Policy!Tags \cup {"appid"} :
            handed[field] = IF field \in {"dev", "release"} THEN None ELSE result[field]
  BY <1>1 DEF IsResult
<1>3. Policy!Handed(Read) =
         [tag \in Policy!Tags \cup {"appid"} |->
             IF tag = "appid" THEN <<result["bundle"], AppidCert>>
             ELSE IF tag \in {"dev", "release"} THEN None ELSE Read[tag]]
  BY ReadFields DEF Policy!Handed
<1>4. \A tag \in Policy!Tags : Read[tag] = result[tag]
  BY DEF Read
<1> HIDE DEF handed
<1>5. \A field \in Policy!Tags \cup {"appid"} : handed[field] = Policy!Handed(Read)[field]
  BY <1>1, <1>2, <1>3, <1>4
<1>6. Policy!Handed(Read) =
         [field \in Policy!Tags \cup {"appid"} |-> Policy!Handed(Read)[field]]
  BY <1>3
<1>7. handed = Policy!Handed(Read)
  BY <1>2, <1>5, <1>6
<1> QED
  BY <1>7 DEF handed

LEMMA VouchedAgrees ==
    ASSUME debug \in BOOLEAN, pkcsDebug = debug, NEW m, IsMessage(m), NEW use
    PROVE  Policy!Vouched(m, use) <=> /\ m.parses /\ m.signs /\ m.root \in TrustedRoots
                                      /\ InTrustList(m, use) => ~m.deep
BY TrustAgrees DEF Policy!Vouched, TrustedRoots

LEMMA ProfileAgrees ==
    ASSUME debug \in BOOLEAN, pkcsDebug = debug, pkg \in Packages,
           pkg.signature # None, pkg.profile # None,
           certType = TypeBySource(pkg.signature, "app")
    PROVE  Profiled = IF certType = "gallery" THEN pkg.profile.raw
                      ELSE IF ProfileSigned(pkg.profile.msg) THEN pkg.profile.msg.content
                      ELSE None
<1> DEFINE m == pkg.profile.msg
<1>1. certType = Policy!Source(pkg.signature, "app")
  BY PackageFacts, TrustAgrees
<1>2. ProfileSigned(m) <=> /\ m # None
                           /\ Policy!Vouched(m, "profile")
                           /\ Policy!Source(m, "profile") # "other"
                           /\ m.fits
  <2>1. CASE m = None
    BY <2>1 DEF ProfileSigned
  <2>2. CASE m # None
    <3>1. IsMessage(m)
      BY <2>2, PackageFacts
    <3> QED
      BY <2>2, <3>1, TrustAgrees, VouchedAgrees DEF ProfileSigned
  <2> QED
    BY <2>1, <2>2
<1> QED
  BY <1>1, <1>2 DEF Profiled, Policy!ProfileText

\* What the call knows of the package once VerifyBinSign has returned.
SignatureGood ==
    /\ pkg.opens /\ pkg.head /\ pkg.signature # None /\ pkg.profile # None
    /\ certType = TypeBySource(pkg.signature, "app")
    /\ Policy!Vouched(pkg.signature, "app")
    /\ Policy!SignedAsIs(pkg)

LEMMA ResultIsAccepted ==
    ASSUME debug \in BOOLEAN, pkg \in Packages, SignatureGood, Profiled # None,
           \A field \in Policy!Tags : FieldRead(field),
           VerifyAppTypeAndDistribution(result), VerifyAppBundleInfo(result),
           VerifyDebugInfo(result), AppidCert \in Certs, CheckAppSignCert
    PROVE  Policy!Handed(Read) \in Policy!Accepts(pkg)
<1>1. Policy!Complete(Profiled)
  BY TagsAreFields DEF FieldRead, Policy!Complete
<1>2. /\ Read \in Policy!Readings(Profiled)
      /\ Policy!ProfileAllowed(Read)
      /\ \/ Policy!Source(pkg.signature, "app") # "other"
         \/ Policy!NamesCert(Read, pkg.signature.cert)
  BY ResultIsReading, ContentAgrees, SourceAgrees DEF SignatureGood
<1> QED
  BY <1>1, <1>2 DEF SignatureGood, Policy!Accepts, Profiled

LEMMA ResultIsRefused ==
    ASSUME debug \in BOOLEAN, pkg \in Packages, SignatureGood, ~faulted,
           \A field \in Policy!Tags : FieldRead(field),
           ~ /\ VerifyAppTypeAndDistribution(result) /\ VerifyAppBundleInfo(result)
             /\ VerifyDebugInfo(result) /\ AppidCert \in Certs /\ CheckAppSignCert
    PROVE  Policy!Accepts(pkg) = {}
<1>1. ASSUME NEW r \in Policy!Readings(Profiled)
      PROVE  ~ /\ Policy!ProfileAllowed(r)
               /\ \/ Policy!Source(pkg.signature, "app") # "other"
                  \/ Policy!NamesCert(r, pkg.signature.cert)
  BY <1>1, ResultIsOnlyReading, ContentAgrees, SourceAgrees DEF SignatureGood
<1> QED
  BY <1>1 DEF Policy!Accepts, Profiled

\* Nothing that LitePolicy says of the package changes while it is verified.
LEMMA PolicyUnmoved ==
    ASSUME UNCHANGED <<debug, pkg>>
    PROVE  /\ Profiled' = Profiled
           /\ Policy!DigestCut(pkg)' = Policy!DigestCut(pkg)
           /\ faulted' = faulted => Policy!Accepts(pkg)' = Policy!Accepts(pkg)
           /\ InTrustList(pkg.signature, "app")' = InTrustList(pkg.signature, "app")
           /\ TypeBySource(pkg.signature, "app")' = TypeBySource(pkg.signature, "app")
<1>1. Profiled' = Profiled
  BY DEF Profiled, Policy!ProfileText, Policy!Source, Policy!ListedFor, Policy!Vouched
<1>2. ASSUME faulted' = faulted PROVE Policy!Accepts(pkg)' = Policy!Accepts(pkg)
  BY <1>2 DEF Policy!Accepts, Policy!Readings, Policy!Vouched, Policy!ListedFor,
              Policy!SignedAsIs, Policy!Source, Policy!ProfileText
<1>d. Policy!DigestCut(pkg)' = Policy!DigestCut(pkg)
  BY DEF Policy!DigestCut, Policy!SignedAsIs
<1>3. InTrustList(pkg.signature, "app")' = InTrustList(pkg.signature, "app")
  BY DEF InTrustList
<1>4. TypeBySource(pkg.signature, "app")' = TypeBySource(pkg.signature, "app")
  BY DEF TypeBySource, InTrustList
<1> QED
  BY <1>1, <1>2, <1>d, <1>3, <1>4

-----------------------------------------------------------------------------
(* The invariant: initially, and kept by every step.                       *)

Answered == pc = "answered" => ret # None

Inv == /\ HeldInv /\ TypeInv /\ Known /\ DigestInv /\ ResultInv /\ RefusedInv
       /\ Answered

LEMMA StageAt ==
    /\ Stage("idle") = 0 /\ Stage("open") = 0 /\ Stage("answered") = 0
    /\ Stage("signHead") = 1 /\ Stage("signBlock") = 2 /\ Stage("pkcs7") = 3
    /\ Stage("fileRead") = 4 /\ Stage("certType") = 4 /\ Stage("chain") = 5
    /\ Stage("rawHash") = 6 /\ Stage("chunks") = 7 /\ Stage("block") = 7
    /\ Stage("compare") = 8 /\ Stage("signature") = 9
    /\ Stage("certInfo") = 10 /\ Stage("exit") = 10 /\ Stage("profileBlock") = 10
    /\ Stage("profileSign") = 10 /\ Stage("parse") = 10 /\ Stage("field") = 10
    /\ Stage("parsed") = 10 /\ Stage("content") = 10 /\ Stage("appid") = 10
    /\ Stage("source") = 10 /\ Stage("freeInfo") = 10 /\ Stage("stat") = 10
    /\ Stage("close") = 10
BY DEF Stage

LEMMA KnownMoves ==
    ASSUME UNCHANGED <<debug, pkcsDebug, pkg, certType>>, NEW n
    PROVE  KnownAt(n)' <=> KnownAt(n)
BY PolicyUnmoved DEF KnownAt, TrustedRoots

LEMMA KnownStays ==
    ASSUME Known, UNCHANGED <<debug, pkcsDebug, pkg, certType>>,
           ret' = None => ret = None /\ (KnownAt(Stage(pc)) => KnownAt(Stage(pc')))
    PROVE  Known'
BY KnownMoves DEF Known

LEMMA KnownKept ==
    ASSUME Inv, Handler
    PROVE  Known'
<1>0. HeldInv /\ TypeInv /\ Known /\ DigestInv /\ pc \in PCs
  BY DEF Inv, HeldInv
<1>e. ret # None => pc \in {"idle", "exit", "freeInfo", "close", "answered"}
  BY <1>0 DEF HeldInv, ErrorExits
<1>r. "refused" # None
  BY LiteAssumption
<1> USE <1>r, StageAt DEF Goes, call
<1>1. ASSUME NEW ok \in BOOLEAN, InitVerify(ok) PROVE Known'
  BY <1>0, <1>e, <1>1, KnownStays DEF InitVerify, KnownAt
<1>2. ASSUME NEW ok \in BOOLEAN, GetSignHead(ok) PROVE Known'
  BY <1>0, <1>e, <1>2, KnownStays DEF GetSignHead, KnownAt
<1>3. ASSUME NEW ok \in BOOLEAN, StatFile(ok) PROVE Known'
  BY <1>0, <1>e, <1>3, KnownStays DEF StatFile
<1>4. ASSUME NEW ok \in BOOLEAN, GetSignBlock(ok) PROVE Known'
  BY <1>0, <1>e, <1>4, KnownStays DEF GetSignBlock, KnownAt
<1>5. ASSUME NEW ok \in BOOLEAN, GetBinSignPkcs(ok) PROVE Known'
  BY <1>0, <1>e, <1>5, KnownStays DEF GetBinSignPkcs, KnownAt
<1>6. ASSUME NEW ok \in BOOLEAN, GetFileRead(ok) PROVE Known'
  BY <1>0, <1>e, <1>6, KnownStays DEF GetFileRead
<1>7. ASSUME NEW ok \in BOOLEAN, GetAppSingerCertType(ok) PROVE Known'
  BY <1>0, <1>e, <1>7, PolicyUnmoved DEF GetAppSingerCertType, Known, KnownAt
<1>8. ASSUME NEW ok \in BOOLEAN, VerifyCertsChain(ok) PROVE Known'
  BY <1>0, <1>e, <1>8, KnownStays DEF VerifyCertsChain, KnownAt
<1>9. ASSUME NEW ok \in BOOLEAN, BeginRawHash(ok) PROVE Known'
  <2>1. pkg \in Packages /\ Sizes[pkg.data] \in Lengths
    BY <1>0, <1>9, PackageFacts DEF TypeInv, BeginRawHash
  <2> QED
    BY <1>0, <1>e, <1>9, <2>1, KnownStays DEF BeginRawHash, KnownAt
<1>10. ASSUME NEW ok \in BOOLEAN, DigestChunk(ok) PROVE Known'
  BY <1>0, <1>e, <1>10, KnownStays DEF DigestChunk
<1>11. ASSUME NEW ok \in BOOLEAN, DigestProfileBlock(ok) PROVE Known'
  BY <1>0, <1>e, <1>11, KnownStays DEF DigestProfileBlock, KnownAt
<1>12. ASSUME NEW ok \in BOOLEAN, CompareRawHash(ok) PROVE Known'
  <2> DEFINE c == pkg.signature.content
  <2>1. pkg \in Packages /\ digests \in Digests
    BY <1>0, <1>12 DEF TypeInv, CompareRawHash
  <2>2. ret = None /\ KnownAt(8)
    BY <1>0, <1>e, <1>12 DEF CompareRawHash, Known
  <2>3. pkg.signature # None /\ Computable(pkg)
    BY <2>1, <2>2 DEF KnownAt
  <2>4. Digested /\ Len(digests.slots) = digests.room
    BY <1>0, <1>12 DEF CompareRawHash, DigestInv
  <2>5. MayMatch(c) <=> Policy!SignedAsIs(pkg)
    BY <2>1, <2>3, <2>4, CompareAgrees
  <2>6. ok => Policy!SignedAsIs(pkg)
    BY <1>12, <2>5 DEF CompareRawHash
  <2> QED
    BY <1>0, <1>e, <1>12, <2>2, <2>6, KnownStays DEF CompareRawHash, KnownAt
<1>13. ASSUME NEW ok \in BOOLEAN, VerifySignerSignature(ok) PROVE Known'
  BY <1>0, <1>e, <1>13, KnownStays DEF VerifySignerSignature, KnownAt
<1>14. ASSUME NEW ok \in BOOLEAN, GetCertInfo(ok) PROVE Known'
  BY <1>0, <1>e, <1>14, KnownStays DEF GetCertInfo
<1>15. ASSUME NEW ok \in BOOLEAN, GetProfileBlock(ok) PROVE Known'
  BY <1>0, <1>e, <1>15, KnownStays DEF GetProfileBlock
<1>16. ASSUME NEW ok \in BOOLEAN, VerifyProfileSign(ok) PROVE Known'
  BY <1>0, <1>e, <1>16, KnownStays DEF VerifyProfileSign
<1>17. ASSUME NEW ok \in BOOLEAN, BeginParse(ok) PROVE Known'
  BY <1>0, <1>e, <1>17, KnownStays DEF BeginParse
<1>18. ASSUME NEW ok \in BOOLEAN, VerifyProfileContent(ok) PROVE Known'
  BY <1>0, <1>e, <1>18, KnownStays DEF VerifyProfileContent
<1>19. ASSUME NEW ok \in BOOLEAN, GetAppid(ok) PROVE Known'
  BY <1>0, <1>e, <1>19, KnownStays DEF GetAppid
<1>20. ASSUME NEW ok \in BOOLEAN, CheckAppSource(ok) PROVE Known'
  BY <1>0, <1>e, <1>20, KnownStays DEF CheckAppSource
<1>21. ASSUME NEW got, NEW ok \in BOOLEAN, ReadField(got, ok) PROVE Known'
  BY <1>0, <1>e, <1>21, KnownStays DEF ReadField
<1>22. ASSUME FreeBinSign PROVE Known'
  BY <1>0, <1>e, <1>22, KnownStays DEF FreeBinSign
<1>23. ASSUME EndParse PROVE Known'
  BY <1>0, <1>e, <1>23, KnownStays DEF EndParse
<1>24. ASSUME FreeBinSignCert PROVE Known'
  BY <1>0, <1>e, <1>24, KnownStays DEF FreeBinSignCert
<1>25. ASSUME CloseFile PROVE Known'
  BY <1>0, <1>25 DEF CloseFile, Known, KnownAt
<1> QED
  BY <1>1, <1>2, <1>3, <1>4, <1>5, <1>6, <1>7, <1>8, <1>9, <1>10, <1>11, <1>12, <1>13,
     <1>14, <1>15, <1>16, <1>17, <1>18, <1>19, <1>20, <1>21, <1>22, <1>23, <1>24,
        <1>25 DEF Handler

LEMMA DigestKept ==
    ASSUME Inv, Handler
    PROVE  DigestInv'
<1>0. HeldInv /\ TypeInv /\ Known /\ DigestInv
  BY DEF Inv
<1>1. ASSUME NEW ok \in BOOLEAN, BeginRawHash(ok) PROVE DigestInv'
  <2> DEFINE s == Sizes[pkg.data]
             hashLen == HashLen[pkg.signature.content.alg]
             n == IF ok THEN GetChunkSumCount(s, hashLen) ELSE 0
  <2>1. pkg \in Packages /\ s \in Lengths /\ pkg' = pkg
    BY <1>0, <1>1, PackageFacts DEF TypeInv, BeginRawHash, call
  <2>2. digests' = [room |-> n, slots |-> <<>>, section |-> "contents", left |-> s.contents]
    BY <1>1 DEF BeginRawHash
  <2>3. pc' = IF ok THEN "chunks" ELSE "exit"
    BY <1>1 DEF BeginRawHash, Goes
  <2>4. CASE ok
    <3>1. n # 0 /\ n = GetChunkSumCount(s, hashLen) /\ hashLen \in Nat \ {0}
      BY <1>1, <2>4, LiteAssumption DEF BeginRawHash, Goes, Computable
    <3>2. n = NumberOfChunks(s.contents) + NumberOfChunks(s.dir) + NumberOfChunks(s.eocd)
      BY <2>1, <3>1, CountAgrees
    <3>3. /\ Count(pkg.data, "contents") \in Nat \ {0}
          /\ Count(pkg.data, "dir") \in Nat \ {0}
          /\ Count(pkg.data, "eocd") \in Nat \ {0}
          /\ s["contents"] \in Nat /\ s["contents"] = s.contents
      BY <2>1, CountIsPositive DEF Sections
    <3>4. /\ ChunksBefore(pkg.data, "contents") = 0
          /\ ChunksBefore(pkg.data, "dir") = Count(pkg.data, "contents")
          /\ ChunksBefore(pkg.data, "eocd") = Count(pkg.data, "contents")
                                                 + Count(pkg.data, "dir")
      BY <2>1 DEF ChunksBefore, Count, Lengths
    <3> HIDE DEF n
    <3>5. Len(digests'.slots) = 0 /\ digests'.room = n /\ digests'.section = "contents"
          /\ digests'.left = s["contents"]
      BY <2>2, <3>3
    <3> HIDE DEF s
    <3>6. \A section \in Sections : \A k \in 1..Count(pkg.data, section) :
              ~ (ChunksBefore(pkg.data, section) + k <= Len(digests'.slots))
      BY <3>3, <3>4, <3>5 DEF Sections
    <3>7. Digested'
      BY <2>1, <3>2, <3>5, <3>6 DEF Digested, Count, s
    <3>8. ChunksPlaced'
      <4>1. Len(digests'.slots) - ChunksBefore(pkg.data, "contents") = 0
        BY <3>4, <3>5
      <4>2. s["contents"] = s["contents"] - 0 * ChunkSize
        BY <3>3, LiteAssumption
      <4>3. 0 \in 0..(Count(pkg.data, "contents") - 1)
        BY <3>3
      <4> QED
        BY <2>1, <3>5, <4>1, <4>2, <4>3 DEF ChunksPlaced, Count, s
    <3> QED
      BY <2>3, <2>4, <3>7, <3>8 DEF DigestInv
  <2>5. CASE ~ok
    BY <2>3, <2>5 DEF DigestInv
  <2> QED
    BY <2>4, <2>5
<1>2. ASSUME NEW ok \in BOOLEAN, DigestChunk(ok) PROVE DigestInv'
  <2>1. CASE ok
    <3>1. ok = TRUE /\ pc = "chunks"
      BY <1>2, <2>1 DEF DigestChunk
    <3>2. Digested /\ ChunksPlaced
      BY <1>0, <3>1 DEF DigestInv
    <3>3. /\ Digested'
          /\ pc' = "chunks" => ChunksPlaced'
          /\ pc' = "block" => Len(digests'.slots) = digests'.room
          /\ pc' \in {"chunks", "block"}
      BY <1>0, <1>2, <3>1, <3>2, DigestChunkPlaced
    <3> QED
      BY <3>3 DEF DigestInv
  <2>2. CASE ~ok
    BY <1>2, <2>2 DEF DigestChunk, Goes, DigestInv
  <2> QED
    BY <2>1, <2>2
<1>3. ASSUME NEW ok \in BOOLEAN, DigestProfileBlock(ok) PROVE DigestInv'
  <2>1. pkg' = pkg /\ digests' = digests /\ pc' \in {"compare", "exit"} /\ pc = "block"
    BY <1>3 DEF DigestProfileBlock, Goes, call
  <2>2. Digested' <=> Digested
    BY <2>1 DEF Digested
  <2> QED
    BY <1>0, <2>1, <2>2 DEF DigestInv
<1>4. ASSUME NEW ok \in BOOLEAN,
               \/ InitVerify(ok) \/ GetSignHead(ok) \/ StatFile(ok)
               \/ GetSignBlock(ok) \/ GetBinSignPkcs(ok) \/ GetFileRead(ok)
               \/ GetAppSingerCertType(ok) \/ VerifyCertsChain(ok) \/ CompareRawHash(ok)
               \/ VerifySignerSignature(ok) \/ GetCertInfo(ok) \/ GetProfileBlock(ok)
               \/ VerifyProfileSign(ok) \/ BeginParse(ok) \/ VerifyProfileContent(ok)
               \/ GetAppid(ok) \/ CheckAppSource(ok)
      PROVE  pc' \notin {"chunks", "block", "compare"}
  BY <1>4 DEF Goes, InitVerify, GetSignHead, StatFile, GetSignBlock, GetBinSignPkcs,
              GetFileRead, GetAppSingerCertType, VerifyCertsChain, CompareRawHash,
              VerifySignerSignature, GetCertInfo, GetProfileBlock, VerifyProfileSign,
              BeginParse, VerifyProfileContent, GetAppid, CheckAppSource
<1>5. ASSUME NEW got, NEW ok \in BOOLEAN, ReadField(got, ok)
      PROVE  pc' \notin {"chunks", "block", "compare"}
  BY <1>5 DEF ReadField
<1>6. ASSUME FreeBinSign \/ EndParse \/ FreeBinSignCert \/ CloseFile
      PROVE  pc' \notin {"chunks", "block", "compare"}
  BY <1>6 DEF FreeBinSign, EndParse, FreeBinSignCert, CloseFile
<1>7. pc' \notin {"chunks", "block", "compare"} => DigestInv'
  BY DEF DigestInv
<1> QED
  BY <1>1, <1>2, <1>3, <1>4, <1>5, <1>6, <1>7 DEF Handler

-----------------------------------------------------------------------------
(* A refusal has its reason.                                               *)

LEMMA KnownIsGood ==
    ASSUME Inv, pc \in PCs, Stage(pc) = 10, ret = None, pc # "idle"
    PROVE  SignatureGood
<1>1. /\ debug \in BOOLEAN /\ pkcsDebug = debug /\ pkg \in Packages /\ KnownAt(10)
  BY DEF Inv, TypeInv, TypeOK, Known
<1>2. IsMessage(pkg.signature)
  BY <1>1, PackageFacts DEF KnownAt
<1> QED
  BY <1>1, <1>2, VouchedAgrees DEF KnownAt, SignatureGood

LEMMA StepReason ==
    ASSUME faulted \in BOOLEAN, UNCHANGED <<debug, pkg>>, NEW ok \in BOOLEAN, NEW good,
           faulted' = (faulted \/ (good /\ ~ok)), ~ok, ~good => Reason
    PROVE  Reason'
<1>1. CASE good
  BY <1>1 DEF Reason
<1>2. CASE ~good
  <2>1. faulted' = faulted
    BY <1>2
  <2> QED
    BY <1>2, <2>1, PolicyUnmoved DEF Reason
<1> QED
  BY <1>1, <1>2

LEMMA StepRefused ==
    ASSUME faulted \in BOOLEAN, UNCHANGED <<debug, pkg>>, NEW ok \in BOOLEAN, NEW good,
           NEW next, NEW exit, Goes(ok, good, next, exit), ret = None,
           ~good => Reason, ~ok => result' = NoProfile
    PROVE  RefusedInv'
<1>1. CASE ok
  BY <1>1 DEF Goes, RefusedInv
<1>2. CASE ~ok
  <2>1. Reason'
    BY <1>2, StepReason DEF Goes
  <2> QED
    BY <1>2, <2>1 DEF Goes, RefusedInv
<1> QED
  BY <1>1, <1>2

LEMMA RefusedKept ==
    ASSUME Inv, Handler
    PROVE  RefusedInv'
<1> DEFINE p == pkg
           m == pkg.signature
<1>0. /\ HeldInv /\ TypeInv /\ Known /\ DigestInv /\ ResultInv /\ RefusedInv /\ pc \in PCs
      /\ debug \in BOOLEAN /\ pkcsDebug = debug /\ faulted \in BOOLEAN
      /\ pc # "idle" => pkg \in Packages
  BY DEF Inv, HeldInv, TypeInv, TypeOK, Known
<1>e. pc \notin {"idle", "exit", "freeInfo", "close", "answered"} => ret = None
  BY <1>0 DEF HeldInv, ErrorExits
<1>n. ~ (p.opens /\ p.head) \/ p.signature = None \/ p.profile = None
      \/ ~Policy!Vouched(p.signature, "app") \/ ~Policy!SignedAsIs(p)
      \/ Profiled = None \/ ~Policy!Complete(Profiled)
      => Reason
  BY NotAccepted DEF Reason, Profiled
<1>v. ASSUME m # None, pc # "idle"
      PROVE  Policy!Vouched(m, "app") =>
                 /\ m.parses /\ m.signs /\ m.root \in TrustedRoots
                 /\ InTrustList(m, "app") => ~m.deep
  <2>1. IsMessage(m)
    BY <1>0, <1>v, PackageFacts
  <2> QED
    BY <1>0, <2>1, VouchedAgrees
<1>b. pc \in BeforeParse => result = NoProfile
  BY <1>0 DEF ResultInv
<1>k. ASSUME NEW n, ret = None, Stage(pc) = n PROVE KnownAt(n)
  BY <1>0, <1>k DEF Known
<1> HIDE DEF p, m
<1> USE StageAt DEF BeforeParse, InCall, PCs, call
<1>1. ASSUME NEW ok \in BOOLEAN, InitVerify(ok) PROVE RefusedInv'
  BY <1>0, <1>1, <1>e, <1>n, <1>b, StepRefused DEF InitVerify, p
<1>2. ASSUME NEW ok \in BOOLEAN, GetSignHead(ok) PROVE RefusedInv'
  BY <1>0, <1>2, <1>e, <1>n, <1>b, StepRefused DEF GetSignHead, p
<1>3. ASSUME NEW ok \in BOOLEAN, StatFile(ok) PROVE RefusedInv'
  BY <1>0, <1>3, <1>e, StepRefused DEF StatFile
<1>4. ASSUME NEW ok \in BOOLEAN, GetSignBlock(ok) PROVE RefusedInv'
  BY <1>0, <1>4, <1>e, <1>n, <1>b, StepRefused DEF GetSignBlock, p
<1>5. ASSUME NEW ok \in BOOLEAN, GetBinSignPkcs(ok) PROVE RefusedInv'
  <2>1. KnownAt(3) /\ ret = None
    BY <1>5, <1>e, <1>k DEF GetBinSignPkcs
  <2> QED
    BY <1>0, <1>5, <1>n, <1>b, <2>1, StepRefused, <1>v DEF GetBinSignPkcs, KnownAt, p, m
<1>6. ASSUME NEW ok \in BOOLEAN, GetFileRead(ok) PROVE RefusedInv'
  BY <1>0, <1>6, <1>e, <1>b, StepRefused DEF GetFileRead
<1>7. ASSUME NEW ok \in BOOLEAN, GetAppSingerCertType(ok) PROVE RefusedInv'
  <2>1. KnownAt(4) /\ ret = None
    BY <1>7, <1>e, <1>k DEF GetAppSingerCertType
  <2> QED
    BY <1>0, <1>7, <1>n, <1>b, <2>1, StepRefused, <1>v DEF GetAppSingerCertType, KnownAt,
                                                           p, m
<1>8. ASSUME NEW ok \in BOOLEAN, VerifyCertsChain(ok) PROVE RefusedInv'
  <2>1. KnownAt(5) /\ ret = None
    BY <1>8, <1>e, <1>k DEF VerifyCertsChain
  <2> QED
    BY <1>0, <1>8, <1>n, <1>b, <2>1, StepRefused, <1>v DEF VerifyCertsChain, KnownAt, p, m
<1>9. ASSUME NEW ok \in BOOLEAN, BeginRawHash(ok) PROVE RefusedInv'
  <2>1. KnownAt(6) /\ ret = None /\ Sizes[pkg.data] \in Lengths
    BY <1>0, <1>9, <1>e, <1>k, PackageFacts DEF BeginRawHash
  <2>2. pkg.signature # None /\ pkg \in Packages
    BY <1>0, <1>9, <2>1 DEF BeginRawHash, KnownAt
  <2>3. ~Computable(pkg) => Reason
    BY <1>n, <2>2, ComputableAgrees DEF Policy!SignedAsIs, p
  <2> QED
    BY <1>0, <1>9, <1>b, <2>1, <2>3, StepRefused DEF BeginRawHash
<1>10. ASSUME NEW ok \in BOOLEAN, DigestChunk(ok) PROVE RefusedInv'
  BY <1>0, <1>10, <1>e, <1>b, StepRefused DEF DigestChunk
<1>11. ASSUME NEW ok \in BOOLEAN, DigestProfileBlock(ok) PROVE RefusedInv'
  BY <1>0, <1>11, <1>e, <1>n, <1>b, StepRefused DEF DigestProfileBlock, p
<1>12. ASSUME NEW ok \in BOOLEAN, CompareRawHash(ok) PROVE RefusedInv'
  <2> DEFINE c == pkg.signature.content
  <2>1. KnownAt(8) /\ ret = None /\ pkg \in Packages /\ digests \in Digests
    BY <1>0, <1>12, <1>e, <1>k DEF CompareRawHash, TypeInv
  <2>2. pkg.signature # None /\ Computable(pkg)
    BY <2>1 DEF KnownAt
  <2>3. Digested /\ Len(digests.slots) = digests.room
    BY <1>0, <1>12 DEF CompareRawHash, DigestInv
  <2>4. ~ok => ~Policy!SignedAsIs(pkg) \/ Policy!DigestCut(pkg)
    BY <1>12, <2>1, <2>2, <2>3, CompareAgrees DEF CompareRawHash
  <2>5. ~ok => Reason
    BY <1>n, <2>4 DEF Reason, p
  <2>6. CASE ok
    BY <1>12, <2>1, <2>6 DEF CompareRawHash, RefusedInv
  <2>7. CASE ~ok
    <3>1. Reason'
      BY <1>12, <2>5, <2>7, PolicyUnmoved DEF CompareRawHash, Reason
    <3> QED
      BY <1>12, <1>b, <2>7, <3>1 DEF CompareRawHash, RefusedInv
  <2> QED
    BY <2>6, <2>7
<1>13. ASSUME NEW ok \in BOOLEAN, VerifySignerSignature(ok) PROVE RefusedInv'
  <2>1. KnownAt(9) /\ ret = None
    BY <1>13, <1>e, <1>k DEF VerifySignerSignature
  <2> QED
    BY <1>0, <1>13, <1>n, <1>b, <2>1, StepRefused, <1>v DEF VerifySignerSignature,
                                                            KnownAt, p, m
<1>14. ASSUME NEW ok \in BOOLEAN, GetCertInfo(ok) PROVE RefusedInv'
  BY <1>0, <1>14, <1>e, <1>b, StepRefused DEF GetCertInfo
<1>15. ASSUME NEW ok \in BOOLEAN, GetProfileBlock(ok) PROVE RefusedInv'
  BY <1>0, <1>15, <1>e, <1>n, <1>b, StepRefused DEF GetProfileBlock, p
<1>16. ASSUME NEW ok \in BOOLEAN, VerifyProfileSign(ok) PROVE RefusedInv'
  <2>1. SignatureGood /\ ret = None
    BY <1>0, <1>16, <1>e, KnownIsGood DEF VerifyProfileSign, Inv
  <2>2. certType # "gallery" /\ ~ProfileSigned(pkg.profile.msg) => Reason
    BY <1>0, <1>16, <1>n, <2>1, ProfileAgrees DEF VerifyProfileSign, SignatureGood
  <2> QED
    BY <1>0, <1>16, <1>b, <2>1, <2>2, StepRefused DEF VerifyProfileSign
<1>17. ASSUME NEW ok \in BOOLEAN, BeginParse(ok) PROVE RefusedInv'
  <2>1. text # None \/ Reason
    BY <1>0, <1>17, <1>n DEF BeginParse, ResultInv
  <2> QED
    BY <1>0, <1>17, <1>e, <2>1, StepRefused DEF BeginParse
<1>18. ASSUME NEW ok \in BOOLEAN, VerifyProfileContent(ok) PROVE RefusedInv'
  <2>1. SignatureGood /\ ret = None
    BY <1>0, <1>18, <1>e, KnownIsGood DEF VerifyProfileContent, Inv
  <2>2. \A field \in Policy!Tags : FieldRead(field)
    BY <1>0, <1>18 DEF VerifyProfileContent, ResultInv
  <2>3. (VerifyAppTypeAndDistribution(result) /\ VerifyAppBundleInfo(result)
         /\ VerifyDebugInfo(result)) \/ Reason
    BY <1>0, <1>18, <2>1, <2>2, ResultIsRefused DEF VerifyProfileContent, Reason
  <2> QED
    BY <1>0, <1>18, <2>1, <2>3, StepRefused DEF VerifyProfileContent
<1>19. ASSUME NEW ok \in BOOLEAN, GetAppid(ok) PROVE RefusedInv'
  <2>1. SignatureGood /\ ret = None
    BY <1>0, <1>19, <1>e, KnownIsGood DEF GetAppid, Inv
  <2>2. \A field \in Policy!Tags : FieldRead(field)
    BY <1>0, <1>19 DEF GetAppid, ResultInv
  <2>3. AppidCert \in Certs \/ Reason
    BY <1>0, <1>19, <2>1, <2>2, ResultIsRefused DEF GetAppid, Reason, AppidCert, HasKey
  <2> QED
    BY <1>0, <1>19, <2>1, <2>3, StepRefused DEF GetAppid, AppidCert, HasKey
<1>20. ASSUME NEW ok \in BOOLEAN, CheckAppSource(ok) PROVE RefusedInv'
  <2>1. SignatureGood /\ ret = None
    BY <1>0, <1>20, <1>e, KnownIsGood DEF CheckAppSource, Inv
  <2>2. \A field \in Policy!Tags : FieldRead(field)
    BY <1>0, <1>20 DEF CheckAppSource, ResultInv
  <2>3. CheckAppSignCert \/ Reason
    BY <1>0, <1>20, <2>1, <2>2, ResultIsRefused DEF CheckAppSource, Reason
  <2> QED
    BY <1>0, <1>20, <2>1, <2>3, StepRefused DEF CheckAppSource
<1>21. ASSUME NEW got, NEW ok \in BOOLEAN, ReadField(got, ok) PROVE RefusedInv'
  <2> DEFINE field == Fields[at]
             good == ~(field \in Required /\ Tagged(field) = None)
  <2>1. /\ pc = "field" /\ ret = None /\ text = Profiled
        /\ UNCHANGED <<debug, pkg>>
        /\ ret' = IF ok THEN ret ELSE "refused"
        /\ ~ok => result' = NoProfile
    BY <1>0, <1>21, <1>e DEF ReadField, ResultInv
  <2>2. CASE ok
    BY <2>1, <2>2 DEF RefusedInv
  <2>3. CASE ~ok
    <3>1. ~good => Reason
      <4>1. ASSUME ~good PROVE field \in Policy!RequiredTags /\ Profiled[field] = None
        <5>1. field \in Required /\ Tagged(field) = None
          BY <4>1
        <5>2. field \notin Arrays /\ field \in Policy!RequiredTags
          BY <5>1 DEF Required, Arrays, Policy!RequiredTags
        <5> QED
          BY <2>1, <5>1, <5>2 DEF Tagged
      <4>2. ~good => ~Policy!Complete(Profiled)
        BY <4>1 DEF Policy!Complete
      <4> QED
        BY <1>n, <4>2
    <3>2. good => faulted'
      BY <1>21, <2>3 DEF ReadField
    <3> HIDE DEF good
    <3>3. Reason'
      <4>1. CASE faulted'
        BY <4>1 DEF Reason
      <4>2. CASE ~faulted'
        <5>1. ~faulted /\ faulted' = faulted
          BY <1>0, <1>21, <4>2 DEF ReadField
        <5> QED
          BY <2>1, <3>1, <3>2, <4>2, <5>1, PolicyUnmoved DEF Reason
      <4> QED
        BY <4>1, <4>2
    <3> QED
      BY <2>1, <2>3, <3>3 DEF RefusedInv
  <2> QED
    BY <2>2, <2>3
<1>22. ASSUME FreeBinSign \/ FreeBinSignCert PROVE RefusedInv'
  <2>1. UNCHANGED <<debug, pkg, faulted, result, ret>> /\ pc \in InCall
    BY <1>22 DEF FreeBinSign, FreeBinSignCert
  <2> QED
    BY <1>0, <2>1, PolicyUnmoved DEF RefusedInv, Reason
<1>23. ASSUME EndParse PROVE RefusedInv'
  BY <1>0, <1>23, <1>e DEF EndParse, RefusedInv
<1>24. ASSUME CloseFile PROVE RefusedInv'
  BY <1>24 DEF CloseFile, RefusedInv
<1> QED
  BY <1>1, <1>2, <1>3, <1>4, <1>5, <1>6, <1>7, <1>8, <1>9, <1>10, <1>11, <1>12, <1>13,
     <1>14, <1>15, <1>16, <1>17, <1>18, <1>19, <1>20, <1>21, <1>22, <1>23, <1>24 DEF Handler

-----------------------------------------------------------------------------
(* What the result says.                                                   *)

LEMMA NoProfileIsResult == IsResult(NoProfile)
BY DEF IsResult, NoProfile

LEMMA FieldStaysRead ==
    ASSUME UNCHANGED <<debug, pkg>>, faulted => faulted', NEW field,
           result'[field] = result[field], FieldRead(field)
    PROVE  FieldRead(field)'
<1>1. Profiled' = Profiled
  BY PolicyUnmoved
<1> QED
  BY <1>1 DEF FieldRead, Full

\* Each field is read once: what is read of one leaves the others alone.
LEMMA FieldsDiffer ==
    /\ DOMAIN Fields = 1..13 /\ Len(Fields) = 13
    /\ \A i \in 1..13 : Fields[i] \in Policy!Tags
    /\ \A i, j \in 1..13 : i # j => Fields[i] # Fields[j]
    /\ \A tag \in Policy!Tags : \E i \in 1..13 : Fields[i] = tag
    /\ \A i \in 1..13 : Fields[i] = "ids" => i > 11
    /\ Fields[11] = "idType"
<1>1. DOMAIN Fields = 1..13 /\ Len(Fields) = 13
  BY DEF Fields
<1>2. \A i \in 1..13 : Fields[i] \in Policy!Tags
  BY TagsAreFields DEF Fields
<1>3. \A i, j \in 1..13 : i # j => Fields[i] # Fields[j]
  BY DEF Fields
<1>4. \A tag \in Policy!Tags : \E i \in 1..13 : Fields[i] = tag
  BY TagsAreFields DEF Fields
<1>5. /\ \A i \in 1..13 : Fields[i] = "ids" => i > 11
      /\ Fields[11] = "idType"
  BY DEF Fields
<1> QED
  BY <1>1, <1>2, <1>3, <1>4, <1>5

\* What ReadField makes of a field.
LEMMA FieldIsRead ==
    ASSUME debug \in BOOLEAN, faulted \in BOOLEAN, text = Profiled,
           at \in DOMAIN Fields, IsResult(result),
           \A i \in 1..13 : i < at => FieldRead(Fields[i]),
           NEW got, ReadField(got, TRUE)
    PROVE  /\ \A field : field = Fields[at] => FieldRead(field)'
           /\ \A field \in DOMAIN NoProfile \ {Fields[at]} : result'[field] = result[field]
           /\ IsResult(result')
           /\ faulted => faulted'
<1> DEFINE field == Fields[at]
           kept == IF got = None /\ field \in Defaulted THEN DefaultFor(field) ELSE got
           missed == got = None /\ ~Skipped(field) /\ Tagged(field) # None
<1>1. /\ field \in Policy!Tags /\ field \in DOMAIN NoProfile
      /\ Policy!Tags = {"head", "type", "dist", "developer", "dev", "release", "bundle",
                        "permissionObject", "permissions", "restricted", "idType", "ids",
                        "issuer"}
  BY FieldsDiffer, TagsAreFields
<1>2. /\ result' = [result EXCEPT ![field] = kept]
      /\ UNCHANGED <<debug, pkg>>
      /\ faulted' = (faulted \/ missed)
      /\ got \in IF Skipped(field) THEN {None} ELSE {Tagged(field), None}
      /\ ~(field \in Required /\ got = None)
  BY DEF ReadField, call
<1> HIDE DEF kept
<1>3. /\ result'[field] = kept
      /\ \A f \in DOMAIN NoProfile \ {field} : result'[f] = result[f]
      /\ IsResult(result')
  <2> HIDE DEF field
  <2> QED
    BY <1>1, <1>2 DEF IsResult
<1>4. Profiled' = Profiled
  BY <1>2, PolicyUnmoved
<1>5. field \in Policy!RequiredTags <=> field \in Required
  BY DEF Required, Policy!RequiredTags
<1>6. Policy!DefaultOf(field) = IF field \in Defaulted THEN DefaultFor(field) ELSE None
  BY <1>1 DEF Policy!DefaultOf, Policy!DefaultedTags, Defaulted, DefaultFor
<1>7. Policy!Value(Profiled, field) =
         IF field = "ids" /\ Profiled["idType"] = None THEN None ELSE Tagged(field)
  BY <1>1 DEF Policy!Value, Policy!ListTags, Policy!Elements, Elements, Tagged, Arrays
<1>8. ASSUME field = "ids"
      PROVE  /\ Skipped(field) => \/ Profiled["idType"] = None
                                  \/ faulted
             /\ ~Skipped(field) => Profiled["idType"] # None
  <2>1. FieldRead("idType")
    BY <1>8, FieldsDiffer
  <2>2. /\ Policy!Value(Profiled, "idType") = Profiled["idType"]
        /\ Policy!DefaultOf("idType") = None
    BY DEF Policy!Value, Policy!ListTags, Policy!DefaultOf, Policy!DefaultedTags
  <2>3. \/ result["idType"] = Profiled["idType"]
        \/ faulted /\ result["idType"] = None
    BY <2>1, <2>2 DEF FieldRead, Full
  <2> QED
    BY <1>8, <2>3 DEF Skipped
<1>9. field # "ids" => ~Skipped(field)
  BY DEF Skipped
<1> HIDE DEF field
<1>10. ASSUME field \in Policy!RequiredTags PROVE Profiled[field] # None
  <2>1. field \notin Arrays /\ field # "ids"
    BY <1>10 DEF Policy!RequiredTags, Arrays
  <2>2. Tagged(field) = Profiled[field]
    BY <2>1 DEF Tagged
  <2> QED
    BY <1>2, <1>5, <1>9, <1>10, <2>1, <2>2
<1>11. \/ kept = Full(field)
       \/ /\ faulted' /\ field \in Policy!OptionalTags
          /\ kept = Policy!DefaultOf(field)
  <2>1. CASE Skipped(field)
    <3>1. field = "ids" /\ got = None /\ kept = Policy!DefaultOf(field)
      BY <1>2, <1>6, <1>9, <2>1 DEF kept
    <3>2. field \in Policy!OptionalTags
      BY <3>1 DEF Policy!OptionalTags, Policy!ListTags
    <3>3. Profiled["idType"] = None => kept = Full(field)
      BY <1>7, <3>1 DEF Full
    <3> QED
      BY <1>2, <1>8, <2>1, <3>1, <3>2, <3>3
  <2>2. CASE ~Skipped(field)
    <3>1. Policy!Value(Profiled, field) = Tagged(field)
      BY <1>7, <1>8, <2>2
    <3>2. CASE got # None
      BY <1>2, <2>2, <3>1, <3>2 DEF Full, kept
    <3>3. CASE got = None /\ Tagged(field) = None
      BY <1>6, <3>1, <3>3 DEF Full, kept
    <3>4. CASE got = None /\ Tagged(field) # None
      <4>1. faulted' /\ kept = Policy!DefaultOf(field)
        BY <1>2, <1>6, <2>2, <3>4 DEF kept
      <4>2. field \in Policy!OptionalTags
        BY <1>1, <1>2, <1>5, <3>4, TagsAreFields
      <4> QED
        BY <4>1, <4>2
    <3> QED
      BY <3>2, <3>3, <3>4
  <2> QED
    BY <2>1, <2>2
<1>12. ASSUME NEW f, f = field PROVE FieldRead(f)'
  BY <1>3, <1>4, <1>10, <1>11, <1>12 DEF FieldRead, Full
<1>13. \A f : f = field => FieldRead(f)'
  BY <1>12
<1> QED
  BY <1>2, <1>3, <1>13 DEF field

\* The checks of the profile do not look at the appid.
LEMMA ChecksStay ==
    ASSUME \A field \in Policy!Tags : result'[field] = result[field]
    PROVE  /\ VerifyAppTypeAndDistribution(result)' <=> VerifyAppTypeAndDistribution(result)
           /\ VerifyAppBundleInfo(result)' <=> VerifyAppBundleInfo(result)
           /\ VerifyDebugInfo(result)' <=> VerifyDebugInfo(result)
           /\ AppidCert' = AppidCert
<1>1. /\ result'["type"] = result["type"] /\ result'["dist"] = result["dist"]
      /\ result'["dev"] = result["dev"] /\ result'["release"] = result["release"]
      /\ result'["idType"] = result["idType"] /\ result'["ids"] = result["ids"]
  BY TagsAreFields
<1> QED
  BY <1>1 DEF VerifyAppTypeAndDistribution, VerifyAppBundleInfo, VerifyDebugInfo,
              VerifyUdid, AppidCert

LEMMA ResultKept ==
    ASSUME Inv, Handler
    PROVE  ResultInv'
<1>0. /\ HeldInv /\ TypeInv /\ Known /\ ResultInv /\ RefusedInv /\ pc \in PCs
      /\ debug \in BOOLEAN /\ pkcsDebug = debug /\ faulted \in BOOLEAN
      /\ pc # "idle" => pkg \in Packages
      /\ at \in DOMAIN Fields
  BY DEF Inv, HeldInv, TypeInv, TypeOK, Known
<1>e. pc \notin {"idle", "exit", "freeInfo", "close", "answered"} => ret = None
  BY <1>0 DEF HeldInv, ErrorExits
<1>r. "refused" # None
  BY LiteAssumption
<1>b. pc \in BeforeParse => result = NoProfile
  BY <1>0 DEF ResultInv
<1>f. IsResult(result) /\ IsResult(NoProfile)
  BY <1>0, NoProfileIsResult DEF ResultInv
\* An error leaves nothing to be shown of the result.
<1>x. ASSUME result' = NoProfile, ret' # None,
             pc' \in (BeforeParse \cup {"freeInfo", "close"}) \ {"parse"}
      PROVE  ResultInv'
  BY <1>f, <1>x DEF ResultInv, BeforeParse, InCall, PCs
\* Before the parse there is no result.
<1>y. ASSUME result' = NoProfile, pc' \in BeforeParse \ {"parse"}
      PROVE  ResultInv'
  BY <1>f, <1>y DEF ResultInv, BeforeParse, InCall, PCs
<1> USE DEF call
<1>1. ASSUME NEW ok \in BOOLEAN,
             \/ InitVerify(ok) \/ GetSignHead(ok) \/ GetSignBlock(ok)
             \/ GetBinSignPkcs(ok) \/ GetFileRead(ok) \/ GetAppSingerCertType(ok)
             \/ VerifyCertsChain(ok) \/ BeginRawHash(ok) \/ DigestChunk(ok)
             \/ DigestProfileBlock(ok) \/ VerifySignerSignature(ok) \/ GetCertInfo(ok)
             \/ GetProfileBlock(ok)
      PROVE  ResultInv'
  <2>1. result' = result /\ pc \in BeforeParse
    BY <1>1 DEF BeforeParse, InCall, PCs, InitVerify, GetSignHead, GetSignBlock,
                GetBinSignPkcs, GetFileRead, GetAppSingerCertType, VerifyCertsChain,
                BeginRawHash, DigestChunk, DigestProfileBlock, VerifySignerSignature,
                GetCertInfo, GetProfileBlock
  <2>2. \/ pc' \in BeforeParse \ {"parse"}
        \/ ret' # None /\ pc' \in (BeforeParse \cup {"freeInfo", "close"}) \ {"parse"}
    BY <1>1, <1>r DEF BeforeParse, InCall, PCs, Goes, InitVerify, GetSignHead,
                      GetSignBlock, GetBinSignPkcs, GetFileRead, GetAppSingerCertType,
                      VerifyCertsChain, BeginRawHash, DigestChunk, DigestProfileBlock,
                      VerifySignerSignature, GetCertInfo, GetProfileBlock
  <2> QED
    BY <1>b, <1>x, <1>y, <2>1, <2>2
<1>2. ASSUME NEW ok \in BOOLEAN, CompareRawHash(ok) PROVE ResultInv'
  <2>1. result' = NoProfile /\ pc' \in BeforeParse \ {"parse"}
    BY <1>b, <1>2 DEF CompareRawHash, BeforeParse, InCall, PCs
  <2> QED
    BY <1>y, <2>1
<1>3. ASSUME NEW ok \in BOOLEAN, StatFile(ok) PROVE ResultInv'
  <2>1. CASE ok
    <3>1. /\ ret' = ret /\ ret = None /\ result' = result /\ pc' = "close" /\ pc = "stat"
          /\ faulted' = faulted /\ UNCHANGED <<debug, pkg>>
      BY <1>0, <1>3, <1>e, <2>1 DEF StatFile, Goes
    <3>2. result \in Policy!Accepts(pkg)
      BY <1>0, <3>1 DEF ResultInv
    <3>3. (result \in Policy!Accepts(pkg))'
      BY <3>1, <3>2, PolicyUnmoved
    <3> QED
      BY <1>f, <3>1, <3>3 DEF ResultInv, BeforeParse, InCall, PCs
  <2>2. CASE ~ok
    BY <1>3, <1>r, <1>x, <2>2 DEF StatFile, Goes
  <2> QED
    BY <2>1, <2>2
<1>4. ASSUME NEW ok \in BOOLEAN, VerifyProfileSign(ok) PROVE ResultInv'
  <2>1. SignatureGood /\ pc = "profileSign" /\ result' = NoProfile
    BY <1>0, <1>4, <1>b, <1>e, KnownIsGood, StageAt
       DEF VerifyProfileSign, Inv, BeforeParse, InCall, PCs
  <2>2. CASE ok
    <3>1. pc' = "parse" /\ UNCHANGED <<debug, pkg>>
      BY <1>4, <2>2 DEF VerifyProfileSign, Goes
    <3>2. text' = Profiled
      BY <1>0, <1>4, <2>1, <2>2, ProfileAgrees DEF VerifyProfileSign, Goes, SignatureGood
    <3>3. text' = Profiled'
      BY <3>1, <3>2, PolicyUnmoved
    <3> QED
      BY <1>f, <2>1, <3>1, <3>3 DEF ResultInv, BeforeParse, InCall, PCs
  <2>3. CASE ~ok
    BY <1>4, <1>r, <1>x, <2>1, <2>3 DEF VerifyProfileSign, Goes
  <2> QED
    BY <2>2, <2>3
<1>5. ASSUME NEW ok \in BOOLEAN, BeginParse(ok) PROVE ResultInv'
  <2>1. CASE ok
    <3>1. /\ pc' = "field" /\ UNCHANGED <<debug, pkg>> /\ at' = 1 /\ text' = text
          /\ text # None /\ text = Profiled /\ result' = NoProfile
      BY <1>0, <1>5, <2>1 DEF BeginParse, Goes, ResultInv
    <3>2. Profiled' = Profiled
      BY <3>1, PolicyUnmoved
    <3>3. \A i \in 1..13 : ~(i < at')
      BY <3>1
    <3> QED
      BY <1>f, <3>1, <3>2, <3>3 DEF ResultInv, BeforeParse, InCall, PCs
  <2>2. CASE ~ok
    BY <1>5, <1>r, <1>x, <2>2 DEF BeginParse, Goes
  <2> QED
    BY <2>1, <2>2
<1>6. ASSUME NEW got, NEW ok \in BOOLEAN, ReadField(got, ok) PROVE ResultInv'
  <2>1. CASE ok
    <3>1. /\ pc = "field" /\ ok = TRUE /\ ret' = ret
          /\ UNCHANGED <<debug, pkg, text>>
          /\ pc' = IF at < Len(Fields) THEN "field" ELSE "parsed"
          /\ at' = IF at < Len(Fields) THEN at + 1 ELSE 1
      BY <1>6, <2>1 DEF ReadField
    <3>2. /\ text = Profiled /\ Profiled # None
          /\ \A i \in 1..13 : i < at => FieldRead(Fields[i])
      BY <1>0, <3>1 DEF ResultInv
    <3>3. /\ \A field : field = Fields[at] => FieldRead(field)'
          /\ \A field \in DOMAIN NoProfile \ {Fields[at]} : result'[field] = result[field]
          /\ IsResult(result')
          /\ faulted => faulted'
      BY <1>0, <1>6, <1>f, <3>1, <3>2, FieldIsRead
    <3>4. at \in 1..13 /\ Len(Fields) = 13
      BY <1>0, FieldsDiffer
    <3>5. ASSUME NEW f, NEW i \in 1..13, f = Fields[i], i <= at
          PROVE  FieldRead(f)'
      <4>1. CASE i = at
        BY <3>3, <3>5, <4>1
      <4>2. CASE i < at
        <5>1. f # Fields[at] /\ f \in DOMAIN NoProfile
          BY <3>4, <3>5, <4>2, FieldsDiffer, TagsAreFields
        <5>2. result'[f] = result[f] /\ FieldRead(f)
          BY <3>2, <3>3, <3>5, <4>2, <5>1
        <5> QED
          BY <3>1, <3>3, <5>2, FieldStaysRead
      <4> QED
        BY <3>4, <3>5, <4>1, <4>2
    <3>6. text' = Profiled' /\ Profiled' # None
      BY <3>1, <3>2, PolicyUnmoved
    <3>7. CASE at < 13
      <4>1. pc' = "field" /\ at' = at + 1
        BY <3>1, <3>4, <3>7
      <4>2. ASSUME NEW i \in 1..13, i < at' PROVE FieldRead(Fields[i])'
        <5>1. i <= at
          BY <3>4, <4>1, <4>2
        <5> QED
          BY <3>5, <5>1
      <4> QED
        BY <3>3, <3>6, <4>1, <4>2 DEF ResultInv, BeforeParse, InCall, PCs
    <3>8. CASE at = 13
      <4>1. pc' = "parsed"
        BY <3>1, <3>4, <3>8
      <4>2. ASSUME NEW field \in Policy!Tags PROVE FieldRead(field)'
        <5>1. PICK i \in 1..13 : Fields[i] = field
          BY FieldsDiffer
        <5> QED
          BY <3>5, <3>8, <5>1
      <4>3. (\A field \in Policy!Tags : FieldRead(field))'
        BY <4>2
      <4> QED
        BY <3>3, <3>6, <4>1, <4>3 DEF ResultInv, BeforeParse, InCall, PCs
    <3> QED
      BY <3>4, <3>7, <3>8
  <2>2. CASE ~ok
    BY <1>6, <1>r, <1>x, <2>2 DEF ReadField
  <2> QED
    BY <2>1, <2>2
\* What the profile checks leave as it was.
<1>s. ASSUME UNCHANGED <<debug, pkg, faulted>>,
             \A field \in Policy!Tags : result'[field] = result[field],
             pc \in {"parsed", "content", "appid"}
      PROVE  Profiled' # None /\ (\A field \in Policy!Tags : FieldRead(field))'
  <2>1. Profiled # None /\ \A field \in Policy!Tags : FieldRead(field)
    BY <1>0, <1>s DEF ResultInv
  <2>2. ASSUME NEW field \in Policy!Tags PROVE FieldRead(field)'
    BY <1>s, <2>1, FieldStaysRead
  <2> QED
    BY <1>s, <2>1, <2>2, PolicyUnmoved
<1>7. ASSUME EndParse PROVE ResultInv'
  <2>1. UNCHANGED <<debug, pkg, faulted, result>> /\ pc = "parsed" /\ pc' = "content"
    BY <1>7 DEF EndParse
  <2> QED
    BY <1>f, <1>s, <2>1 DEF ResultInv, BeforeParse, InCall, PCs
<1>8. ASSUME NEW ok \in BOOLEAN, VerifyProfileContent(ok) PROVE ResultInv'
  <2>1. CASE ok
    <3>1. /\ UNCHANGED <<debug, pkg, faulted, result>> /\ pc = "content" /\ pc' = "appid"
          /\ VerifyAppTypeAndDistribution(result) /\ VerifyAppBundleInfo(result)
          /\ VerifyDebugInfo(result)
      BY <1>0, <1>8, <2>1 DEF VerifyProfileContent, Goes
    <3> QED
      BY <1>f, <1>s, <3>1, ChecksStay DEF ResultInv, BeforeParse, InCall, PCs
  <2>2. CASE ~ok
    BY <1>8, <1>r, <1>x, <2>2 DEF VerifyProfileContent, Goes
  <2> QED
    BY <2>1, <2>2
<1>9. ASSUME NEW ok \in BOOLEAN, GetAppid(ok) PROVE ResultInv'
  <2>1. CASE ok
    <3>1. /\ UNCHANGED <<debug, pkg, faulted>> /\ pc = "appid" /\ pc' = "source"
          /\ AppidCert \in Certs
          /\ result' = [result EXCEPT !["appid"] = <<result["bundle"], AppidCert>>]
      BY <1>0, <1>9, <2>1 DEF GetAppid, Goes, HasKey, AppidCert
    <3>2. /\ "appid" \notin Policy!Tags /\ "bundle" \in Policy!Tags
          /\ DOMAIN NoProfile = Policy!Tags \cup {"appid"}
      BY TagsAreFields
    <3>3. /\ IsResult(result')
          /\ \A field \in Policy!Tags : result'[field] = result[field]
          /\ result'["appid"] = <<result["bundle"], AppidCert>>
      BY <1>f, <3>1, <3>2 DEF IsResult
    <3>4. result'["bundle"] = result["bundle"] /\ AppidCert' = AppidCert
      BY <3>2, <3>3, ChecksStay
    <3>5. /\ VerifyAppTypeAndDistribution(result)' /\ VerifyAppBundleInfo(result)'
          /\ VerifyDebugInfo(result)'
      BY <1>0, <3>1, <3>3, ChecksStay DEF ResultInv
    <3>6. Profiled' # None /\ (\A field \in Policy!Tags : FieldRead(field))'
      BY <1>s, <3>1, <3>3
    <3> QED
      BY <3>1, <3>3, <3>4, <3>5, <3>6 DEF ResultInv, BeforeParse, InCall, PCs
  <2>2. CASE ~ok
    BY <1>9, <1>r, <1>x, <2>2 DEF GetAppid, Goes
  <2> QED
    BY <2>1, <2>2
<1>10. ASSUME NEW ok \in BOOLEAN, CheckAppSource(ok) PROVE ResultInv'
  <2>1. CASE ok
    <3>1. /\ UNCHANGED <<debug, pkg, faulted>> /\ pc = "source" /\ pc' = "freeInfo"
          /\ CheckAppSignCert
          /\ result' = [result EXCEPT !["dev"] = None, !["release"] = None]
      BY <1>0, <1>10, <2>1 DEF CheckAppSource, Goes
    <3>2. SignatureGood
      BY <1>0, <1>e, <3>1, KnownIsGood, StageAt DEF Inv
    <3>3. Policy!Handed(Read) \in Policy!Accepts(pkg)
      BY <1>0, <3>1, <3>2, ResultIsAccepted DEF ResultInv
    <3>4. result' = Policy!Handed(Read)
      BY <1>0, <1>f, <3>1, ResultIsHanded DEF ResultInv
    <3>5. (result \in Policy!Accepts(pkg))'
      BY <3>1, <3>3, <3>4, PolicyUnmoved
    <3>6. IsResult(result')
      BY <1>f, <3>1 DEF IsResult
    <3> QED
      BY <3>1, <3>5, <3>6 DEF ResultInv, BeforeParse, InCall, PCs
  <2>2. CASE ~ok
    BY <1>10, <1>r, <1>x, <2>2 DEF CheckAppSource, Goes
  <2> QED
    BY <2>1, <2>2
<1>11. ASSUME FreeBinSign PROVE ResultInv'
  <2>1. /\ result' = NoProfile /\ ret' = ret
        /\ pc' = IF ret = None THEN "profileBlock" ELSE "close"
    BY <1>11, <1>b DEF FreeBinSign, BeforeParse, InCall, PCs
  <2>2. pc' \in BeforeParse \ {"parse"} \/ (ret' # None /\ pc' = "close")
    BY <2>1 DEF BeforeParse, InCall, PCs
  <2> QED
    BY <1>x, <1>y, <2>1, <2>2
<1>12. ASSUME FreeBinSignCert PROVE ResultInv'
  <2>1. /\ UNCHANGED <<debug, pkg, faulted, result, ret>> /\ pc = "freeInfo"
        /\ pc' = IF ret = None THEN "stat" ELSE "close"
    BY <1>12 DEF FreeBinSignCert
  <2>2. CASE ret = None
    <3>1. result \in Policy!Accepts(pkg)
      BY <1>0, <2>1, <2>2 DEF ResultInv
    <3>2. (result \in Policy!Accepts(pkg))'
      BY <2>1, <3>1, PolicyUnmoved
    <3> QED
      BY <1>f, <2>1, <2>2, <3>2 DEF ResultInv, BeforeParse, InCall, PCs
  <2>3. CASE ret # None
    BY <1>0, <1>x, <2>1, <2>3 DEF RefusedInv, InCall, PCs
  <2> QED
    BY <2>2, <2>3
<1>13. ASSUME CloseFile PROVE ResultInv'
  BY <1>13, <1>f DEF CloseFile, ResultInv, BeforeParse, InCall, PCs
<1> QED
  BY <1>1, <1>2, <1>3, <1>4, <1>5, <1>6, <1>7, <1>8, <1>9, <1>10, <1>11, <1>12, <1>13
     DEF Handler

\* But for the end of a call, all a step shows of itself is that something failed.
LEMMA HandlerIsHidden ==
    ASSUME Inv, Handler
    PROVE  \/ CloseFile
           \/ /\ pc \in InCall /\ pc' \in InCall
              /\ UNCHANGED <<debug, pkg>>
              /\ faulted' = TRUE \/ faulted' = faulted
<1>0. pc \in PCs /\ faulted \in BOOLEAN
  BY DEF Inv, HeldInv, TypeInv, TypeOK
<1> USE DEF InCall, PCs, call
<1>1. ASSUME NEW ok \in BOOLEAN,
             InitVerify(ok) \/ GetSignHead(ok) \/ StatFile(ok)
             \/ GetSignBlock(ok) \/ GetBinSignPkcs(ok)
      PROVE  /\ pc \in InCall /\ pc' \in InCall /\ UNCHANGED <<debug, pkg>>
             /\ faulted' = TRUE \/ faulted' = faulted
  BY <1>0, <1>1 DEF Goes, InitVerify, GetSignHead, StatFile, GetSignBlock, GetBinSignPkcs
<1>2. ASSUME NEW ok \in BOOLEAN,
             GetFileRead(ok) \/ GetAppSingerCertType(ok) \/ VerifyCertsChain(ok)
             \/ BeginRawHash(ok) \/ DigestChunk(ok)
      PROVE  /\ pc \in InCall /\ pc' \in InCall /\ UNCHANGED <<debug, pkg>>
             /\ faulted' = TRUE \/ faulted' = faulted
  BY <1>0, <1>2 DEF Goes, GetFileRead, GetAppSingerCertType, VerifyCertsChain,
                    BeginRawHash, DigestChunk
<1>3. ASSUME NEW ok \in BOOLEAN,
             DigestProfileBlock(ok) \/ VerifySignerSignature(ok) \/ GetCertInfo(ok)
             \/ GetProfileBlock(ok) \/ VerifyProfileSign(ok)
      PROVE  /\ pc \in InCall /\ pc' \in InCall /\ UNCHANGED <<debug, pkg>>
             /\ faulted' = TRUE \/ faulted' = faulted
  BY <1>0, <1>3 DEF Goes, DigestProfileBlock, VerifySignerSignature, GetCertInfo,
                    GetProfileBlock, VerifyProfileSign
<1>4. ASSUME NEW ok \in BOOLEAN,
             BeginParse(ok) \/ VerifyProfileContent(ok) \/ GetAppid(ok)
             \/ CheckAppSource(ok)
      PROVE  /\ pc \in InCall /\ pc' \in InCall /\ UNCHANGED <<debug, pkg>>
             /\ faulted' = TRUE \/ faulted' = faulted
  BY <1>0, <1>4 DEF Goes, BeginParse, VerifyProfileContent, GetAppid, CheckAppSource
<1>5. ASSUME NEW got, NEW ok \in BOOLEAN, ReadField(got, ok) \/ CompareRawHash(ok)
      PROVE  /\ pc \in InCall /\ pc' \in InCall /\ UNCHANGED <<debug, pkg>>
             /\ faulted' = TRUE \/ faulted' = faulted
  BY <1>0, <1>5 DEF ReadField, CompareRawHash
<1>6. ASSUME FreeBinSign \/ EndParse \/ FreeBinSignCert
      PROVE  /\ pc \in InCall /\ pc' \in InCall /\ UNCHANGED <<debug, pkg, faulted>>
  BY <1>6 DEF FreeBinSign, EndParse, FreeBinSignCert
<1> QED
  BY <1>1, <1>2, <1>3, <1>4, <1>5, <1>6 DEF Handler

LEMMA InvInit == Init => Inv
<1>1. Init => HeldInv
  BY MayHoldAt DEF Init, HeldInv, HeldWhereFreed, ErrorExits, PCs
<1>2. Init => TypeInv
  <2>1. NoDigests \in Digests /\ Len(NoDigests.slots) <= NoDigests.room
        /\ NoDigests.room \in Nat /\ NoDigests.left \in Nat
    BY DEF NoDigests, Digests, Sections
  <2>2. 1 \in DOMAIN Fields
    BY DEF Fields
  <2> QED
    BY <2>1, <2>2 DEF Init, TypeInv, TypeOK, PCs
<1>3. Init => Known
  <2>1. Init => Stage(pc) = 0 /\ pkcsDebug = debug
    BY StageAt DEF Init
  <2>2. KnownAt(0)
    BY DEF KnownAt
  <2> QED
    BY <2>1, <2>2 DEF Known
<1>4. Init => DigestInv /\ ResultInv /\ RefusedInv /\ Answered
  BY NoProfileIsResult
     DEF Init, Answered, DigestInv, ResultInv, RefusedInv, BeforeParse, InCall, PCs
<1> QED
  BY <1>1, <1>2, <1>3, <1>4 DEF Inv

LEMMA CallerKeepsInv ==
    ASSUME Inv, Caller
    PROVE  Inv'
<1>1. HeldInv' /\ TypeInv'
  BY CallerKeepsHeld, CallerTyped DEF Inv
<1>2. ASSUME NEW mode \in BOOLEAN, NEW ok \in BOOLEAN, SetDebugMode(mode, ok)
      PROVE  Known' /\ DigestInv' /\ ResultInv' /\ RefusedInv' /\ Answered'
  <2>1. pc = "idle" /\ pc' = "idle" /\ result' = result /\ pkcsDebug' = debug'
    BY <1>2 DEF SetDebugMode, Inv, Known
  <2> QED
    BY <2>1, StageAt, NoProfileIsResult
       DEF Inv, Known, KnownAt, DigestInv, ResultInv, RefusedInv, Answered, BeforeParse,
           InCall, PCs
<1>3. ASSUME NEW p \in Packages, AppVerify(p)
      PROVE  Known' /\ DigestInv' /\ ResultInv' /\ RefusedInv' /\ Answered'
  <2>1. /\ pc = "idle" /\ pc' = "open" /\ ret' = None /\ result' = result
        /\ UNCHANGED <<debug, pkcsDebug>>
    BY <1>3 DEF AppVerify
  <2> QED
    BY <2>1, StageAt, NoProfileIsResult
       DEF Inv, Known, KnownAt, DigestInv, ResultInv, RefusedInv, Answered, BeforeParse,
           InCall, PCs
<1>4. ASSUME FreeVerifyRst
      PROVE  Known' /\ DigestInv' /\ ResultInv' /\ RefusedInv' /\ Answered'
  <2>1. pc' = "idle" /\ result' = NoProfile /\ UNCHANGED <<debug, pkcsDebug>>
    BY <1>4 DEF FreeVerifyRst
  <2> QED
    BY <2>1, StageAt, NoProfileIsResult
       DEF Inv, Known, KnownAt, DigestInv, ResultInv, RefusedInv, Answered, BeforeParse,
           InCall, PCs
<1> QED
  BY <1>1, <1>2, <1>3, <1>4 DEF Inv, Caller

LEMMA InvStep == Inv /\ [Next]_vars => Inv'
<1> SUFFICES ASSUME Inv, [Next]_vars PROVE Inv'
  OBVIOUS
<1>1. CASE Handler
  <2>1. Answered'
    <3>1. CASE CloseFile
      BY <3>1, LiteAssumption DEF CloseFile, Answered
    <3>2. CASE pc' \in InCall
      BY <3>2 DEF InCall, Answered
    <3> QED
      BY <1>1, <3>1, <3>2, HandlerIsHidden
  <2> QED
    BY <1>1, <2>1, HandlerKeepsHeld, HandlerTyped, KnownKept, DigestKept, ResultKept,
       RefusedKept DEF Inv
<1>2. CASE Caller
  BY <1>2, CallerKeepsInv
<1>3. CASE UNCHANGED vars
  <2>1. /\ UNCHANGED <<debug, pkcsDebug, pc, pkg, ret, certType, held, digests, text, at>>
        /\ UNCHANGED <<result, faulted>>
    BY <1>3 DEF vars, call
  <2>2. HeldInv' /\ TypeInv'
    BY <2>1 DEF Inv, HeldInv, HeldWhereFreed, ErrorExits, TypeInv, TypeOK
  <2>3. Known'
    BY <2>1, KnownStays DEF Inv
  <2>4. Digested' = Digested /\ ChunksPlaced' = ChunksPlaced
    BY <2>1 DEF Digested, ChunksPlaced
  <2>5. DigestInv'
    BY <2>1, <2>4 DEF Inv, DigestInv
  <2>6. Profiled' = Profiled /\ Policy!Accepts(pkg)' = Policy!Accepts(pkg)
    BY <2>1, PolicyUnmoved
  <2>7. RefusedInv' /\ Answered'
    BY <2>1, <2>6 DEF Inv, RefusedInv, Reason, Answered
  <2>8. ResultInv'
    <3>1. ASSUME NEW field, FieldRead(field) PROVE FieldRead(field)'
      BY <2>1, <3>1, FieldStaysRead
    <3>2. \A i \in 1..13 : FieldRead(Fields[i]) => FieldRead(Fields[i])'
      BY <3>1
    <3>3. /\ VerifyAppTypeAndDistribution(result)' <=> VerifyAppTypeAndDistribution(result)
          /\ VerifyAppBundleInfo(result)' <=> VerifyAppBundleInfo(result)
          /\ VerifyDebugInfo(result)' <=> VerifyDebugInfo(result)
          /\ AppidCert' = AppidCert
      BY <2>1, ChecksStay
    <3> QED
      BY <2>1, <2>6, <3>1, <3>2, <3>3 DEF Inv, ResultInv
  <2> QED
    BY <2>2, <2>3, <2>5, <2>7, <2>8 DEF Inv
<1> QED
  BY <1>1, <1>2, <1>3 DEF Next

-----------------------------------------------------------------------------
(* The steps of LitePolicy.                                                *)

policyVars ==
    <<debug, IF pc \in {"idle", "answered"} THEN None ELSE pkg, faulted,
      IF pc = "answered" THEN ret ELSE None, IF pc = "answered" THEN result ELSE NoProfile>>

LEMMA CloseFileAnswers ==
    ASSUME Inv, CloseFile
    PROVE  Policy!Accept \/ Policy!Refuse
<1>1. /\ pc = "close" /\ pc' = "answered" /\ UNCHANGED <<debug, pkg, result, faulted>>
      /\ ret' = IF ret = None THEN "accepted" ELSE ret
      /\ pkg # None
  BY LiteAssumption DEF CloseFile, call, Inv, TypeInv
<1>2. CASE ret = None
  <2>1. result \in Policy!Accepts(pkg)
    BY <1>1, <1>2 DEF Inv, ResultInv
  <2> QED
    BY <1>1, <1>2, <2>1 DEF Policy!Accept
<1>3. CASE ret # None
  <2>1. ret = "refused" /\ result = NoProfile /\ Reason
    BY <1>1, <1>3 DEF Inv, RefusedInv, InCall, PCs
  <2> QED
    BY <1>1, <1>3, <2>1 DEF Policy!Refuse, Reason
<1> QED
  BY <1>2, <1>3

LEMMA PolicyStep ==
    Inv /\ [Next]_vars => [Policy!Next]_policyVars
<1> SUFFICES ASSUME Inv, [Next]_vars PROVE Policy!Next \/ UNCHANGED policyVars
  OBVIOUS
<1>0. /\ pc \in PCs /\ pc # "idle" => pkg \in Packages
      /\ None \notin Packages /\ None \notin {"accepted", "refused"}
      /\ NoProfile = Policy!NoResult
  BY LiteAssumption, TagsAreFields DEF Inv, HeldInv, TypeInv
<1>1. CASE CloseFile
  BY <1>1, CloseFileAnswers DEF Policy!Next
<1>2. ASSUME pc \in InCall, pc' \in InCall, UNCHANGED <<debug, pkg>>,
             faulted' = TRUE \/ faulted' = faulted
      PROVE  Policy!Next \/ UNCHANGED policyVars
  <2>1. pkg # None
    BY <1>0, <1>2 DEF InCall, PCs
  <2>2. CASE faulted' = TRUE
    BY <1>2, <2>1, <2>2 DEF Policy!Next, Policy!Fail, InCall, PCs
  <2>3. CASE faulted' = faulted
    BY <1>2, <2>3 DEF policyVars, InCall, PCs
  <2> QED
    BY <1>2, <2>2, <2>3
<1>3. ASSUME NEW mode \in BOOLEAN, NEW ok \in BOOLEAN, SetDebugMode(mode, ok)
      PROVE  Policy!Next
  <2>1. pc = "idle" /\ debug' \in BOOLEAN
        /\ UNCHANGED <<pc, pkg, ret, result, faulted>>
    BY <1>3 DEF SetDebugMode, Inv, TypeInv, TypeOK
  <2> QED
    BY <2>1 DEF Policy!Next, Policy!SetDebugMode
<1>4. ASSUME NEW p \in Packages, AppVerify(p)
      PROVE  Policy!Next
  <2>1. pc = "idle" /\ pc' = "open" /\ pkg' = p /\ faulted' = FALSE /\ debug' = debug
    BY <1>4 DEF AppVerify
  <2>2. Policy!Begin(p)
    BY <2>1 DEF Policy!Begin
  <2> QED
    BY <2>1, <2>2 DEF Policy!Next
<1>5. ASSUME FreeVerifyRst
      PROVE  Policy!Next
  <2>1. pc = "answered" /\ pc' = "idle" /\ UNCHANGED <<debug, faulted>>
    BY <1>5 DEF FreeVerifyRst
  <2>2. ret # None
    BY <2>1 DEF Inv, Answered
  <2> QED
    BY <1>0, <2>1, <2>2 DEF Policy!Next, Policy!Free
<1>6. CASE UNCHANGED vars
  BY <1>6 DEF vars, call, policyVars
<1> QED
  BY <1>1, <1>2, <1>3, <1>4, <1>5, <1>6, HandlerIsHidden DEF Next, Caller

\* The lite verifier implements LitePolicy: APPVERI_AppVerify accepts a package only
\* with what its profile says, and refuses one only for a reason, whatever the
\* packages, the sizes of their sections and the limits.
THEOREM KeepsPolicy == Spec => ImplementsPolicy
<1>1. Init => Policy!Init
  BY TagsAreFields DEF Init, Policy!Init
<1>2. Inv /\ [Next]_vars => [Policy!Next]_policyVars
  BY PolicyStep
<1> QED
  BY <1>1, <1>2, InvInit, InvStep, PTL DEF Spec, ImplementsPolicy, Policy!Spec, policyVars
=============================================================================
