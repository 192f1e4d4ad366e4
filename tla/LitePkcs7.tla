----------------------------- MODULE LitePkcs7 -----------------------------
(***************************************************************************)
(* mbedtls_pkcs7.c: the signed data of the lite verifier, from the parse   *)
(* that sorts its certificates into one path per signer to PKCS7_FreeRes.  *)
(*                                                                         *)
(* signedData.certs is a linked list.  Building a path unlinks a           *)
(* certificate from it and links it into the path of the signer, so the    *)
(* paths of two signers compete for the same issuers, and what nobody took *)
(* is freed with the list.  mbedTLS, which verifies a path and a           *)
(* signature, is external.  The globals have no lock: one thread calls.    *)
(***************************************************************************)
EXTENDS Naturals, FiniteSets, Sequences

CONSTANTS
    None,
    Messages,   \* the signed data that callers pass
    Roots,      \* the embedded root certificates, by name
    Listed,     \* g_trustAppList: subject and issuer, as text, by use
    ListedTest, \* g_trustAppListTest: those that debug mode adds
    MaxDepth    \* CERT_MAX_DEPTH

VARIABLES
    debugMode,  \* g_debugModeEnabled
    rootLoaded, \* g_rootCertLoaded
    pc,         \* where the call is
    use,        \* who calls: for the signature of the app or of the profile
    msg,        \* the message
    read,       \* how many of its certificates have been parsed
    list,       \* signedData.certs, each certificate by its place in the message
    path,       \* certPath of every SignerInfo parsed
    at,         \* the signer the loops are at
    scan,       \* scanCnt and certsCnt of BuildSignerCertPath
    fault       \* history: an allocation or a parse failed, not the message

data == <<msg, use, read>>
vars == <<debugMode, rootLoaded, pc, use, msg, read, list, path, at, scan, fault>>

NameType == [fold : STRING, text : STRING, legal : BOOLEAN]
CertType == [subject : NameType, issuer : NameType, serial : Nat,
             key : STRING, by : STRING]

SignerType == [issuer : NameType, serial : Nat, digestAlg : STRING,
               encAlg : STRING, attributes : {None} \cup Seq(STRING), by : STRING]

\* The signatures that a caller has checked: of the app, of the profile.
Uses == {"app", "profile"}

\* The parts of a message that may be ill-formed.
Parts == {"head", "content", "certs", "crl", "signers"}

\* A SignedData without any SignerInfo is not parsed.
IsMessage(m) ==
    /\ m.certs \in Seq(CertType)
    /\ m.signers \in Seq(SignerType) /\ m.signers # <<>>
    /\ m.bad \in Parts \cup {None}

ASSUME LitePkcs7Assumption ==
    /\ None \notin Nat \cup Parts \cup Messages
    /\ DOMAIN Roots = {"debug", "release", "openharmony"}
    /\ \A m \in Messages : IsMessage(m)
    /\ DOMAIN Listed = Uses /\ DOMAIN ListedTest = Uses
    /\ MaxDepth \in Nat \ {0, 1}

-----------------------------------------------------------------------------
(* Names.  A name has a spelling, what is left of it when case is folded,  *)
(* and the kind of string its values are.                                  *)

\* CompareX509NameList: only UTF8 and printable strings are ever equal, so a
\* name of another kind does not even equal itself.
SameName(a, b) == a.legal /\ b.legal /\ a.fold = b.fold

\* How mbedTLS compares two names.
MbedSameName(a, b) == a = b \/ SameName(a, b)

NoScan == [count |-> 0, most |-> 0]

Init ==
    /\ debugMode = FALSE
    /\ rootLoaded = FALSE
    /\ pc = "idle"
    /\ use = "app"
    /\ msg = None
    /\ read = 0
    /\ list = <<>>
    /\ path = <<>>
    /\ at = 1
    /\ scan = NoScan
    /\ fault = FALSE

Cert(c) == msg.certs[c]

\* A step that may fail goes on or to EXIT, where the caller frees.
GoOn(ok, next) == pc' = IF ok THEN next ELSE "refused"

\* A mutant of NextSigner: the last SignerInfo has a next one.
NextSignerPastEnd(more, done) ==
    IF at <= Len(path) THEN pc' = more /\ at' = at + 1
                       ELSE pc' = done /\ at' = 1

\* A loop over the signers goes on to the next one, or is done.
NextSigner(more, done) ==
    IF at < Len(path) THEN pc' = more /\ at' = at + 1
                      ELSE pc' = done /\ at' = 1

\* A step fails on what is wrong with the message, or on a fault.
Blame(ok, wrong) == ok => ~wrong
Faulted(ok, wrong) == fault' = (fault \/ (~ok /\ ~wrong))

-----------------------------------------------------------------------------
(* PKCS7_EnableDebugMode and PKCS7_ParseSignedData.                        *)

\* The debug root is loaded before the flag is set, and when the load fails the
\* flag keeps its value; freeing the root cannot fail.
LoadDebugRoot(mode) == IF mode THEN {debugMode, TRUE} ELSE {FALSE}

EnableDebugMode(mode) ==
    /\ pc = "idle"
    /\ debugMode' \in LoadDebugRoot(mode)
    /\ UNCHANGED <<rootLoaded, pc, data, list, path, at, scan, fault>>

\* Both roots of every mode are loaded, then the outer ContentInfo is read.
BeginParse(m, u, loads, ok) ==
    /\ msg' = m
    /\ use' = u
    /\ rootLoaded' = loads
    /\ ok => loads /\ m.bad # "head"
    /\ fault' = (~ok /\ m.bad # "head")
    /\ GoOn(ok, "content")
    /\ UNCHANGED <<debugMode, read, list, path, at, scan>>

\* Version, digest algorithms and the inner ContentInfo.
ParseContent(ok) ==
    /\ pc = "content"
    /\ Blame(ok, msg.bad = "content")
    /\ Faulted(ok, msg.bad = "content")
    /\ GoOn(ok, "certs")
    /\ UNCHANGED <<debugMode, rootLoaded, data, list, path, at, scan>>

\* Certificates join the list one by one; the ones before a bad one stay.
ParseSignedDataCerts(n) ==
    LET ok    == n = Len(msg.certs) /\ msg.bad # "certs"
    IN  /\ pc = "certs"
        /\ read' = n
        /\ list' = [i \in 1..n |-> i]
        /\ Faulted(ok, msg.bad = "certs")
        /\ GoOn(ok, "crl")
        /\ UNCHANGED <<debugMode, rootLoaded, msg, use, path, at, scan>>

ParseSignedDataCrl(ok) ==
    /\ pc = "crl"
    /\ Blame(ok, msg.bad = "crl")
    /\ Faulted(ok, msg.bad = "crl")
    /\ GoOn(ok, "signer")
    /\ UNCHANGED <<debugMode, rootLoaded, data, list, path, at, scan>>

\* The algorithms of a SignerInfo are among the accepted ones.
AcceptedAlgorithms(s) ==
    /\ s.digestAlg \in {"sha256", "sha384", "sha512"}
    /\ s.encAlg \in {"rsa", "ecdsa", "rsassaPss"}

\* One SignerInfo; the node of the next one is allocated when it is done.
ParseSigner(ok) ==
    LET n     == Len(path) + 1
        wrong == msg.bad = "signers" \/ ~AcceptedAlgorithms(msg.signers[n])
    IN  /\ pc = "signer"
        /\ Blame(ok, wrong)
        /\ Faulted(ok, wrong)
        /\ path' = Append(path, <<>>)
        /\ GoOn(ok, IF n < Len(msg.signers) THEN "signer" ELSE "leaf")
        /\ UNCHANGED <<debugMode, rootLoaded, data, list, at, scan>>

-----------------------------------------------------------------------------
(* ConstructSignerCerts: the path of each signer, out of what is left.     *)

\* The first certificate of the list with the property P, or None.
FirstOfList(P(_)) ==
    LET found == {i \in DOMAIN list : P(list[i])}
    IN  IF found = {} THEN None
        ELSE list[CHOOSE i \in found : \A j \in found : i <= j]

PlaceOf(c) == CHOOSE i \in DOMAIN list : list[i] = c

Unlinked(i) == SubSeq(list, 1, i - 1) \o SubSeq(list, i + 1, Len(list))

\* A mutant of DelCertOfSignedData: the head of the list is not unlinked.
DelUnlessHead(c) == IF c = Head(list) THEN list ELSE Unlinked(PlaceOf(c))

DelCertOfSignedData(c) == Unlinked(PlaceOf(c))

AddCertToSignerCertPath(c) == path' = [path EXCEPT ![at] = Append(@, c)]

IsLeafOf(s, c) ==
    /\ s.serial = Cert(c).serial
    /\ SameName(s.issuer, Cert(c).issuer)

FindLeaf(s) == FirstOfList(LAMBDA c : IsLeafOf(s, c))

\* The certificate that the signer names, and the start of its path.
FindSignerCert ==
    LET leaf == FindLeaf(msg.signers[at])
    IN  /\ pc = "leaf"
        /\ IF leaf = None \/ ~rootLoaded
           THEN pc' = "refused" /\ UNCHANGED <<list, path, scan>>
           ELSE /\ list' = DelCertOfSignedData(leaf)
                /\ AddCertToSignerCertPath(leaf)
                /\ scan' = [count |-> 0, most |-> Len(list)]
                /\ pc' = "super"
        /\ UNCHANGED <<debugMode, rootLoaded, data, at, fault>>

\* A mutant of FindSuperCert: letters of different case differ.
FindSameSpelling(c) ==
    FirstOfList(LAMBDA d : Cert(c).issuer.text = Cert(d).subject.text)

\* The first certificate left whose subject is the issuer of c.
FindSuperCert(c) ==
    FirstOfList(LAMBDA d : SameName(Cert(c).issuer, Cert(d).subject))

\* The path grows while an issuer is left in the list, whoever signed with it.
BuildSignerCertPath ==
    LET super == FindSuperCert(path[at][Len(path[at])])
    IN  /\ pc = "super"
        /\ IF super = None
           THEN /\ NextSigner("leaf", IF use = "app" THEN "resolve" ELSE "chain")
                /\ UNCHANGED <<list, path, scan>>
           ELSE /\ list' = DelCertOfSignedData(super)
                /\ AddCertToSignerCertPath(super)
                /\ scan' = [scan EXCEPT !.count = @ + 1]
                /\ pc' = IF scan.count + 1 > scan.most THEN "refused" ELSE "super"
                /\ UNCHANGED at
        /\ UNCHANGED <<debugMode, rootLoaded, data, fault>>

-----------------------------------------------------------------------------
(* What the callers do with it, in the order of each caller.               *)

\* A mutant of Depth: the root is counted only when it is in the message.
PathLength(p) == Len(p)

\* A certificate that names itself as its issuer ends the path; for any other
\* the root is counted as well.
Depth(p) ==
    LET last == Cert(p[Len(p)])
    IN  IF SameName(last.issuer, last.subject) THEN Len(p) ELSE Len(p) + 1

\* The trust lists for this use compare subject and issuer of a signer as text.
InTrustList(c) ==
    <<c.subject.text, c.issuer.text>> \in
        Listed[use] \cup (IF debugMode THEN ListedTest[use] ELSE {})

\* A listed first signer may not stand too far below its root.
TooDeep(p) == InTrustList(Cert(p[1])) /\ Depth(p) > MaxDepth

\* The signer of a profile must be listed; that of an app need not be.
NoSource(p) == use = "profile" /\ ~InTrustList(Cert(p[1]))

\* PKCS7_GetAllSignersResolvedInfo, and what the caller does with it.
ResolveSigners(ok) ==
    LET wrong == TooDeep(path[1]) \/ NoSource(path[1])
    IN  /\ pc = "resolve"
        /\ Blame(ok, wrong)
        /\ Faulted(ok, wrong)
        /\ GoOn(ok, IF use = "app" THEN "chain" ELSE "signature")
        /\ UNCHANGED <<debugMode, rootLoaded, data, list, path, at, scan>>

\* IsRevoked: a CRL lists the serial number of c.
Lists(crl, c) == c.serial \in crl.serials

\* What mbedTLS asks of a certificate and its issuer: no CRL of the issuer is
\* forged or lists what it signed.
Signs(up, c) ==
    /\ MbedSameName(c.issuer, up.subject)
    /\ c.by = up.key
    /\ \A k \in DOMAIN msg.crls :
          MbedSameName(msg.crls[k].issuer, up.subject) =>
              msg.crls[k].by = up.key /\ ~Lists(msg.crls[k], c)

\* mbedtls_x509_crt_verify: the first certificate of p leads to the root over
\* certificates further down in p, with q those on the way.
MbedVerifies(p, root) ==
    \E n \in 1..Len(p) : \E q \in [1..n -> DOMAIN p] :
        /\ q[1] = 1
        /\ \A i \in 1..(n - 1) :
              q[i] < q[i + 1] /\ Signs(Cert(p[q[i + 1]]), Cert(p[q[i]]))
        /\ Signs(root, Cert(p[q[n]]))

\* VerifyCrl: the CRLs whose issuer is the issuer of the certificate.
VerifyCrl(c) ==
    \A k \in DOMAIN msg.crls :
        SameName(msg.crls[k].issuer, c.issuer) => ~Lists(msg.crls[k], c)

VerifyClicert(p, root) ==
    IF ~MbedVerifies(p, root) THEN "unverified"
    ELSE IF VerifyCrl(Cert(p[1])) THEN "verified" ELSE "revoked"

TriedRoots ==
    (IF debugMode THEN <<Roots["debug"]>> ELSE <<>>)
        \o <<Roots["release"], Roots["openharmony"]>>

\* A root verifies the signer, and none before it finds it revoked.
ChainVerified(p) ==
    \E r \in DOMAIN TriedRoots :
        /\ VerifyClicert(p, TriedRoots[r]) = "verified"
        /\ \A q \in 1..(r - 1) : VerifyClicert(p, TriedRoots[q]) # "revoked"

\* A mutant of VerifyCertsChain: the first signer answers for all.
VerifyFirstChain ==
    /\ pc = "chain"
    /\ pc' = IF ChainVerified(path[1])
             THEN IF use = "app" THEN "signature" ELSE "resolve"
             ELSE "refused"
    /\ UNCHANGED <<debugMode, rootLoaded, data, list, path, at, scan, fault>>

\* PKCS7_VerifyCertsChain, one signer.
VerifyCertsChain ==
    /\ pc = "chain"
    /\ IF path[at] # <<>> /\ ChainVerified(path[at])
       THEN NextSigner("chain", IF use = "app" THEN "signature" ELSE "resolve")
       ELSE pc' = "refused" /\ UNCHANGED at
    /\ UNCHANGED <<debugMode, rootLoaded, data, list, path, scan, fault>>

\* PKCS7_GetDigestInSignerAuthAttr: the first message digest among the
\* authenticated attributes, which are optional for the parser.
DigestInAttributes(s) ==
    IF s.attributes = None \/ s.attributes = <<>> THEN None ELSE s.attributes[1]

\* CalcDigest compares that digest with the one of the content and hashes the
\* attributes, which is what the signature is over.
SignatureFits(s, leaf) == DigestInAttributes(s) = "content" /\ s.by = leaf.key

\* PKCS7_VerifySignerSignature, one signer.
VerifySignerSignature ==
    /\ pc = "signature"
    /\ IF SignatureFits(msg.signers[at], Cert(path[at][1]))
       THEN NextSigner("signature", "accepted")
       ELSE pc' = "refused" /\ UNCHANGED at
    /\ UNCHANGED <<debugMode, rootLoaded, data, list, path, scan, fault>>

\* The same, when a digest cannot be computed.
VerifyFails ==
    /\ pc \in {"chain", "signature"}
    /\ fault' = TRUE
    /\ pc' = "refused"
    /\ UNCHANGED <<debugMode, rootLoaded, data, list, path, at, scan>>

\* FreeSignersInfo and FreeSignedDataCerts: all paths, then what is left.
FreeCerts == list' = <<>> /\ path' = <<>> /\ read' = 0

\* PKCS7_FreeRes; every caller comes here once, whatever failed.
FreeRes ==
    /\ pc \in {"refused", "accepted"}
    /\ pc' = "idle"
    /\ rootLoaded' = FALSE
    /\ msg' = None
    /\ use' = "app"
    /\ FreeCerts
    /\ at' = 1
    /\ scan' = NoScan
    /\ fault' = FALSE
    /\ UNCHANGED debugMode

Next ==
    \/ \E mode \in BOOLEAN : EnableDebugMode(mode)
    \/ /\ pc = "idle"
       /\ \E m \in Messages, u \in Uses, loads, ok \in BOOLEAN :
             BeginParse(m, u, loads, ok)
    \/ \E ok \in BOOLEAN : ParseContent(ok)
    \/ \E n \in 0..(IF msg = None THEN 0 ELSE Len(msg.certs)) :
          ParseSignedDataCerts(n)
    \/ \E ok \in BOOLEAN : ParseSignedDataCrl(ok)
    \/ \E ok \in BOOLEAN : ParseSigner(ok)
    \/ FindSignerCert
    \/ BuildSignerCertPath
    \/ \E ok \in BOOLEAN : ResolveSigners(ok)
    \/ VerifyCertsChain
    \/ VerifySignerSignature
    \/ VerifyFails
    \/ FreeRes

Spec == Init /\ [][Next]_vars

-----------------------------------------------------------------------------
(* What a message promises, whatever the order of its certificates.        *)

AllowedRoots ==
    {Roots["release"], Roots["openharmony"]}
        \cup (IF debugMode THEN {Roots["debug"]} ELSE {})

AllCerts == {Cert(c) : c \in DOMAIN msg.certs}

IssuedBy(c, up) == MbedSameName(c.issuer, up.subject) /\ c.by = up.key

\* The certificates at most n below an allowed root, over any others.
VouchedWithin(n) ==
    {c \in AllCerts : \E k \in 1..n : \E q \in [1..k -> AllCerts] :
        /\ q[1] = c
        /\ \A i \in 1..(k - 1) : IssuedBy(q[i], q[i + 1])
        /\ \E root \in AllowedRoots : IssuedBy(q[k], root)}

Vouched == VouchedWithin(Len(msg.certs))

SignedBy(s, c) ==
    /\ s.serial = c.serial
    /\ SameName(s.issuer, c.issuer)
    /\ SignatureFits(s, c)

\* Signer s names the certificate c of the message.
Names(s, c) ==
    /\ msg.signers[s].serial = Cert(c).serial
    /\ SameName(msg.signers[s].issuer, Cert(c).issuer)

\* By its name, certificate d has issued c.
NamesIssuer(c, d) == SameName(Cert(c).issuer, Cert(d).subject)

\* No two paths want one certificate: the signers name different ones, none of
\* which has issued another, and nothing has issued two others.
Uncontested ==
    /\ \A s, t \in DOMAIN msg.signers :
          msg.signers[s].serial = msg.signers[t].serial => s = t
    /\ \A s \in DOMAIN msg.signers, c, d \in DOMAIN msg.certs :
          Names(s, d) /\ NamesIssuer(c, d) => c = d
    /\ \A b, c, d \in DOMAIN msg.certs :
          NamesIssuer(b, d) /\ NamesIssuer(c, d) => b = c \/ b = d \/ c = d

\* Nothing in the message is open to a choice: it is well-formed and has no CRL,
\* every name of a certificate is its own and of an accepted kind, the name of a
\* root only stands on a copy of it, and several signers want no certificate
\* of each other.
Plain ==
    /\ msg.bad = None
    /\ msg.crls = <<>>
    /\ \A s \in DOMAIN msg.signers : AcceptedAlgorithms(msg.signers[s])
    /\ \A c, d \in DOMAIN msg.certs :
          /\ Cert(c).subject.legal /\ Cert(c).issuer.legal
          /\ Cert(c).subject.fold = Cert(d).subject.fold => c = d
          /\ Cert(c).serial = Cert(d).serial => c = d
          /\ \A r \in DOMAIN Roots :
                SameName(Cert(c).subject, Roots[r].subject) =>
                    Cert(c).issuer = Cert(c).subject
    /\ Len(msg.signers) = 1 \/ Uncontested

\* Places of certificate c in the list and in the paths.
PlacesIn(l, c) == {i \in DOMAIN l : l[i] = c}

Places(c) ==
    Cardinality(PlacesIn(list, c))
        + Cardinality(UNION {{s} \X PlacesIn(path[s], c) : s \in DOMAIN path})

PCs == {"idle", "content", "certs", "crl", "signer", "leaf", "super", "resolve",
        "chain", "signature", "accepted", "refused"}

\* Types: places of certificates, paths no longer than the message.
TypeOK ==
    /\ debugMode \in BOOLEAN /\ rootLoaded \in BOOLEAN /\ fault \in BOOLEAN
    /\ pc \in PCs /\ use \in Uses
    /\ read \in 0..(IF msg = None THEN 0 ELSE Len(msg.certs))
    /\ list \in Seq(1..read)
    /\ path \in Seq(Seq(1..read))
    /\ at \in 1..(IF path = <<>> THEN 1 ELSE Len(path))

\* Every certificate parsed is in exactly one place, the list or the path of
\* one signer, so PKCS7_FreeRes frees each once and none twice; and no path is
\* still growing when it has taken every certificate of the list.
CertOwnedOnce ==
    /\ \A c \in 1..read : Places(c) = 1
    /\ scan.count <= scan.most

\* Accepted messages: for every signer, not only the first, there is the
\* certificate that it names, signed over the digest of the content, leading
\* to the release or the OpenHarmony root or, in debug mode only, to the debug
\* root, and listed in no CRL of its issuer.
AcceptedIsVouched ==
    pc = "accepted" =>
        \A s \in DOMAIN msg.signers :
            \E c \in Vouched :
                /\ SignedBy(msg.signers[s], c)
                /\ VerifyCrl(c)

\* No certificate but a root stands under a name of its own.
RootsOnlySelfIssued ==
    \A c \in AllCerts : SameName(c.subject, c.issuer) => c.by = c.key

\* Accepted messages whose first signer is in a trust list: counted with its
\* root, its chain has no more than MaxDepth certificates.  Certificates that
\* lead nowhere only add to the depth.
DepthNotUndercounted ==
    pc = "accepted" /\ RootsOnlySelfIssued =>
        LET first == Cert(path[1][1])
        IN  InTrustList(first) => first \in VouchedWithin(MaxDepth - 1)

\* Every signer has signed with a certificate that is vouched for.
AllVouched ==
    \A s \in DOMAIN msg.signers : \E c \in Vouched : SignedBy(msg.signers[s], c)

\* Refused messages: when nothing failed, the message leaves no choice and all
\* its signers are vouched for, the trust lists refuse the first of them, as too
\* far from its root or as none to sign profiles.  How certificates are ordered,
\* in which case their names are spelled and which signer comes first costs no
\* signer its path.
PlainIsAccepted ==
    pc = "refused" /\ ~fault /\ Plain /\ AllVouched =>
        \A c \in Vouched : SignedBy(msg.signers[1], c) =>
            IF InTrustList(c) THEN c \notin VouchedWithin(MaxDepth - 1)
                              ELSE use = "profile"
=============================================================================
