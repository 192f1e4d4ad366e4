--------------------------- MODULE LitePkcs7Proofs --------------------------
(***************************************************************************)
(* Proofs about LitePkcs7, for every set of messages: the certificates of  *)
(* a message are shared out among its signers without losing or doubling   *)
(* one, and what is accepted is vouched for.                               *)
(***************************************************************************)
EXTENDS LitePkcs7, SequenceTheorems, FiniteSetTheorems, WellFoundedInduction, TLAPS

-----------------------------------------------------------------------------
(* Numbers and sequences.                                                  *)

\* A set of numbers that is not empty has a first one.
LEMMA FirstOfNumbers ==
    ASSUME NEW T, T \subseteq Nat, T # {}
    PROVE  \E m \in T : \A k \in T : m <= k
<1>1. PICK m \in T : \A k \in T : ~(<<k, m>> \in OpToRel(<, Nat))
  BY WFMin, NatLessThanWellFounded
<1>2. \A k \in T : ~(k < m)
  BY <1>1 DEF OpToRel
<1> QED
  BY <1>2

Without(l, i) == SubSeq(l, 1, i - 1) \o SubSeq(l, i + 1, Len(l))

\* A list without the element at place i.
LEMMA Unlinking ==
    ASSUME NEW S, NEW l \in Seq(S), NEW i \in 1..Len(l)
    PROVE  /\ Without(l, i) \in Seq(S)
           /\ Len(Without(l, i)) = Len(l) - 1
           /\ \A k \in 1..(Len(l) - 1) :
                Without(l, i)[k] = IF k < i THEN l[k] ELSE l[k + 1]
<1> DEFINE m == Without(l, i)
           a == SubSeq(l, 1, i - 1)
           b == SubSeq(l, i + 1, Len(l))
<1>1. Len(l) \in Nat
  BY LenProperties
<1>2. /\ a \in Seq(S) /\ Len(a) = i - 1
      /\ \A k \in 1..(i - 1) : a[k] = l[k]
  <2>1. 1 \in 1..Len(l) + 1 /\ i - 1 \in 0..Len(l)
    BY <1>1
  <2>2. \A k \in 1..((i - 1) - 1 + 1) : a[k] = l[1 + k - 1]
    BY <2>1, SubSeqProperties
  <2>3. Len(a) = (IF 1 <= i - 1 THEN (i - 1) - 1 + 1 ELSE 0)
    BY <2>1, SubSeqProperties
  <2>4. a \in Seq(S)
    BY <2>1, SubSeqProperties
  <2> QED
    BY <1>1, <2>2, <2>3, <2>4
<1>3. /\ b \in Seq(S) /\ Len(b) = Len(l) - i
      /\ \A k \in 1..(Len(l) - i) : b[k] = l[i + k]
  <2>1. i + 1 \in 1..Len(l) + 1 /\ Len(l) \in 0..Len(l)
    BY <1>1
  <2>2. \A k \in 1..(Len(l) - (i + 1) + 1) : b[k] = l[(i + 1) + k - 1]
    BY <2>1, SubSeqProperties
  <2>3. Len(b) = (IF i + 1 <= Len(l) THEN Len(l) - (i + 1) + 1 ELSE 0)
    BY <2>1, SubSeqProperties
  <2>4. b \in Seq(S)
    BY <2>1, SubSeqProperties
  <2> QED
    BY <1>1, <2>2, <2>3, <2>4
<1> HIDE DEF a, b
<1>4. m = a \o b
  BY DEF a, b, m, Without
<1> HIDE DEF m
<1>5. /\ m \in Seq(S) /\ Len(m) = Len(a) + Len(b)
      /\ \A k \in 1..(Len(a) + Len(b)) :
            m[k] = IF k <= Len(a) THEN a[k] ELSE b[k - Len(a)]
  <2>1. a \in Seq(S) /\ b \in Seq(S)
    BY <1>2, <1>3
  <2>2. /\ a \o b \in Seq(S)
        /\ Len(a \o b) = Len(a) + Len(b)
        /\ \A k \in 1..(Len(a) + Len(b)) :
              (a \o b)[k] = IF k <= Len(a) THEN a[k] ELSE b[k - Len(a)]
    BY <2>1, ConcatProperties
  <2> QED
    BY <1>4, <2>2
<1>6. Len(m) = Len(l) - 1 /\ Len(a) = i - 1 /\ Len(b) = Len(l) - i
  <2>1. Len(a) = i - 1 /\ Len(b) = Len(l) - i /\ Len(m) = Len(a) + Len(b)
    BY <1>2, <1>3, <1>5
  <2>2. Len(m) = (i - 1) + (Len(l) - i)
    BY <2>1
  <2>3. (i - 1) + (Len(l) - i) = Len(l) - 1
    BY <1>1
  <2> QED
    BY <2>1, <2>2, <2>3
<1>7. \A k \in 1..(Len(l) - 1) : m[k] = IF k <= i - 1 THEN a[k] ELSE b[k - (i - 1)]
  BY <1>1, <1>5, <1>6
<1>8. ASSUME NEW k \in 1..(Len(l) - 1)
      PROVE  m[k] = IF k < i THEN l[k] ELSE l[k + 1]
  <2>1. CASE k <= i - 1
    <3>1. k \in 1..(i - 1) /\ k < i
      BY <1>1, <2>1
    <3>2. m[k] = a[k]
      BY <1>7, <2>1
    <3> QED
      BY <1>2, <3>1, <3>2
  <2>2. CASE ~(k <= i - 1)
    <3>1. k - (i - 1) \in 1..(Len(l) - i) /\ ~(k < i) /\ i + (k - (i - 1)) = k + 1
      BY <1>1, <2>2
    <3>2. m[k] = b[k - (i - 1)]
      BY <1>7, <2>2
    <3>3. b[k - (i - 1)] = l[i + (k - (i - 1))]
      BY <1>3, <3>1
    <3> QED
      BY <3>1, <3>2, <3>3
  <2> QED
    BY <2>1, <2>2
<1> QED
  BY <1>5, <1>6, <1>8 DEF m

-----------------------------------------------------------------------------
(* Types.                                                                  *)

Built == {"leaf", "super", "resolve", "chain", "signature", "accepted"}

\* What has been read and parsed of the message, by where the call is.
Progress ==
    /\ pc = "idle" <=> msg = None
    /\ pc # "idle" => msg \in Messages
    /\ pc \in {"idle", "content", "certs"} => read = 0 /\ list = <<>>
    /\ pc \in {"idle", "content", "certs", "crl"} => path = <<>>
    /\ pc = "signer" => Len(path) < Len(msg.signers)
    /\ pc \in Built => Len(path) = Len(msg.signers)
    /\ pc = "super" => path[at] # <<>>
    /\ scan \in [count : Nat, most : Nat]

TypeInv == TypeOK /\ Progress

\* What is known of the message of a call.
LEMMA MessageShape ==
    ASSUME TypeInv, pc # "idle"
    PROVE  /\ msg # None /\ msg \in Messages
           /\ msg.certs \in Seq(CertType) /\ Len(msg.certs) \in Nat
           /\ Len(msg.signers) \in Nat \ {0} /\ DOMAIN msg.signers = 1..Len(msg.signers)
           /\ read \in 0..Len(msg.certs)
           /\ list \in Seq(1..read) /\ Len(list) \in Nat
           /\ path \in Seq(Seq(1..read)) /\ Len(path) \in Nat
           /\ at \in Nat \ {0}
           /\ path # <<>> => at \in 1..Len(path)
<1>1. msg # None /\ msg \in Messages
  BY DEF TypeInv, Progress
<1>2. IsMessage(msg)
  BY <1>1, LitePkcs7Assumption
<1>3. msg.certs \in Seq(CertType) /\ msg.signers \in Seq(SignerType) /\ msg.signers # <<>>
  BY <1>2 DEF IsMessage
<1>8. Len(msg.signers) \in Nat \ {0} /\ DOMAIN msg.signers = 1..Len(msg.signers)
  BY <1>3, EmptySeq, LenProperties
<1>4. Len(msg.certs) \in Nat
  BY <1>3, LenProperties
<1>5. read \in 0..Len(msg.certs) /\ list \in Seq(1..read) /\ path \in Seq(Seq(1..read))
  BY <1>1 DEF TypeInv, TypeOK
<1>6. Len(list) \in Nat /\ Len(path) \in Nat
  BY <1>5, LenProperties
<1>7. at \in 1..(IF path = <<>> THEN 1 ELSE Len(path))
  BY DEF TypeInv, TypeOK
<1> QED
  BY <1>1, <1>3, <1>4, <1>5, <1>6, <1>7, <1>8

\* The search for a certificate in the list finds one that matches, if any.
LEMMA LeafFound ==
    ASSUME NEW s, list \in Seq(1..read), read \in Nat
    PROVE  /\ FindLeaf(s) = None =>
                \A i \in 1..Len(list) : ~IsLeafOf(s, list[i])
           /\ FindLeaf(s) # None =>
                \E i \in 1..Len(list) :
                    FindLeaf(s) = list[i] /\ IsLeafOf(s, list[i])
<1> DEFINE found == {i \in DOMAIN list : IsLeafOf(s, list[i])}
           first == CHOOSE i \in found : \A j \in found : i <= j
<1>1. FindLeaf(s) = IF found = {} THEN None ELSE list[first]
  BY DEF FindLeaf, FirstOfList
<1>2. DOMAIN list = 1..Len(list) /\ Len(list) \in Nat
        /\ \A i \in 1..Len(list) : list[i] \in 1..read
  BY LenProperties, ElementOfSeq
<1>3. found \subseteq Nat
  BY <1>2
<1>4. found # {} => first \in found
  <2> HAVE found # {}
  <2>1. \E i \in found : \A j \in found : i <= j
    <3> HIDE DEF found
    <3> QED
      BY <1>3, FirstOfNumbers
  <2> QED
    BY <2>1
<1>5. \A i \in 1..Len(list) : list[i] # None
  BY <1>2, LitePkcs7Assumption
<1> HIDE DEF first
<1> QED
  BY <1>1, <1>2, <1>4, <1>5

LEMMA SuperFound ==
    ASSUME NEW c, list \in Seq(1..read), read \in Nat
    PROVE  /\ FindSuperCert(c) = None =>
                \A i \in 1..Len(list) :
                    ~SameName(Cert(c).issuer, Cert(list[i]).subject)
           /\ FindSuperCert(c) # None =>
                \E i \in 1..Len(list) :
                    /\ FindSuperCert(c) = list[i]
                    /\ SameName(Cert(c).issuer, Cert(list[i]).subject)
<1> DEFINE found == {i \in DOMAIN list : SameName(Cert(c).issuer, Cert(list[i]).subject)}
           first == CHOOSE i \in found : \A j \in found : i <= j
<1>1. FindSuperCert(c) = IF found = {} THEN None ELSE list[first]
  BY DEF FindSuperCert, FirstOfList
<1>2. DOMAIN list = 1..Len(list) /\ Len(list) \in Nat
        /\ \A i \in 1..Len(list) : list[i] \in 1..read
  BY LenProperties, ElementOfSeq
<1>3. found \subseteq Nat
  BY <1>2
<1>4. found # {} => first \in found
  <2> HAVE found # {}
  <2>1. \E i \in found : \A j \in found : i <= j
    <3> HIDE DEF found
    <3> QED
      BY <1>3, FirstOfNumbers
  <2> QED
    BY <2>1
<1>5. \A i \in 1..Len(list) : list[i] # None
  BY <1>2, LitePkcs7Assumption
<1> HIDE DEF first
<1> QED
  BY <1>1, <1>2, <1>4, <1>5

\* Unlinking a certificate of the list takes out one place that held it.
LEMMA Deleting ==
    ASSUME list \in Seq(1..read), read \in Nat,
           NEW j \in 1..Len(list), NEW c, c = list[j]
    PROVE  \E i \in 1..Len(list) :
              /\ list[i] = c
              /\ DelCertOfSignedData(c) \in Seq(1..read)
              /\ Len(DelCertOfSignedData(c)) = Len(list) - 1
              /\ \A k \in 1..(Len(list) - 1) :
                    DelCertOfSignedData(c)[k] =
                        IF k < i THEN list[k] ELSE list[k + 1]
<1>1. DOMAIN list = 1..Len(list)
  BY LenProperties
<1>2. PlaceOf(c) \in 1..Len(list) /\ list[PlaceOf(c)] = c
  BY <1>1 DEF PlaceOf
<1> DEFINE i == PlaceOf(c)
           l == DelCertOfSignedData(c)
           R == 1..read
<1>3. l = Without(list, i)
  BY DEF DelCertOfSignedData, Unlinked, Without
<1>4. i \in 1..Len(list) /\ list[i] = c /\ list \in Seq(R)
  BY <1>2
<1> HIDE DEF i, l, R
<1>5. /\ l \in Seq(R)
      /\ Len(l) = Len(list) - 1
      /\ \A k \in 1..(Len(list) - 1) : l[k] = IF k < i THEN list[k] ELSE list[k + 1]
  BY <1>3, <1>4, Unlinking
<1> QED
  BY <1>4, <1>5 DEF l, R

Grown(p, s, c) == [p EXCEPT ![s] = Append(@, c)]

\* The paths after one of them has got a certificate more.
LEMMA Growing ==
    ASSUME NEW T, NEW p \in Seq(T), NEW s \in 1..Len(p), NEW c, Append(p[s], c) \in T
    PROVE  /\ Grown(p, s, c) \in Seq(T)
           /\ Len(Grown(p, s, c)) = Len(p)
           /\ Grown(p, s, c)[s] = Append(p[s], c)
           /\ \A t \in 1..Len(p) : t # s => Grown(p, s, c)[t] = p[t]
<1> DEFINE x == Append(p[s], c)
<1>1. Grown(p, s, c) = [p EXCEPT ![s] = x]
  BY DEF Grown
<1>2. x \in T
  OBVIOUS
<1> HIDE DEF x
<1>3. /\ Grown(p, s, c) \in Seq(T)
      /\ Len(Grown(p, s, c)) = Len(p)
      /\ \A t \in 1..Len(p) : Grown(p, s, c)[t] = IF t = s THEN x ELSE p[t]
  BY <1>1, <1>2, ExceptSeq
<1> QED
  BY <1>3 DEF x

\* What a move of a certificate from the list to the path of a signer does.
LEMMA Moving ==
    ASSUME TypeInv, pc # "idle", path # <<>>, NEW j \in 1..Len(list), NEW c, c = list[j],
           list' = DelCertOfSignedData(c), AddCertToSignerCertPath(c)
    PROVE  /\ c \in 1..read
           /\ list' \in Seq(1..read)
           /\ Len(list') = Len(list) - 1
           /\ path' \in Seq(Seq(1..read)) /\ path' # <<>>
           /\ Len(path') = Len(path)
           /\ path'[at] = Append(path[at], c)
           /\ \A t \in 1..Len(path) : t # at => path'[t] = path[t]
           /\ \E i \in 1..Len(list) :
                 /\ list[i] = c
                 /\ \A k \in 1..(Len(list) - 1) :
                       list'[k] = IF k < i THEN list[k] ELSE list[k + 1]
<1>1. /\ read \in Nat /\ list \in Seq(1..read) /\ Len(list) \in Nat
      /\ path \in Seq(Seq(1..read)) /\ at \in 1..Len(path) /\ Len(path) \in Nat
  BY MessageShape
<1>2. c \in 1..read
  BY <1>1, ElementOfSeq
<1> DEFINE T == Seq(1..read)
           p == path
           s == at
<1>3. path' = Grown(p, s, c)
  BY DEF AddCertToSignerCertPath, Grown
<1>4. p \in Seq(T) /\ s \in 1..Len(p) /\ Append(p[s], c) \in T
  <2>1. p \in Seq(T) /\ s \in 1..Len(p)
    BY <1>1
  <2>2. p[s] \in T
    BY <2>1, ElementOfSeq
  <2> QED
    BY <1>2, <2>1, <2>2, AppendProperties
<1> HIDE DEF T, p, s
<1>5. /\ Grown(p, s, c) \in Seq(T)
      /\ Len(Grown(p, s, c)) = Len(p)
      /\ Grown(p, s, c)[s] = Append(p[s], c)
      /\ \A t \in 1..Len(p) : t # s => Grown(p, s, c)[t] = p[t]
  BY <1>4, Growing
<1>6. \E i \in 1..Len(list) :
          /\ list[i] = c
          /\ list' \in Seq(1..read)
          /\ Len(list') = Len(list) - 1
          /\ \A k \in 1..(Len(list) - 1) :
                list'[k] = IF k < i THEN list[k] ELSE list[k + 1]
  BY <1>1, Deleting
<1>7. path' # <<>>
  BY <1>1, <1>3, <1>5, EmptySeq DEF p
<1> QED
  BY <1>2, <1>3, <1>5, <1>6, <1>7 DEF T, p, s

\* Every step keeps the types.
LEMMA TypeStep == TypeInv /\ [Next]_vars => TypeInv'
<1> SUFFICES ASSUME TypeInv, [Next]_vars
             PROVE  TypeInv'
  OBVIOUS
<1> USE DEF TypeInv
<1>1. ASSUME NEW mode \in BOOLEAN, EnableDebugMode(mode)
      PROVE  TypeInv'
  <2>1. debugMode' \in BOOLEAN
    BY <1>1 DEF EnableDebugMode, LoadDebugRoot, TypeOK
  <2> QED
    BY <1>1, <2>1 DEF EnableDebugMode, data, TypeOK, Progress, Built
<1>2. ASSUME pc = "idle", NEW m \in Messages, NEW u \in Uses,
             NEW loads \in BOOLEAN, NEW ok \in BOOLEAN, BeginParse(m, u, loads, ok)
      PROVE  TypeInv'
  <2>1. m # None /\ Len(m.certs) \in Nat
    <3>1. IsMessage(m) /\ m # None
      BY LitePkcs7Assumption
    <3> QED
      BY <3>1, LenProperties DEF IsMessage
  <2>2. read' = 0 /\ list' = <<>> /\ path' = <<>>
    BY <1>2 DEF BeginParse, Progress
  <2>3. /\ debugMode' \in BOOLEAN /\ rootLoaded' \in BOOLEAN /\ fault' \in BOOLEAN
        /\ use' \in Uses /\ pc' \in {"content", "refused"}
        /\ msg' = m /\ at' = at /\ scan' = scan
    BY <1>2 DEF BeginParse, GoOn, TypeOK
  <2>4. list' \in Seq(1..0) /\ path' \in Seq(Seq(1..0))
    BY <2>2, EmptySeq
  <2>5. TypeOK'
    BY <1>2, <2>1, <2>2, <2>3, <2>4 DEF TypeOK, Progress, PCs
  <2>6. Progress'
    BY <2>1, <2>2, <2>3 DEF Progress, Built
  <2> QED
    BY <2>5, <2>6
<1>3. ASSUME NEW ok \in BOOLEAN, ParseContent(ok)
      PROVE  TypeInv'
  <2>1. fault' \in BOOLEAN /\ pc' \in {"certs", "refused"} /\ pc = "content"
    BY <1>3 DEF ParseContent, Faulted, GoOn, TypeOK
  <2> QED
    BY <1>3, <2>1 DEF ParseContent, data, TypeOK, Progress, Built, PCs
<1>4. ASSUME NEW n \in 0..(IF msg = None THEN 0 ELSE Len(msg.certs)),
             ParseSignedDataCerts(n)
      PROVE  TypeInv'
  <2>1. pc = "certs" /\ msg # None /\ Len(msg.certs) \in Nat
    BY <1>4, MessageShape DEF ParseSignedDataCerts
  <2>2. n \in 0..Len(msg.certs)
    BY <2>1
  <2>3. list' \in Seq(1..n) /\ read' = n
    <3>1. [i \in 1..n |-> i] \in Seq(1..n)
      BY <2>1, <2>2, IsASeq
    <3> QED
      BY <1>4, <3>1 DEF ParseSignedDataCerts
  <2>4. path' = <<>> /\ path' \in Seq(Seq(1..n))
    BY <1>4, <2>1, EmptySeq DEF ParseSignedDataCerts, Progress
  <2>5. fault' \in BOOLEAN /\ pc' \in {"crl", "refused"}
    BY <1>4 DEF ParseSignedDataCerts, Faulted, GoOn, TypeOK
  <2>6. UNCHANGED <<debugMode, rootLoaded, msg, use, path, at, scan>>
    BY <1>4 DEF ParseSignedDataCerts
  <2>7. TypeOK'
    BY <2>1, <2>2, <2>3, <2>4, <2>5, <2>6 DEF TypeOK, PCs
  <2>8. Progress'
    BY <2>1, <2>4, <2>5, <2>6 DEF Progress, Built
  <2> QED
    BY <2>7, <2>8
<1>5. ASSUME NEW ok \in BOOLEAN, ParseSignedDataCrl(ok)
      PROVE  TypeInv'
  <2>1. fault' \in BOOLEAN /\ pc' \in {"signer", "refused"} /\ pc = "crl"
    BY <1>5 DEF ParseSignedDataCrl, Faulted, GoOn, TypeOK
  <2>2. Len(path) < Len(msg.signers)
    BY <2>1, MessageShape, EmptySeq DEF Progress
  <2> QED
    BY <1>5, <2>1, <2>2 DEF ParseSignedDataCrl, data, TypeOK, Progress, Built, PCs
<1>6. ASSUME NEW ok \in BOOLEAN, ParseSigner(ok)
      PROVE  TypeInv'
  <2>1. pc = "signer" /\ Len(path) \in Nat /\ Len(msg.signers) \in Nat
          /\ path \in Seq(Seq(1..read))
    BY <1>6, MessageShape DEF ParseSigner
  <2>2. /\ path' \in Seq(Seq(1..read)) /\ path' # <<>>
        /\ Len(path') = Len(path) + 1
    <3>1. <<>> \in Seq(1..read)
      BY EmptySeq
    <3> DEFINE T == Seq(1..read)
    <3>2. path \in Seq(T) /\ <<>> \in T /\ path' = Append(path, <<>>)
      BY <1>6, <2>1, <3>1 DEF ParseSigner
    <3> HIDE DEF T
    <3>3. /\ path' \in Seq(T) /\ path' # <<>>
          /\ Len(path') = Len(path) + 1
      BY <3>2, AppendProperties
    <3> QED
      BY <3>3 DEF T
  <2>3. /\ fault' \in BOOLEAN
        /\ pc' = IF ok THEN IF Len(path) + 1 < Len(msg.signers) THEN "signer" ELSE "leaf"
                       ELSE "refused"
    BY <1>6 DEF ParseSigner, Faulted, GoOn, TypeOK
  <2>4. UNCHANGED <<debugMode, rootLoaded, msg, use, read, list, at, scan>>
    BY <1>6 DEF ParseSigner, data
  <2>5. at' \in 1..Len(path')
    <3>1. at \in 1..(IF path = <<>> THEN 1 ELSE Len(path))
      BY DEF TypeOK
    <3> QED
      BY <2>1, <2>2, <2>4, <3>1
  <2>6. TypeOK'
    BY <2>2, <2>3, <2>4, <2>5 DEF TypeOK, PCs
  <2>7. Progress'
    <3>1. Len(path) < Len(msg.signers)
      BY <2>1 DEF Progress
    <3>2. pc' = "signer" => Len(path') < Len(msg.signers)
      BY <2>2, <2>3
    <3>3. pc' = "leaf" => Len(path') = Len(msg.signers)
      BY <2>1, <2>2, <2>3, <3>1
    <3> QED
      BY <2>1, <2>3, <2>4, <3>2, <3>3 DEF Progress, Built
  <2> QED
    BY <2>6, <2>7
<1>7. ASSUME FindSignerCert
      PROVE  TypeInv'
  <2> DEFINE leaf == FindLeaf(msg.signers[at])
  <2>1. /\ pc = "leaf" /\ UNCHANGED <<debugMode, rootLoaded, msg, use, read, at, fault>>
    BY <1>7 DEF FindSignerCert, data
  <2>2. CASE leaf = None \/ ~rootLoaded
    BY <1>7, <2>1, <2>2 DEF FindSignerCert, TypeOK, Progress, Built, PCs
  <2>3. CASE ~(leaf = None \/ ~rootLoaded)
    <3>1. /\ list' = DelCertOfSignedData(leaf)
          /\ AddCertToSignerCertPath(leaf)
          /\ scan' = [count |-> 0, most |-> Len(list)]
          /\ pc' = "super"
      BY <1>7, <2>3 DEF FindSignerCert
    <3>2. /\ list \in Seq(1..read) /\ read \in Nat /\ Len(list) \in Nat
          /\ path \in Seq(Seq(1..read)) /\ Len(path) = Len(msg.signers)
          /\ Len(msg.signers) \in Nat \ {0}
      BY <2>1, MessageShape DEF Progress, Built
    <3>3. path # <<>>
      BY <3>2, EmptySeq
    <3>4. PICK j \in 1..Len(list) : leaf = list[j]
      BY <2>3, <3>2, LeafFound
    <3> HIDE DEF leaf
    <3>5. /\ leaf \in 1..read
          /\ list' \in Seq(1..read)
          /\ path' \in Seq(Seq(1..read)) /\ path' # <<>>
          /\ Len(path') = Len(path)
          /\ path'[at] = Append(path[at], leaf)
      BY <2>1, <3>1, <3>3, <3>4, Moving
    <3>6. path'[at] # <<>>
      <4>1. at \in 1..Len(path)
        BY <2>1, <3>3, MessageShape
      <4>2. path[at] \in Seq(1..read)
        <5> DEFINE T == Seq(1..read)
        <5>1. path \in Seq(T)
          BY <3>2
        <5> HIDE DEF T
        <5>2. path[at] \in T
          BY <4>1, <5>1, ElementOfSeq
        <5> QED
          BY <5>2 DEF T
      <4>3. Append(path[at], leaf) # <<>>
        BY <3>5, <4>2, AppendProperties
      <4> QED
        BY <3>5, <4>3
    <3>7. TypeOK'
      BY <2>1, <3>1, <3>3, <3>5 DEF TypeOK, PCs
    <3>8. Progress'
      BY <2>1, <3>1, <3>2, <3>5, <3>6 DEF Progress, Built
    <3> QED
      BY <3>7, <3>8
  <2> QED
    BY <2>2, <2>3
<1>8. ASSUME BuildSignerCertPath
      PROVE  TypeInv'
  <2> DEFINE super == FindSuperCert(path[at][Len(path[at])])
  <2>1. /\ pc = "super" /\ UNCHANGED <<debugMode, rootLoaded, msg, use, read, fault>>
    BY <1>8 DEF BuildSignerCertPath, data
  <2>2. /\ list \in Seq(1..read) /\ read \in Nat /\ Len(list) \in Nat
        /\ path \in Seq(Seq(1..read)) /\ Len(path) = Len(msg.signers)
        /\ Len(msg.signers) \in Nat \ {0} /\ Len(path) \in Nat
    BY <2>1, MessageShape DEF Progress, Built
  <2>3. path # <<>> /\ path[at] # <<>>
    BY <2>1, <2>2, EmptySeq DEF Progress
  <2>4. at \in 1..Len(path)
    BY <2>1, <2>3, MessageShape
  <2>5. CASE super = None
    <3>1. /\ UNCHANGED <<list, path, scan>>
          /\ \/ pc' = "leaf" /\ at < Len(path) /\ at' = at + 1
             \/ pc' \in {"resolve", "chain"} /\ at' = 1
      BY <1>8, <2>5 DEF BuildSignerCertPath, NextSigner
    <3>2. at' \in 1..Len(path)
      BY <2>2, <2>4, <3>1
    <3>3. TypeOK'
      BY <2>1, <2>3, <3>1, <3>2 DEF TypeOK, PCs
    <3>4. Progress'
      BY <2>1, <2>2, <3>1 DEF Progress, Built
    <3> QED
      BY <3>3, <3>4
  <2>6. CASE super # None
    <3>1. /\ list' = DelCertOfSignedData(super)
          /\ AddCertToSignerCertPath(super)
          /\ scan' = [scan EXCEPT !.count = @ + 1]
          /\ pc' \in {"refused", "super"}
          /\ UNCHANGED at
      BY <1>8, <2>6 DEF BuildSignerCertPath
    <3>2. PICK j \in 1..Len(list) : super = list[j]
      <4> DEFINE c == path[at][Len(path[at])]
      <4> HIDE DEF c
      <4>1. FindSuperCert(c) # None => \E i \in 1..Len(list) : FindSuperCert(c) = list[i]
        BY <2>2, SuperFound
      <4> QED
        BY <2>6, <4>1 DEF c
    <3> HIDE DEF super
    <3>3. /\ list' \in Seq(1..read)
          /\ super \in 1..read
          /\ path' \in Seq(Seq(1..read)) /\ path' # <<>>
          /\ Len(path') = Len(path)
          /\ path'[at] = Append(path[at], super)
      BY <2>1, <2>3, <3>1, <3>2, Moving
    <3>4. path'[at] # <<>>
      <4> DEFINE T == Seq(1..read)
      <4>1. path \in Seq(T)
        BY <2>2
      <4> HIDE DEF T
      <4>2. path[at] \in T
        BY <2>4, <4>1, ElementOfSeq
      <4>3. path[at] \in Seq(1..read)
        BY <4>2 DEF T
      <4>4. Append(path[at], super) # <<>>
        BY <3>3, <4>3, AppendProperties
      <4> QED
        BY <3>3, <4>4
    <3>5. TypeOK'
      BY <2>1, <2>4, <3>1, <3>3 DEF TypeOK, PCs
    <3>6. scan' \in [count : Nat, most : Nat]
      BY <3>1 DEF Progress
    <3>7. Progress'
      BY <2>1, <2>2, <3>1, <3>3, <3>4, <3>6 DEF Progress, Built
    <3> QED
      BY <3>5, <3>7
  <2> QED
    BY <2>5, <2>6
<1>9. ASSUME NEW ok \in BOOLEAN, ResolveSigners(ok)
      PROVE  TypeInv'
  <2>1. fault' \in BOOLEAN /\ pc' \in {"chain", "signature", "refused"} /\ pc = "resolve"
    BY <1>9 DEF ResolveSigners, Faulted, GoOn, TypeOK
  <2> QED
    BY <1>9, <2>1 DEF ResolveSigners, data, TypeOK, Progress, Built, PCs
<1>10. ASSUME VerifyCertsChain \/ VerifySignerSignature
       PROVE  TypeInv'
  <2>1. pc \in {"chain", "signature"}
    BY <1>10 DEF VerifyCertsChain, VerifySignerSignature
  <2>2. /\ UNCHANGED <<debugMode, rootLoaded, msg, use, read, list, path, scan, fault>>
        /\ pc' \in {"chain", "signature", "resolve", "accepted", "refused"}
        /\ at' \in {at, 1} \/ (at < Len(path) /\ at' = at + 1)
    BY <1>10 DEF VerifyCertsChain, VerifySignerSignature, NextSigner, data
  <2>3. path # <<>> /\ Len(path) \in Nat \ {0} /\ at \in 1..Len(path)
    BY <2>1, MessageShape, EmptySeq DEF Progress, Built
  <2>4. at' \in 1..Len(path)
    BY <2>2, <2>3
  <2> QED
    BY <2>1, <2>2, <2>3, <2>4 DEF TypeOK, Progress, Built, PCs
<1>11. ASSUME VerifyFails
       PROVE  TypeInv'
  BY <1>11 DEF VerifyFails, data, TypeOK, Progress, Built, PCs
<1>12. ASSUME FreeRes
       PROVE  TypeInv'
  <2>1. <<>> \in Seq(1..0) /\ <<>> \in Seq(Seq(1..0))
    BY EmptySeq
  <2>2. /\ read' = 0 /\ list' = <<>> /\ path' = <<>> /\ msg' = None /\ at' = 1
        /\ pc' = "idle" /\ use' = "app" /\ rootLoaded' = FALSE /\ fault' = FALSE
        /\ debugMode' = debugMode
    BY <1>12 DEF FreeRes, FreeCerts
  <2>5. list' \in Seq(1..read') /\ path' \in Seq(Seq(1..read'))
    BY <2>1, <2>2
  <2>7. /\ read' \in 0..(IF msg' = None THEN 0 ELSE Len(msg'.certs))
        /\ at' \in 1..(IF path' = <<>> THEN 1 ELSE Len(path'))
    BY <2>2
  <2>6. TypeOK'
    BY <2>2, <2>5, <2>7 DEF TypeOK, PCs, Uses
  <2>3. Progress'
    BY <1>12 DEF FreeRes, FreeCerts, Progress, Built, NoScan
  <2> QED
    BY <2>6, <2>3
<1>13. CASE UNCHANGED vars
  BY <1>13 DEF vars, data, TypeOK, Progress, Built
<1> QED
  BY <1>1, <1>2, <1>3, <1>4, <1>5, <1>6, <1>7, <1>8, <1>9, <1>10, <1>11, <1>12, <1>13
  DEF Next

LEMMA TypeStart == Init => TypeInv
<1> SUFFICES ASSUME Init
             PROVE  TypeInv
  OBVIOUS
<1>1. <<>> \in Seq(1..0) /\ <<>> \in Seq(Seq(1..0))
  BY EmptySeq
<1>2. list \in Seq(1..read) /\ path \in Seq(Seq(1..read))
  BY <1>1 DEF Init
<1>5. /\ read \in 0..(IF msg = None THEN 0 ELSE Len(msg.certs))
      /\ at \in 1..(IF path = <<>> THEN 1 ELSE Len(path))
  BY DEF Init
<1>4. TypeOK
  BY <1>2, <1>5 DEF Init, TypeOK, PCs, Uses
<1>3. Progress
  BY DEF Init, Progress, Built, NoScan
<1> QED
  BY <1>3, <1>4 DEF TypeInv

\* The state keeps its types: every list and path holds places of certificates
\* of the message, and the loops over the signers stay within their paths.
THEOREM TypeCorrect == Spec => []TypeOK
<1>1. TypeInv => TypeOK
  BY DEF TypeInv
<1> QED
  BY <1>1, TypeStart, TypeStep, PTL DEF Spec

-----------------------------------------------------------------------------
(* Every certificate has one owner.                                        *)

On(p, c)    == \E i \in 1..Len(p) : p[i] = c
Distinct(p) == \A i, j \in 1..Len(p) : p[i] = p[j] => i = j

\* The list and the paths share out the certificates that have been read, and
\* a path that grows has taken fewer than the list had.
OwnedInv ==
    /\ Distinct(list)
    /\ \A s \in 1..Len(path) : Distinct(path[s])
    /\ \A s \in 1..Len(path) : \A c \in 1..read : ~(On(list, c) /\ On(path[s], c))
    /\ \A s, t \in 1..Len(path) : \A c \in 1..read :
          s # t => ~(On(path[s], c) /\ On(path[t], c))
    /\ \A c \in 1..read : On(list, c) \/ \E s \in 1..Len(path) : On(path[s], c)

ScanInv ==
    /\ scan.count <= scan.most
    /\ pc = "super" => scan.count + Len(list) < scan.most

LEMMA ListWithout ==
    ASSUME NEW l, NEW m, NEW i \in 1..Len(l), NEW c, l[i] = c, Distinct(l),
           Len(l) \in Nat, Len(m) = Len(l) - 1,
           \A k \in 1..(Len(l) - 1) : m[k] = IF k < i THEN l[k] ELSE l[k + 1]
    PROVE  /\ Distinct(m)
           /\ \A d : On(m, d) <=> On(l, d) /\ d # c
<1>1. ASSUME NEW j \in 1..Len(m), NEW k \in 1..Len(m), m[j] = m[k]
      PROVE  j = k
  BY <1>1 DEF Distinct
<1>2. ASSUME NEW d, On(m, d)
      PROVE  On(l, d) /\ d # c
  <2>1. PICK k \in 1..Len(m) : m[k] = d
    BY <1>2 DEF On
  <2>2. k \in 1..Len(l) /\ k + 1 \in 1..Len(l) /\ m[k] = IF k < i THEN l[k] ELSE l[k + 1]
    OBVIOUS
  <2>3. CASE k < i
    <3>1. l[k] = d /\ k # i
      BY <2>1, <2>2, <2>3
    <3> QED
      BY <2>2, <3>1 DEF Distinct, On
  <2>4. CASE ~(k < i)
    <3>1. l[k + 1] = d /\ k + 1 # i
      BY <2>1, <2>2, <2>4
    <3> QED
      BY <2>2, <3>1 DEF Distinct, On
  <2> QED
    BY <2>3, <2>4
<1>3. ASSUME NEW d, On(l, d), d # c
      PROVE  On(m, d)
  <2>1. PICK k \in 1..Len(l) : l[k] = d
    BY <1>3 DEF On
  <2>2. k # i
    BY <1>3, <2>1
  <2>3. CASE k < i
    <3>1. k \in 1..Len(m) /\ m[k] = d
      BY <2>1, <2>3
    <3> QED
      BY <3>1 DEF On
  <2>4. CASE k > i
    <3>1. k - 1 \in 1..Len(m) /\ ~(k - 1 < i) /\ (k - 1) + 1 = k
      BY <2>4
    <3>2. m[k - 1] = l[(k - 1) + 1]
      BY <3>1
    <3>3. m[k - 1] = d
      BY <2>1, <3>1, <3>2
    <3> QED
      BY <3>1, <3>3 DEF On
  <2> QED
    BY <2>2, <2>3, <2>4
<1> QED
  BY <1>1, <1>2, <1>3 DEF Distinct

LEMMA PathWith ==
    ASSUME NEW S, NEW p \in Seq(S), NEW c \in S
    PROVE  /\ Distinct(p) /\ ~On(p, c) => Distinct(Append(p, c))
           /\ \A d : On(Append(p, c), d) <=> On(p, d) \/ d = c
<1> DEFINE q == Append(p, c)
<1>1. /\ Len(p) \in Nat
      /\ Len(q) = Len(p) + 1
      /\ \A i \in 1..Len(p) : q[i] = p[i]
      /\ q[Len(p) + 1] = c
  BY AppendProperties, LenProperties
<1> HIDE DEF q
<1>2. Distinct(p) /\ ~On(p, c) => Distinct(q)
  BY <1>1 DEF Distinct, On
<1>3. \A d : On(q, d) <=> On(p, d) \/ d = c
  BY <1>1 DEF On
<1> QED
  BY <1>2, <1>3 DEF q

\* A move of a certificate from the list to a path changes its owner only.
LEMMA MoveKeepsOwners ==
    ASSUME TypeInv, OwnedInv, pc # "idle", path # <<>>,
           NEW j \in 1..Len(list), NEW c, c = list[j],
           list' = DelCertOfSignedData(c), AddCertToSignerCertPath(c),
           read' = read
    PROVE  OwnedInv' /\ Len(list') = Len(list) - 1
<1>1. /\ read \in Nat /\ list \in Seq(1..read) /\ Len(list) \in Nat
      /\ path \in Seq(Seq(1..read)) /\ at \in 1..Len(path) /\ Len(path) \in Nat
  BY MessageShape
<1>2. /\ c \in 1..read
      /\ Len(list') = Len(list) - 1
      /\ Len(path') = Len(path)
      /\ path'[at] = Append(path[at], c)
      /\ \A t \in 1..Len(path) : t # at => path'[t] = path[t]
  BY Moving
<1>3. PICK i \in 1..Len(list) :
        /\ list[i] = c
        /\ \A k \in 1..(Len(list) - 1) :
              list'[k] = IF k < i THEN list[k] ELSE list[k + 1]
  BY Moving
<1>4. Distinct(list') /\ \A d : On(list', d) <=> On(list, d) /\ d # c
  <2> DEFINE l == list
             m == list'
  <2>1. /\ i \in 1..Len(l) /\ l[i] = c /\ Distinct(l)
        /\ Len(l) \in Nat /\ Len(m) = Len(l) - 1
        /\ \A k \in 1..(Len(l) - 1) : m[k] = IF k < i THEN l[k] ELSE l[k + 1]
    BY <1>1, <1>2, <1>3 DEF OwnedInv
  <2> HIDE DEF l, m
  <2>2. Distinct(m) /\ \A d : On(m, d) <=> On(l, d) /\ d # c
    BY <2>1, ListWithout
  <2> QED
    BY <2>2 DEF l, m
<1>5. On(list, c)
  BY <1>3 DEF On
<1>6. ~On(path[at], c)
  BY <1>1, <1>2, <1>5 DEF OwnedInv
<1>7. Distinct(path'[at]) /\ \A d : On(path'[at], d) <=> On(path[at], d) \/ d = c
  <2> DEFINE R == 1..read
             T == Seq(R)
             p == path[at]
  <2>1. path \in Seq(T)
    BY <1>1
  <2> HIDE DEF T
  <2>2. p \in T
    BY <1>1, <2>1, ElementOfSeq
  <2>3. Distinct(p) /\ ~On(p, c) /\ c \in R
    BY <1>1, <1>2, <1>6 DEF OwnedInv
  <2> HIDE DEF p, R
  <2>4. p \in Seq(R)
    BY <2>2 DEF T
  <2>5. Distinct(Append(p, c)) /\ \A d : On(Append(p, c), d) <=> On(p, d) \/ d = c
    BY <2>3, <2>4, PathWith
  <2>6. path'[at] = Append(p, c)
    BY <1>2 DEF p
  <2> QED
    BY <2>5, <2>6 DEF p
<1>8. \A t \in 1..Len(path) : Distinct(path'[t])
  BY <1>2, <1>7 DEF OwnedInv
<1>9. \A t \in 1..Len(path) : \A d :
        On(path'[t], d) <=> On(path[t], d) \/ (t = at /\ d = c)
  BY <1>2, <1>7
<1>10. /\ \A s \in 1..Len(path) : \A d \in 1..read : ~(On(list', d) /\ On(path'[s], d))
       /\ \A d \in 1..read : On(list', d) \/ \E s \in 1..Len(path) : On(path'[s], d)
  BY <1>1, <1>4, <1>9 DEF OwnedInv
<1>11. ASSUME NEW s \in 1..Len(path), NEW t \in 1..Len(path), NEW d \in 1..read, s # t,
              On(path'[s], d), On(path'[t], d)
       PROVE  FALSE
  <2>1. \A u \in 1..Len(path) : ~On(path[u], c)
    BY <1>2, <1>5 DEF OwnedInv
  <2>2. d # c
    BY <1>9, <1>11, <2>1
  <2>3. On(path[s], d) /\ On(path[t], d)
    BY <1>9, <1>11, <2>2
  <2> QED
    BY <1>11, <2>3 DEF OwnedInv
<1> QED
  BY <1>2, <1>4, <1>8, <1>10, <1>11 DEF OwnedInv

LEMMA OwnedStep == TypeInv /\ OwnedInv /\ ScanInv /\ [Next]_vars => OwnedInv' /\ ScanInv'
<1> SUFFICES ASSUME TypeInv, OwnedInv, ScanInv, [Next]_vars
             PROVE  OwnedInv' /\ ScanInv'
  OBVIOUS
<1>1. ASSUME UNCHANGED <<read, list, path, scan>>, pc' # "super"
      PROVE  OwnedInv' /\ ScanInv'
  BY <1>1 DEF OwnedInv, ScanInv
<1>2. ASSUME NEW n \in 0..(IF msg = None THEN 0 ELSE Len(msg.certs)),
             ParseSignedDataCerts(n)
      PROVE  OwnedInv' /\ ScanInv'
  <2>1. /\ pc = "certs" /\ read' = n /\ list' = [i \in 1..n |-> i] /\ path' = <<>>
        /\ scan' = scan /\ pc' \in {"crl", "refused"}
    BY <1>2 DEF ParseSignedDataCerts, GoOn, TypeInv, Progress
  <2>2. n \in Nat
    BY <2>1, MessageShape
  <2>3. Len(list') = n /\ Len(path') = 0
    BY <2>1, <2>2, EmptySeq
  <2>4. Distinct(list') /\ \A c \in 1..n : On(list', c)
    BY <2>1, <2>2, <2>3 DEF Distinct, On
  <2> QED
    BY <2>1, <2>3, <2>4 DEF OwnedInv, ScanInv
<1>3. ASSUME NEW ok \in BOOLEAN, ParseSigner(ok)
      PROVE  OwnedInv' /\ ScanInv'
  <2>1. /\ path \in Seq(Seq(1..read)) /\ path' = Append(path, <<>>)
        /\ UNCHANGED <<read, list, scan>> /\ pc' \in {"signer", "leaf", "refused"}
    BY <1>3, MessageShape DEF ParseSigner, GoOn, data
  <2>2. /\ Len(path) \in Nat /\ Len(path') = Len(path) + 1
        /\ \A s \in 1..Len(path) : path'[s] = path[s]
        /\ path'[Len(path) + 1] = <<>>
    <3> DEFINE T == Seq(1..read)
    <3>1. path \in Seq(T) /\ <<>> \in T
      BY <2>1, EmptySeq
    <3> HIDE DEF T
    <3> QED
      BY <2>1, <3>1, AppendProperties, LenProperties
  <2>3. Distinct(<<>>) /\ \A c : ~On(<<>>, c)
    BY EmptySeq DEF Distinct, On
  <2>4. \A s \in 1..Len(path') :
         \/ s \in 1..Len(path) /\ path'[s] = path[s]
         \/ path'[s] = <<>>
    BY <2>2
  <2>7. \A s \in 1..Len(path) : s \in 1..Len(path')
    BY <2>2
  <2>8. \A c \in 1..read, s \in 1..Len(path') :
           On(path'[s], c) => s \in 1..Len(path) /\ On(path[s], c)
    BY <2>3, <2>4
  <2>5. /\ \A s \in 1..Len(path') : Distinct(path'[s])
        /\ \A s \in 1..Len(path') : \A c \in 1..read : ~(On(list, c) /\ On(path'[s], c))
        /\ \A s, t \in 1..Len(path') : \A c \in 1..read :
              s # t => ~(On(path'[s], c) /\ On(path'[t], c))
    BY <2>3, <2>4, <2>8 DEF OwnedInv
  <2>6. \A c \in 1..read : On(list, c) \/ \E s \in 1..Len(path') : On(path'[s], c)
    BY <2>2, <2>7 DEF OwnedInv
  <2> QED
    BY <2>1, <2>5, <2>6 DEF OwnedInv, ScanInv
<1>4. ASSUME FindSignerCert
      PROVE  OwnedInv' /\ ScanInv'
  <2> DEFINE leaf == FindLeaf(msg.signers[at])
  <2>1. pc = "leaf" /\ read' = read
    BY <1>4 DEF FindSignerCert, data
  <2>2. CASE leaf = None \/ ~rootLoaded
    BY <1>1, <1>4, <2>1, <2>2 DEF FindSignerCert
  <2>3. CASE ~(leaf = None \/ ~rootLoaded)
    <3>1. /\ list' = DelCertOfSignedData(leaf)
          /\ AddCertToSignerCertPath(leaf)
          /\ scan' = [count |-> 0, most |-> Len(list)]
      BY <1>4, <2>3 DEF FindSignerCert
    <3>2. /\ list \in Seq(1..read) /\ read \in Nat /\ Len(list) \in Nat
          /\ path \in Seq(Seq(1..read)) /\ path # <<>>
      BY <2>1, MessageShape, EmptySeq DEF TypeInv, Progress, Built
    <3>3. PICK j \in 1..Len(list) : leaf = list[j]
      BY <2>3, <3>2, LeafFound
    <3> HIDE DEF leaf
    <3>4. OwnedInv' /\ Len(list') = Len(list) - 1
      BY <2>1, <3>1, <3>2, <3>3, MoveKeepsOwners
    <3> QED
      BY <3>1, <3>2, <3>4 DEF ScanInv
  <2> QED
    BY <2>2, <2>3
<1>5. ASSUME BuildSignerCertPath
      PROVE  OwnedInv' /\ ScanInv'
  <2> DEFINE c == path[at][Len(path[at])]
             super == FindSuperCert(c)
  <2>1. pc = "super" /\ read' = read
    BY <1>5 DEF BuildSignerCertPath, data
  <2>2. CASE super = None
    BY <1>1, <1>5, <2>2 DEF BuildSignerCertPath, NextSigner, data
  <2>3. CASE super # None
    <3>1. /\ list' = DelCertOfSignedData(super)
          /\ AddCertToSignerCertPath(super)
          /\ scan' = [scan EXCEPT !.count = @ + 1]
      BY <1>5, <2>3 DEF BuildSignerCertPath
    <3>2. /\ list \in Seq(1..read) /\ read \in Nat /\ Len(list) \in Nat
          /\ path \in Seq(Seq(1..read)) /\ path # <<>>
      BY <2>1, MessageShape, EmptySeq DEF TypeInv, Progress, Built
    <3> HIDE DEF c
    <3>3. PICK j \in 1..Len(list) : super = list[j]
      BY <2>3, <3>2, SuperFound
    <3> HIDE DEF super
    <3>4. OwnedInv' /\ Len(list') = Len(list) - 1
      BY <2>1, <3>1, <3>2, <3>3, MoveKeepsOwners
    <3>5. scan \in [count : Nat, most : Nat]
      BY DEF TypeInv, Progress
    <3>6. scan'.count = scan.count + 1 /\ scan'.most = scan.most
      BY <3>1, <3>5
    <3> QED
      BY <2>1, <3>2, <3>4, <3>5, <3>6 DEF ScanInv
  <2> QED
    BY <2>2, <2>3
<1>6. ASSUME FreeRes
      PROVE  OwnedInv' /\ ScanInv'
  <2>1. list' = <<>> /\ path' = <<>> /\ read' = 0 /\ scan' = NoScan /\ pc' = "idle"
    BY <1>6 DEF FreeRes, FreeCerts
  <2>2. Len(list') = 0 /\ Len(path') = 0
    BY <2>1, EmptySeq
  <2> QED
    BY <2>1, <2>2 DEF OwnedInv, ScanInv, Distinct, NoScan
<1>7. ASSUME NEW mode \in BOOLEAN, EnableDebugMode(mode)
      PROVE  OwnedInv' /\ ScanInv'
  BY <1>1, <1>7 DEF EnableDebugMode, data
<1>8. ASSUME pc = "idle", NEW m \in Messages, NEW u \in Uses,
             NEW loads \in BOOLEAN, NEW ok \in BOOLEAN, BeginParse(m, u, loads, ok)
      PROVE  OwnedInv' /\ ScanInv'
  BY <1>1, <1>8 DEF BeginParse, GoOn
<1>9. ASSUME NEW ok \in BOOLEAN,
             ParseContent(ok) \/ ParseSignedDataCrl(ok) \/ ResolveSigners(ok)
      PROVE  OwnedInv' /\ ScanInv'
  BY <1>1, <1>9 DEF ParseContent, ParseSignedDataCrl, ResolveSigners, GoOn, data
<1>10. ASSUME VerifyCertsChain \/ VerifySignerSignature \/ VerifyFails
       PROVE  OwnedInv' /\ ScanInv'
  BY <1>1, <1>10
  DEF VerifyCertsChain, VerifySignerSignature, VerifyFails, NextSigner, data
<1>11. CASE UNCHANGED vars
  BY <1>11 DEF vars, data, OwnedInv, ScanInv
<1> QED
  BY <1>2, <1>3, <1>4, <1>5, <1>6, <1>7, <1>8, <1>9, <1>10, <1>11 DEF Next

LEMMA OwnedStart == Init => OwnedInv /\ ScanInv
  BY EmptySeq DEF Init, OwnedInv, ScanInv, Distinct, NoScan

\* One owner is one place.
LEMMA OwnersAreCounted == TypeInv /\ OwnedInv /\ ScanInv => CertOwnedOnce
<1> SUFFICES ASSUME TypeInv, OwnedInv, ScanInv, NEW c \in 1..read
             PROVE  Places(c) = 1
  BY DEF CertOwnedOnce, ScanInv
<1>1. list \in Seq(1..read) /\ path \in Seq(Seq(1..read))
  BY DEF TypeInv, TypeOK
<1>2. DOMAIN list = 1..Len(list) /\ DOMAIN path = 1..Len(path)
  BY <1>1, LenProperties
<1>3. \A s \in 1..Len(path) : DOMAIN path[s] = 1..Len(path[s])
  <2> DEFINE T == Seq(1..read)
  <2>1. path \in Seq(T)
    BY <1>1
  <2>2. \A s \in 1..Len(path) : path[s] \in T
    <3> HIDE DEF T
    <3> QED
      BY <2>1, ElementOfSeq
  <2> QED
    BY <2>2, LenProperties
<1> DEFINE inList  == PlacesIn(list, c)
           inPaths == UNION {{s} \X PlacesIn(path[s], c) : s \in DOMAIN path}
<1>4. Places(c) = Cardinality(inList) + Cardinality(inPaths)
  BY DEF Places
<1>5. \A i : i \in inList <=> i \in 1..Len(list) /\ list[i] = c
  BY <1>2 DEF PlacesIn
<1>6. \A x : x \in inPaths =>
         \E s \in 1..Len(path) : \E i \in 1..Len(path[s]) : x = <<s, i>> /\ path[s][i] = c
  <2> TAKE x
  <2> HAVE x \in inPaths
  <2>1. PICK s \in DOMAIN path : x \in {s} \X PlacesIn(path[s], c)
    OBVIOUS
  <2>2. PICK i \in PlacesIn(path[s], c) : x = <<s, i>>
    BY <2>1
  <2>3. s \in 1..Len(path) /\ i \in 1..Len(path[s]) /\ path[s][i] = c
    BY <1>2, <1>3, <2>2 DEF PlacesIn
  <2> QED
    BY <2>2, <2>3
<1>7. \A s \in 1..Len(path) : \A i \in 1..Len(path[s]) : path[s][i] = c => <<s, i>> \in inPaths
  <2> TAKE s \in 1..Len(path)
  <2> TAKE i \in 1..Len(path[s])
  <2> HAVE path[s][i] = c
  <2>1. i \in PlacesIn(path[s], c)
    BY <1>3 DEF PlacesIn
  <2>2. <<s, i>> \in {s} \X PlacesIn(path[s], c)
    BY <2>1
  <2> QED
    BY <1>2, <2>2
<1> HIDE DEF inList, inPaths
<1>8. Cardinality({}) = 0 /\ \A x : Cardinality({x}) = 1
  BY FS_EmptySet, FS_Singleton
<1>9. CASE On(list, c)
  <2>1. PICK i \in 1..Len(list) : list[i] = c
    BY <1>9 DEF On
  <2>2. inList = {i}
    BY <1>5, <2>1 DEF OwnedInv, Distinct
  <2>3. inPaths = {}
    <3>1. \A s \in 1..Len(path) : ~On(path[s], c)
      BY <1>9 DEF OwnedInv
    <3> QED
      BY <1>6, <3>1 DEF On
  <2>4. Cardinality(inList) = 1 /\ Cardinality(inPaths) = 0
    BY <1>8, <2>2, <2>3
  <2> QED
    BY <1>4, <2>4
<1>10. CASE ~On(list, c)
  <2>1. inList = {}
    BY <1>5, <1>10 DEF On
  <2>2. PICK s \in 1..Len(path) : On(path[s], c)
    BY <1>10 DEF OwnedInv
  <2>3. PICK i \in 1..Len(path[s]) : path[s][i] = c
    BY <2>2 DEF On
  <2>4. ASSUME NEW t \in 1..Len(path), NEW k \in 1..Len(path[t]), path[t][k] = c
        PROVE  t = s /\ k = i
    <3>1. On(path[t], c)
      BY <2>4 DEF On
    <3>2. t = s
      BY <2>2, <3>1 DEF OwnedInv
    <3>3. Distinct(path[s])
      BY DEF OwnedInv
    <3> QED
      BY <2>3, <2>4, <3>2, <3>3 DEF Distinct
  <2>5. inPaths = {<<s, i>>}
    BY <1>6, <1>7, <2>3, <2>4
  <2>6. Cardinality(inList) = 0 /\ Cardinality(inPaths) = 1
    BY <1>8, <2>1, <2>5
  <2> QED
    BY <1>4, <2>6
<1> QED
  BY <1>9, <1>10

\* Whatever the message and whatever fails, each certificate parsed is in the
\* list or in the path of one signer and in no other place, so that freeing the
\* paths and then the list frees each once; and no path outgrows the list.
THEOREM OneOwner == Spec => []CertOwnedOnce
  BY TypeStart, TypeStep, OwnedStart, OwnedStep, OwnersAreCounted, PTL DEF Spec

-----------------------------------------------------------------------------
(* What is accepted is vouched for.                                        *)

\* Which of its checks a call has done, in the order of its caller.
ChainsDone  == pc \in {"signature", "accepted"} \/ (pc = "resolve" /\ use = "profile")
ResolveDone == pc \in {"signature", "accepted"} \/ (pc = "chain" /\ use = "app")

\* Signer s of the message m names its certificate c, and has signed with it.
Named(m, s, c) ==
    /\ m.signers[s].serial = m.certs[c].serial
    /\ SameName(m.signers[s].issuer, m.certs[c].issuer)

Fits(m, s, c) == SignatureFits(m.signers[s], m.certs[c])

\* The signers that have a path yet, whose first certificate is theirs, and
\* what has been found of them.
PathInv ==
    /\ pc \in {"content", "certs", "crl", "signer", "resolve"} => at = 1
    /\ \A s \in 1..Len(path) :
          /\ pc \in {"content", "certs", "crl", "signer"} => path[s] = <<>>
          /\ pc = "leaf" => (path[s] # <<>> <=> s < at)
          /\ pc = "super" => (path[s] # <<>> <=> s <= at)
          /\ pc \in {"resolve", "chain", "signature", "accepted"} => path[s] # <<>>
          /\ path[s] # <<>> => Named(msg, s, path[s][1])
          /\ ChainsDone \/ (pc = "chain" /\ s < at) => ChainVerified(path[s])
          /\ pc = "accepted" \/ (pc = "signature" /\ s < at) => Fits(msg, s, path[s][1])
    /\ ResolveDone => ~TooDeep(path[1])

LEMMA PathShape ==
    ASSUME TypeInv, pc # "idle", NEW s \in 1..Len(path)
    PROVE  /\ path[s] \in Seq(1..read) /\ Len(path[s]) \in Nat
           /\ path[s] # <<>> => Len(path[s]) \in Nat \ {0}
           /\ \A i \in 1..Len(path[s]) : path[s][i] \in 1..Len(msg.certs)
           /\ DOMAIN path[s] = 1..Len(path[s])
<1> DEFINE T == Seq(1..read)
<1>1. path \in Seq(T) /\ read \in 0..Len(msg.certs) /\ Len(msg.certs) \in Nat
  BY MessageShape
<1>2. path[s] \in T
  <2> HIDE DEF T
  <2> QED
    BY <1>1, ElementOfSeq
<1>3. path[s] \in Seq(1..read)
  BY <1>2
<1>4. Len(path[s]) \in Nat /\ DOMAIN path[s] = 1..Len(path[s])
  BY <1>3, LenProperties
<1>5. path[s] # <<>> => Len(path[s]) \in Nat \ {0}
  BY <1>3, EmptySeq
<1>6. \A i \in 1..Len(path[s]) : path[s][i] \in 1..read
  BY <1>3, ElementOfSeq
<1> QED
  BY <1>1, <1>3, <1>4, <1>5, <1>6

\* What a message says of paths does not change during a call.
LEMMA SameMessage ==
    ASSUME UNCHANGED <<debugMode, msg, use>>
    PROVE  /\ \A p : ChainVerified(p)' <=> ChainVerified(p)
           /\ \A p : TooDeep(p)' <=> TooDeep(p)
<1>1. \A p : ChainVerified(p)' <=> ChainVerified(p)
  <2>1. \A c : VerifyCrl(c)' <=> VerifyCrl(c)
    BY DEF VerifyCrl
  <2>2. \A p, root : MbedVerifies(p, root)' <=> MbedVerifies(p, root)
    BY DEF MbedVerifies, Signs, Cert
  <2>3. \A p, root : VerifyClicert(p, root)' = VerifyClicert(p, root)
    BY <2>1, <2>2 DEF VerifyClicert, Cert
  <2>4. TriedRoots' = TriedRoots
    BY DEF TriedRoots
  <2> QED
    BY <2>3, <2>4 DEF ChainVerified
<1>2. \A p : TooDeep(p)' <=> TooDeep(p)
  BY DEF TooDeep, Depth, Cert, InTrustList
<1> QED
  BY <1>1, <1>2

LEMMA PathStep == TypeInv /\ PathInv /\ [Next]_vars => PathInv'
<1> SUFFICES ASSUME TypeInv, PathInv, [Next]_vars
             PROVE  PathInv'
  OBVIOUS
<1>1. ASSUME NEW mode \in BOOLEAN, EnableDebugMode(mode)
      PROVE  PathInv'
  <2>1. path' = <<>> /\ Len(path') = 0 /\ pc' = "idle"
    BY <1>1, EmptySeq DEF EnableDebugMode, TypeInv, Progress
  <2> QED
    BY <2>1 DEF PathInv, ResolveDone
<1>2. ASSUME pc = "idle", NEW m \in Messages, NEW u \in Uses,
             NEW loads \in BOOLEAN, NEW ok \in BOOLEAN, BeginParse(m, u, loads, ok)
      PROVE  PathInv'
  <2>1. path' = <<>> /\ Len(path') = 0 /\ pc' \in {"content", "refused"} /\ at' = at
    BY <1>2, EmptySeq DEF BeginParse, GoOn, TypeInv, Progress
  <2>2. at = 1
    BY <1>2, EmptySeq DEF TypeInv, TypeOK, Progress
  <2> QED
    BY <2>1, <2>2 DEF PathInv, ResolveDone
<1>3. ASSUME \/ \E ok \in BOOLEAN : ParseContent(ok) \/ ParseSignedDataCrl(ok)
             \/ \E n \in 0..(IF msg = None THEN 0 ELSE Len(msg.certs)) :
                   ParseSignedDataCerts(n)
      PROVE  PathInv'
  <2>1. /\ pc \in {"content", "certs", "crl"} /\ pc' \in {"certs", "crl", "signer", "refused"}
        /\ at' = at /\ path' = path
    BY <1>3 DEF ParseContent, ParseSignedDataCrl, ParseSignedDataCerts, GoOn
  <2>2. path = <<>> /\ Len(path) = 0
    BY <2>1, EmptySeq DEF TypeInv, Progress
  <2> QED
    BY <2>1, <2>2 DEF PathInv, ResolveDone
<1>4. ASSUME NEW ok \in BOOLEAN, ParseSigner(ok)
      PROVE  PathInv'
  <2>1. /\ pc = "signer" /\ path \in Seq(Seq(1..read)) /\ path' = Append(path, <<>>)
        /\ pc' \in {"signer", "leaf", "refused"} /\ at' = at /\ at = 1
    BY <1>4, MessageShape DEF ParseSigner, GoOn, PathInv
  <2>2. /\ Len(path) \in Nat /\ Len(path') = Len(path) + 1
        /\ \A s \in 1..Len(path) : path'[s] = path[s]
        /\ path'[Len(path) + 1] = <<>>
    <3> DEFINE T == Seq(1..read)
    <3>1. path \in Seq(T) /\ <<>> \in T
      BY <2>1, EmptySeq
    <3> HIDE DEF T
    <3> QED
      BY <2>1, <3>1, AppendProperties, LenProperties
  <2>3. \A s \in 1..Len(path') : path'[s] = <<>>
    BY <2>1, <2>2 DEF PathInv
  <2> QED
    BY <2>1, <2>2, <2>3 DEF PathInv, ResolveDone, ChainsDone
<1>5. ASSUME FindSignerCert
      PROVE  PathInv'
  <2> DEFINE leaf == FindLeaf(msg.signers[at])
  <2>1. pc = "leaf" /\ UNCHANGED <<debugMode, msg, use, at>>
    BY <1>5 DEF FindSignerCert, data
  <2>2. CASE leaf = None \/ ~rootLoaded
    <3>1. pc' = "refused" /\ path' = path
      BY <1>5, <2>2 DEF FindSignerCert
    <3> QED
      BY <2>1, <3>1, SameMessage DEF PathInv, ChainsDone, ResolveDone
  <2>3. CASE ~(leaf = None \/ ~rootLoaded)
    <3>1. /\ list' = DelCertOfSignedData(leaf)
          /\ AddCertToSignerCertPath(leaf)
          /\ pc' = "super"
      BY <1>5, <2>3 DEF FindSignerCert
    <3>2. /\ list \in Seq(1..read) /\ read \in Nat
          /\ path \in Seq(Seq(1..read)) /\ path # <<>> /\ Len(path) \in Nat
      BY <2>1, MessageShape, EmptySeq DEF TypeInv, Progress, Built
    <3>3. PICK j \in 1..Len(list) : leaf = list[j] /\ Named(msg, at, leaf)
      BY <2>3, <3>2, LeafFound DEF IsLeafOf, Named, Cert
    <3> HIDE DEF leaf
    <3>4. /\ Len(path') = Len(path)
          /\ path'[at] = Append(path[at], leaf)
          /\ leaf \in 1..read
          /\ \A t \in 1..Len(path) : t # at => path'[t] = path[t]
      BY <2>1, <3>1, <3>2, <3>3, Moving
    <3>5. at \in 1..Len(path) /\ path[at] = <<>>
      BY <2>1, <3>2, MessageShape DEF PathInv
    <3>6. path'[at] # <<>> /\ path'[at][1] = leaf
      <4>1. <<>> \in Seq(1..read) /\ Len(<<>>) = 0
        BY EmptySeq
      <4>2. path'[at] = Append(<<>>, leaf)
        BY <3>4, <3>5
      <4> QED
        BY <3>4, <4>1, <4>2, AppendProperties
    <3>7. \A s \in 1..Len(path') :
            /\ path'[s] # <<>> <=> s <= at
            /\ path'[s] # <<>> => Named(msg, s, path'[s][1])
      <4> TAKE s \in 1..Len(path')
      <4>1. CASE s = at
        BY <3>3, <3>5, <3>6, <4>1
      <4>2. CASE s # at
        <5>1. path'[s] = path[s] /\ (path[s] # <<>> <=> s < at)
                /\ (path[s] # <<>> => Named(msg, s, path[s][1]))
          BY <2>1, <3>4, <4>2 DEF PathInv
        <5>3. s \in Nat /\ at \in Nat
          BY <3>2, <3>4, <3>5
        <5>2. s < at <=> s <= at
          BY <4>2, <5>3
        <5> QED
          BY <5>1, <5>2
      <4> QED
        BY <4>1, <4>2
    <3> QED
      BY <2>1, <3>1, <3>7 DEF PathInv, ChainsDone, ResolveDone
  <2> QED
    BY <2>2, <2>3
<1>6. ASSUME BuildSignerCertPath
      PROVE  PathInv'
  <2> DEFINE c == path[at][Len(path[at])]
             super == FindSuperCert(c)
  <2>1. pc = "super" /\ UNCHANGED <<debugMode, msg, use>>
    BY <1>6 DEF BuildSignerCertPath, data
  <2>2. /\ list \in Seq(1..read) /\ read \in Nat
        /\ path \in Seq(Seq(1..read)) /\ path # <<>> /\ Len(path) \in Nat
    BY <2>1, MessageShape, EmptySeq DEF TypeInv, Progress, Built
  <2>3. at \in 1..Len(path) /\ path[at] # <<>>
    BY <2>1, <2>2, MessageShape DEF PathInv
  <2>4. CASE super = None
    <3>1. /\ path' = path
          /\ \/ pc' = "leaf" /\ at < Len(path) /\ at' = at + 1
             \/ /\ pc' = IF use = "app" THEN "resolve" ELSE "chain"
                /\ ~(at < Len(path)) /\ at' = 1
      BY <1>6, <2>4 DEF BuildSignerCertPath, NextSigner
    <3>2. \A s \in 1..Len(path) : s <= at <=> s < at + 1
      BY <2>3
    <3>3. ~(at < Len(path)) => \A s \in 1..Len(path) : s <= at /\ ~(s < 1)
      BY <2>2, <2>3
    <3>4. use \in Uses
      BY DEF TypeInv, TypeOK
    <3>5. CASE pc' = "leaf"
      <4>1. \A s \in 1..Len(path) :
              /\ path[s] # <<>> <=> s < at'
              /\ path[s] # <<>> => Named(msg, s, path[s][1])
        BY <2>1, <3>1, <3>2, <3>5 DEF PathInv
      <4> QED
        BY <2>1, <3>1, <3>5, <4>1 DEF PathInv, ChainsDone, ResolveDone
    <3>6. CASE pc' # "leaf"
      <4>1. \A s \in 1..Len(path) : path[s] # <<>> /\ Named(msg, s, path[s][1])
        BY <2>1, <3>1, <3>3, <3>6 DEF PathInv
      <4>2. \A s \in 1..Len(path) : ~(s < at')
        BY <3>1, <3>3, <3>6
      <4> QED
        BY <2>1, <3>1, <3>4, <3>6, <4>1, <4>2 DEF PathInv, ChainsDone, ResolveDone
    <3> QED
      BY <3>5, <3>6
  <2>5. CASE super # None
    <3>1. /\ list' = DelCertOfSignedData(super)
          /\ AddCertToSignerCertPath(super)
          /\ pc' \in {"refused", "super"}
          /\ UNCHANGED at
      BY <1>6, <2>5 DEF BuildSignerCertPath
    <3> HIDE DEF c
    <3>2. PICK j \in 1..Len(list) : super = list[j]
      BY <2>2, <2>5, SuperFound
    <3> HIDE DEF super
    <3>3. /\ Len(path') = Len(path)
          /\ path'[at] = Append(path[at], super)
          /\ super \in 1..read
          /\ \A t \in 1..Len(path) : t # at => path'[t] = path[t]
      BY <2>1, <2>2, <3>1, <3>2, Moving
    <3>4. path'[at] # <<>> /\ path'[at][1] = path[at][1]
      <4> DEFINE R == 1..read
                 p == path[at]
      <4>1. p \in Seq(R) /\ Len(p) \in Nat \ {0} /\ super \in R
        BY <2>1, <2>3, <3>3, PathShape
      <4> HIDE DEF R, p
      <4>2. Append(p, super) # <<>> /\ Append(p, super)[1] = p[1]
        BY <4>1, AppendProperties
      <4> QED
        BY <3>3, <4>2 DEF p
    <3>5. \A s \in 1..Len(path') :
            /\ path'[s] # <<>> <=> s <= at
            /\ path'[s] # <<>> => Named(msg, s, path'[s][1])
      BY <2>1, <2>3, <3>3, <3>4 DEF PathInv
    <3> QED
      BY <2>1, <3>1, <3>5 DEF PathInv, ChainsDone, ResolveDone
  <2> QED
    BY <2>4, <2>5
<1>7. ASSUME NEW ok \in BOOLEAN, ResolveSigners(ok)
      PROVE  PathInv'
  <2>1. /\ pc = "resolve" /\ UNCHANGED <<debugMode, msg, use, path, at>> /\ at = 1
        /\ ok => ~TooDeep(path[1])
        /\ pc' = IF ok THEN IF use = "app" THEN "chain" ELSE "signature" ELSE "refused"
    BY <1>7 DEF ResolveSigners, Blame, GoOn, data, PathInv
  <2>2. use \in {"app", "profile"}
    BY DEF TypeInv, TypeOK, Uses
  <2>3. \A s \in 1..Len(path) : ~(s < at)
    BY <2>1
  <2>4. \A s \in 1..Len(path) :
          /\ path[s] # <<>> /\ Named(msg, s, path[s][1])
          /\ use = "profile" => ChainVerified(path[s])
    BY <2>1 DEF PathInv, ChainsDone
  <2>5. /\ \A s \in 1..Len(path) : use = "profile" => ChainVerified(path[s])'
        /\ ok => ~TooDeep(path[1])'
    BY <2>1, <2>4, SameMessage
  <2> QED
    BY <2>1, <2>2, <2>3, <2>4, <2>5 DEF PathInv, ChainsDone, ResolveDone
<1>8. ASSUME VerifyCertsChain
      PROVE  PathInv'
  <2>1. /\ pc = "chain" /\ UNCHANGED <<debugMode, msg, use, path>>
        /\ Len(path) \in Nat /\ at \in 1..Len(path)
    BY <1>8, MessageShape, EmptySeq
    DEF VerifyCertsChain, data, TypeInv, Progress, Built
  <2>2. use \in Uses
    BY DEF TypeInv, TypeOK
  <2>3. \A s \in 1..Len(path) :
          /\ path[s] # <<>> /\ Named(msg, s, path[s][1])
          /\ s < at => ChainVerified(path[s])'
    BY <2>1, SameMessage DEF PathInv
  <2>4. use = "app" => ~TooDeep(path[1])'
    BY <2>1, SameMessage DEF PathInv, ResolveDone
  <2>5. CASE path[at] # <<>> /\ ChainVerified(path[at])
    <3>1. \A s \in 1..Len(path) : s <= at => ChainVerified(path[s])'
      <4> TAKE s \in 1..Len(path)
      <4> HAVE s <= at
      <4>1. CASE s < at
        BY <2>3, <4>1
      <4>2. CASE s = at
        <5>1. ChainVerified(path[s])
          BY <2>5, <4>2
        <5> QED
          BY <2>1, <5>1, SameMessage
      <4>3. s < at \/ s = at
        BY <2>1
      <4> QED
        BY <4>1, <4>2, <4>3
    <3>2. CASE at < Len(path)
      <4>1. pc' = "chain" /\ at' = at + 1
        BY <1>8, <2>5, <3>2 DEF VerifyCertsChain, NextSigner
      <4>2. \A s \in 1..Len(path) : s < at + 1 => s <= at
        BY <2>1
      <4>3. \A s \in 1..Len(path) : s < at' => ChainVerified(path[s])'
        BY <3>1, <4>1, <4>2
      <4> QED
        BY <2>1, <2>3, <2>4, <4>1, <4>3 DEF PathInv, ChainsDone, ResolveDone
    <3>3. CASE ~(at < Len(path))
      <4>1. at' = 1 /\ pc' = IF use = "app" THEN "signature" ELSE "resolve"
        BY <1>8, <2>5, <3>3 DEF VerifyCertsChain, NextSigner
      <4>2. \A s \in 1..Len(path) : s <= at /\ ~(s < 1)
        BY <2>1, <3>3
      <4>3. \A s \in 1..Len(path) : ChainVerified(path[s])' /\ ~(s < at')
        BY <3>1, <4>1, <4>2
      <4> QED
        BY <2>1, <2>2, <2>3, <2>4, <4>1, <4>3 DEF PathInv, ChainsDone, ResolveDone
    <3> QED
      BY <3>2, <3>3
  <2>6. CASE ~(path[at] # <<>> /\ ChainVerified(path[at]))
    <3>1. pc' = "refused"
      BY <1>8, <2>6 DEF VerifyCertsChain
    <3> QED
      BY <2>1, <2>3, <3>1 DEF PathInv, ChainsDone, ResolveDone
  <2> QED
    BY <2>5, <2>6
<1>9. ASSUME VerifySignerSignature
      PROVE  PathInv'
  <2>1. /\ pc = "signature" /\ UNCHANGED <<debugMode, msg, use, path>>
        /\ Len(path) \in Nat /\ at \in 1..Len(path)
    BY <1>9, MessageShape, EmptySeq
    DEF VerifySignerSignature, data, TypeInv, Progress, Built
  <2>2. \A s \in 1..Len(path) :
          /\ path[s] # <<>> /\ Named(msg, s, path[s][1])
          /\ ChainVerified(path[s])'
          /\ s < at => Fits(msg, s, path[s][1])
    BY <2>1, SameMessage DEF PathInv, ChainsDone
  <2>3. ~TooDeep(path[1])'
    BY <2>1, SameMessage DEF PathInv, ResolveDone
  <2>4. CASE SignatureFits(msg.signers[at], Cert(path[at][1]))
    <3>1. \A s \in 1..Len(path) : s <= at => Fits(msg, s, path[s][1])
      <4>1. Fits(msg, at, path[at][1])
        BY <2>4 DEF Fits, Cert
      <4>2. \A s \in 1..Len(path) : s <= at => s < at \/ s = at
        BY <2>1
      <4> QED
        BY <2>2, <4>1, <4>2
    <3>2. CASE at < Len(path)
      <4>1. pc' = "signature" /\ at' = at + 1
        BY <1>9, <2>4, <3>2 DEF VerifySignerSignature, NextSigner
      <4>2. \A s \in 1..Len(path) : s < at + 1 => s <= at
        BY <2>1
      <4>3. \A s \in 1..Len(path) : s < at' => Fits(msg, s, path[s][1])
        BY <3>1, <4>1, <4>2
      <4> QED
        BY <2>1, <2>2, <2>3, <4>1, <4>3 DEF PathInv, ChainsDone, ResolveDone
    <3>3. CASE ~(at < Len(path))
      <4>1. at' = 1 /\ pc' = "accepted"
        BY <1>9, <2>4, <3>3 DEF VerifySignerSignature, NextSigner
      <4>2. \A s \in 1..Len(path) : s <= at
        BY <2>1, <3>3
      <4>3. \A s \in 1..Len(path) : Fits(msg, s, path[s][1])
        BY <3>1, <4>2
      <4> QED
        BY <2>1, <2>2, <2>3, <4>1, <4>3 DEF PathInv, ChainsDone, ResolveDone
    <3> QED
      BY <3>2, <3>3
  <2>5. CASE ~SignatureFits(msg.signers[at], Cert(path[at][1]))
    <3>1. pc' = "refused"
      BY <1>9, <2>5 DEF VerifySignerSignature
    <3> QED
      BY <2>1, <2>2, <3>1 DEF PathInv, ChainsDone, ResolveDone
  <2> QED
    BY <2>4, <2>5
<1>10. ASSUME VerifyFails
       PROVE  PathInv'
  <2>1. pc' = "refused" /\ UNCHANGED <<msg, path>>
    BY <1>10 DEF VerifyFails, data
  <2> QED
    BY <2>1 DEF PathInv, ChainsDone, ResolveDone
<1>11. ASSUME FreeRes
       PROVE  PathInv'
  <2>1. path' = <<>> /\ Len(path') = 0 /\ pc' = "idle"
    BY <1>11, EmptySeq DEF FreeRes, FreeCerts
  <2> QED
    BY <2>1 DEF PathInv, ResolveDone
<1>12. CASE UNCHANGED vars
  <2>1. UNCHANGED <<debugMode, msg, use, path, pc, at>>
    BY <1>12 DEF vars, data
  <2> QED
    BY <2>1, SameMessage DEF PathInv, ChainsDone, ResolveDone
<1> QED
  BY <1>1, <1>2, <1>3, <1>4, <1>5, <1>6, <1>7, <1>8, <1>9, <1>10, <1>11, <1>12 DEF Next

LEMMA PathStart == Init => PathInv
  BY EmptySeq DEF Init, PathInv, ResolveDone

\* A path has no more certificates than the message.
LEMMA PathWithin ==
    ASSUME TypeInv, OwnedInv, pc # "idle", NEW s \in 1..Len(path)
    PROVE  Len(path[s]) <= Len(msg.certs)
<1> DEFINE p == path[s]
           n == Len(p)
<1>1. p \in Seq(1..read) /\ n \in Nat /\ DOMAIN p = 1..n /\ Distinct(p)
  BY PathShape DEF OwnedInv
<1>2. read \in 0..Len(msg.certs) /\ Len(msg.certs) \in Nat
  BY MessageShape
<1> DEFINE R == 1..read
<1>3. p \in [1..n -> R]
  <2>1. p \in Seq(R)
    BY <1>1
  <2> HIDE DEF p, R
  <2> QED
    BY <2>1, LenProperties
<1>4. p \in Injection(1..n, R)
  <2>1. \A a, b \in 1..n : p[a] = p[b] => a = b
    BY <1>1 DEF Distinct
  <2> HIDE DEF p, R, n
  <2> QED
    BY <1>3, <2>1 DEF Injection, IsInjective
<1>5. /\ IsFiniteSet(R) /\ Cardinality(R) = read
      /\ Cardinality(1..n) = n
  <2>1. 1 \in Int /\ read \in Int /\ n \in Int
    BY <1>1, <1>2
  <2> HIDE DEF n
  <2>2. /\ IsFiniteSet(1..read) /\ Cardinality(1..read) = IF 1 > read THEN 0 ELSE read - 1 + 1
        /\ Cardinality(1..n) = IF 1 > n THEN 0 ELSE n - 1 + 1
    BY <2>1, FS_Interval
  <2>3. n \in Nat /\ read \in Nat
    BY <1>1, <1>2 DEF n
  <2> QED
    BY <2>2, <2>3
<1> DEFINE I == 1..n
<1>6. Cardinality(I) <= Cardinality(R)
  <2>1. p \in Injection(I, R) /\ IsFiniteSet(R)
    BY <1>4, <1>5
  <2> HIDE DEF I, R, p, n
  <2> QED
    BY <2>1, FS_Injection
<1> QED
  BY <1>1, <1>2, <1>5, <1>6

\* Certificates of a path of which each is issued by the next vouch for the
\* first one, when a root has issued the last of them.
LEMMA ChainVouches ==
    ASSUME TypeInv, pc # "idle", NEW s \in 1..Len(path),
           NEW n \in Nat, NEW q \in [1..n -> DOMAIN path[s]],
           NEW k \in 1..n, q[1] = 1,
           \A i \in 1..(k - 1) : IssuedBy(Cert(path[s][q[i]]), Cert(path[s][q[i + 1]])),
           NEW root \in AllowedRoots, IssuedBy(Cert(path[s][q[k]]), root),
           NEW m \in Nat, k <= m
    PROVE  Cert(path[s][1]) \in VouchedWithin(m)
<1> DEFINE p == path[s]
           r == [i \in 1..k |-> Cert(p[q[i]])]
<1>1. \A i \in 1..k : q[i] \in 1..Len(p) /\ p[q[i]] \in 1..Len(msg.certs)
  BY PathShape
<1>2. DOMAIN msg.certs = 1..Len(msg.certs)
  BY MessageShape, LenProperties
<1>3. \A i \in 1..k : Cert(p[q[i]]) \in AllCerts
  BY <1>1, <1>2 DEF AllCerts
<1> HIDE DEF p
<1>4. r \in [1..k -> AllCerts]
  BY <1>3
<1>5. 1 \in 1..k /\ k \in 1..k /\ k \in 1..m
  OBVIOUS
<1>6. r[1] = Cert(p[1])
  BY <1>5
<1>7. \A i \in 1..(k - 1) : IssuedBy(r[i], r[i + 1])
  <2> TAKE i \in 1..(k - 1)
  <2>1. i \in 1..k /\ i + 1 \in 1..k
    OBVIOUS
  <2>2. r[i] = Cert(p[q[i]]) /\ r[i + 1] = Cert(p[q[i + 1]])
    BY <2>1
  <2> QED
    BY <2>2 DEF p
<1>8. IssuedBy(r[k], root)
  BY <1>5 DEF p
<1>9. Cert(p[1]) \in AllCerts
  BY <1>3, <1>5
<1> HIDE DEF r
<1>10. \E x \in 1..m : \E t \in [1..x -> AllCerts] :
          /\ t[1] = Cert(p[1])
          /\ \A i \in 1..(x - 1) : IssuedBy(t[i], t[i + 1])
          /\ \E up \in AllowedRoots : IssuedBy(t[x], up)
  BY <1>4, <1>5, <1>6, <1>7, <1>8
<1> QED
  BY <1>9, <1>10 DEF VouchedWithin, p

\* What it takes for a path to be verified.
LEMMA VerifiedBy ==
    ASSUME NEW p, ChainVerified(p)
    PROVE  /\ VerifyCrl(Cert(p[1]))
           /\ \E root \in AllowedRoots : MbedVerifies(p, root)
<1>1. PICK r \in DOMAIN TriedRoots : VerifyClicert(p, TriedRoots[r]) = "verified"
  BY DEF ChainVerified
<1>2. VerifyCrl(Cert(p[1])) /\ MbedVerifies(p, TriedRoots[r])
  BY <1>1 DEF VerifyClicert
<1>3. TriedRoots[r] \in AllowedRoots
  <2> DEFINE T == AllowedRoots
             a == IF debugMode THEN <<Roots["debug"]>> ELSE <<>>
             b == <<Roots["release"], Roots["openharmony"]>>
  <2>1. a \in Seq(T) /\ b \in Seq(T)
    <3>1. Roots["release"] \in T /\ Roots["openharmony"] \in T
            /\ (debugMode => Roots["debug"] \in T)
      BY DEF AllowedRoots
    <3> HIDE DEF T
    <3>2. <<>> \in Seq(T)
      BY EmptySeq
    <3> QED
      BY <3>1, <3>2
  <2>2. TriedRoots = a \o b
    BY DEF TriedRoots
  <2> HIDE DEF T, a, b
  <2>3. TriedRoots \in Seq(T)
    BY <2>1, <2>2, ConcatProperties
  <2>4. TriedRoots[r] \in T
    BY <1>1, <2>3, LenProperties, ElementOfSeq
  <2> QED
    BY <2>4 DEF T
<1> QED
  BY <1>2, <1>3

LEMMA VerifiedIsVouched ==
    ASSUME TypeInv, OwnedInv, pc # "idle", NEW s \in 1..Len(path),
           ChainVerified(path[s])
    PROVE  Cert(path[s][1]) \in Vouched
<1> DEFINE p == path[s]
<1>1. PICK root \in AllowedRoots : MbedVerifies(p, root)
  BY VerifiedBy
<1>5. PICK n \in 1..Len(p) : \E q \in [1..n -> DOMAIN p] :
        /\ q[1] = 1
        /\ \A i \in 1..(n - 1) :
              q[i] < q[i + 1] /\ Signs(Cert(p[q[i + 1]]), Cert(p[q[i]]))
        /\ Signs(root, Cert(p[q[n]]))
  BY <1>1 DEF MbedVerifies
<1>2. PICK q \in [1..n -> DOMAIN p] :
        /\ q[1] = 1
        /\ \A i \in 1..(n - 1) :
              q[i] < q[i + 1] /\ Signs(Cert(p[q[i + 1]]), Cert(p[q[i]]))
        /\ Signs(root, Cert(p[q[n]]))
  BY <1>5
<1>3. /\ \A i \in 1..(n - 1) : IssuedBy(Cert(p[q[i]]), Cert(p[q[i + 1]]))
      /\ IssuedBy(Cert(p[q[n]]), root)
  BY <1>2 DEF Signs, IssuedBy
<1>4. n \in Nat /\ n \in 1..n /\ Len(msg.certs) \in Nat /\ n <= Len(msg.certs)
  <2>1. Len(p) \in Nat /\ Len(p) <= Len(msg.certs) /\ Len(msg.certs) \in Nat
    BY PathWithin, PathShape, MessageShape
  <2> HIDE DEF p
  <2> QED
    BY <2>1
<1> QED
  BY <1>2, <1>3, <1>4, ChainVouches DEF Vouched

LEMMA AcceptedFollows == TypeInv /\ OwnedInv /\ PathInv => AcceptedIsVouched
<1> SUFFICES ASSUME TypeInv, OwnedInv, PathInv, pc = "accepted",
                    NEW s \in DOMAIN msg.signers
             PROVE  \E c \in Vouched : SignedBy(msg.signers[s], c) /\ VerifyCrl(c)
  BY DEF AcceptedIsVouched
<1>1. s \in 1..Len(path)
  BY MessageShape DEF TypeInv, Progress, Built
<1>2. ChainVerified(path[s]) /\ Fits(msg, s, path[s][1]) /\ Named(msg, s, path[s][1])
  BY <1>1 DEF PathInv, ChainsDone
<1>3. SignedBy(msg.signers[s], Cert(path[s][1]))
  BY <1>2 DEF SignedBy, Fits, Named, Cert
<1> QED
  BY <1>1, <1>2, <1>3, VerifiedIsVouched, VerifiedBy

\* Whatever certificates a message carries and in whatever order, when it is
\* accepted every one of its signers is vouched for by a root that is allowed.
THEOREM EverySignerVouched == Spec => []AcceptedIsVouched
  BY TypeStart, TypeStep, OwnedStart, OwnedStep, PathStart, PathStep, AcceptedFollows,
     PTL DEF Spec

-----------------------------------------------------------------------------
(* The depth of a chain is not counted too low.                            *)

LEMMA Ascending ==
    ASSUME NEW n \in Nat, NEW m \in Nat, NEW q \in [1..n -> 1..m], q[1] = 1,
           \A i \in 1..(n - 1) : q[i] < q[i + 1]
    PROVE  \A i \in 1..n : i <= q[i]
<1> DEFINE T == {i \in 1..n : ~(i <= q[i])}
<1>1. SUFFICES ASSUME T # {}
               PROVE  FALSE
  OBVIOUS
<1>2. T \subseteq Nat
  OBVIOUS
<1>3. PICK i \in T : \A k \in T : i <= k
  <2> HIDE DEF T
  <2> QED
    BY <1>1, <1>2, FirstOfNumbers
<1>4. i \in 1..n /\ ~(i <= q[i]) /\ i # 1
  OBVIOUS
<1>5. i - 1 \in 1..n /\ i - 1 \in 1..(n - 1) /\ (i - 1) + 1 = i /\ ~(i <= i - 1)
  BY <1>4
<1>6. i - 1 <= q[i - 1]
  BY <1>3, <1>5
<1>7. q[i - 1] < q[i]
  BY <1>5
<1>8. q[i - 1] \in Nat /\ q[i] \in Nat
  BY <1>4, <1>5
<1> QED
  BY <1>4, <1>5, <1>6, <1>7, <1>8

\* A certificate that bears the name of its issuer twice adds no name between
\* what it has issued and what has issued it.
LEMMA NameThrough ==
    ASSUME NEW a, NEW b, NEW c, NEW d,
           MbedSameName(a, b), SameName(c, b), MbedSameName(c, d)
    PROVE  MbedSameName(a, d)
  BY DEF MbedSameName, SameName

LEMMA DepthFollows == TypeInv /\ OwnedInv /\ PathInv => DepthNotUndercounted
<1> DEFINE p     == path[1]
           first == Cert(p[1])
           last  == Cert(p[Len(p)])
<1> SUFFICES ASSUME TypeInv, OwnedInv, PathInv, pc = "accepted", RootsOnlySelfIssued,
                    InTrustList(first)
             PROVE  first \in VouchedWithin(MaxDepth - 1)
  BY DEF DepthNotUndercounted
<1>1. 1 \in 1..Len(path) /\ p # <<>>
  BY MessageShape DEF TypeInv, Progress, Built, PathInv
<1>2. /\ Len(p) \in Nat \ {0} /\ DOMAIN p = 1..Len(p)
      /\ \A i \in 1..Len(p) : p[i] \in 1..Len(msg.certs)
  BY <1>1, PathShape
<1>3. MaxDepth \in Nat \ {0, 1} /\ MaxDepth - 1 \in Nat
  BY LitePkcs7Assumption
<1>4. ~(Depth(p) > MaxDepth)
  BY <1>1 DEF PathInv, ResolveDone, TooDeep
<1>5. ChainVerified(p)
  BY <1>1 DEF PathInv, ChainsDone
<1>6. PICK root \in AllowedRoots : MbedVerifies(p, root)
  BY <1>5, VerifiedBy
<1>7. PICK n \in 1..Len(p) : \E q \in [1..n -> DOMAIN p] :
        /\ q[1] = 1
        /\ \A i \in 1..(n - 1) :
              q[i] < q[i + 1] /\ Signs(Cert(p[q[i + 1]]), Cert(p[q[i]]))
        /\ Signs(root, Cert(p[q[n]]))
  BY <1>6 DEF MbedVerifies
<1>8. PICK q \in [1..n -> DOMAIN p] :
        /\ q[1] = 1
        /\ \A i \in 1..(n - 1) :
              q[i] < q[i + 1] /\ Signs(Cert(p[q[i + 1]]), Cert(p[q[i]]))
        /\ Signs(root, Cert(p[q[n]]))
  BY <1>7
<1>9. /\ \A i \in 1..(n - 1) : IssuedBy(Cert(p[q[i]]), Cert(p[q[i + 1]]))
      /\ IssuedBy(Cert(p[q[n]]), root)
  BY <1>8 DEF Signs, IssuedBy
<1>10. n \in Nat /\ n \in 1..n
  BY <1>2
\* The chain is cut after k, where the root takes over.
<1>11. ASSUME NEW k \in 1..n, IssuedBy(Cert(p[q[k]]), root), k <= MaxDepth - 1
       PROVE  first \in VouchedWithin(MaxDepth - 1)
  <2>1. \A i \in 1..(k - 1) : IssuedBy(Cert(p[q[i]]), Cert(p[q[i + 1]]))
    BY <1>9, <1>10
  <2> QED
    BY <1>1, <1>3, <1>8, <1>10, <1>11, <2>1, ChainVouches
<1>12. CASE n <= MaxDepth - 1
  BY <1>9, <1>10, <1>11, <1>12
<1>13. CASE ~(n <= MaxDepth - 1)
  <2>1. Depth(p) = IF SameName(last.issuer, last.subject) THEN Len(p) ELSE Len(p) + 1
    BY DEF Depth
  <2>2. SameName(last.issuer, last.subject) /\ n = Len(p) /\ Len(p) = MaxDepth
    <3> DEFINE d == Depth(p)
               l == Len(p)
               own == SameName(last.issuer, last.subject)
    <3>1. (own => d = l) /\ (~own => d = l + 1) /\ ~(d > MaxDepth)
      BY <1>4, <2>1
    <3>2. l \in Nat \ {0} /\ n \in 1..l
      BY <1>2
    <3> HIDE DEF d, l, own
    <3>3. own /\ n = l /\ l = MaxDepth
      BY <1>3, <1>13, <3>1, <3>2
    <3> QED
      BY <3>3 DEF l, own
  <2>3. q[n] = n
    <3>1. q \in [1..n -> 1..n]
      BY <1>2, <2>2
    <3>2. n <= q[n]
      BY <1>8, <1>10, <3>1, Ascending
    <3> QED
      BY <1>10, <3>1, <3>2
  <2>4. IssuedBy(last, root)
    BY <1>9, <2>2, <2>3
  <2>5. last.by = last.key
    <3>1. last \in AllCerts
      <4>1. Len(p) \in 1..Len(p)
        BY <1>2
      <4>2. DOMAIN msg.certs = 1..Len(msg.certs)
        BY MessageShape, LenProperties
      <4>3. p[Len(p)] \in DOMAIN msg.certs
        BY <1>2, <4>1, <4>2
      <4> QED
        BY <4>3 DEF AllCerts
    <3>2. SameName(last.subject, last.issuer)
      BY <2>2 DEF SameName
    <3> QED
      BY <3>1, <3>2 DEF RootsOnlySelfIssued
  <2>6. n - 1 \in 1..n /\ n - 1 \in 1..(n - 1) /\ (n - 1) + 1 = n /\ n - 1 <= MaxDepth - 1
    BY <1>3, <1>10, <2>2
  <2>7. IssuedBy(Cert(p[q[n - 1]]), last)
    BY <1>9, <2>2, <2>3, <2>6
  <2>8. IssuedBy(Cert(p[q[n - 1]]), root)
    BY <2>2, <2>4, <2>5, <2>7, NameThrough DEF IssuedBy
  <2> QED
    BY <1>11, <2>6, <2>8
<1> QED
  BY <1>12, <1>13

\* For any limit and any message, a listed signer that is accepted stands no
\* deeper below a root than the limit says: certificates that are not roots but
\* bear their own names are the only ones that the count could be fooled by.
THEOREM ListedWithinDepth == Spec => []DepthNotUndercounted
  BY TypeStart, TypeStep, OwnedStart, OwnedStep, PathStart, PathStep, DepthFollows,
     PTL DEF Spec

-----------------------------------------------------------------------------
(* What leaves no choice is not refused.                                   *)

Verifying == {"resolve", "chain", "signature", "accepted"}

\* By its name, certificate d of the message m has issued c.
Linked(m, c, d) == SameName(m.certs[c].issuer, m.certs[d].subject)

\* Nothing left in the list l goes on from the last certificate of the path p.
Ended(m, l, p) ==
    \A c \in 1..Len(m.certs) : On(l, c) => ~Linked(m, p[Len(p)], c)

\* The path of signer s is built.
PathDone(s) == pc \in Verifying \/ (pc \in {"leaf", "super"} /\ s < at)

\* The roots are there and all certificates are read before the paths are
\* built, each path is linked by names, and it ends only where the list has
\* nothing more for it.
BuildInv ==
    /\ pc \notin {"idle", "refused"} => rootLoaded
    /\ pc \in Built \cup {"crl", "signer"} => read = Len(msg.certs)
    /\ \A s \in 1..Len(path) : \A i \in 1..(Len(path[s]) - 1) :
          Linked(msg, path[s][i], path[s][i + 1])
    /\ \A s \in 1..Len(path) : PathDone(s) => Ended(msg, list, path[s])

\* The certificates of a plain message that bear one name are one.
LEMMA PlainNames ==
    ASSUME TypeInv, pc # "idle", Plain,
           NEW c \in 1..Len(msg.certs), NEW d \in 1..Len(msg.certs)
    PROVE  /\ Cert(c).subject.legal /\ Cert(c).issuer.legal
           /\ Cert(c).subject.fold = Cert(d).subject.fold => c = d
           /\ Cert(c).serial = Cert(d).serial => c = d
           /\ \A root \in AllowedRoots :
                 SameName(Cert(c).subject, root.subject) =>
                     Cert(c).issuer = Cert(c).subject
<1>1. DOMAIN msg.certs = 1..Len(msg.certs)
  BY MessageShape, LenProperties
<1>2. \A root \in AllowedRoots : \E r \in DOMAIN Roots : root = Roots[r]
  <2>1. {"debug", "release", "openharmony"} = DOMAIN Roots
    BY LitePkcs7Assumption
  <2> QED
    BY <2>1 DEF AllowedRoots
<1> QED
  BY <1>1, <1>2 DEF Plain

\* The signers of a plain message do not want each other's certificates.
LEMMA PlainOthers ==
    ASSUME TypeInv, pc # "idle", Plain,
           NEW s \in 1..Len(msg.signers), NEW t \in 1..Len(msg.signers), s # t
    PROVE  /\ msg.signers[s].serial # msg.signers[t].serial
           /\ \A c, d \in 1..Len(msg.certs) :
                 Named(msg, s, d) /\ Linked(msg, c, d) => c = d
           /\ \A b, c, d \in 1..Len(msg.certs) :
                 Linked(msg, b, d) /\ Linked(msg, c, d) => b = c \/ b = d \/ c = d
<1>1. DOMAIN msg.certs = 1..Len(msg.certs) /\ DOMAIN msg.signers = 1..Len(msg.signers)
  BY MessageShape, LenProperties
<1>2. Uncontested
  <2>1. Len(msg.signers) # 1
    <3> DEFINE n == Len(msg.signers)
    <3>1. n \in Nat /\ s \in 1..n /\ t \in 1..n /\ s # t
      BY MessageShape
    <3> HIDE DEF n
    <3>2. n # 1
      BY <3>1, SMT
    <3> QED
      BY <3>2 DEF n
  <2> QED
    BY <2>1 DEF Plain
<1> QED
  BY <1>1, <1>2 DEF Uncontested, Names, NamesIssuer, Named, Linked, Cert

\* Whatever follows the end of a path by name is on the path already.
LEMMA PlainEnd ==
    ASSUME TypeInv, OwnedInv, PathInv, BuildInv, Plain, pc \in Verifying,
           NEW s \in 1..Len(path), NEW c \in 1..Len(msg.certs),
           Linked(msg, path[s][Len(path[s])], c)
    PROVE  On(path[s], c)
<1> DEFINE p == path[s]
           last == p[Len(p)]
           m == Len(msg.certs)
<1>1. /\ Len(path) = Len(msg.signers) /\ read = m /\ m \in Nat /\ pc # "idle"
  BY MessageShape DEF Verifying, TypeInv, Progress, Built, BuildInv
<1>2. p # <<>> /\ Len(p) \in Nat \ {0} /\ last \in 1..m
  <2>1. p # <<>>
    BY DEF PathInv, Verifying
  <2> QED
    BY <1>1, <2>1, PathShape
<1>3. ~On(list, c)
  BY DEF BuildInv, PathDone, Ended
<1>4. PICK t \in 1..Len(path) : On(path[t], c)
  BY <1>1, <1>3 DEF OwnedInv
<1>5. SUFFICES ASSUME t # s
               PROVE  FALSE
  BY <1>4
<1>6. PICK i \in 1..Len(path[t]) : path[t][i] = c
  BY <1>4 DEF On
<1>7. On(p, last)
  BY <1>2 DEF On
<1>8. \A b \in 1..m : On(path[t], b) => b # last
  BY <1>1, <1>5, <1>7 DEF OwnedInv
<1>9. Len(path[t]) \in Nat /\ \A j \in 1..Len(path[t]) : path[t][j] \in 1..m
  BY <1>1, PathShape
<1> HIDE DEF p, last, m
<1>10. CASE i = 1
  <2>1. path[t] # <<>>
    BY DEF PathInv, Verifying
  <2>2. Named(msg, t, c)
    BY <1>6, <1>10, <2>1 DEF PathInv
  <2>3. last = c
    BY <1>1, <1>2, <1>5, <2>2, PlainOthers DEF p, last, m
  <2> QED
    BY <1>4, <1>8, <2>3 DEF m
<1>11. CASE i # 1
  <2> DEFINE b == path[t][i - 1]
  <2>1. i - 1 \in 1..(Len(path[t]) - 1) /\ i - 1 \in 1..Len(path[t]) /\ (i - 1) + 1 = i
    BY <1>9, <1>11
  <2>2. Linked(msg, b, c)
    BY <1>6, <2>1 DEF BuildInv
  <2>3. b \in 1..m /\ On(path[t], b)
    BY <1>9, <2>1 DEF On
  <2>4. b # c
    <3>1. Distinct(path[t]) /\ i - 1 # i
      BY <2>1 DEF OwnedInv
    <3> QED
      BY <1>6, <2>1, <3>1 DEF Distinct
  <2>5. b # last /\ c # last
    BY <1>4, <1>8, <2>3 DEF m
  <2> HIDE DEF b
  <2> QED
    BY <1>1, <1>2, <1>5, <2>2, <2>3, <2>4, <2>5, PlainOthers DEF p, last, m
<1> QED
  BY <1>10, <1>11

\* In a plain message the path of a signer follows the chain of any root that
\* vouches for it, as far as the root.
LEMMA PlainChain ==
    ASSUME TypeInv, OwnedInv, PathInv, BuildInv, Plain, pc \in Verifying,
           NEW s \in 1..Len(path),
           NEW k \in Nat \ {0}, NEW q \in [1..k -> AllCerts],
           q[1] = Cert(path[s][1]),
           \A i \in 1..(k - 1) : IssuedBy(q[i], q[i + 1]),
           NEW root \in AllowedRoots, IssuedBy(q[k], root)
    PROVE  \E t \in 1..Len(path[s]) :
              /\ t <= k
              /\ \A i \in 1..(t - 1) : IssuedBy(Cert(path[s][i]), Cert(path[s][i + 1]))
              /\ IssuedBy(Cert(path[s][t]), root)
<1> DEFINE p == path[s]
           n == Len(p)
           m == Len(msg.certs)
<1>1. m \in Nat /\ DOMAIN msg.certs = 1..m /\ pc # "idle"
  BY MessageShape, LenProperties DEF Verifying
<1>2. n \in Nat \ {0} /\ \A i \in 1..n : p[i] \in 1..m
  BY <1>1, PathShape DEF PathInv, Verifying
<1>4. \A i \in 1..(n - 1) : SameName(Cert(p[i]).issuer, Cert(p[i + 1]).subject)
  BY DEF BuildInv, Linked, Cert
<1>5. \A c \in 1..m : SameName(Cert(p[n]).issuer, Cert(c).subject) =>
         \E i \in 1..n : p[i] = c
  BY PlainEnd DEF Linked, Cert, On
<1>6. \A i \in 1..k : \E c \in 1..m : q[i] = Cert(c)
  BY <1>1 DEF AllCerts
<1> HIDE DEF p, n, m
<1>7. \A c, d \in 1..m : IssuedBy(Cert(c), Cert(d)) => SameName(Cert(c).issuer, Cert(d).subject)
  BY <1>1, PlainNames DEF IssuedBy, MbedSameName, SameName, m
<1>8. \A b, c, d \in 1..m :
         SameName(Cert(b).issuer, Cert(c).subject) /\ SameName(Cert(b).issuer, Cert(d).subject)
             => c = d
  <2> TAKE b, c, d \in 1..m
  <2> HAVE SameName(Cert(b).issuer, Cert(c).subject) /\ SameName(Cert(b).issuer, Cert(d).subject)
  <2>1. Cert(c).subject.fold = Cert(d).subject.fold
    BY DEF SameName
  <2> QED
    BY <1>1, <2>1, PlainNames DEF m
<1>9. \A i \in 1..n, c \in 1..m : IssuedBy(Cert(p[i]), Cert(c)) =>
         \/ i < n /\ c = p[i + 1]
         \/ i = n /\ \E t \in 1..n : c = p[t]
  <2> TAKE i \in 1..n, c \in 1..m
  <2> HAVE IssuedBy(Cert(p[i]), Cert(c))
  <2>1. SameName(Cert(p[i]).issuer, Cert(c).subject)
    BY <1>2, <1>7
  <2>2. CASE i < n
    <3>1. i \in 1..(n - 1) /\ i + 1 \in 1..n
      BY <1>2, <2>2
    <3>2. SameName(Cert(p[i]).issuer, Cert(p[i + 1]).subject)
      BY <1>4, <3>1
    <3>3. p[i] \in 1..m /\ p[i + 1] \in 1..m
      BY <1>2, <3>1
    <3>4. c = p[i + 1]
      BY <1>8, <2>1, <3>2, <3>3
    <3> QED
      BY <2>2, <3>4
  <2>3. CASE i = n
    BY <1>5, <2>1, <2>3
  <2>4. i < n \/ i = n
    BY <1>2
  <2> QED
    BY <2>2, <2>3, <2>4
\* Every certificate of the chain is on the path, the first ones in its order.
<1> DEFINE Agrees(i) == \E t \in 1..n : q[i] = Cert(p[t]) /\ (i <= n => t = i)
           T == {i \in 1..k : ~Agrees(i)}
<1>10. \A i \in 1..k : Agrees(i)
  <2> SUFFICES ASSUME T # {}
               PROVE  FALSE
    OBVIOUS
  <2>1. PICK i \in T : \A j \in T : i <= j
    <3>1. T \subseteq Nat
      OBVIOUS
    <3> HIDE DEF T
    <3> QED
      BY <3>1, FirstOfNumbers
  <2>2. i \in 1..k /\ ~Agrees(i)
    OBVIOUS
  <2>3. Agrees(1)
    BY <1>2 DEF p
  <2> HIDE DEF Agrees
  <2>4. i # 1
    BY <2>2, <2>3
  <2>5. i - 1 \in 1..k /\ i - 1 \in 1..(k - 1) /\ (i - 1) + 1 = i /\ ~(i <= i - 1)
    BY <2>2, <2>4
  <2>6. Agrees(i - 1)
    BY <2>1, <2>5
  <2>7. PICK t \in 1..n : q[i - 1] = Cert(p[t]) /\ (i - 1 <= n => t = i - 1)
    BY <2>6 DEF Agrees
  <2>8. PICK c \in 1..m : q[i] = Cert(c)
    BY <1>6, <2>2
  <2>9. IssuedBy(Cert(p[t]), Cert(c))
    BY <2>5, <2>7, <2>8
  <2>10. CASE t < n /\ c = p[t + 1]
    <3>1. t + 1 \in 1..n /\ (i <= n => t + 1 = i)
      BY <1>2, <2>5, <2>7, <2>10
    <3>2. Agrees(i)
      BY <2>8, <2>10, <3>1 DEF Agrees
    <3> QED
      BY <2>2, <3>2
  <2>11. CASE t = n /\ \E u \in 1..n : c = p[u]
    <3>1. ~(i <= n)
      BY <1>2, <2>5, <2>7, <2>11
    <3>2. Agrees(i)
      BY <2>8, <2>11, <3>1 DEF Agrees
    <3> QED
      BY <2>2, <3>2
  <2> QED
    BY <1>9, <2>9, <2>10, <2>11
<1>11. PICK t \in 1..n : q[k] = Cert(p[t]) /\ (k <= n => t = k)
  BY <1>10
<1>12. t <= k
  BY <1>2, <1>11
<1>13. \A i \in 1..(t - 1) : IssuedBy(Cert(p[i]), Cert(p[i + 1]))
  <2> TAKE i \in 1..(t - 1)
  <2>1. /\ i \in 1..k /\ i + 1 \in 1..k /\ i \in 1..(k - 1)
        /\ i <= n /\ i + 1 <= n
    BY <1>2, <1>12
  <2>2. q[i] = Cert(p[i]) /\ q[i + 1] = Cert(p[i + 1])
    BY <1>10, <2>1
  <2> QED
    BY <2>1, <2>2
<1> QED
  BY <1>11, <1>12, <1>13 DEF p, n

\* A move takes a certificate from the list and adds none.
LEMMA MovingTakes ==
    ASSUME TypeInv, pc # "idle", path # <<>>, NEW j \in 1..Len(list), NEW c, c = list[j],
           list' = DelCertOfSignedData(c), AddCertToSignerCertPath(c)
    PROVE  \A d : On(list', d) => On(list, d)
<1>1. Len(list) \in Nat
  BY MessageShape
<1>2. PICK i \in 1..Len(list) :
         \A k \in 1..(Len(list) - 1) :
            list'[k] = IF k < i THEN list[k] ELSE list[k + 1]
  BY Moving
<1>3. Len(list') = Len(list) - 1
  BY Moving
<1>4. \A k \in 1..Len(list') : \E l \in 1..Len(list) : list'[k] = list[l]
  <2> TAKE k \in 1..Len(list')
  <2>1. k \in 1..Len(list) /\ k + 1 \in 1..Len(list)
    BY <1>1, <1>3
  <2> QED
    BY <1>2, <1>3, <2>1
<1> QED
  BY <1>4 DEF On

LEMMA BuildStep ==
    TypeInv /\ PathInv /\ BuildInv /\ [Next]_vars => BuildInv'
<1> SUFFICES ASSUME TypeInv, PathInv, BuildInv, [Next]_vars
             PROVE  BuildInv'
  OBVIOUS
<1>1. ASSUME UNCHANGED <<rootLoaded, msg, read, list, path>>,
             pc' \notin {"idle", "refused"} => pc \notin {"idle", "refused"},
             pc' \in Built \cup {"crl", "signer"} => pc \in Built \cup {"crl", "signer"},
             \A s \in 1..Len(path) : PathDone(s)' => Ended(msg, list, path[s])
      PROVE  BuildInv'
  BY <1>1 DEF BuildInv
<1>2. ASSUME NEW mode \in BOOLEAN, EnableDebugMode(mode)
      PROVE  BuildInv'
  <2>1. UNCHANGED <<rootLoaded, msg, read, list, path, pc>> /\ pc = "idle"
    BY <1>2 DEF EnableDebugMode, data
  <2> QED
    BY <1>1, <2>1 DEF Verifying, PathDone
<1>3. ASSUME pc = "idle", NEW m \in Messages, NEW u \in Uses,
             NEW loads \in BOOLEAN, NEW ok \in BOOLEAN, BeginParse(m, u, loads, ok)
      PROVE  BuildInv'
  <2>1. /\ Len(path') = 0 /\ pc' \in {"content", "refused"}
        /\ pc' = "content" => rootLoaded' = TRUE
    BY <1>3, EmptySeq DEF BeginParse, GoOn, TypeInv, Progress
  <2> QED
    BY <2>1 DEF BuildInv, Built, Verifying, PathDone
<1>4. ASSUME NEW ok \in BOOLEAN, ParseContent(ok)
      PROVE  BuildInv'
  <2>1. /\ UNCHANGED <<rootLoaded, msg, read, list, path>> /\ pc = "content"
        /\ pc' \in {"certs", "refused"}
    BY <1>4 DEF ParseContent, GoOn, data
  <2> QED
    BY <1>1, <2>1 DEF Built, Verifying, PathDone
<1>5. ASSUME NEW n \in 0..(IF msg = None THEN 0 ELSE Len(msg.certs)),
             ParseSignedDataCerts(n)
      PROVE  BuildInv'
  <2>1. /\ pc = "certs" /\ UNCHANGED <<rootLoaded, msg, path>> /\ read' = n
        /\ pc' \in {"crl", "refused"} /\ (pc' = "crl" => n = Len(msg.certs))
    BY <1>5 DEF ParseSignedDataCerts, GoOn
  <2>2. Len(path') = 0
    BY <2>1, EmptySeq DEF TypeInv, Progress
  <2> QED
    BY <2>1, <2>2 DEF BuildInv, Built, Verifying, PathDone
<1>6. ASSUME NEW ok \in BOOLEAN, ParseSignedDataCrl(ok)
      PROVE  BuildInv'
  <2>1. /\ UNCHANGED <<rootLoaded, msg, read, list, path>> /\ pc = "crl"
        /\ pc' \in {"signer", "refused"}
    BY <1>6 DEF ParseSignedDataCrl, GoOn, data
  <2> QED
    BY <1>1, <2>1 DEF Built, Verifying, PathDone
<1>7. ASSUME NEW ok \in BOOLEAN, ParseSigner(ok)
      PROVE  BuildInv'
  <2>1. /\ pc = "signer" /\ path \in Seq(Seq(1..read)) /\ path' = Append(path, <<>>)
        /\ pc' \in {"signer", "leaf", "refused"}
        /\ at = 1 /\ UNCHANGED <<rootLoaded, msg, read, at>>
    BY <1>7, MessageShape DEF ParseSigner, GoOn, data, PathInv
  <2>2. /\ Len(path) \in Nat /\ Len(path') = Len(path) + 1
        /\ \A s \in 1..Len(path) : path'[s] = path[s]
        /\ path'[Len(path) + 1] = <<>>
    <3> DEFINE T == Seq(1..read)
    <3>1. path \in Seq(T) /\ <<>> \in T
      BY <2>1, EmptySeq
    <3> HIDE DEF T
    <3> QED
      BY <2>1, <3>1, AppendProperties, LenProperties
  <2>3. \A s \in 1..Len(path') : Len(path'[s]) = 0
    BY <2>1, <2>2, EmptySeq DEF PathInv
  <2> QED
    BY <2>1, <2>3 DEF BuildInv, Built, Verifying, PathDone
<1>8. ASSUME FindSignerCert
      PROVE  BuildInv'
  <2> DEFINE leaf == FindLeaf(msg.signers[at])
  <2>1. pc = "leaf" /\ UNCHANGED <<rootLoaded, msg, read, at>>
    BY <1>8 DEF FindSignerCert, data
  <2>2. CASE leaf = None \/ ~rootLoaded
    <3>1. pc' = "refused" /\ UNCHANGED <<list, path>>
      BY <1>8, <2>2 DEF FindSignerCert
    <3> QED
      BY <1>1, <2>1, <3>1 DEF Built, Verifying, PathDone
  <2>3. CASE ~(leaf = None \/ ~rootLoaded)
    <3>1. /\ list' = DelCertOfSignedData(leaf)
          /\ AddCertToSignerCertPath(leaf)
          /\ pc' = "super"
      BY <1>8, <2>3 DEF FindSignerCert
    <3>2. /\ list \in Seq(1..read) /\ read \in Nat
          /\ path \in Seq(Seq(1..read)) /\ path # <<>>
      BY <2>1, MessageShape, EmptySeq DEF TypeInv, Progress, Built
    <3>3. PICK j \in 1..Len(list) : leaf = list[j]
      BY <2>3, <3>2, LeafFound
    <3> HIDE DEF leaf
    <3>4. /\ Len(path') = Len(path)
          /\ path'[at] = Append(path[at], leaf)
          /\ leaf \in 1..read
          /\ \A t \in 1..Len(path) : t # at => path'[t] = path[t]
      BY <2>1, <3>1, <3>2, <3>3, Moving
    <3>5. at \in 1..Len(path) /\ path[at] = <<>>
      BY <2>1, <3>2, MessageShape DEF PathInv
    <3>6. Len(path'[at]) = 1
      <4>1. <<>> \in Seq(1..read) /\ Len(<<>>) = 0
        BY EmptySeq
      <4>2. path'[at] = Append(<<>>, leaf)
        BY <3>4, <3>5
      <4> QED
        BY <3>4, <4>1, <4>2, AppendProperties
    <3>7. \A s \in 1..Len(path') : \A i \in 1..(Len(path'[s]) - 1) :
             Linked(msg, path'[s][i], path'[s][i + 1])
      <4> TAKE s \in 1..Len(path')
      <4>1. CASE s = at
        BY <3>6, <4>1
      <4>2. CASE s # at
        BY <3>4, <4>2 DEF BuildInv
      <4> QED
        BY <4>1, <4>2
    <3>8. \A s \in 1..Len(path') : PathDone(s)' => Ended(msg, list', path'[s])
      <4> TAKE s \in 1..Len(path')
      <4> HAVE PathDone(s)'
      <4>1. s < at /\ path'[s] = path[s] /\ s \in 1..Len(path)
        BY <2>1, <3>1, <3>4, <3>5 DEF PathDone, Verifying
      <4>2. Ended(msg, list, path[s])
        BY <2>1, <4>1 DEF BuildInv, PathDone
      <4> QED
        BY <2>1, <3>1, <3>2, <3>3, <4>1, <4>2, MovingTakes DEF Ended
    <3> QED
      BY <2>1, <3>1, <3>7, <3>8 DEF BuildInv, Built
  <2> QED
    BY <2>2, <2>3
<1>9. ASSUME BuildSignerCertPath
      PROVE  BuildInv'
  <2> DEFINE c == path[at][Len(path[at])]
             super == FindSuperCert(c)
  <2>1. pc = "super" /\ UNCHANGED <<rootLoaded, msg, read>>
    BY <1>9 DEF BuildSignerCertPath, data
  <2>2. /\ list \in Seq(1..read) /\ read \in Nat
        /\ path \in Seq(Seq(1..read)) /\ path # <<>> /\ Len(path) = Len(msg.signers)
    BY <2>1, MessageShape, EmptySeq DEF TypeInv, Progress, Built
  <2>3. at \in 1..Len(path) /\ path[at] # <<>>
    BY <2>1, <2>2, MessageShape DEF PathInv
  <2>4. CASE super = None
    <3>1. /\ UNCHANGED <<list, path>>
          /\ pc' \in {"leaf", "resolve", "chain"}
          /\ pc' = "leaf" => at' = at + 1
          /\ pc' # "leaf" => at = Len(path)
      BY <1>9, <2>2, <2>3, <2>4 DEF BuildSignerCertPath, NextSigner
    <3>2. \A i \in 1..Len(list) : ~Linked(msg, c, list[i])
      <4> HIDE DEF c
      <4> QED
        BY <2>2, <2>4, SuperFound DEF Linked, Cert
    <3>3. Ended(msg, list, path[at])
      BY <3>2 DEF Ended, On
    <3>4. \A s \in 1..Len(path) : s < at => Ended(msg, list, path[s])
      BY <2>1 DEF BuildInv, PathDone
    <3>5. \A s \in 1..Len(path) : PathDone(s)' => s <= at
      BY <2>2, <2>3, <3>1 DEF PathDone, Verifying
    <3>6. \A s \in 1..Len(path) : PathDone(s)' => Ended(msg, list, path[s])
      BY <2>2, <2>3, <3>3, <3>4, <3>5
    <3> QED
      BY <1>1, <2>1, <3>1, <3>6 DEF Built
  <2>5. CASE super # None
    <3>1. /\ list' = DelCertOfSignedData(super)
          /\ AddCertToSignerCertPath(super)
          /\ pc' \in {"refused", "super"} /\ at' = at
      BY <1>9, <2>5 DEF BuildSignerCertPath
    <3>2. PICK j \in 1..Len(list) : super = list[j] /\ Linked(msg, c, super)
      <4> HIDE DEF c
      <4> QED
        BY <2>2, <2>5, SuperFound DEF Linked, Cert
    <3> HIDE DEF super
    <3>3. /\ Len(path') = Len(path)
          /\ path'[at] = Append(path[at], super)
          /\ super \in 1..read
          /\ \A t \in 1..Len(path) : t # at => path'[t] = path[t]
      BY <2>1, <2>2, <3>1, <3>2, Moving
    <3>4. \A i \in 1..(Len(path'[at]) - 1) :
             Linked(msg, path'[at][i], path'[at][i + 1])
      <4> DEFINE R == 1..read
                 p == path[at]
                 l == Append(p, super)
      <4>1. p \in Seq(R) /\ Len(p) \in Nat \ {0} /\ super \in R
        BY <2>1, <2>3, <3>3, PathShape
      <4>2. \A i \in 1..(Len(p) - 1) : Linked(msg, p[i], p[i + 1])
        BY <2>3 DEF BuildInv
      <4>3. Linked(msg, p[Len(p)], super)
        BY <3>2
      <4> HIDE DEF R, p
      <4>4. /\ Len(l) = Len(p) + 1 /\ l[Len(p) + 1] = super
            /\ \A i \in 1..Len(p) : l[i] = p[i]
        BY <4>1, AppendProperties
      <4> HIDE DEF l
      <4>5. \A i \in 1..(Len(l) - 1) : Linked(msg, l[i], l[i + 1])
        <5> TAKE i \in 1..(Len(l) - 1)
        <5>1. i \in 1..Len(p)
          BY <4>1, <4>4
        <5>2. CASE i = Len(p)
          BY <4>3, <4>4, <5>1, <5>2
        <5>3. CASE i # Len(p)
          <6>1. i \in 1..(Len(p) - 1) /\ i + 1 \in 1..Len(p)
            BY <4>1, <5>1, <5>3
          <6> QED
            BY <4>2, <4>4, <5>1, <6>1
        <5> QED
          BY <5>2, <5>3
      <4> QED
        BY <3>3, <4>5 DEF l, p
    <3>5. \A s \in 1..Len(path') : \A i \in 1..(Len(path'[s]) - 1) :
             Linked(msg, path'[s][i], path'[s][i + 1])
      <4> TAKE s \in 1..Len(path')
      <4>1. CASE s = at
        BY <3>4, <4>1
      <4>2. CASE s # at
        BY <3>3, <4>2 DEF BuildInv
      <4> QED
        BY <4>1, <4>2
    <3>6. \A s \in 1..Len(path') : PathDone(s)' => Ended(msg, list', path'[s])
      <4> TAKE s \in 1..Len(path')
      <4> HAVE PathDone(s)'
      <4>1. s < at /\ path'[s] = path[s] /\ s \in 1..Len(path)
        BY <2>1, <2>3, <3>1, <3>3 DEF PathDone, Verifying
      <4>2. Ended(msg, list, path[s])
        BY <2>1, <4>1 DEF BuildInv, PathDone
      <4> QED
        BY <2>1, <2>2, <3>1, <3>2, <4>1, <4>2, MovingTakes DEF Ended
    <3> QED
      BY <2>1, <3>1, <3>5, <3>6 DEF BuildInv, Built
  <2> QED
    BY <2>4, <2>5
<1>10. ASSUME \/ \E ok \in BOOLEAN : ResolveSigners(ok)
              \/ VerifyCertsChain \/ VerifySignerSignature \/ VerifyFails
       PROVE  BuildInv'
  <2>1. /\ UNCHANGED <<rootLoaded, msg, read, list, path>>
        /\ pc \in {"resolve", "chain", "signature"}
    BY <1>10 DEF ResolveSigners, VerifyCertsChain, VerifySignerSignature, VerifyFails, data
  <2>2. pc \in Built /\ pc \in Verifying /\ pc \notin {"idle", "refused"}
    BY <2>1 DEF Built, Verifying, PathDone
  <2>3. \A s \in 1..Len(path) : Ended(msg, list, path[s])
    BY <2>2 DEF BuildInv, PathDone
  <2> QED
    BY <1>1, <2>1, <2>2, <2>3
<1>11. ASSUME FreeRes
       PROVE  BuildInv'
  <2>1. Len(path') = 0 /\ pc' = "idle"
    BY <1>11, EmptySeq DEF FreeRes, FreeCerts
  <2> QED
    BY <2>1 DEF BuildInv, Built, Verifying, PathDone
<1>12. CASE UNCHANGED vars
  BY <1>12 DEF vars, data, BuildInv, PathDone
<1> QED
  BY <1>2, <1>3, <1>4, <1>5, <1>6, <1>7, <1>8, <1>9, <1>10, <1>11, <1>12 DEF Next

LEMMA BuildStart == Init => BuildInv
  BY EmptySeq DEF Init, BuildInv, Built, Verifying, PathDone

\* The trust lists refuse the first signer of a plain message.
Justified ==
    \A c \in Vouched : SignedBy(msg.signers[1], c) =>
        IF InTrustList(c) THEN c \notin VouchedWithin(MaxDepth - 1)
                          ELSE use = "profile"

LEMMA SamePromise ==
    ASSUME UNCHANGED <<debugMode, msg, use>>
    PROVE  /\ Plain' <=> Plain
           /\ AllVouched' <=> AllVouched
           /\ Justified' <=> Justified
<1>1. Plain' <=> Plain
  <2>1. Uncontested' <=> Uncontested
    BY DEF Uncontested, Names, NamesIssuer, Cert
  <2> QED
    BY <2>1 DEF Plain, Cert
<1>2. AllCerts' = AllCerts /\ AllowedRoots' = AllowedRoots
  BY DEF AllCerts, Cert, AllowedRoots
<1>3. \A n : VouchedWithin(n)' = VouchedWithin(n)
  BY <1>2 DEF VouchedWithin
<1>4. Vouched' = Vouched
  <2>1. Vouched' = VouchedWithin(Len(msg.certs))'
    BY DEF Vouched
  <2> QED
    BY <1>2 DEF Vouched, VouchedWithin
<1>5. Justified' <=> Justified
  <2>1. \A c : InTrustList(c)' <=> InTrustList(c)
    BY DEF InTrustList
  <2> QED
    BY <1>3, <1>4, <2>1 DEF Justified
<1>6. AllVouched' <=> AllVouched
  BY <1>4 DEF AllVouched
<1> QED
  BY <1>1, <1>5, <1>6

\* The certificate that is vouched for heads the path of its signer.
LEMMA PlainLeaf ==
    ASSUME TypeInv, PathInv, Plain, pc \in Verifying,
           NEW s \in 1..Len(path), NEW x \in AllCerts, SignedBy(msg.signers[s], x)
    PROVE  /\ path[s] # <<>>
           /\ x = Cert(path[s][1])
           /\ \A k \in 1..Len(path[s]) : Cert(path[s][k]) \in AllCerts
<1>1. pc # "idle" /\ DOMAIN msg.certs = 1..Len(msg.certs)
  BY MessageShape, LenProperties DEF Verifying
<1>2. path[s] # <<>> /\ Named(msg, s, path[s][1])
  BY <1>1 DEF PathInv, Verifying
<1>3. \A k \in 1..Len(path[s]) : path[s][k] \in 1..Len(msg.certs)
  BY <1>1, PathShape
<1>4. path[s][1] \in 1..Len(msg.certs)
  <2>1. 1 \in 1..Len(path[s])
    BY <1>1, <1>2, PathShape
  <2> QED
    BY <1>3, <2>1
<1>5. PICK c \in 1..Len(msg.certs) : x = Cert(c)
  BY <1>1 DEF AllCerts
<1>6. Cert(c).serial = Cert(path[s][1]).serial
  BY <1>2, <1>5 DEF SignedBy, Named, Cert
<1>7. c = path[s][1]
  BY <1>1, <1>4, <1>5, <1>6, PlainNames
<1> QED
  BY <1>1, <1>2, <1>3, <1>5, <1>7 DEF AllCerts

\* The certificate that the next signer names is still in the list.
LEMMA PlainLeafLeft ==
    ASSUME TypeInv, OwnedInv, PathInv, BuildInv, Plain, pc = "leaf",
           NEW d \in 1..read, Named(msg, at, d)
    PROVE  On(list, d)
<1>1. /\ Len(path) = Len(msg.signers) /\ at \in 1..Len(path) /\ pc # "idle"
      /\ read = Len(msg.certs) /\ read \in Nat
  BY MessageShape, EmptySeq DEF TypeInv, Progress, Built, BuildInv
<1>2. SUFFICES ASSUME NEW t \in 1..Len(path), On(path[t], d)
               PROVE  FALSE
  BY <1>1 DEF OwnedInv
<1>3. PICK i \in 1..Len(path[t]) : path[t][i] = d
  BY <1>2 DEF On
<1>4. Len(path[t]) \in Nat /\ \A j \in 1..Len(path[t]) : path[t][j] \in 1..read
  BY <1>1, PathShape
<1>5. path[t] # <<>>
  BY <1>2, EmptySeq DEF On
<1>6. t # at
  BY <1>5 DEF PathInv
<1>7. CASE i = 1
  <2>1. Named(msg, t, d)
    BY <1>3, <1>5, <1>7 DEF PathInv
  <2>2. msg.signers[t].serial = msg.signers[at].serial
    BY <2>1 DEF Named
  <2> QED
    BY <1>1, <1>6, <2>2, PlainOthers
<1>8. CASE i # 1
  <2> DEFINE b == path[t][i - 1]
  <2>1. i - 1 \in 1..(Len(path[t]) - 1) /\ i - 1 \in 1..Len(path[t]) /\ (i - 1) + 1 = i
    BY <1>4, <1>8
  <2>2. Linked(msg, b, d)
    BY <1>3, <2>1 DEF BuildInv
  <2>3. b \in 1..read
    BY <1>4, <2>1
  <2>4. b # d
    <3>1. Distinct(path[t]) /\ i - 1 # i
      BY <2>1 DEF OwnedInv
    <3> QED
      BY <1>3, <2>1, <3>1 DEF Distinct
  <2> HIDE DEF b
  <2> QED
    BY <1>1, <1>6, <2>2, <2>3, <2>4, PlainOthers
<1> QED
  BY <1>7, <1>8

LEMMA PlainVerifies ==
    ASSUME TypeInv, OwnedInv, PathInv, BuildInv, Plain, pc \in Verifying,
           NEW s \in 1..Len(path), NEW x \in Vouched, SignedBy(msg.signers[s], x)
    PROVE  ChainVerified(path[s])
<1> DEFINE p == path[s]
<1>1. x \in AllCerts
  BY DEF Vouched, VouchedWithin
<1>2. x = Cert(p[1]) /\ p # <<>> /\ pc # "idle"
  BY <1>1, PlainLeaf DEF Verifying
<1>3. Len(p) \in Nat \ {0} /\ DOMAIN p = 1..Len(p)
  BY <1>2, PathShape
<1>4. PICK k \in 1..Len(msg.certs) : \E q \in [1..k -> AllCerts] :
        /\ q[1] = x
        /\ \A i \in 1..(k - 1) : IssuedBy(q[i], q[i + 1])
        /\ \E root \in AllowedRoots : IssuedBy(q[k], root)
  BY DEF Vouched, VouchedWithin
<1>5. PICK q \in [1..k -> AllCerts] :
        /\ q[1] = x
        /\ \A i \in 1..(k - 1) : IssuedBy(q[i], q[i + 1])
        /\ \E root \in AllowedRoots : IssuedBy(q[k], root)
  BY <1>4
<1>6. PICK root \in AllowedRoots : IssuedBy(q[k], root)
  BY <1>5
<1>7. k \in Nat \ {0}
  BY <1>2, MessageShape
<1>8. PICK t \in 1..Len(p) :
        /\ \A i \in 1..(t - 1) : IssuedBy(Cert(p[i]), Cert(p[i + 1]))
        /\ IssuedBy(Cert(p[t]), root)
  BY <1>2, <1>5, <1>6, <1>7, PlainChain
<1>9. msg.crls = <<>> /\ DOMAIN msg.crls = {}
  BY DEF Plain
<1>10. \A up, c : IssuedBy(c, up) => Signs(up, c)
  BY <1>9 DEF IssuedBy, Signs
<1>11. \A c : VerifyCrl(c)
  BY <1>9 DEF VerifyCrl
<1>12. MbedVerifies(p, root)
  <2> DEFINE r == [i \in 1..t |-> i]
  <2>1. r \in [1..t -> DOMAIN p] /\ 1 \in 1..t /\ t \in 1..t
    BY <1>3
  <2>2. r[1] = 1 /\ r[t] = t
    BY <2>1
  <2>3. \A i \in 1..(t - 1) : r[i] < r[i + 1] /\ Signs(Cert(p[r[i + 1]]), Cert(p[r[i]]))
    <3> TAKE i \in 1..(t - 1)
    <3>1. i \in 1..t /\ i + 1 \in 1..t /\ i < i + 1
      BY <1>3
    <3>2. r[i] = i /\ r[i + 1] = i + 1
      BY <3>1
    <3> QED
      BY <1>8, <1>10, <3>1, <3>2
  <2>4. Signs(root, Cert(p[r[t]]))
    BY <1>8, <1>10, <2>2
  <2> HIDE DEF r, p
  <2> QED
    BY <2>1, <2>2, <2>3, <2>4 DEF MbedVerifies
<1>13. \E r \in DOMAIN TriedRoots : TriedRoots[r] = root
  <2>1. root = Roots["release"] \/ root = Roots["openharmony"]
          \/ (debugMode /\ root = Roots["debug"])
    BY DEF AllowedRoots
  <2> DEFINE a == <<Roots["debug"]>>
             b == <<Roots["release"], Roots["openharmony"]>>
             S == {Roots["release"], Roots["openharmony"], Roots["debug"]}
  <2>2. /\ a \in Seq(S) /\ Len(a) = 1 /\ a[1] = Roots["debug"]
        /\ b \in Seq(S) /\ Len(b) = 2
        /\ b[1] = Roots["release"] /\ b[2] = Roots["openharmony"]
    OBVIOUS
  <2>3. CASE debugMode
    <3>1. TriedRoots = a \o b
      BY <2>3 DEF TriedRoots
    <3> HIDE DEF a, b, S
    <3>2. /\ a \o b \in Seq(S) /\ Len(a \o b) = 3
          /\ \A i \in 1..3 : (a \o b)[i] = IF i <= 1 THEN a[i] ELSE b[i - 1]
      <4>1. a \in Seq(S) /\ b \in Seq(S)
        BY <2>2
      <4>2. /\ a \o b \in Seq(S) /\ Len(a \o b) = Len(a) + Len(b)
            /\ \A i \in 1..(Len(a) + Len(b)) :
                  (a \o b)[i] = IF i <= Len(a) THEN a[i] ELSE b[i - Len(a)]
        BY <4>1, ConcatProperties
      <4> QED
        BY <2>2, <4>2
    <3>3. DOMAIN (a \o b) = 1..3
      BY <3>2, LenProperties
    <3>4. /\ (a \o b)[1] = Roots["debug"] /\ (a \o b)[2] = Roots["release"]
          /\ (a \o b)[3] = Roots["openharmony"]
      BY <2>2, <3>2
    <3> QED
      BY <2>1, <3>1, <3>3, <3>4
  <2>4. CASE ~debugMode
    <3>1. TriedRoots = b
      <4>1. TriedRoots = <<>> \o b
        BY <2>4 DEF TriedRoots
      <4> HIDE DEF b, S
      <4> QED
        BY <2>2, <4>1, ConcatEmptySeq
    <3>2. DOMAIN b = 1..2
      OBVIOUS
    <3> QED
      BY <2>1, <2>2, <2>4, <3>1, <3>2
  <2> QED
    BY <2>3, <2>4
<1>14. \A up : VerifyClicert(p, up) # "revoked"
  BY <1>11 DEF VerifyClicert
<1>15. VerifyClicert(p, root) = "verified"
  BY <1>11, <1>12 DEF VerifyClicert
<1> QED
  BY <1>13, <1>14, <1>15 DEF ChainVerified

\* A path that is too deep leads to no root that is near enough.
LEMMA PlainTooDeep ==
    ASSUME TypeInv, OwnedInv, PathInv, BuildInv, Plain, pc \in Verifying,
           1 \in 1..Len(path),
           NEW x \in Vouched, SignedBy(msg.signers[1], x), TooDeep(path[1])
    PROVE  InTrustList(x) /\ x \notin VouchedWithin(MaxDepth - 1)
<1> DEFINE p == path[1]
           n == Len(p)
           last == Cert(p[n])
<1>1. x \in AllCerts
  BY DEF Vouched, VouchedWithin
<1>2. x = Cert(p[1]) /\ p # <<>> /\ pc # "idle"
  BY <1>1, PlainLeaf DEF Verifying
<1>3. n \in Nat \ {0} /\ \A i \in 1..n : p[i] \in 1..Len(msg.certs)
  BY <1>2, PathShape
<1>4. InTrustList(x) /\ Depth(p) > MaxDepth
  BY <1>2 DEF TooDeep
<1>5. SUFFICES ASSUME x \in VouchedWithin(MaxDepth - 1)
               PROVE  FALSE
  BY <1>4
<1>6. PICK k \in 1..(MaxDepth - 1) : \E q \in [1..k -> AllCerts] :
        /\ q[1] = x
        /\ \A i \in 1..(k - 1) : IssuedBy(q[i], q[i + 1])
        /\ \E root \in AllowedRoots : IssuedBy(q[k], root)
  BY <1>5 DEF VouchedWithin
<1>7. PICK q \in [1..k -> AllCerts] :
        /\ q[1] = x
        /\ \A i \in 1..(k - 1) : IssuedBy(q[i], q[i + 1])
        /\ \E root \in AllowedRoots : IssuedBy(q[k], root)
  BY <1>6
<1>8. PICK root \in AllowedRoots : IssuedBy(q[k], root)
  BY <1>7
<1>9. MaxDepth \in Nat \ {0, 1} /\ k \in Nat \ {0}
  BY LitePkcs7Assumption
<1>10. PICK t \in 1..n : t <= k /\ IssuedBy(Cert(p[t]), root)
  BY <1>2, <1>7, <1>8, <1>9, PlainChain
<1>11. t + 1 <= MaxDepth
  BY <1>3, <1>9, <1>10
<1>12. Depth(p) = IF SameName(last.issuer, last.subject) THEN n ELSE n + 1
  BY DEF Depth
<1> HIDE DEF p, n
<1>13. CASE t = n
  BY <1>3, <1>4, <1>9, <1>11, <1>12, <1>13
<1>14. CASE t # n
  <2>1. t + 1 \in 1..n /\ t \in 1..(n - 1)
    BY <1>3, <1>14
  <2>2. /\ \A i \in 1..(n - 1) : SameName(Cert(p[i]).issuer, Cert(p[i + 1]).subject)
        /\ Distinct(p)
    BY DEF BuildInv, Linked, OwnedInv, Cert, p, n
  <2> DEFINE d == p[t + 1]
  <2>3. p[t] \in 1..Len(msg.certs) /\ d \in 1..Len(msg.certs)
    BY <1>3, <2>1
  <2>4. SameName(Cert(d).subject, root.subject)
    <3>1. SameName(Cert(p[t]).issuer, Cert(d).subject)
      BY <2>1, <2>2
    <3>2. MbedSameName(Cert(p[t]).issuer, root.subject)
      BY <1>10 DEF IssuedBy
    <3> QED
      BY <3>1, <3>2 DEF MbedSameName, SameName
  <2>5. Cert(d).issuer = Cert(d).subject /\ Cert(d).subject.legal
    BY <1>2, <2>3, <2>4, PlainNames
  <2>6. t + 1 = n
    <3> SUFFICES ASSUME t + 1 # n
                 PROVE  FALSE
      OBVIOUS
    <3>1. t + 1 \in 1..(n - 1) /\ t + 2 \in 1..n /\ (t + 1) + 1 = t + 2 /\ t + 2 # t + 1
      BY <1>3, <2>1
    <3>2. SameName(Cert(d).issuer, Cert(p[t + 2]).subject)
      BY <2>2, <3>1
    <3>3. Cert(d).subject.fold = Cert(p[t + 2]).subject.fold
      BY <2>5, <3>2 DEF SameName
    <3>4. p[t + 2] \in 1..Len(msg.certs)
      BY <1>3, <3>1
    <3>5. d = p[t + 2]
      BY <1>2, <2>3, <3>3, <3>4, PlainNames
    <3> QED
      BY <2>1, <2>2, <3>1, <3>5 DEF Distinct, n
  <2>7. SameName(last.issuer, last.subject)
    BY <2>5, <2>6 DEF SameName
  <2>8. Depth(p) = n
    BY <1>12, <2>7
  <2> QED
    BY <1>4, <1>9, <1>11, <2>6, <2>8
<1> QED
  BY <1>13, <1>14

LEMMA PlainStep ==
    TypeInv /\ OwnedInv /\ ScanInv /\ PathInv /\ BuildInv /\ PlainIsAccepted /\ [Next]_vars
        => PlainIsAccepted'
<1> SUFFICES ASSUME TypeInv, OwnedInv, ScanInv, PathInv, BuildInv, PlainIsAccepted,
                    [Next]_vars, pc' = "refused", ~fault', Plain', AllVouched'
             PROVE  Justified'
  BY DEF PlainIsAccepted, Justified
<1>1. ASSUME pc = "idle", NEW ms \in Messages, NEW u \in Uses,
             NEW loads \in BOOLEAN, NEW ok \in BOOLEAN, BeginParse(ms, u, loads, ok)
      PROVE  FALSE
  <2>1. ~ok /\ ms.bad = "head" /\ msg' = ms
    BY <1>1 DEF BeginParse, GoOn
  <2>2. None = "head"
    BY <2>1 DEF Plain
  <2> QED
    BY <2>2, LitePkcs7Assumption DEF Parts
<1>2. ASSUME NEW mode \in BOOLEAN, EnableDebugMode(mode)
      PROVE  FALSE
  BY <1>2 DEF EnableDebugMode
<1>3. ASSUME FreeRes
      PROVE  FALSE
  BY <1>3 DEF FreeRes
<1>4. ASSUME VerifyFails
      PROVE  FALSE
  BY <1>4 DEF VerifyFails
\* The other steps leave the message alone.
<1>5. ASSUME UNCHANGED <<debugMode, msg, use>>,
             Plain /\ AllVouched => Justified
      PROVE  Justified'
  BY <1>5, SamePromise
<1>6. Plain => None # "content" /\ None # "certs" /\ None # "crl" /\ None # "signers"
                 /\ msg.bad = None
  BY LitePkcs7Assumption DEF Plain, Parts
\* A signer that has a path has the certificate that is vouched for.
<1>15. ASSUME Plain, AllVouched, NEW s \in 1..Len(msg.signers), pc # "idle"
       PROVE  \E c \in Vouched : SignedBy(msg.signers[s], c)
  BY <1>15, MessageShape DEF AllVouched
<1>7. ASSUME NEW ok \in BOOLEAN, ParseContent(ok) \/ ParseSignedDataCrl(ok)
      PROVE  Justified'
  <2>1. UNCHANGED <<debugMode, msg, use>> /\ ~Plain
    BY <1>6, <1>7 DEF ParseContent, ParseSignedDataCrl, GoOn, Faulted, data
  <2> QED
    BY <1>5, <2>1
<1>8. ASSUME NEW n \in 0..(IF msg = None THEN 0 ELSE Len(msg.certs)),
             ParseSignedDataCerts(n)
      PROVE  Justified'
  <2>1. UNCHANGED <<debugMode, msg, use>> /\ ~Plain
    BY <1>6, <1>8 DEF ParseSignedDataCerts, GoOn, Faulted
  <2> QED
    BY <1>5, <2>1
<1>9. ASSUME NEW ok \in BOOLEAN, ParseSigner(ok)
      PROVE  Justified'
  <2>1. pc = "signer" /\ Len(path) \in Nat /\ Len(path) < Len(msg.signers)
    BY <1>9, MessageShape DEF ParseSigner, TypeInv, Progress
  <2>2. Plain => AcceptedAlgorithms(msg.signers[Len(path) + 1])
    <3>1. Len(path) + 1 \in DOMAIN msg.signers
      BY <2>1, MessageShape
    <3> QED
      BY <3>1 DEF Plain
  <2>3. UNCHANGED <<debugMode, msg, use>> /\ ~Plain
    BY <1>6, <1>9, <2>2 DEF ParseSigner, GoOn, Faulted, data
  <2> QED
    BY <1>5, <2>3
<1>10. ASSUME FindSignerCert
       PROVE  Justified'
  <2>1. pc = "leaf" /\ UNCHANGED <<debugMode, msg, use>>
    BY <1>10 DEF FindSignerCert, data
  <2>2. FindLeaf(msg.signers[at]) = None
    BY <1>10, <2>1 DEF FindSignerCert, BuildInv
  <2>3. ASSUME Plain, AllVouched
        PROVE  FALSE
    <3>1. /\ Len(path) = Len(msg.signers) /\ read = Len(msg.certs)
          /\ DOMAIN msg.certs = 1..Len(msg.certs) /\ read \in Nat
          /\ list \in Seq(1..read) /\ at \in 1..Len(path)
      BY <2>1, MessageShape, LenProperties, EmptySeq
      DEF TypeInv, Progress, Built, BuildInv
    <3>2. PICK c \in Vouched : SignedBy(msg.signers[at], c)
      BY <1>15, <2>1, <2>3, <3>1
    <3>3. PICK d \in 1..read : c = Cert(d)
      BY <3>1 DEF Vouched, VouchedWithin, AllCerts
    <3>4. Named(msg, at, d)
      BY <3>2, <3>3 DEF SignedBy, Named, Cert
    <3>5. On(list, d)
      BY <2>1, <2>3, <3>1, <3>4, PlainLeafLeft
    <3>6. PICK i \in 1..Len(list) : list[i] = d
      BY <3>5 DEF On
    <3>7. IsLeafOf(msg.signers[at], d)
      BY <3>2, <3>3 DEF IsLeafOf, SignedBy
    <3> QED
      BY <2>2, <3>1, <3>6, <3>7, LeafFound
  <2> QED
    BY <1>5, <2>1, <2>3
<1>11. ASSUME BuildSignerCertPath
       PROVE  FALSE
  <2>1. pc = "super" /\ scan.count + 1 > scan.most
    BY <1>11 DEF BuildSignerCertPath, NextSigner
  <2>2. /\ scan.count \in Nat /\ scan.most \in Nat
        /\ Len(list) \in Nat /\ scan.count + Len(list) < scan.most
    BY <2>1, MessageShape DEF ScanInv, TypeInv, Progress
  <2> QED
    BY <2>1, <2>2
<1>12. ASSUME NEW ok \in BOOLEAN, ResolveSigners(ok)
       PROVE  Justified'
  <2>1. /\ pc = "resolve" /\ UNCHANGED <<debugMode, msg, use>>
        /\ TooDeep(path[1]) \/ NoSource(path[1])
    BY <1>12 DEF ResolveSigners, GoOn, Faulted, data
  <2>2. ASSUME Plain, NEW c \in Vouched, SignedBy(msg.signers[1], c)
        PROVE  IF InTrustList(c) THEN c \notin VouchedWithin(MaxDepth - 1)
                                 ELSE use = "profile"
    <3>1. 1 \in 1..Len(path) /\ pc \in Verifying
      BY <2>1, MessageShape DEF Verifying, TypeInv, Progress, Built
    <3>2. CASE TooDeep(path[1])
      BY <2>2, <3>1, <3>2, PlainTooDeep
    <3>3. CASE NoSource(path[1])
      <4>1. c \in AllCerts
        BY DEF Vouched, VouchedWithin
      <4>2. c = Cert(path[1][1])
        BY <2>2, <3>1, <4>1, PlainLeaf
      <4> QED
        BY <3>3, <4>2 DEF NoSource
    <3> QED
      BY <2>1, <3>2, <3>3
  <2> QED
    BY <1>5, <2>1, <2>2 DEF Justified
<1>13. ASSUME VerifyCertsChain \/ VerifySignerSignature
       PROVE  Justified'
  <2>1. pc \in {"chain", "signature"} /\ UNCHANGED <<debugMode, msg, use>>
    BY <1>13 DEF VerifyCertsChain, VerifySignerSignature, data
  <2>2. ASSUME Plain, AllVouched
        PROVE  FALSE
    <3>1. /\ Len(path) = Len(msg.signers) /\ at \in 1..Len(path) /\ pc \in Verifying
      BY <2>1, MessageShape, EmptySeq DEF TypeInv, Progress, Built, Verifying
    <3>2. PICK c \in Vouched : SignedBy(msg.signers[at], c)
      BY <1>15, <2>1, <2>2, <3>1
    <3>3. c \in AllCerts
      BY DEF Vouched, VouchedWithin
    <3>4. path[at] # <<>> /\ c = Cert(path[at][1])
      BY <2>2, <3>1, <3>2, <3>3, PlainLeaf
    <3>5. ChainVerified(path[at])
      BY <2>2, <3>1, <3>2, PlainVerifies
    <3>6. SignatureFits(msg.signers[at], Cert(path[at][1]))
      BY <3>2, <3>4 DEF SignedBy
    <3> QED
      BY <1>13, <3>4, <3>5, <3>6
      DEF VerifyCertsChain, VerifySignerSignature, NextSigner
  <2> QED
    BY <1>5, <2>1, <2>2
<1>14. CASE UNCHANGED vars
  <2>1. UNCHANGED <<debugMode, msg, use, pc, fault>>
    BY <1>14 DEF vars, data
  <2>2. Plain /\ AllVouched => Justified
    BY <2>1 DEF PlainIsAccepted, Justified
  <2> QED
    BY <1>5, <2>1, <2>2
<1> QED
  BY <1>1, <1>2, <1>3, <1>4, <1>7, <1>8, <1>9, <1>10, <1>11, <1>12, <1>13, <1>14 DEF Next

LEMMA PlainStart == Init => PlainIsAccepted
  BY DEF Init, PlainIsAccepted

\* For any set of messages, one that leaves no choice and whose signers, one or
\* several, are all vouched for is refused only when something failed or when the
\* trust lists refuse its first signer: the order of its certificates, the
\* spelling of their names and the order of its signers cost nobody a path.
THEOREM PlainMessagesPass == Spec => []PlainIsAccepted
  BY TypeStart, TypeStep, OwnedStart, OwnedStep, PathStart, PathStep, BuildStart,
     BuildStep, PlainStart, PlainStep, PTL DEF Spec
=============================================================================
