------------------------- MODULE CrlManagerProofs -------------------------
(***************************************************************************)
(* What TLAPS proves about CrlManager, for any threads, authorities,       *)
(* certificates and CRLs.                                                  *)
(***************************************************************************)
EXTENDS CrlManager, TLAPS

-----------------------------------------------------------------------------
(* Types.                                                                  *)

LEMMA IdleType == Idle \in CallType
  BY DEF Idle, CallType, Kinds, Contexts

LEMMA BeginType ==
  ASSUME NEW kind \in Kinds
  PROVE  [Idle EXCEPT !.pc = "verify", !.kind = kind] \in CallType
  BY DEF Idle, CallType, Contexts

LEMMA NoEntriesType == NoEntries \in CrlMap
  BY DEF NoEntries, CrlMap

LEMMA PackageType ==
  ASSUME NEW cert \in Certs, NEW crl \in Policy!PackageCrls(cert)
  PROVE  /\ crl \in CRLs \cup {NoCrl}
         /\ crl # NoCrl => crl.issuer = IssuerOf[cert]
  BY CrlAssumption DEF Policy!PackageCrls

LEMMA UpdatedByType ==
  ASSUME call \in [Threads -> CallType], NEW t \in Threads
  PROVE  /\ \A c \in Contexts : call[t].updated[c] \subseteq Issuers
         /\ UpdatedBy(t) \subseteq Issuers
  <1>1. \A c \in Contexts : call[t].updated[c] \subseteq Issuers
    BY DEF CallType
  <1>2. QED
    BY <1>1 DEF UpdatedBy

LEMMA EntriesType ==
  ASSUME NEW m \in CrlMap PROVE Entries(m) \subseteq CRLs
  BY DEF Entries, CrlMap

LEMMA LoadType ==
  ASSUME TypeOK, NEW readOk \in BOOLEAN, LoadCrls(readOk)
  PROVE  /\ isInit' \in BOOLEAN
         /\ crls' \in CrlMap
         /\ known' \subseteq CRLs
         /\ unread' \in BOOLEAN
  <1>1. CASE isInit \/ ~crlFile.header
    BY <1>1 DEF LoadCrls, TypeOK
  <1>2. CASE ~(isInit \/ ~crlFile.header) /\ readOk
    <2>1. crlFile.crls \in CrlMap /\ crls \in CrlMap
      BY DEF TypeOK
    <2>2. crls' \in CrlMap
      BY <1>2, <2>1 DEF LoadCrls, CrlMap
    <2>3. QED
      BY <1>2, <2>1, <2>2, EntriesType DEF LoadCrls, TypeOK
  <1>3. CASE ~(isInit \/ ~crlFile.header) /\ ~readOk
    BY <1>3 DEF LoadCrls, TypeOK
  <1>4. QED
    BY <1>1, <1>2, <1>3

LEMMA CheckType ==
  ASSUME TypeOK, NEW t \in Threads, NEW cert \in Certs,
         NEW crl \in Policy!PackageCrls(cert), CrlCheck(t, cert, crl)
  PROVE  TypeOK'
  <1> DEFINE issuer == IssuerOf[cert]
             new == IF Installs(crls[issuer], crl) THEN {issuer} ELSE {}
             ok == ~IsRevoked(FinalCrl(crls[issuer], crl), cert)
  <1>1. issuer \in Issuers /\ new \subseteq Issuers
    BY CrlAssumption
  <1>2. crls' \in CrlMap
    <2>1. CASE new = {}
      BY <2>1 DEF CrlCheck, CertIssuer, TypeOK
    <2>2. CASE new # {}
      <3>1. crl \in CRLs /\ crl.issuer = issuer
        BY <2>2, PackageType DEF Installs
      <3>2. crls' = [crls EXCEPT ![issuer] = crl]
        BY <2>2 DEF CrlCheck, CertIssuer
      <3>3. QED
        BY <1>1, <3>1, <3>2 DEF TypeOK, CrlMap
    <2>3. QED
      BY <2>1, <2>2
  <1>3. known' \subseteq CRLs
    BY PackageType DEF CrlCheck, TypeOK
  <1>4. verdict' \in [cert: Certs, ok: BOOLEAN]
    <2>1. ok \in BOOLEAN
      BY DEF IsRevoked
    <2>2. verdict' = [cert |-> cert, ok |-> ok]
      BY DEF CrlCheck, CertIssuer
    <2>3. QED
      BY <2>1, <2>2
  <1>5. call' \in [Threads -> CallType] /\ dropped' \subseteq Issuers
    <2>1. CASE ok
      <3>1. /\ call' = [call EXCEPT ![t].updated[call[t].context] = @ \cup new]
            /\ dropped' = dropped
        BY <2>1 DEF CrlCheck, CertIssuer
      <3>2. call[t] \in CallType /\ call[t].context \in Contexts
        BY DEF TypeOK, CallType
      <3>3. [call[t] EXCEPT !.updated[call[t].context] = @ \cup new] \in CallType
        BY <1>1, <3>2 DEF CallType
      <3>4. QED
        BY <3>1, <3>3 DEF TypeOK
    <2>2. CASE ~ok
      <3>1. /\ call' = [call EXCEPT ![t] = Idle]
            /\ dropped' = dropped \cup UpdatedBy(t) \cup new
        BY <2>2 DEF CrlCheck, CertIssuer, DropUpdates
      <3>2. QED
        BY <1>1, <3>1, IdleType, UpdatedByType DEF TypeOK
    <2>3. QED
      BY <2>1, <2>2
  <1>6. QED
    BY <1>2, <1>3, <1>4, <1>5 DEF CrlCheck, TypeOK

LEMMA WriteEntryType ==
  ASSUME TypeOK, NEW t \in Threads, NEW i \in Issuers, WriteEntry(t, i)
  PROVE  TypeOK'
  <1>1. crlFile' \in [header: BOOLEAN, crls: CrlMap]
    <2>1. crlFile.crls \in CrlMap /\ crls \in CrlMap
      BY DEF TypeOK
    <2>2. [crlFile.crls EXCEPT ![i] = crls[i]] \in CrlMap
      BY <2>1 DEF CrlMap
    <2>3. QED
      BY <2>2 DEF WriteEntry, TypeOK
  <1>2. call' \in [Threads -> CallType]
    BY DEF WriteEntry, TypeOK, CallType
  <1>3. QED
    BY <1>1, <1>2 DEF WriteEntry, TypeOK

LEMMA TypeStep == TypeOK /\ [Next]_vars => TypeOK'
  <1> SUFFICES ASSUME TypeOK, [Next]_vars PROVE TypeOK'
    OBVIOUS
  <1> USE IdleType, NoEntriesType
  <1>1. ASSUME NEW t \in Threads, NEW kind \in Kinds,
               NEW storesOk \in BOOLEAN, NEW readOk \in BOOLEAN,
               HapVerifyInit(t, kind, storesOk, readOk)
        PROVE  TypeOK'
    <2>1. call' \in [Threads -> CallType]
      BY <1>1, BeginType DEF HapVerifyInit, Begin, TypeOK
    <2>2. QED
      BY <1>1, <2>1, LoadType DEF HapVerifyInit, TypeOK
  <1>2. ASSUME NEW t \in Threads, NEW kind \in Kinds, StartCall(t, kind)
        PROVE  TypeOK'
    BY <1>2, BeginType DEF StartCall, Begin, TypeOK
  <1>3. ASSUME NEW t \in Threads, NEW cert \in Certs,
               NEW crl \in Policy!PackageCrls(cert), CrlCheck(t, cert, crl)
        PROVE  TypeOK'
    BY <1>3, CheckType
  <1>4. ASSUME NEW t \in Threads, NextContext(t) PROVE TypeOK'
    BY <1>4 DEF NextContext, After, CallType, Contexts, TypeOK
  <1>5. ASSUME NEW t \in Threads, FailCall(t) PROVE TypeOK'
    BY <1>5, UpdatedByType DEF FailCall, DropUpdates, TypeOK
  <1>6. ASSUME NEW t \in Threads, SucceedWithoutWrite(t) PROVE TypeOK'
    BY <1>6, UpdatedByType DEF SucceedWithoutWrite, TypeOK, Contexts
  <1>7. ASSUME NEW t \in Threads, OpenCrlFile(t) PROVE TypeOK'
    BY <1>7 DEF OpenCrlFile, CallType, TypeOK
  <1>8. ASSUME NEW t \in Threads, OpenCrlFileFails(t) PROVE TypeOK'
    BY <1>8, UpdatedByType DEF OpenCrlFileFails, DropUpdates, TypeOK
  <1>9. ASSUME NEW t \in Threads, WriteHeader(t) PROVE TypeOK'
    BY <1>9 DEF WriteHeader, CallType, TypeOK
  <1>10. ASSUME NEW t \in Threads, NEW i \in Issuers, WriteEntry(t, i)
         PROVE  TypeOK'
    BY <1>10, WriteEntryType
  <1>11. ASSUME NEW t \in Threads, StreamFails(t) PROVE TypeOK'
    BY <1>11 DEF StreamFails, CallType, TypeOK
  <1>12. ASSUME NEW t \in Threads, CloseCrlFile(t) PROVE TypeOK'
    BY <1>12 DEF CloseCrlFile, TypeOK
  <1>13. CASE Crash
    BY <1>13 DEF Crash, TypeOK
  <1>14. CASE UNCHANGED vars
    BY <1>14 DEF vars, TypeOK
  <1>15. QED
    BY <1>1, <1>2, <1>3, <1>4, <1>5, <1>6, <1>7, <1>8, <1>9, <1>10, <1>11,
       <1>12, <1>13, <1>14 DEF Next, ThreadStep

LEMMA TypeInit == Init => TypeOK
  <1> SUFFICES ASSUME Init PROVE TypeOK
    OBVIOUS
  <1>1. crlFile \in [header: BOOLEAN, crls: CrlMap]
    BY NoEntriesType DEF Init
  <1>2. call \in [Threads -> CallType]
    BY IdleType DEF Init
  <1>3. QED
    BY <1>1, <1>2, NoEntriesType DEF Init, TypeOK

\* Every variable keeps its type, whatever the constants: in particular the
\* map in memory and the file hold, for an issuer, only CRLs of that issuer
\* (CertIssuer is set before every check).
THEOREM TypeCorrect == Spec => []TypeOK
  BY TypeInit, TypeStep, PTL DEF Spec

-----------------------------------------------------------------------------
(***************************************************************************)
(* The inductive invariant. The three properties of the runs are not       *)
(* inductive: they hold because a write of the file is alone (MutexHeld),  *)
(* follows the map entry by entry (WriteProgress) and starts with the      *)
(* header (HeaderFirst), and because a process that has not finished       *)
(* HapVerifyInit holds nothing but what the file held (Fresh).             *)
(***************************************************************************)
Fresh ==
    ~gIsInit =>
        /\ \A t \in Threads : call[t].pc = "idle"
        /\ isInit => crls = crlFile.crls
        /\ ~isInit => crls = NoEntries /\ known = {}

Writing == {"header", "entries", "failed"}

MutexHeld == \A t \in Threads : call[t].pc \in Writing => crlMtx = t

HeaderFirst == ~crlFile.header => crlFile.crls = NoEntries

WriteProgress ==
    \A t \in Threads :
        /\ call[t].pc = "header" =>
              /\ crlFile.crls = NoEntries
              /\ \A i \in Issuers \ call[t].todo : crls[i] = NoCrl
        /\ call[t].pc = "entries" =>
              /\ crlFile.header
              /\ \A i \in Issuers \ call[t].todo : crlFile.crls[i] = crls[i]

\* A thread at rest has no update of a past call on its hands.
Resting == \A t \in Threads : call[t].pc = "idle" => UpdatedBy(t) = {}

Inv == /\ TypeOK
       /\ Resting
       /\ Fresh
       /\ MutexHeld
       /\ HeaderFirst
       /\ WriteProgress
       /\ NewestInMemory
       /\ FileNotAhead
       /\ NoSilentLoss

\* The file map and the memory map as functions, and the CRLs they hold.
LEMMA Maps ==
  ASSUME TypeOK
  PROVE  /\ \A i \in Issuers : crls[i] # NoCrl =>
               crls[i] \in CRLs /\ crls[i].issuer = i /\ crls[i].time \in Nat
         /\ \A i \in Issuers : crlFile.crls[i] # NoCrl =>
               /\ crlFile.crls[i] \in CRLs
               /\ crlFile.crls[i].issuer = i
               /\ crlFile.crls[i].time \in Nat
  <1>1. crls \in CrlMap /\ crlFile.crls \in CrlMap
    BY DEF TypeOK
  <1>2. \A crl \in CRLs : crl.time \in Nat
    BY CrlAssumption
  <1>3. QED
    BY <1>1, <1>2 DEF CrlMap

\* While no thread holds crlMtx, no thread is writing.
LEMMA NobodyWrites ==
  ASSUME MutexHeld, LockFree
  PROVE  \A t \in Threads : call[t].pc \notin Writing
  BY ThreadAssumption DEF MutexHeld, LockFree

\* A step that leaves the maps, the file and the mutex alone, and moves one
\* call outside the writer, keeps the invariant if it loses no update.
LEMMA QuietStep ==
  ASSUME Inv, TypeOK', Resting', NEW t \in Threads,
         UNCHANGED <<gIsInit, isInit, crls, crlFile, crlMtx, known, unread>>,
         call[t].pc \notin Writing,
         NEW record, call' = [call EXCEPT ![t] = record],
         record.pc \notin Writing, record.pc = "idle" \/ gIsInit,
         dropped \subseteq dropped',
         \A i \in UpdatedBy(t) : i \in UpdatedBy(t)' \/ i \in dropped'
  PROVE  Inv'
  <1>1. call' \in [Threads -> CallType] /\ call \in [Threads -> CallType]
    BY DEF Inv, TypeOK
  <1>2. /\ call'[t] = record
        /\ \A s \in Threads \ {t} : call'[s] = call[s]
    BY <1>1
  <1>3. Fresh' /\ MutexHeld' /\ HeaderFirst' /\ WriteProgress'
    BY <1>2 DEF Inv, Fresh, MutexHeld, HeaderFirst, WriteProgress, Writing
  <1>4. NewestInMemory' /\ FileNotAhead'
    BY DEF Inv, NewestInMemory, FileNotAhead, Policy!Newest
  <1>5. \A s \in Threads \ {t} : UpdatedBy(s)' = UpdatedBy(s)
    BY <1>2 DEF UpdatedBy
  <1>6. NoSilentLoss'
    BY <1>5 DEF Inv, NoSilentLoss
  <1>7. QED
    BY <1>3, <1>4, <1>6 DEF Inv

\* Reading the file into a fresh process: memory and file agree afterwards,
\* or the process knows that it could not read.
LEMMA LoadEffect ==
  ASSUME Inv, ~gIsInit, NEW readOk \in BOOLEAN, LoadCrls(readOk)
  PROVE  /\ isInit' => crls' = crlFile.crls
         /\ ~isInit' => crls' = NoEntries /\ known' = {}
         /\ crls' = crlFile.crls \/ unread'
         /\ NewestInMemory'
  <1>1. TypeOK /\ Fresh /\ HeaderFirst /\ NewestInMemory
    BY DEF Inv
  <1>2. CASE isInit \/ ~crlFile.header
    <2>1. UNCHANGED <<isInit, crls, known, unread>>
      BY <1>2 DEF LoadCrls
    <2>2. QED
      BY <1>1, <1>2, <2>1 DEF Fresh, HeaderFirst, NewestInMemory, Policy!Newest
  <1>3. CASE ~(isInit \/ ~crlFile.header) /\ readOk
    <2>1. /\ isInit'
          /\ crls' = [i \in Issuers |->
                        IF crlFile.crls[i] = NoCrl THEN crls[i]
                                                   ELSE crlFile.crls[i]]
          /\ known' = known \cup Entries(crlFile.crls)
      BY <1>3 DEF LoadCrls
    <2>2. crls = NoEntries /\ known = {}
      BY <1>1, <1>3 DEF Fresh
    <2>3. crlFile.crls \in [Issuers -> CRLs \cup {NoCrl}]
      BY <1>1 DEF TypeOK, CrlMap
    <2>4. crls' = crlFile.crls
      BY <2>1, <2>2, <2>3 DEF NoEntries
    <2>5. NewestInMemory'
      <3>1. known' = {crlFile.crls[i] : i \in Issuers} \ {NoCrl}
        BY <2>1, <2>2 DEF Entries
      <3>2. QED
        BY <1>1, <2>4, <3>1, Maps DEF NewestInMemory, Policy!Newest
    <2>6. QED
      BY <2>1, <2>4, <2>5
  <1>4. CASE ~(isInit \/ ~crlFile.header) /\ ~readOk
    <2>1. UNCHANGED <<isInit, crls, known>> /\ unread'
      BY <1>4 DEF LoadCrls
    <2>2. QED
      BY <1>1, <1>4, <2>1 DEF Fresh, NewestInMemory, Policy!Newest
  <1>5. QED
    BY <1>2, <1>3, <1>4

LEMMA HapVerifyInitStep ==
  ASSUME Inv, TypeOK', Resting', NEW t \in Threads, NEW kind \in Kinds,
         NEW storesOk \in BOOLEAN, NEW readOk \in BOOLEAN,
         HapVerifyInit(t, kind, storesOk, readOk)
  PROVE  Inv'
  <1>1. /\ ~gIsInit
        /\ gIsInit' = storesOk
        /\ LoadCrls(readOk)
        /\ UNCHANGED <<crlFile, crlMtx, verdict, dropped>>
    BY DEF HapVerifyInit
  <1>2. /\ isInit' => crls' = crlFile.crls
        /\ ~isInit' => crls' = NoEntries /\ known' = {}
        /\ crls' = crlFile.crls \/ unread'
        /\ NewestInMemory'
    BY <1>1, LoadEffect
  <1>3. \A s \in Threads : call[s].pc = "idle"
    BY <1>1 DEF Inv, Fresh
  <1>4. /\ \A s \in Threads : call'[s].pc \in {"idle", "verify"}
        /\ ~storesOk => call' = call
    <2>1. CASE storesOk
      <3>1. call \in [Threads -> CallType]
        BY DEF Inv, TypeOK
      <3> DEFINE begun == [Idle EXCEPT !.pc = "verify", !.kind = kind]
      <3>2. call' = [call EXCEPT ![t] = begun]
        BY <2>1 DEF HapVerifyInit, Begin
      <3>3. begun.pc = "verify"
        BY DEF Idle
      <3> HIDE DEF begun
      <3>4. QED
        BY <1>3, <2>1, <3>1, <3>2, <3>3
    <2>2. CASE ~storesOk
      BY <1>3, <2>2 DEF HapVerifyInit
    <2>3. QED
      BY <2>1, <2>2
  <1>5. Fresh'
    BY <1>1, <1>2, <1>3, <1>4 DEF Fresh
  <1>6. MutexHeld' /\ WriteProgress'
    BY <1>4 DEF MutexHeld, WriteProgress, Writing
  <1>7. HeaderFirst'
    BY <1>1 DEF Inv, HeaderFirst
  <1>8. FileNotAhead' /\ NoSilentLoss'
    <2>1. ASSUME crls' = crlFile.crls PROVE FileNotAhead'
      <3>1. \A i \in Issuers : crlFile.crls[i] # NoCrl =>
                crlFile.crls[i].time <= crlFile.crls[i].time
        BY Maps DEF Inv
      <3>2. QED
        BY <1>1, <2>1, <3>1 DEF FileNotAhead
    <2>2. QED
      BY <1>1, <1>2, <2>1 DEF FileNotAhead, NoSilentLoss
  <1>9. QED
    BY <1>2, <1>5, <1>6, <1>7, <1>8 DEF Inv

\* CrlCheck, in the terms of the invariant: the map moves forward at one
\* issuer at most, and what moved belongs to the call or was dropped.
LEMMA CheckEffect ==
  ASSUME Inv, NEW t \in Threads, NEW cert \in Certs,
         NEW crl \in Policy!PackageCrls(cert), CrlCheck(t, cert, crl)
  PROVE  LET issuer == IssuerOf[cert] IN
         /\ issuer \in Issuers
         /\ crls'[issuer] = FinalCrl(crls[issuer], crl)
         /\ \A i \in Issuers \ {issuer} : crls'[i] = crls[i]
         /\ \/ crls' = crls
            \/ /\ crls'[issuer] = crl
               /\ crl \in CRLs
               /\ crl.issuer = issuer
               /\ crls[issuer] = NoCrl \/ crls[issuer].time < crl.time
               /\ issuer \in UpdatedBy(t)' \cup dropped'
         /\ UpdatedBy(t) \subseteq UpdatedBy(t)' \cup dropped'
         /\ dropped \subseteq dropped'
         /\ \A s \in Threads \ {t} : call'[s] = call[s]
         /\ call'[t].pc \in {"idle", "verify"}
  <1> DEFINE issuer == IssuerOf[cert]
             new == IF Installs(crls[issuer], crl) THEN {issuer} ELSE {}
             ok == ~IsRevoked(FinalCrl(crls[issuer], crl), cert)
             context == call[t].context
  <1>1. issuer \in Issuers
    BY CrlAssumption
  <1>2. TypeOK /\ crls \in [Issuers -> CRLs \cup {NoCrl}]
        /\ call \in [Threads -> CallType]
    BY DEF Inv, TypeOK, CrlMap
  <1>3. context \in Contexts /\ call[t].pc = "verify"
    BY <1>2 DEF CallType, CrlCheck
  <1>4. /\ crls'[issuer] = FinalCrl(crls[issuer], crl)
        /\ \A i \in Issuers \ {issuer} : crls'[i] = crls[i]
    BY <1>1, <1>2 DEF CrlCheck, CertIssuer, FinalCrl
  <1>5. new # {} =>
          /\ crls'[issuer] = crl
          /\ crl \in CRLs
          /\ crl.issuer = issuer
          /\ crls[issuer] = NoCrl \/ crls[issuer].time < crl.time
    BY <1>4, PackageType DEF Installs, FinalCrl
  <1>6. new = {} => crls' = crls
    BY DEF CrlCheck, CertIssuer
  <1>7. CASE ok
    <2>1. /\ call' = [call EXCEPT ![t].updated[context] = @ \cup new]
          /\ dropped' = dropped
      BY <1>7 DEF CrlCheck, CertIssuer
    <2>2. /\ \A s \in Threads \ {t} : call'[s] = call[s]
          /\ call'[t].pc = "verify"
          /\ \A c \in Contexts : call[t].updated[c] \subseteq call'[t].updated[c]
          /\ new \subseteq call'[t].updated[context]
      BY <1>2, <1>3, <2>1 DEF CallType
    <2>3. /\ UpdatedBy(t) \subseteq UpdatedBy(t)'
          /\ new \subseteq UpdatedBy(t)'
      BY <1>3, <2>2 DEF UpdatedBy
    <2>4. QED
      BY <1>1, <1>4, <1>5, <1>6, <2>1, <2>2, <2>3
  <1>8. CASE ~ok
    <2>1. /\ call' = [call EXCEPT ![t] = Idle]
          /\ dropped' = dropped \cup UpdatedBy(t) \cup new
      BY <1>8 DEF CrlCheck, CertIssuer, DropUpdates
    <2>2. /\ \A s \in Threads \ {t} : call'[s] = call[s]
          /\ call'[t].pc = "idle"
      BY <1>2, <2>1 DEF Idle
    <2>3. QED
      BY <1>1, <1>4, <1>5, <1>6, <2>1, <2>2
  <1>9. QED
    BY <1>7, <1>8

\* The newest CRL met so far is what GetFinalCrl leaves in the map.
LEMMA CheckNewest ==
  ASSUME Inv, NEW t \in Threads, NEW cert \in Certs,
         NEW crl \in Policy!PackageCrls(cert), CrlCheck(t, cert, crl)
  PROVE  NewestInMemory'
  <1> DEFINE issuer == IssuerOf[cert]
  <1>1. TypeOK /\ NewestInMemory
    BY DEF Inv
  <1>2. known' = known \cup ({crl} \ {NoCrl})
    BY DEF CrlCheck
  <1>3. crl = NoCrl \/ (crl \in CRLs /\ crl.issuer = issuer /\ crl.time \in Nat)
    BY PackageType, CrlAssumption
  <1>4. \A k \in known : k \in CRLs /\ k.time \in Nat
    BY <1>1, CrlAssumption DEF TypeOK
  <1>5. ASSUME NEW i \in Issuers, i # issuer
        PROVE  IF crls'[i] = NoCrl
               THEN \A k \in known' : k.issuer # i
               ELSE crls'[i] \in known' /\ Policy!Newest(crls'[i], known')
    <2>1. crls'[i] = crls[i]
      BY <1>5, CheckEffect
    <2>2. \A k \in known' : k.issuer = i => k \in known
      BY <1>2, <1>3, <1>5
    <2>3. crls[i] # NoCrl => crls[i].issuer = i
      BY <1>1, Maps
    <2>4. QED
      BY <1>1, <1>2, <2>1, <2>2, <2>3 DEF NewestInMemory, Policy!Newest
  <1>6. issuer \in Issuers
    BY CrlAssumption
  <1>7. crls'[issuer] = FinalCrl(crls[issuer], crl)
    BY CheckEffect
  <1>8. /\ crls[issuer] # NoCrl =>
              crls[issuer].issuer = issuer /\ crls[issuer].time \in Nat
        /\ NoCrl \notin CRLs
    BY <1>1, <1>6, Maps, CrlAssumption
  <1>9. IF crls'[issuer] = NoCrl
        THEN \A k \in known' : k.issuer # issuer
        ELSE crls'[issuer] \in known' /\ Policy!Newest(crls'[issuer], known')
    <2>1. CASE Installs(crls[issuer], crl)
      <3>1. crls'[issuer] = crl /\ crl # NoCrl
        BY <1>7, <2>1 DEF FinalCrl, Installs
      <3>2. \A k \in known : k.issuer = issuer => k.time <= crl.time
        BY <1>1, <1>3, <1>4, <1>6, <1>8, <2>1, <3>1
           DEF NewestInMemory, Policy!Newest, Installs
      <3>3. QED
        BY <1>2, <1>3, <3>1, <3>2 DEF Policy!Newest
    <2>2. CASE ~Installs(crls[issuer], crl)
      <3>1. crls'[issuer] = crls[issuer]
        BY <1>7, <2>2 DEF FinalCrl
      <3>2. CASE crl = NoCrl
        BY <1>1, <1>2, <1>6, <3>1, <3>2 DEF NewestInMemory, Policy!Newest
      <3>3. CASE crl # NoCrl
        <4>1. crls[issuer] # NoCrl /\ crl.time <= crls[issuer].time
          BY <1>3, <1>8, <2>2, <3>3 DEF Installs
        <4>2. QED
          BY <1>1, <1>2, <1>6, <1>8, <3>1, <4>1
             DEF NewestInMemory, Policy!Newest
      <3>4. QED
        BY <3>2, <3>3
    <2>3. QED
      BY <2>1, <2>2
  <1>10. QED
    BY <1>5, <1>9 DEF NewestInMemory

LEMMA CrlCheckStep ==
  ASSUME Inv, TypeOK', Resting', NEW t \in Threads, NEW cert \in Certs,
         NEW crl \in Policy!PackageCrls(cert), CrlCheck(t, cert, crl)
  PROVE  Inv'
  <1> DEFINE issuer == IssuerOf[cert]
  <1>1. /\ call[t].pc = "verify"
        /\ LockFree
        /\ UNCHANGED <<gIsInit, isInit, crlFile, crlMtx, unread>>
    BY DEF CrlCheck
  <1>2. \A s \in Threads : call[s].pc \notin Writing
    BY <1>1, NobodyWrites DEF Inv
  <1>3. gIsInit
    BY <1>1 DEF Inv, Fresh
  <1>4. /\ \A s \in Threads \ {t} : call'[s] = call[s]
        /\ call'[t].pc \in {"idle", "verify"}
    BY CheckEffect
  <1>5. Fresh' /\ MutexHeld' /\ HeaderFirst' /\ WriteProgress'
    <2>1. Fresh'
      BY <1>1, <1>3 DEF Fresh
    <2>2. \A s \in Threads : call'[s].pc \notin Writing
      BY <1>2, <1>4 DEF Writing
    <2>3. HeaderFirst'
      BY <1>1 DEF Inv, HeaderFirst
    <2>4. QED
      BY <2>1, <2>2, <2>3 DEF MutexHeld, WriteProgress, Writing
  <1>6. NewestInMemory'
    BY CheckNewest
  <1>7. FileNotAhead'
    <2> SUFFICES ASSUME ~unread, NEW i \in Issuers, crlFile.crls[i] # NoCrl
                 PROVE  /\ crls'[i] # NoCrl
                        /\ crlFile.crls[i].time <= crls'[i].time
      BY <1>1 DEF FileNotAhead
    <2>1. crls[i] # NoCrl /\ crlFile.crls[i].time <= crls[i].time
      BY <1>3 DEF Inv, FileNotAhead
    <2>2. crls[i].time \in Nat /\ crlFile.crls[i].time \in Nat
      BY <2>1, Maps DEF Inv
    <2>3. crls'[i] = crls[i] \/ (i = issuer /\ crls'[i] \in CRLs
                                /\ crls[i].time < crls'[i].time)
      BY <2>1, CheckEffect
    <2>4. \A k \in CRLs : k # NoCrl /\ k.time \in Nat
      BY CrlAssumption
    <2>5. QED
      BY <2>1, <2>2, <2>3, <2>4
  <1>8. NoSilentLoss'
    <2>1. \A s \in Threads \ {t} : UpdatedBy(s)' = UpdatedBy(s)
      BY <1>4 DEF UpdatedBy
    <2>2. \A i \in Issuers :
            \/ crls'[i] = crls[i]
            \/ i \in UpdatedBy(t)' \cup dropped'
      BY CheckEffect
    <2>3. /\ UpdatedBy(t) \subseteq UpdatedBy(t)' \cup dropped'
          /\ dropped \subseteq dropped'
      BY CheckEffect
    <2>4. QED
      BY <1>1, <2>1, <2>2, <2>3 DEF Inv, NoSilentLoss
  <1>9. QED
    BY <1>5, <1>6, <1>7, <1>8 DEF Inv

\* The steps of the writer t change nothing but the file and its own call.
LEMMA WriterStep ==
  ASSUME Inv, TypeOK', Resting', NEW t \in Threads, crlMtx' = t,
         UNCHANGED <<gIsInit, isInit, crls, known, unread>>,
         gIsInit,
         \A s \in Threads \ {t} : call[s].pc \notin Writing,
         NEW record, call' = [call EXCEPT ![t] = record],
         HeaderFirst', WriteProgress',
         \A i \in Issuers : crlFile'.crls[i] \in
             {NoCrl, crlFile.crls[i], crls[i]}
  PROVE  Inv'
  <1>1. call \in [Threads -> CallType]
    BY DEF Inv, TypeOK
  <1>2. \A s \in Threads \ {t} : call'[s] = call[s]
    BY <1>1
  <1>3. Fresh' /\ MutexHeld'
    BY <1>2 DEF Fresh, MutexHeld
  <1>4. NewestInMemory'
    BY DEF Inv, NewestInMemory, Policy!Newest
  <1>5. FileNotAhead'
    <2> SUFFICES ASSUME ~unread, NEW i \in Issuers, crlFile'.crls[i] # NoCrl
                 PROVE  /\ crls[i] # NoCrl
                        /\ crlFile'.crls[i].time <= crls[i].time
      BY DEF FileNotAhead
    <2>1. CASE crlFile'.crls[i] = crlFile.crls[i]
      BY <2>1 DEF Inv, FileNotAhead
    <2>2. CASE crlFile'.crls[i] = crls[i]
      BY <2>2, Maps DEF Inv
    <2>3. QED
      BY <2>1, <2>2
  <1>6. NoSilentLoss'
    BY ThreadAssumption DEF NoSilentLoss
  <1>7. QED
    BY <1>3, <1>4, <1>5, <1>6 DEF Inv

LEMMA OpenStep ==
  ASSUME Inv, TypeOK', Resting', NEW t \in Threads, OpenCrlFile(t)
  PROVE  Inv'
  <1> DEFINE record == [call[t] EXCEPT !.pc = "header",
                            !.todo = {i \in Issuers : crls[i] # NoCrl}]
  <1>1. call \in [Threads -> CallType]
    BY DEF Inv, TypeOK
  <1>2. /\ call' = [call EXCEPT ![t] = record]
        /\ LockFree
        /\ crlMtx' = t
        /\ crlFile' = [header |-> FALSE, crls |-> NoEntries]
        /\ UNCHANGED <<gIsInit, isInit, crls, known, unread>>
    BY DEF OpenCrlFile
  <1>3. \A s \in Threads : call[s].pc \notin Writing
    BY <1>2, NobodyWrites DEF Inv
  <1>4. gIsInit
    BY DEF Inv, Fresh, OpenCrlFile
  <1>5. record.pc = "header" /\ record.todo = {i \in Issuers : crls[i] # NoCrl}
    BY <1>1 DEF CallType
  <1> HIDE DEF record
  <1>6. call'[t] = record /\ \A s \in Threads \ {t} : call'[s] = call[s]
    BY <1>1, <1>2
  <1>7. HeaderFirst' /\ WriteProgress'
    BY <1>2, <1>3, <1>5, <1>6 DEF HeaderFirst, WriteProgress, Writing
  <1>8. \A i \in Issuers : crlFile'.crls[i] = NoCrl
    BY <1>2 DEF NoEntries
  <1>9. QED
    BY <1>2, <1>3, <1>4, <1>7, <1>8, WriterStep

\* A thread in the writer is alone there, in a process that is initialised.
LEMMA WriterAlone ==
  ASSUME Inv, NEW t \in Threads, call[t].pc \in Writing
  PROVE  /\ crlMtx = t
         /\ gIsInit
         /\ \A s \in Threads \ {t} : call[s].pc \notin Writing
  BY DEF Inv, MutexHeld, Fresh, Writing

LEMMA WriteHeaderStep ==
  ASSUME Inv, TypeOK', Resting', NEW t \in Threads, WriteHeader(t)
  PROVE  Inv'
  <1> DEFINE record == [call[t] EXCEPT !.pc = "entries"]
  <1>1. /\ call \in [Threads -> CallType]
        /\ crlFile \in [header: BOOLEAN, crls: CrlMap]
    BY DEF Inv, TypeOK
  <1>2. /\ call[t].pc = "header"
        /\ call' = [call EXCEPT ![t] = record]
        /\ crlFile' = [crlFile EXCEPT !.header = TRUE]
        /\ UNCHANGED <<gIsInit, isInit, crls, crlMtx, known, unread>>
    BY DEF WriteHeader
  <1>3. /\ crlMtx = t
        /\ gIsInit
        /\ \A s \in Threads \ {t} : call[s].pc \notin Writing
    BY <1>2, WriterAlone DEF Writing
  <1>4. record.pc = "entries" /\ record.todo = call[t].todo
    BY <1>1 DEF CallType
  <1> HIDE DEF record
  <1>5. crlFile'.header /\ crlFile'.crls = crlFile.crls
    BY <1>1, <1>2
  <1>6. call'[t] = record /\ \A s \in Threads \ {t} : call'[s] = call[s]
    BY <1>1, <1>2
  <1>7. HeaderFirst' /\ WriteProgress'
    <2>1. /\ crlFile.crls = NoEntries
          /\ \A i \in Issuers \ call[t].todo : crls[i] = NoCrl
      BY <1>2 DEF Inv, WriteProgress
    <2>2. \A i \in Issuers \ record.todo : crlFile.crls[i] = crls[i]
      BY <1>4, <2>1 DEF NoEntries
    <2>3. QED
      BY <1>2, <1>3, <1>4, <1>5, <1>6, <2>2
         DEF HeaderFirst, WriteProgress, Writing
  <1>8. QED
    BY <1>2, <1>3, <1>5, <1>7, WriterStep

LEMMA WriteEntryStep ==
  ASSUME Inv, TypeOK', Resting', NEW t \in Threads, NEW issuer \in Issuers,
         WriteEntry(t, issuer)
  PROVE  Inv'
  <1> DEFINE record == [call[t] EXCEPT !.todo = @ \ {issuer}]
  <1>1. /\ call \in [Threads -> CallType]
        /\ crlFile \in [header: BOOLEAN, crls: CrlMap]
        /\ crlFile.crls \in [Issuers -> CRLs \cup {NoCrl}]
    BY DEF Inv, TypeOK, CrlMap
  <1>2. /\ call[t].pc = "entries"
        /\ call' = [call EXCEPT ![t] = record]
        /\ crlFile' = [crlFile EXCEPT !.crls[issuer] = crls[issuer]]
        /\ UNCHANGED <<gIsInit, isInit, crls, crlMtx, known, unread>>
    BY DEF WriteEntry
  <1>3. /\ crlMtx = t
        /\ gIsInit
        /\ \A s \in Threads \ {t} : call[s].pc \notin Writing
    BY <1>2, WriterAlone DEF Writing
  <1>4. record.pc = "entries" /\ record.todo = call[t].todo \ {issuer}
    BY <1>1, <1>2 DEF CallType
  <1> HIDE DEF record
  <1>5. /\ crlFile'.header = crlFile.header
        /\ crlFile'.crls = [crlFile.crls EXCEPT ![issuer] = crls[issuer]]
    BY <1>1, <1>2
  <1>6. call'[t] = record /\ \A s \in Threads \ {t} : call'[s] = call[s]
    BY <1>1, <1>2
  <1>7. HeaderFirst' /\ WriteProgress'
    <2>1. /\ crlFile.header
          /\ \A i \in Issuers \ call[t].todo : crlFile.crls[i] = crls[i]
      BY <1>2 DEF Inv, WriteProgress
    <2>2. \A i \in Issuers \ record.todo : crlFile'.crls[i] = crls[i]
      BY <1>1, <1>4, <1>5, <2>1
    <2>3. QED
      BY <1>2, <1>3, <1>4, <1>5, <1>6, <2>1, <2>2
         DEF HeaderFirst, WriteProgress, Writing
  <1>8. \A i \in Issuers : crlFile'.crls[i] \in {NoCrl, crlFile.crls[i], crls[i]}
    BY <1>1, <1>5
  <1>9. QED
    BY <1>2, <1>3, <1>7, <1>8, WriterStep

LEMMA StreamFailsStep ==
  ASSUME Inv, TypeOK', Resting', NEW t \in Threads, StreamFails(t)
  PROVE  Inv'
  <1> DEFINE record == [call[t] EXCEPT !.pc = "failed"]
  <1>1. call \in [Threads -> CallType]
    BY DEF Inv, TypeOK
  <1>2. /\ call[t].pc \in Writing
        /\ call' = [call EXCEPT ![t] = record]
        /\ UNCHANGED <<gIsInit, isInit, crls, crlFile, crlMtx, known, unread>>
    BY DEF StreamFails, Writing
  <1>3. /\ crlMtx = t
        /\ gIsInit
        /\ \A s \in Threads \ {t} : call[s].pc \notin Writing
    BY <1>2, WriterAlone
  <1>4. record.pc = "failed"
    BY <1>1 DEF CallType
  <1> HIDE DEF record
  <1>5. call'[t] = record /\ \A s \in Threads \ {t} : call'[s] = call[s]
    BY <1>1, <1>2
  <1>6. HeaderFirst' /\ WriteProgress'
    BY <1>2, <1>3, <1>4, <1>5 DEF Inv, HeaderFirst, WriteProgress, Writing
  <1>7. QED
    BY <1>2, <1>3, <1>6, WriterStep

\* What a write that reached the end of the loop leaves in the file.
LEMMA CompleteWrite ==
  ASSUME Inv, NEW t \in Threads, WrittenAll(t)
  PROVE  crlFile.crls = crls
  <1>1. \A i \in Issuers : crlFile.crls[i] = crls[i]
    BY DEF Inv, WriteProgress, WrittenAll
  <1>2. /\ crlFile.crls \in [Issuers -> CRLs \cup {NoCrl}]
        /\ crls \in [Issuers -> CRLs \cup {NoCrl}]
    BY DEF Inv, TypeOK, CrlMap
  <1>3. QED
    BY <1>1, <1>2

LEMMA CloseStep ==
  ASSUME Inv, TypeOK', Resting', NEW t \in Threads, CloseCrlFile(t)
  PROVE  Inv'
  <1>1. call \in [Threads -> CallType]
    BY DEF Inv, TypeOK
  <1>2. /\ call[t].pc \in Writing
        /\ crlMtx' = NoThread
        /\ call' = [call EXCEPT ![t] = Idle]
        /\ UNCHANGED <<gIsInit, isInit, crls, crlFile, known>>
    BY DEF CloseCrlFile, WriteEnds, WrittenAll, Writing
  <1>3. /\ gIsInit
        /\ \A s \in Threads \ {t} : call[s].pc \notin Writing
    BY <1>2, WriterAlone
  <1>4. /\ call'[t].pc = "idle"
        /\ \A s \in Threads \ {t} : call'[s] = call[s]
    BY <1>1, <1>2 DEF Idle
  <1>5. Fresh' /\ MutexHeld' /\ HeaderFirst' /\ WriteProgress'
    BY <1>2, <1>3, <1>4
       DEF Inv, Fresh, MutexHeld, HeaderFirst, WriteProgress, Writing
  <1>6. NewestInMemory'
    BY <1>2 DEF Inv, NewestInMemory, Policy!Newest
  <1>7. FileNotAhead' /\ NoSilentLoss'
    <2>1. CASE WrittenAll(t)
      <3>1. crlFile.crls = crls
        BY <2>1, CompleteWrite
      <3>2. \A i \in Issuers : crls[i] # NoCrl => crls[i].time <= crls[i].time
        BY Maps DEF Inv
      <3>3. QED
        BY <1>2, <3>1, <3>2 DEF FileNotAhead, NoSilentLoss
    <2>2. CASE ~WrittenAll(t)
      <3>1. dropped' = Issuers /\ unread' = unread
        BY <2>2 DEF CloseCrlFile
      <3>2. QED
        BY <1>2, <3>1 DEF Inv, FileNotAhead, NoSilentLoss
    <2>3. QED
      BY <2>1, <2>2
  <1>8. QED
    BY <1>5, <1>6, <1>7 DEF Inv

\* A crash leaves a fresh process, whatever it interrupts.
LEMMA CrashStep ==
  ASSUME Inv, TypeOK', Resting', Crash
  PROVE  Inv'
  <1>1. /\ ~gIsInit' /\ ~isInit'
        /\ crls' = NoEntries /\ known' = {}
        /\ \A t \in Threads : call'[t].pc = "idle"
        /\ UNCHANGED crlFile
    BY DEF Crash, Idle
  <1>2. Fresh' /\ MutexHeld' /\ HeaderFirst' /\ WriteProgress'
    BY <1>1 DEF Inv, Fresh, MutexHeld, HeaderFirst, WriteProgress, Writing
  <1>3. NewestInMemory' /\ FileNotAhead' /\ NoSilentLoss'
    BY <1>1 DEF NewestInMemory, FileNotAhead, NoSilentLoss, NoEntries
  <1>4. QED
    BY <1>2, <1>3 DEF Inv

LEMMA StutterStep ==
  ASSUME Inv, UNCHANGED vars
  PROVE  Inv'
  BY DEF vars, Inv, TypeOK, Resting, Fresh, MutexHeld, HeaderFirst, WriteProgress,
         NewestInMemory, Policy!Newest, FileNotAhead, NoSilentLoss, UpdatedBy

LEMMA IdleRests == \A c \in Contexts : Idle.updated[c] = {}
  BY DEF Idle

LEMMA RestingStep == TypeOK /\ Resting /\ [Next]_vars => Resting'
  <1> SUFFICES ASSUME TypeOK, Resting, [Next]_vars PROVE Resting'
    OBVIOUS
  <1>0. call \in [Threads -> CallType]
    BY DEF TypeOK
  <1>1. ASSUME NEW t \in Threads, NEW record,
               call' = [call EXCEPT ![t] = record],
               record = Idle \/ record.pc # "idle"
        PROVE  Resting'
    BY <1>0, <1>1, IdleRests DEF Resting, UpdatedBy
  <1>2. ASSUME NEW t \in Threads, NEW pc, call[t].pc # "idle",
               call' = [call EXCEPT ![t].pc = pc], pc # "idle"
        PROVE  Resting'
    BY <1>0, <1>2 DEF Resting, UpdatedBy, CallType
  <1>3. ASSUME UNCHANGED call PROVE Resting'
    BY <1>3 DEF Resting, UpdatedBy
  <1>4. ASSUME NEW t \in Threads, NEW kind \in Kinds, Begin(t, kind)
        PROVE  Resting'
    <2> DEFINE begun == [Idle EXCEPT !.pc = "verify", !.kind = kind]
    <2>1. call' = [call EXCEPT ![t] = begun]
      BY <1>4 DEF Begin
    <2>2. begun.pc # "idle"
      BY DEF Idle
    <2> HIDE DEF begun
    <2>3. QED
      BY <1>1, <2>1, <2>2
  <1>5. ASSUME NEW t \in Threads, NEW cert \in Certs,
               NEW crl \in Policy!PackageCrls(cert), CrlCheck(t, cert, crl)
        PROVE  Resting'
    <2> DEFINE new == IF Installs(crls[IssuerOf[cert]], crl)
                      THEN {IssuerOf[cert]} ELSE {}
    <2>1. CASE call' = [call EXCEPT ![t] = Idle]
      BY <1>1, <2>1
    <2>2. CASE call' = [call EXCEPT ![t].updated[call[t].context] = @ \cup new]
      <3>1. call[t].pc = "verify"
        BY <1>5 DEF CrlCheck
      <3>2. /\ call'[t].pc = "verify"
            /\ \A s \in Threads \ {t} : call'[s] = call[s]
        BY <1>0, <2>2, <3>1 DEF CallType
      <3>3. QED
        BY <3>2 DEF Resting, UpdatedBy
    <2>3. QED
      BY <1>5, <2>1, <2>2 DEF CrlCheck, CertIssuer
  <1>6. ASSUME NEW t \in Threads, NextContext(t) PROVE Resting'
    <2>1. /\ call'[t].pc = "verify"
          /\ \A s \in Threads \ {t} : call'[s] = call[s]
      BY <1>0, <1>6 DEF NextContext, CallType
    <2>2. QED
      BY <2>1 DEF Resting, UpdatedBy
  <1>7. ASSUME NEW t \in Threads, OpenCrlFile(t) PROVE Resting'
    <2>1. /\ call'[t].pc = "header"
          /\ \A s \in Threads \ {t} : call'[s] = call[s]
      BY <1>0, <1>7 DEF OpenCrlFile, CallType
    <2>2. QED
      BY <2>1 DEF Resting, UpdatedBy
  <1>8. ASSUME NEW t \in Threads, NEW i \in Issuers, WriteEntry(t, i)
        PROVE  Resting'
    <2>1. /\ call'[t].pc = "entries"
          /\ \A s \in Threads \ {t} : call'[s] = call[s]
      BY <1>0, <1>8 DEF WriteEntry, CallType
    <2>2. QED
      BY <2>1 DEF Resting, UpdatedBy
  <1>9. ASSUME NEW t \in Threads, WriteHeader(t) \/ StreamFails(t)
        PROVE  Resting'
    BY <1>2, <1>9 DEF WriteHeader, StreamFails
  <1>10. ASSUME NEW t \in Threads,
                \/ FailCall(t) \/ SucceedWithoutWrite(t)
                \/ OpenCrlFileFails(t) \/ CloseCrlFile(t)
         PROVE  Resting'
    BY <1>1, <1>10 DEF FailCall, SucceedWithoutWrite, OpenCrlFileFails,
                       CloseCrlFile
  <1>11. ASSUME Crash PROVE Resting'
    BY <1>11, IdleRests DEF Crash, Resting, UpdatedBy
  <1>12. QED
    BY <1>3, <1>4, <1>5, <1>6, <1>7, <1>8, <1>9, <1>10, <1>11
       DEF Next, ThreadStep, HapVerifyInit, StartCall, vars

\* A call that ends without a write: its updates are dropped.
LEMMA EndStep ==
  ASSUME Inv, TypeOK', Resting', NEW t \in Threads,
         call[t].pc = "verify",
         UNCHANGED <<gIsInit, isInit, crls, crlFile, crlMtx, known, unread>>,
         call' = [call EXCEPT ![t] = Idle],
         dropped' = dropped \cup UpdatedBy(t)
  PROVE  Inv'
  <1>1. call[t].pc \notin Writing /\ Idle.pc = "idle" /\ "idle" \notin Writing
    BY DEF Writing, Idle
  <1>2. dropped \subseteq dropped' /\ \A i \in UpdatedBy(t) : i \in dropped'
    OBVIOUS
  <1>3. QED
    BY <1>1, <1>2, QuietStep

LEMMA InvStep == Inv /\ [Next]_vars => Inv'
  <1> SUFFICES ASSUME Inv, [Next]_vars PROVE Inv'
    OBVIOUS
  <1>0. TypeOK' /\ Resting' /\ call \in [Threads -> CallType]
    BY TypeStep, RestingStep DEF Inv, TypeOK
  <1>1. ASSUME NEW t \in Threads, NEW kind \in Kinds,
               NEW storesOk \in BOOLEAN, NEW readOk \in BOOLEAN,
               HapVerifyInit(t, kind, storesOk, readOk)
        PROVE  Inv'
    BY <1>0, <1>1, HapVerifyInitStep
  <1>2. ASSUME NEW t \in Threads, NEW kind \in Kinds, StartCall(t, kind)
        PROVE  Inv'
    <2> DEFINE begun == [Idle EXCEPT !.pc = "verify", !.kind = kind]
    <2>1. /\ call[t].pc = "idle" /\ gIsInit
          /\ call' = [call EXCEPT ![t] = begun]
          /\ UNCHANGED <<gIsInit, isInit, crls, crlFile, crlMtx, known, unread>>
          /\ dropped' = dropped
      BY <1>2 DEF StartCall, Begin
    <2>2. begun.pc = "verify"
      BY DEF Idle
    <2> HIDE DEF begun
    <2>3. UpdatedBy(t) = {}
      BY <2>1 DEF Inv, Resting
    <2>4. "verify" \notin Writing /\ "idle" \notin Writing
      BY DEF Writing
    <2>5. QED
      BY <1>0, <2>1, <2>2, <2>3, <2>4, QuietStep
  <1>3. ASSUME NEW t \in Threads, NEW cert \in Certs,
               NEW crl \in Policy!PackageCrls(cert), CrlCheck(t, cert, crl)
        PROVE  Inv'
    BY <1>0, <1>3, CrlCheckStep
  <1>4. ASSUME NEW t \in Threads, NextContext(t) PROVE Inv'
    <2> DEFINE record == [call[t] EXCEPT !.context = After[@]]
    <2>1. /\ call[t].pc = "verify"
          /\ call' = [call EXCEPT ![t] = record]
          /\ UNCHANGED <<gIsInit, isInit, crls, crlFile, crlMtx, known, unread>>
          /\ dropped' = dropped
      BY <1>4 DEF NextContext
    <2>2. record.pc = "verify" /\ record.updated = call[t].updated
      BY <1>0, <2>1 DEF CallType
    <2> HIDE DEF record
    <2>3. UpdatedBy(t)' = UpdatedBy(t)
      BY <1>0, <2>1, <2>2 DEF UpdatedBy
    <2>4. gIsInit
      BY <2>1 DEF Inv, Fresh
    <2>5. "verify" \notin Writing
      BY DEF Writing
    <2>6. QED
      BY <1>0, <2>1, <2>2, <2>3, <2>4, <2>5, QuietStep
  <1>5. ASSUME NEW t \in Threads, FailCall(t) PROVE Inv'
    BY <1>0, <1>5, EndStep DEF FailCall, DropUpdates
  <1>6. ASSUME NEW t \in Threads, SucceedWithoutWrite(t) PROVE Inv'
    <2>1. UpdatedBy(t) =
             IF call[t].kind = "hap"
             THEN call[t].updated["ticket"] \cup call[t].updated["resign"]
             ELSE UpdatedBy(t)
      BY <1>6 DEF SucceedWithoutWrite, WriteCrlNeeded, NeedWriteCrl,
                  UpdatedBy, Contexts
    <2>2. QED
      BY <1>0, <1>6, <2>1, EndStep DEF SucceedWithoutWrite
  <1>7. ASSUME NEW t \in Threads, OpenCrlFile(t) PROVE Inv'
    BY <1>0, <1>7, OpenStep
  <1>8. ASSUME NEW t \in Threads, OpenCrlFileFails(t) PROVE Inv'
    BY <1>0, <1>8, EndStep DEF OpenCrlFileFails, DropUpdates
  <1>9. ASSUME NEW t \in Threads, WriteHeader(t) PROVE Inv'
    BY <1>0, <1>9, WriteHeaderStep
  <1>10. ASSUME NEW t \in Threads, NEW i \in Issuers, WriteEntry(t, i)
         PROVE  Inv'
    BY <1>0, <1>10, WriteEntryStep
  <1>11. ASSUME NEW t \in Threads, StreamFails(t) PROVE Inv'
    BY <1>0, <1>11, StreamFailsStep
  <1>12. ASSUME NEW t \in Threads, CloseCrlFile(t) PROVE Inv'
    BY <1>0, <1>12, CloseStep
  <1>13. CASE Crash
    BY <1>0, <1>13, CrashStep
  <1>14. CASE UNCHANGED vars
    BY <1>14, StutterStep
  <1>15. QED
    BY <1>1, <1>2, <1>3, <1>4, <1>5, <1>6, <1>7, <1>8, <1>9, <1>10, <1>11,
       <1>12, <1>13, <1>14 DEF Next, ThreadStep

LEMMA InvInit == Init => Inv
  <1> SUFFICES ASSUME Init PROVE Inv
    OBVIOUS
  <1>1. TypeOK
    BY TypeInit
  <1>2. \A t \in Threads : call[t].pc = "idle" /\ UpdatedBy(t) = {}
    BY IdleRests DEF Init, Idle, UpdatedBy
  <1>3. Resting /\ Fresh /\ MutexHeld /\ HeaderFirst /\ WriteProgress
    BY <1>2 DEF Init, Resting, Fresh, MutexHeld, HeaderFirst, WriteProgress,
                Writing
  <1>4. NewestInMemory /\ FileNotAhead /\ NoSilentLoss
    BY DEF Init, NewestInMemory, FileNotAhead, NoSilentLoss, NoEntries
  <1>5. QED
    BY <1>1, <1>3, <1>4 DEF Inv

LEMMA Invariance == Spec => []Inv
  BY InvInit, InvStep, PTL DEF Spec

-----------------------------------------------------------------------------
\* The map in memory always holds the newest CRL of each issuer that the
\* process has met, whichever threads brought the CRLs (GetFinalCrl).
THEOREM MemoryHoldsNewest == Spec => []NewestInMemory
  <1>1. Inv => NewestInMemory
    BY DEF Inv
  <1>2. QED
    BY <1>1, Invariance, PTL

\* The file is never ahead of the memory of a process that has read it.
THEOREM FileBehindMemory == Spec => []FileNotAhead
  <1>1. Inv => FileNotAhead
    BY DEF Inv
  <1>2. QED
    BY <1>1, Invariance, PTL

\* Every CRL that the file lacks is a running call's or is accounted for.
THEOREM LossesAccounted == Spec => []NoSilentLoss
  <1>1. Inv => NoSilentLoss
    BY DEF Inv
  <1>2. QED
    BY <1>1, Invariance, PTL

-----------------------------------------------------------------------------
(* Action properties.                                                      *)

\* Only CrlCheck changes the map of a process that is initialised.
LEMMA OnlyCheckChangesMemory ==
  ASSUME [Next]_vars, gIsInit, gIsInit', crls' # crls
  PROVE  \E t \in Threads, cert \in Certs :
            \E crl \in Policy!PackageCrls(cert) : CrlCheck(t, cert, crl)
  BY DEF Next, ThreadStep, vars, HapVerifyInit, StartCall, NextContext, FailCall,
         SucceedWithoutWrite, OpenCrlFile, OpenCrlFileFails, WriteHeader,
         WriteEntry, StreamFails, CloseCrlFile, Crash

\* The CRL of an issuer never disappears from memory and never becomes older
\* (GetFinalCrl replaces a CRL by a newer one only).
THEOREM MemoryMovesForward == Spec => NoRollback
  <1> DEFINE Forward ==
        gIsInit /\ gIsInit' =>
            \A i \in Issuers : crls[i] # NoCrl =>
                crls'[i] # NoCrl /\ crls[i].time <= crls'[i].time
  <1>1. Inv /\ [Next]_vars => Forward
    <2> SUFFICES ASSUME Inv, [Next]_vars, gIsInit, gIsInit',
                        NEW i \in Issuers, crls[i] # NoCrl
                 PROVE  crls'[i] # NoCrl /\ crls[i].time <= crls'[i].time
      OBVIOUS
    <2>1. crls[i].time \in Nat
      BY Maps DEF Inv
    <2>2. CASE crls' = crls
      BY <2>1, <2>2
    <2>3. CASE crls' # crls
      <3>1. PICK t \in Threads, cert \in Certs :
               \E crl \in Policy!PackageCrls(cert) : CrlCheck(t, cert, crl)
        BY <2>3, OnlyCheckChangesMemory
      <3>2. PICK crl \in Policy!PackageCrls(cert) : CrlCheck(t, cert, crl)
        BY <3>1
      <3>3. crls'[i] = crls[i] \/ (crls'[i] \in CRLs /\ crls[i].time < crls'[i].time)
        BY <3>2, CheckEffect
      <3>4. \A k \in CRLs : k # NoCrl /\ k.time \in Nat
        BY CrlAssumption
      <3>5. QED
        BY <2>1, <3>3, <3>4
    <2>4. QED
      BY <2>2, <2>3
  <1>2. QED
    BY <1>1, Invariance, PTL DEF Spec, NoRollback

\* A thread leaves the loop over the map to rest only by closing the file.
LEMMA OnlyCloseEndsWrite ==
  ASSUME Inv, [Next]_vars, NEW t \in Threads,
         call[t].pc = "entries", call'[t].pc = "idle", gIsInit'
  PROVE  CloseCrlFile(t)
  <1>1. call \in [Threads -> CallType] /\ gIsInit
    BY DEF Inv, TypeOK, Fresh
  <1>2. ASSUME NEW s \in Threads, ThreadStep(s), s # t
        PROVE  call'[t] = call[t]
    BY <1>1, <1>2 DEF ThreadStep, HapVerifyInit, StartCall, Begin, CrlCheck,
         NextContext, FailCall, SucceedWithoutWrite, OpenCrlFile,
         OpenCrlFileFails, WriteHeader, WriteEntry, StreamFails, CloseCrlFile
  <1>3. call' # call
    OBVIOUS
  <1>4. ~Crash
    BY DEF Crash
  <1>5. ThreadStep(t)
    BY <1>2, <1>3, <1>4 DEF Next, vars
  <1>6. \A i \in Issuers : ~WriteEntry(t, i)
    BY <1>1 DEF WriteEntry, CallType
  <1>7. ~StreamFails(t)
    BY <1>1 DEF StreamFails, CallType
  <1>8. QED
    BY <1>5, <1>6, <1>7 DEF ThreadStep, HapVerifyInit, StartCall, CrlCheck,
         NextContext, FailCall, SucceedWithoutWrite, OpenCrlFile,
         OpenCrlFileFails, WriteHeader

\* A complete write leaves exactly the map in memory in the file, although
\* other threads verify packages while it runs (crlMtx).
THEOREM CompleteWriteIsSnapshot == Spec => WriteIsSnapshot
  <1> DEFINE Snapshot ==
        \A t \in Threads :
            call[t].pc = "entries" /\ call'[t].pc = "idle" /\ gIsInit'
                => crlFile'.crls = crls'
  <1>1. Inv /\ [Next]_vars => Snapshot
    <2> SUFFICES ASSUME Inv, [Next]_vars, NEW t \in Threads,
                        call[t].pc = "entries", call'[t].pc = "idle", gIsInit'
                 PROVE  crlFile'.crls = crls'
      OBVIOUS
    <2>1. CloseCrlFile(t)
      BY OnlyCloseEndsWrite
    <2>2. WrittenAll(t)
      BY <2>1 DEF CloseCrlFile, WriteEnds
    <2>3. QED
      BY <2>1, <2>2, CompleteWrite DEF CloseCrlFile
  <1>2. QED
    BY <1>1, Invariance, PTL DEF Spec, WriteIsSnapshot

-----------------------------------------------------------------------------
(* CrlManager implements CrlPolicy.                                        *)

\* The outcome of a check is the policy's: GetFinalCrl hands it the newest
\* CRL of the issuer that the process knows, or none if it knows none.
LEMMA CheckVerdict ==
  ASSUME Inv, NEW t \in Threads, NEW cert \in Certs,
         NEW crl \in Policy!PackageCrls(cert), CrlCheck(t, cert, crl)
  PROVE  Policy!Check(cert, crl)
  <1> DEFINE issuer == IssuerOf[cert]
             final == crls'[issuer]
  <1>1. issuer \in Issuers
    BY CrlAssumption
  <1>2. NewestInMemory' /\ TypeOK'
    BY CheckNewest, CheckType DEF Inv
  <1>3. \A k \in known' : k \in CRLs /\ k.time \in Nat
    BY <1>2, CrlAssumption DEF TypeOK
  <1>4. IsRevoked(final, cert) <=> Policy!RevokedBy(known', cert)
    <2>1. CASE final = NoCrl
      BY <1>1, <1>2, <2>1 DEF NewestInMemory, IsRevoked, Policy!RevokedBy
    <2>2. CASE final # NoCrl
      <3>1. /\ final \in known'
            /\ final.issuer = issuer
            /\ Policy!Newest(final, known')
        <4>1. crls' \in CrlMap
          BY <1>2 DEF TypeOK
        <4>2. QED
          BY <1>1, <1>2, <2>2, <4>1 DEF NewestInMemory, CrlMap
      <3>2. ASSUME NEW k \in known', k.issuer = issuer,
                   Policy!Newest(k, known')
            PROVE  k = final
        <4>1. k.time <= final.time /\ final.time <= k.time
          BY <3>1, <3>2 DEF Policy!Newest
        <4>2. k.time = final.time
          BY <1>3, <3>1, <4>1
        <4>3. QED
          BY <1>3, <3>1, <3>2, <4>2, CrlAssumption
      <3>3. QED
        BY <2>2, <3>1, <3>2 DEF IsRevoked, Policy!RevokedBy
    <2>3. QED
      BY <2>1, <2>2
  <1>5. /\ known' = known \cup ({crl} \ {NoCrl})
        /\ verdict' = [cert |-> cert, ok |-> ~IsRevoked(final, cert)]
    <2>1. final = FinalCrl(crls[issuer], crl)
      BY CheckEffect
    <2>2. QED
      BY <2>1 DEF CrlCheck, CertIssuer
  <1>6. QED
    BY <1>4, <1>5 DEF Policy!Check

LEMMA PolicyStep ==
  ASSUME Inv, [Next]_vars
  PROVE  [Policy!Next]_<<known, verdict>>
  <1>1. ASSUME NEW t \in Threads, NEW cert \in Certs,
               NEW crl \in Policy!PackageCrls(cert), CrlCheck(t, cert, crl)
        PROVE  Policy!Next
    BY <1>1, CheckVerdict DEF Policy!Next
  <1>2. ASSUME NEW t \in Threads, NEW kind \in Kinds,
               NEW storesOk \in BOOLEAN, NEW readOk \in BOOLEAN,
               HapVerifyInit(t, kind, storesOk, readOk)
        PROVE  [Policy!Next]_<<known, verdict>>
    <2>1. TypeOK' /\ UNCHANGED verdict
      BY <1>2, TypeStep DEF Inv, HapVerifyInit
    <2>2. CASE known' = known
      BY <2>1, <2>2
    <2>3. CASE known' # known
      <3>1. known = {}
        BY <1>2, <2>3 DEF HapVerifyInit, LoadCrls, Inv, Fresh
      <3>2. known' \in SUBSET CRLs
        BY <2>1 DEF TypeOK
      <3>3. QED
        BY <2>1, <3>1, <3>2 DEF Policy!Next, Policy!Recover
    <2>4. QED
      BY <2>2, <2>3
  <1>3. ASSUME Crash PROVE Policy!Next
    BY <1>3 DEF Crash, Policy!Next, Policy!Restart
  <1>4. ASSUME NEW t \in Threads,
               \/ \E kind \in Kinds : StartCall(t, kind)
               \/ NextContext(t) \/ FailCall(t) \/ SucceedWithoutWrite(t)
               \/ OpenCrlFile(t) \/ OpenCrlFileFails(t) \/ WriteHeader(t)
               \/ \E i \in Issuers : WriteEntry(t, i)
               \/ StreamFails(t) \/ CloseCrlFile(t)
        PROVE  UNCHANGED <<known, verdict>>
    BY <1>4 DEF StartCall, NextContext, FailCall, SucceedWithoutWrite,
                OpenCrlFile, OpenCrlFileFails, WriteHeader, WriteEntry,
                StreamFails, CloseCrlFile
  <1>5. ASSUME UNCHANGED vars PROVE UNCHANGED <<known, verdict>>
    BY <1>5 DEF vars
  <1>6. QED
    BY <1>1, <1>2, <1>3, <1>4, <1>5 DEF Next, ThreadStep

\* Every check is decided by the newest CRL of the issuer that the process
\* has met: a thread never accepts a certificate that the process, through
\* any thread, already knows to be revoked (HapCrlManager::CrlCheck).
THEOREM RefinesPolicy == Spec => ImplementsPolicy
  <1>1. Init => Policy!Init
    BY DEF Init, Policy!Init
  <1>2. Inv /\ [Next]_vars => [Policy!Next]_<<known, verdict>>
    BY PolicyStep
  <1>3. QED
    BY <1>1, <1>2, Invariance, PTL DEF Spec, ImplementsPolicy, Policy!Spec
=============================================================================
