---------------------------- MODULE CrlManager ----------------------------
(***************************************************************************)
(* HapCrlManager: the process-wide map from issuer to newest known CRL,    *)
(* its copy in a file, and the verification calls that share both.         *)
(*                                                                         *)
(* A HAP verification (kind "hap") checks up to four PKCS#7 contexts in    *)
(* order: the app signature, the profile, the ticket of a profile that     *)
(* needs one, and the enterprise re-signature.  Every check may replace    *)
(* the CRL in memory; the file is written only when the whole call         *)
(* succeeds and one of the first two contexts asked for it.  The other     *)
(* calls that check certificates (kind "profile": VerifyProfile,           *)
(* VerifyProfileByP7bBlock and the permission scenes) never write.         *)
(* crlMtx makes each check and each write of the file atomic for the       *)
(* other threads; the process can die at any step of both.                 *)
(***************************************************************************)
EXTENDS Naturals

CONSTANTS
    Threads,    \* threads of the bundle manager that call the library
    NoThread,   \* crlMtx is free
    Certs, Issuers, IssuerOf, CRLs, NoCrl   \* see CrlPolicy

VARIABLES
    gIsInit,    \* g_isInit: the trust stores are loaded
    isInit,     \* HapCrlManager::isInit: the CRL file has been parsed
    crls,       \* crlsMap
    crlFile,    \* the CRL file: is it longer than 0 bytes, its whole entries
    crlMtx,     \* holder of crlMtx across the steps of WriteCrlsToFile
    call,       \* what each thread is doing
    \* history variables, which no action reads
    known,      \* the CRLs met since the process started
    verdict,    \* the outcome of the latest CrlCheck
    dropped,    \* issuers whose CRL a call updated and then left unsaved
    unread      \* the file had content that this process failed to read

vars == <<gIsInit, isInit, crls, crlFile, crlMtx, call,
          known, verdict, dropped, unread>>

\* The abstract specification: the CRLs met and the latest check are the
\* history of this one.
Policy ==
    INSTANCE CrlPolicy WITH
        known   <- known,
        verdict <- verdict

ASSUME ThreadAssumption == NoThread \notin Threads

(***************************************************************************)
(* CRLs reach this code signed by their issuer (VerifyCrl), so their       *)
(* update time is present and well formed, and an issuer does not publish  *)
(* two different lists with one update time.                               *)
(***************************************************************************)
ASSUME CrlAssumption ==
    /\ IssuerOf \in [Certs -> Issuers]
    /\ CRLs \subseteq [issuer: Issuers, time: Nat, revoked: SUBSET Certs]
    /\ NoCrl \notin CRLs
    /\ \A a, b \in CRLs : a.issuer = b.issuer /\ a.time = b.time => a = b

-----------------------------------------------------------------------------
Contexts == {"sign", "profile", "ticket", "resign"}
Kinds    == {"hap", "profile"}

Idle == [pc |-> "idle", kind |-> "hap", context |-> "sign",
         updated |-> [c \in Contexts |-> {}], todo |-> {}]

NoEntries == [i \in Issuers |-> NoCrl]

\* Pkcs7Context::needWriteCrl is set exactly when a check of that context
\* has replaced the local CRL of some issuer.
NeedWriteCrl(t, context) == call[t].updated[context] # {}

UpdatedBy(t) == UNION {call[t].updated[c] : c \in Contexts}

Entries(map) == {map[i] : i \in Issuers} \ {NoCrl}

Init ==
    /\ gIsInit = FALSE
    /\ isInit = FALSE
    /\ crls = NoEntries
    /\ crlFile = [header |-> FALSE, crls |-> NoEntries]
    /\ crlMtx = NoThread
    /\ call = [t \in Threads |-> Idle]
    /\ known = {}
    /\ verdict = Policy!NoVerdict
    /\ dropped = {}
    /\ unread = FALSE

-----------------------------------------------------------------------------
(* Starting a call: HapVerifyInit, and HapCrlManager::Init under it.       *)

Begin(t, kind) ==
    call' = [call EXCEPT ![t] = [Idle EXCEPT !.pc = "verify", !.kind = kind]]

\* Init, ReadCrls and ParseCrls: an empty file leaves isInit unset, and so
\* does a read that fails; parsing keeps the entries before the first bad one.
LoadCrls(readOk) ==
    IF isInit \/ ~crlFile.header
    THEN UNCHANGED <<isInit, crls, known, unread>>
    ELSE /\ unread' = ~readOk
         /\ IF readOk
            THEN /\ isInit' = TRUE
                 /\ crls' = [i \in Issuers |->
                               IF crlFile.crls[i] = NoCrl THEN crls[i]
                                                          ELSE crlFile.crls[i]]
                 /\ known' = known \cup Entries(crlFile.crls)
            ELSE UNCHANGED <<isInit, crls, known>>

\* storesOk: whether the root and trusted-source lists could be loaded. If not,
\* the call returns VERIFY_SOURCE_INIT_FAIL and the next call tries again.
HapVerifyInit(t, kind, storesOk, readOk) ==
    /\ call[t].pc = "idle"
    /\ ~gIsInit
    /\ crlMtx = NoThread
    /\ gIsInit' = storesOk
    /\ LoadCrls(readOk)
    /\ IF storesOk THEN Begin(t, kind) ELSE UNCHANGED call
    /\ UNCHANGED <<crlFile, crlMtx, verdict, dropped>>

StartCall(t, kind) ==
    /\ call[t].pc = "idle"
    /\ gIsInit
    /\ Begin(t, kind)
    /\ UNCHANGED <<gIsInit, isInit, crls, crlFile, crlMtx,
                   known, verdict, dropped, unread>>

-----------------------------------------------------------------------------
(* Checking one signing certificate: VerifyCrl, CrlCheck and GetFinalCrl.  *)

\* Pkcs7Context::certIssuer, set from the leaf before the CRL is looked up.
CertIssuer(cert) == IssuerOf[cert]

\* A mutant of Installs: the CRL of the package replaces the local one
\* whatever its age.
InstallsAnyAge(local, package) == package # NoCrl

\* UpdateCrlByIssuer is called: no local CRL, or the package's is newer.
\* (ASN1_TIME_compare(local, package) >= 0 keeps the local one. The null test
\* of the update times cannot succeed on a parsed CRL and has no branch here.)
Installs(local, package) ==
    /\ package # NoCrl
    /\ local = NoCrl \/ local.time < package.time

\* A mutant of FinalCrl: the CRL of the package is judged by, even when the
\* local one is newer.
PackageFirst(local, package) == IF package = NoCrl THEN local ELSE package

FinalCrl(local, package) == IF Installs(local, package) THEN package ELSE local

\* X509_CRL_get0_by_cert finds the certificate in the list; no list, no check.
IsRevoked(crl, cert) == crl # NoCrl /\ cert \in crl.revoked

\* Where the issuers that t updated end up when its call stops without a write.
DropUpdates(t, also) == dropped' = dropped \cup UpdatedBy(t) \cup also

\* A mutant of LockFree: the check does not wait for the writer of the file.
NoLock == TRUE

LockFree == crlMtx = NoThread

CrlCheck(t, cert, package) ==
    LET issuer == CertIssuer(cert)
        local  == crls[issuer]
        new    == IF Installs(local, package) THEN {issuer} ELSE {}
        ok     == ~IsRevoked(FinalCrl(local, package), cert)
    IN  /\ call[t].pc = "verify"
        /\ LockFree
        /\ crls' = IF new = {} THEN crls ELSE [crls EXCEPT ![issuer] = package]
        /\ known' = known \cup ({package} \ {NoCrl})
        /\ verdict' = [cert |-> cert, ok |-> ok]
        /\ IF ok
           THEN /\ call' = [call EXCEPT ![t].updated[call[t].context] = @ \cup new]
                /\ UNCHANGED dropped
           ELSE /\ call' = [call EXCEPT ![t] = Idle]
                /\ DropUpdates(t, new)
        /\ UNCHANGED <<gIsInit, isInit, crlFile, crlMtx, unread>>

\* The context that the verification turns to after each. A profile that needs
\* no ticket, or a package without re-signature, has no check in that context.
After == [sign |-> "profile", profile |-> "ticket", ticket |-> "resign"]

\* A context is done: on to the next one.
NextContext(t) ==
    /\ call[t].pc = "verify"
    /\ call[t].kind = "hap"
    /\ call[t].context # "resign"
    /\ call' = [call EXCEPT ![t].context = After[@]]
    /\ UNCHANGED <<gIsInit, isInit, crls, crlFile, crlMtx,
                   known, verdict, dropped, unread>>

\* Any other step of the verification fails: its return code skips the write.
FailCall(t) ==
    /\ call[t].pc = "verify"
    /\ call' = [call EXCEPT ![t] = Idle]
    /\ DropUpdates(t, {})
    /\ UNCHANGED <<gIsInit, isInit, crls, crlFile, crlMtx,
                   known, verdict, unread>>

-----------------------------------------------------------------------------
(* A call that succeeds: WriteCrlIfNeed and WriteCrlsToFile.               *)

\* A mutant of WriteCrlNeeded: both contexts must ask.
WriteCrlIfBothNeed(t) ==
    /\ call[t].kind = "hap"
    /\ NeedWriteCrl(t, "sign") /\ NeedWriteCrl(t, "profile")

\* The context of a ticket is local to VerifyTicket and that of the enterprise
\* re-signature to VerifyEnterpriseResignBlocks: their needWriteCrl is never
\* looked at.
WriteCrlNeeded(t) ==
    /\ call[t].kind = "hap"
    /\ NeedWriteCrl(t, "sign") \/ NeedWriteCrl(t, "profile")

SucceedWithoutWrite(t) ==
    /\ call[t].pc = "verify"
    /\ ~WriteCrlNeeded(t)
    /\ call' = [call EXCEPT ![t] = Idle]
    /\ dropped' = dropped \cup
                  IF call[t].kind = "hap"
                  THEN call[t].updated["ticket"] \cup call[t].updated["resign"]
                  ELSE UpdatedBy(t)
    /\ UNCHANGED <<gIsInit, isInit, crls, crlFile, crlMtx,
                   known, verdict, unread>>

\* The ofstream is opened with trunc: what the file held is gone.
OpenCrlFile(t) ==
    /\ call[t].pc = "verify"
    /\ WriteCrlNeeded(t)
    /\ LockFree
    /\ crlMtx' = t
    /\ crlFile' = [header |-> FALSE, crls |-> NoEntries]
    /\ call' = [call EXCEPT ![t].pc = "header",
                            ![t].todo = {i \in Issuers : crls[i] # NoCrl}]
    /\ UNCHANGED <<gIsInit, isInit, crls, known, verdict, dropped, unread>>

OpenCrlFileFails(t) ==
    /\ call[t].pc = "verify"
    /\ WriteCrlNeeded(t)
    /\ LockFree
    /\ call' = [call EXCEPT ![t] = Idle]
    /\ DropUpdates(t, {})
    /\ UNCHANGED <<gIsInit, isInit, crls, crlFile, crlMtx,
                   known, verdict, unread>>

WriteHeader(t) ==
    /\ call[t].pc = "header"
    /\ crlFile' = [crlFile EXCEPT !.header = TRUE]
    /\ call' = [call EXCEPT ![t].pc = "entries"]
    /\ UNCHANGED <<gIsInit, isInit, crls, crlMtx,
                   known, verdict, dropped, unread>>

\* One iteration over crlsMap, whose order is unspecified.
WriteEntry(t, issuer) ==
    /\ call[t].pc = "entries"
    /\ issuer \in call[t].todo
    /\ crlFile' = [crlFile EXCEPT !.crls[issuer] = crls[issuer]]
    /\ call' = [call EXCEPT ![t].todo = @ \ {issuer}]
    /\ UNCHANGED <<gIsInit, isInit, crls, crlMtx,
                   known, verdict, dropped, unread>>

\* The stream fails (no space left). Its later writes do nothing, and no
\* return value is looked at.
StreamFails(t) ==
    /\ call[t].pc \in {"header", "entries"}
    /\ call' = [call EXCEPT ![t].pc = "failed"]
    /\ UNCHANGED <<gIsInit, isInit, crls, crlFile, crlMtx,
                   known, verdict, dropped, unread>>

WrittenAll(t) == call[t].pc = "entries" /\ call[t].todo = {}

\* A mutant of WriteEnds: a failed write leaves without giving crlMtx back.
WriteEndsIfComplete(t) == WrittenAll(t)

\* The lock_guard gives crlMtx back however WriteCrlsToFile ends.
WriteEnds(t) == WrittenAll(t) \/ call[t].pc = "failed"

CloseCrlFile(t) ==
    /\ WriteEnds(t)
    /\ crlMtx' = NoThread
    /\ call' = [call EXCEPT ![t] = Idle]
    /\ IF WrittenAll(t)
       THEN dropped' = {} /\ unread' = FALSE
       ELSE dropped' = Issuers /\ UNCHANGED unread
    /\ UNCHANGED <<gIsInit, isInit, crls, crlFile, known, verdict>>

-----------------------------------------------------------------------------
\* The process dies. The file keeps the entries that were whole.
Crash ==
    /\ gIsInit' = FALSE
    /\ isInit' = FALSE
    /\ crls' = NoEntries
    /\ crlMtx' = NoThread
    /\ call' = [t \in Threads |-> Idle]
    /\ known' = {}
    /\ verdict' = Policy!NoVerdict
    /\ dropped' = {}
    /\ unread' = FALSE
    /\ UNCHANGED crlFile

ThreadStep(t) ==
    \/ \E kind \in Kinds, storesOk, readOk \in BOOLEAN :
          HapVerifyInit(t, kind, storesOk, readOk)
    \/ \E kind \in Kinds : StartCall(t, kind)
    \/ \E cert \in Certs : \E crl \in Policy!PackageCrls(cert) :
          CrlCheck(t, cert, crl)
    \/ NextContext(t)
    \/ FailCall(t)
    \/ SucceedWithoutWrite(t)
    \/ OpenCrlFile(t)
    \/ OpenCrlFileFails(t)
    \/ WriteHeader(t)
    \/ \E issuer \in Issuers : WriteEntry(t, issuer)
    \/ StreamFails(t)
    \/ CloseCrlFile(t)

Next == (\E t \in Threads : ThreadStep(t)) \/ Crash

\* A thread that is writing the file runs on: nothing in the loop blocks.
WriteStep(t) ==
    \/ WriteHeader(t)
    \/ \E issuer \in Issuers : WriteEntry(t, issuer)
    \/ CloseCrlFile(t)

Spec == Init /\ [][Next]_vars /\ \A t \in Threads : WF_vars(WriteStep(t))

-----------------------------------------------------------------------------
CallType ==
    [pc: {"idle", "verify", "header", "entries", "failed"}, kind: Kinds,
     context: Contexts, updated: [Contexts -> SUBSET Issuers],
     todo: SUBSET Issuers]

\* A CRL map holds, for an issuer, a CRL of that issuer or none.
CrlMap ==
    {m \in [Issuers -> CRLs \cup {NoCrl}] :
        \A i \in Issuers : m[i] # NoCrl => m[i].issuer = i}

TypeOK ==
    /\ gIsInit \in BOOLEAN
    /\ isInit \in BOOLEAN
    /\ crls \in CrlMap
    /\ crlFile \in [header: BOOLEAN, crls: CrlMap]
    /\ crlMtx \in Threads \cup {NoThread}
    /\ call \in [Threads -> CallType]
    /\ known \subseteq CRLs
    /\ \/ verdict = Policy!NoVerdict
       \/ verdict \in [cert: Certs, ok: BOOLEAN]
    /\ dropped \subseteq Issuers
    /\ unread \in BOOLEAN

\* The map in memory holds, for each issuer, the newest CRL the process has
\* met, whichever calls brought the CRLs and however those calls ended
\* (GetFinalCrl, "use which one recently updated").
NewestInMemory ==
    \A i \in Issuers :
        IF crls[i] = NoCrl
        THEN \A crl \in known : crl.issuer # i
        ELSE crls[i] \in known /\ Policy!Newest(crls[i], known)

\* The file never holds a CRL newer than the memory of a process that has
\* read it: no write is lost to an older map, and none resurfaces.
FileNotAhead ==
    gIsInit /\ ~unread =>
        \A i \in Issuers : crlFile.crls[i] # NoCrl =>
            crls[i] # NoCrl /\ crlFile.crls[i].time <= crls[i].time

\* A CRL that is newer in memory than in the file belongs to a call still
\* running, or was left behind in one of the ways the code has: the call that
\* brought it failed or never writes, it came with a ticket or with an
\* enterprise re-signature while the app signature and the profile brought
\* none, or the file could not be opened, written or read. In particular a HAP
\* verification that succeeds saves what its app signature and its profile
\* brought (WriteCrlIfNeed).
NoSilentLoss ==
    gIsInit /\ crlMtx = NoThread /\ ~unread =>
        \A i \in Issuers :
            \/ crls[i] = crlFile.crls[i]
            \/ i \in dropped
            \/ \E t \in Threads : i \in UpdatedBy(t)

\* A complete write leaves in the file exactly the map in memory, although
\* other threads verify packages, and update CRLs, while it runs (crlMtx).
WriteIsSnapshot ==
    [][\A t \in Threads :
          call[t].pc = "entries" /\ call'[t].pc = "idle" /\ gIsInit'
              => crlFile'.crls = crls']_vars

\* Within one process the CRL of an issuer never disappears from memory and
\* never becomes older.
NoRollback ==
    [][gIsInit /\ gIsInit' =>
          \A i \in Issuers : crls[i] # NoCrl =>
              crls'[i] # NoCrl /\ crls[i].time <= crls'[i].time]_vars

\* Every check is decided by the newest CRL met so far (CrlPolicy): a thread
\* never accepts a certificate that another thread, even one whose call has
\* failed since, already knows to be revoked.
ImplementsPolicy == Policy!Spec

\* crlMtx is always given back: no verification waits for ever.
MutexReleased == \A t \in Threads : crlMtx = t ~> crlMtx = NoThread
=============================================================================
