---------------------------- MODULE TrustStores ----------------------------
(***************************************************************************)
(* TrustedRootCa and TrustedSourceManager: the lists of trusted roots and  *)
(* of trusted sources, each with a test list that counts only in debug     *)
(* mode.                                                                   *)
(*                                                                         *)
(* Debug mode is switched under two different mutexes: g_mtx (the system   *)
(* parameter in HapVerifyInit, and the exported EnableDebugMode and        *)
(* DisableDebugMode) and getDeviceTypeMtx (DeviceTypeManager, called from  *)
(* HapVerifyInit and, without g_mtx, from CheckDeviceID).  The lookups of  *)
(* a verification take no lock at all.  Every field access is a step of    *)
(* its own; the lists are abstracted to how much of them is loaded.        *)
(***************************************************************************)
EXTENDS Naturals

CONSTANTS
    Threads,    \* threads that call the library
    NoThread    \* a mutex is free

VARIABLES
    gIsInit,    \* g_isInit
    store,      \* the two singletons: isInit, list, isDebug, test list
    gMtx,       \* holder of g_mtx
    dtMtx,      \* holder of getDeviceTypeMtx
    deviceType, \* DeviceTypeManager::deviceType: "debugging" when TRUE
    thr,        \* program counter and locals of each thread
    \* history variables, which no action reads
    trusting,   \* threads that matched an entry of a test list in this call
    enabled,    \* threads during whose call someone was enabling debug mode
    alone,      \* the switch in progress, if any, has met no other
    mixed       \* switches have met, and none has cleaned up alone since

history == <<trusting, enabled, alone, mixed>>
vars == <<gIsInit, store, gMtx, dtMtx, deviceType, thr,
          trusting, enabled, alone, mixed>>

ASSUME ThreadAssumption == NoThread \notin Threads

-----------------------------------------------------------------------------
Stores   == {"root", "source"}
Contents == {"none", "part", "all"}

Switching == {"load", "flag", "drop", "clear"}
Loading   == {"roots", "sources", "recover"}
PCs       == {"idle", "readType", "lockType", "readParam", "lookup", "search"}
                 \cup Loading \cup Switching

\* at: the store the thread works on.  want: enable (or the device type just
\* read).  by: who asked for the switch.  flag: ret of EnableDebug, or isDebug
\* as a lookup read it.
Idle == [pc |-> "idle", at |-> "root", want |-> FALSE, by |-> "api",
         flag |-> TRUE]

Empty == [isInit |-> FALSE, list |-> "none", isDebug |-> FALSE, test |-> "none"]

Init ==
    /\ gIsInit = FALSE
    /\ store = [s \in Stores |-> Empty]
    /\ gMtx = NoThread
    /\ dtMtx = NoThread
    /\ deviceType = FALSE
    /\ thr = [t \in Threads |-> Idle]
    /\ trusting = {}
    /\ enabled = {}
    /\ alone = TRUE
    /\ mixed = FALSE

\* What parsing a file of entries one by one leaves in a list that held old:
\* read is how far the parse went.
Parsed(old, read) == IF read = "none" \/ old = "all" THEN old ELSE read

Goto(t, pc) == thr' = [thr EXCEPT ![t].pc = pc]
Finish(t)   == thr' = [thr EXCEPT ![t] = Idle]

IsSwitching(t) == thr[t].pc \in Switching
Enabling(t)    == thr[t].pc \in {"load", "flag"}

-----------------------------------------------------------------------------
(* Switching debug mode: EnableDebug of both stores, with DisableDebug of  *)
(* both when one fails; or DisableDebug of both.                           *)

StartSwitch(t, want, by) ==
    LET met == \E u \in Threads \ {t} : IsSwitching(u)
    IN  /\ thr' = [thr EXCEPT ![t] = [pc |-> IF want THEN "load" ELSE "drop",
                                      at |-> "root", want |-> want, by |-> by,
                                      flag |-> TRUE]]
        /\ alone' = ~met
        /\ mixed' = (mixed \/ met)

\* GetDeviceTypeInfo is done: on to the parameter in HapVerifyInit, back to the
\* caller when the lists did not load, or the answer of CheckDeviceID.
AfterDeviceType(t) ==
    IF gMtx = t
    THEN /\ IF gIsInit THEN Goto(t, "readParam") ELSE Finish(t)
         /\ gMtx' = IF gIsInit THEN gMtx ELSE NoThread
    ELSE /\ IF thr[t].want THEN Goto(t, "lookup") ELSE Finish(t)
         /\ UNCHANGED gMtx

\* A mutant of AfterUnlock: the return on a failed EnableDebug keeps the mutex.
KeptOnFailure(t) == IF thr[t].flag THEN NoThread ELSE dtMtx

\* getDeviceTypeMtx is a lock_guard: every return gives it back.
AfterUnlock(t) == NoThread

\* A failed EnableDebug leaves deviceType alone, so the next call tries again.
EndSwitch(t) ==
    CASE thr[t].by = "device" ->
            /\ dtMtx' = AfterUnlock(t)
            /\ deviceType' = IF thr[t].flag THEN thr[t].want ELSE deviceType
            /\ AfterDeviceType(t)
      [] thr[t].by = "param" ->
            /\ gMtx' = NoThread
            /\ Goto(t, "lookup")
            /\ UNCHANGED <<dtMtx, deviceType>>
      [] thr[t].by = "api" ->
            /\ gMtx' = NoThread
            /\ Finish(t)
            /\ UNCHANGED <<dtMtx, deviceType>>

\* The store is done; root comes first.
NextStore(t, pc) ==
    IF thr[t].at = "root"
    THEN /\ thr' = [thr EXCEPT ![t].pc = pc, ![t].at = "source"]
         /\ UNCHANGED <<gMtx, dtMtx, deviceType>>
    ELSE EndSwitch(t)

\* EnableDebug, up to the assignment of isDebug.
LoadTestList(t, read) ==
    LET s == thr[t].at
    IN  /\ thr[t].pc = "load"
        /\ IF store[s].isDebug
           THEN NextStore(t, "load") /\ UNCHANGED store
           ELSE /\ store' = [store EXCEPT ![s].test = Parsed(@, read)]
                /\ thr' = [thr EXCEPT ![t].pc = "flag", ![t].flag = read = "all"]
                /\ UNCHANGED <<gMtx, dtMtx, deviceType>>
        /\ UNCHANGED <<gIsInit, history>>

\* A mutant of CleansUp: a failed EnableDebug leaves the other store enabled.
NoCleanUp(t) == FALSE

CleansUp(t) == ~thr[t].flag

SetDebugFlag(t) ==
    /\ thr[t].pc = "flag"
    /\ store' = [store EXCEPT ![thr[t].at].isDebug = thr[t].flag]
    /\ IF CleansUp(t)
       THEN /\ thr' = [thr EXCEPT ![t].pc = "drop", ![t].at = "root"]
            /\ UNCHANGED <<gMtx, dtMtx, deviceType>>
       ELSE NextStore(t, "load")
    /\ UNCHANGED <<gIsInit, history>>

\* DisableDebug: first the flag, then the list.
DropDebugFlag(t) ==
    /\ thr[t].pc = "drop"
    /\ store' = [store EXCEPT ![thr[t].at].isDebug = FALSE]
    /\ Goto(t, "clear")
    /\ UNCHANGED <<gIsInit, gMtx, dtMtx, deviceType, history>>

ClearTestList(t) ==
    /\ thr[t].pc = "clear"
    /\ store' = [store EXCEPT ![thr[t].at].test = "none"]
    /\ NextStore(t, "drop")
    /\ mixed' = IF thr[t].at = "source" /\ alone THEN FALSE ELSE mixed
    /\ UNCHANGED <<gIsInit, trusting, enabled, alone>>

-----------------------------------------------------------------------------
(* HapVerifyInit: every call that verifies starts with it.                 *)

LockInit(t) ==
    /\ thr[t].pc = "idle"
    /\ gMtx = NoThread
    /\ gMtx' = t
    /\ Goto(t, IF gIsInit THEN "readParam" ELSE "roots")
    /\ trusting' = trusting \ {t}
    /\ UNCHANGED <<gIsInit, store, dtMtx, deviceType, enabled, alone, mixed>>

InitStore(r, read) ==
    IF r.isInit THEN r
    ELSE [r EXCEPT !.list = Parsed(@, read), !.isInit = read = "all"]

\* A mutant of Recovery: the entries stay.
RecoveryOfFlag(r) == [r EXCEPT !.isInit = FALSE]

Recovery(r) == [r EXCEPT !.list = "none", !.isInit = FALSE]

InitRoots(t, read) ==
    /\ thr[t].pc = "roots"
    /\ store' = [store EXCEPT !["root"] = InitStore(@, read)]
    /\ Goto(t, IF InitStore(store["root"], read).isInit THEN "sources"
                                                       ELSE "recover")
    /\ UNCHANGED <<gIsInit, gMtx, dtMtx, deviceType, history>>

InitSources(t, read) ==
    LET ok == InitStore(store["source"], read).isInit
    IN  /\ thr[t].pc = "sources"
        /\ store' = [store EXCEPT !["source"] = InitStore(@, read)]
        /\ gIsInit' = ok
        /\ Goto(t, IF ok THEN "readType" ELSE "recover")
        /\ UNCHANGED <<gMtx, dtMtx, deviceType, history>>

\* One of the lists did not load: both are emptied, and the call goes on to the
\* device type before it fails.
RecoverStores(t) ==
    /\ thr[t].pc = "recover"
    /\ store' = [s \in Stores |-> Recovery(store[s])]
    /\ Goto(t, "readType")
    /\ UNCHANGED <<gIsInit, gMtx, dtMtx, deviceType, history>>

\* A mutant of ActsOn: a parameter that is not "true" leaves debug mode alone.
ActsOnTrue(param) == param

\* UpdateDebugModeBySystemParameter acts on either value of the parameter.
ActsOn(param) == TRUE

\* From here on only those count for t in enabled who enable debug mode later
\* or are at it now.
ReadParam(t, param) ==
    /\ thr[t].pc = "readParam"
    /\ IF ActsOn(param)
       THEN /\ StartSwitch(t, param, "param")
            /\ UNCHANGED gMtx
       ELSE /\ Goto(t, "lookup")
            /\ gMtx' = NoThread
            /\ UNCHANGED <<alone, mixed>>
    /\ enabled' = IF param THEN Threads
                  ELSE IF \E u \in Threads : Enabling(u) THEN enabled \cup {t}
                  ELSE enabled \ {t}
    /\ UNCHANGED <<gIsInit, store, dtMtx, deviceType, trusting>>

-----------------------------------------------------------------------------
(* EnableDebugMode and DisableDebugMode, exported for earlier callers.     *)

SwitchByApi(t, want) ==
    /\ thr[t].pc = "idle"
    /\ gMtx = NoThread
    /\ gMtx' = t
    /\ StartSwitch(t, want, "api")
    /\ enabled' = IF want THEN Threads ELSE enabled
    /\ trusting' = trusting \ {t}
    /\ UNCHANGED <<gIsInit, store, dtMtx, deviceType>>

-----------------------------------------------------------------------------
(* GetDeviceTypeInfo: the type is read before the mutex is taken.          *)

\* In a verification it is CheckDeviceID that calls, for a device that the
\* profile does not list.
ReadDeviceType(t, development) ==
    /\ thr[t].pc \in {"readType", "lookup"}
    /\ thr' = [thr EXCEPT ![t].pc = "lockType", ![t].want = development]
    /\ UNCHANGED <<gIsInit, store, gMtx, dtMtx, deviceType, history>>

SameDeviceType(t) ==
    /\ thr[t].pc = "lockType"
    /\ dtMtx = NoThread
    /\ thr[t].want = deviceType
    /\ AfterDeviceType(t)
    /\ UNCHANGED <<gIsInit, store, dtMtx, deviceType, history>>

DeviceTypeChanged(t) ==
    /\ thr[t].pc = "lockType"
    /\ dtMtx = NoThread
    /\ thr[t].want # deviceType
    /\ dtMtx' = t
    /\ StartSwitch(t, thr[t].want, "device")
    /\ enabled' = IF thr[t].want THEN Threads ELSE enabled
    /\ UNCHANGED <<gIsInit, store, gMtx, deviceType, trusting>>

-----------------------------------------------------------------------------
(* The lookups of a verification, FindMatchedRoot and IsTrustedSource, for *)
(* an entry that the list of the release does not have.  A call makes them *)
(* in the order its signatures ask for, and ends after any of them.        *)

ReadDebugFlag(t, s) ==
    /\ thr[t].pc = "lookup"
    /\ thr' = [thr EXCEPT ![t].pc = "search", ![t].at = s,
                          ![t].flag = store[s].isDebug]
    /\ UNCHANGED <<gIsInit, store, gMtx, dtMtx, deviceType, history>>

\* found: the entry is among those that the test list holds at this moment. A
\* search that overlaps ClearTestList is one before it or one after it.
SearchTestList(t, found) ==
    /\ thr[t].pc = "search"
    /\ found => thr[t].flag /\ store[thr[t].at].test # "none"
    /\ trusting' = IF found THEN trusting \cup {t} ELSE trusting
    /\ Goto(t, "lookup")
    /\ UNCHANGED <<gIsInit, store, gMtx, dtMtx, deviceType,
                   enabled, alone, mixed>>

EndCall(t) ==
    /\ thr[t].pc = "lookup"
    /\ Finish(t)
    /\ trusting' = trusting \ {t}
    /\ UNCHANGED <<gIsInit, store, gMtx, dtMtx, deviceType,
                   enabled, alone, mixed>>

-----------------------------------------------------------------------------
\* A thread that has begun to initialize or to switch is not stopped by
\* anything but a mutex.
SwitchStep(t) ==
    \/ \E read \in Contents : LoadTestList(t, read)
    \/ SetDebugFlag(t)
    \/ DropDebugFlag(t)
    \/ ClearTestList(t)

InitStep(t) ==
    \/ \E read \in Contents : InitRoots(t, read) \/ InitSources(t, read)
    \/ RecoverStores(t)
    \/ \E param \in BOOLEAN : ReadParam(t, param)
    \/ gMtx = t /\ \E development \in BOOLEAN : ReadDeviceType(t, development)
    \/ SameDeviceType(t)
    \/ DeviceTypeChanged(t)

ThreadStep(t) ==
    \/ LockInit(t)
    \/ \E want \in BOOLEAN : SwitchByApi(t, want)
    \/ SwitchStep(t)
    \/ InitStep(t)
    \/ gMtx # t /\ \E development \in BOOLEAN : ReadDeviceType(t, development)
    \/ \E s \in Stores : ReadDebugFlag(t, s)
    \/ \E found \in BOOLEAN : SearchTestList(t, found)
    \/ EndCall(t)

Next == \E t \in Threads : ThreadStep(t)

Spec ==
    /\ Init
    /\ [][Next]_vars
    /\ \A t \in Threads : WF_vars(SwitchStep(t) \/ InitStep(t))

-----------------------------------------------------------------------------
\* A store counts as loaded only with every entry of its file.
StoreType ==
    {r \in [isInit: BOOLEAN, list: Contents, isDebug: BOOLEAN, test: Contents] :
        r.isInit => r.list = "all"}

ThreadType == [pc: PCs, at: Stores, want: BOOLEAN,
               by: {"param", "device", "api"}, flag: BOOLEAN]

TypeOK ==
    /\ gIsInit \in BOOLEAN
    /\ store \in [Stores -> StoreType]
    /\ gMtx \in Threads \cup {NoThread}
    /\ dtMtx \in Threads \cup {NoThread}
    /\ deviceType \in BOOLEAN
    /\ thr \in [Threads -> ThreadType]
    /\ trusting \subseteq Threads
    /\ enabled \subseteq Threads
    /\ alone \in BOOLEAN
    /\ mixed \in BOOLEAN

\* Whatever loads fail, and at whatever entry, a caller that finds g_mtx free
\* finds both lists whole or both empty: no verification runs on half a list,
\* and the next HapVerifyInit starts from nothing (Recovery).
StoresAllOrNothing ==
    gMtx = NoThread =>
        \A s \in Stores :
            /\ store[s].isInit = gIsInit
            /\ store[s].list = IF gIsInit THEN "all" ELSE "none"

\* When no switch is in progress, debug mode is on in both stores, with the
\* whole test lists, or off in both, with none; unless two switches under the
\* two mutexes have met, and then the next switch off that meets no other
\* puts things right (EnableDebugModeLocked, GetDeviceTypeInfo).
DebugAgrees ==
    (\A t \in Threads : ~IsSwitching(t)) /\ ~mixed =>
        \/ \A s \in Stores : store[s].isDebug /\ store[s].test = "all"
        \/ \A s \in Stores : ~store[s].isDebug /\ store[s].test = "none"

\* A verification that read the parameter as not "true" matches no entry of a
\* test list, unless someone was enabling debug mode then or has done it since:
\* what earlier calls left on, and what switches of two threads have mixed up,
\* is off for it (HapVerifyInit and the lookups without a lock).
TestTrustJustified == trusting \subseteq enabled

\* Every HapVerifyInit and every switch comes to its end: g_mtx is always taken
\* before getDeviceTypeMtx, and both are given back.
InitReturns == \A t \in Threads : gMtx = t ~> gMtx = NoThread
=============================================================================
