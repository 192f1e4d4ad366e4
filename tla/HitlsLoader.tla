---------------------------- MODULE HitlsLoader ----------------------------
(***************************************************************************)
(* HitlsCryptoLoader: the openHiTLS library, loaded when a digest needs it *)
(* and closed by a worker thread when nobody has held it for a while.      *)
(*                                                                         *)
(* Whoever holds the library calls it outside the mutex, through function  *)
(* pointers that the worker resets.  What the mutex guards is one step;    *)
(* notify_one is a step of its own, after the unlock.  Time is what is     *)
(* left until the deadline, counted in ticks.                              *)
(***************************************************************************)
EXTENDS Naturals, FiniteSets

CONSTANTS
    Users,      \* threads that compute digests
    Delay       \* HITLS_DLCLOSE_DELAY, in ticks

ASSUME HitlsAssumption == IsFiniteSet(Users) /\ Delay \in Nat \ {0}

VARIABLES
    loaded,     \* handle_ and the function pointers are set
    holds,      \* activeHolds_
    scheduled,  \* closeScheduled_
    left,       \* closeDeadline_ - now, or 0 when it has passed
    stop,       \* stopWorker_
    worker,     \* where the close worker is
    armed,      \* ticks until its timed wait times out
    users,      \* what each thread does with the library
    main,       \* the thread that ends the process
    unused      \* history: ticks since the last hold ended, up to Delay

loaderVars == <<loaded, holds, scheduled, left, stop, worker, armed, users, main, unused>>

LoaderInit ==
    /\ loaded = FALSE
    /\ holds = 0
    /\ scheduled = FALSE
    /\ left = 0
    /\ stop = FALSE
    /\ worker = "awake"
    /\ armed = 0
    /\ users = [t \in Users |-> "idle"]
    /\ main = "running"
    /\ unused = 0

-----------------------------------------------------------------------------
(* Acquire and Release, around every use of the library.                   *)

\* A mutant of NotifyOne: nobody is woken.
NotifyNone == worker

NotifyOne == IF worker \in {"waiting", "timed"} THEN "awake" ELSE worker

\* A mutant of Held: only whoever loads the library is counted.
HeldByLoader == IF loaded THEN holds ELSE holds + 1

Held == holds + 1

\* found: one of the two paths opens and has all five symbols. If not, nothing
\* has changed when the mutex is free again.
Acquire(t, found) ==
    /\ users[t] = "idle"
    /\ main = "running"
    /\ loaded \/ found
    /\ loaded' = TRUE
    /\ scheduled' = FALSE
    /\ holds' = Held
    /\ users' = [users EXCEPT ![t] = "acquired"]
    /\ UNCHANGED <<left, stop, worker, armed, main, unused>>

AcquireNotifies(t) ==
    /\ users[t] = "acquired"
    /\ worker' = NotifyOne
    /\ users' = [users EXCEPT ![t] = "using"]
    /\ UNCHANGED <<loaded, holds, scheduled, left, stop, armed, main, unused>>

LastRelease == holds = 1

Deadline == Delay

\* ScheduleDelayedCloseLocked when it is the last hold. DigestFree comes here,
\* and so does whoever finds that the library fails.
Release(t) ==
    /\ users[t] = "using"
    /\ holds > 0
    /\ holds' = holds - 1
    /\ IF LastRelease
       THEN scheduled' = TRUE /\ left' = Deadline
       ELSE UNCHANGED <<scheduled, left>>
    /\ unused' = 0
    /\ users' = [users EXCEPT ![t] = "released"]
    /\ UNCHANGED <<loaded, stop, worker, armed, main>>

ReleaseNotifies(t) ==
    /\ users[t] = "released"
    /\ worker' = NotifyOne
    /\ users' = [users EXCEPT ![t] = "idle"]
    /\ UNCHANGED <<loaded, holds, scheduled, left, stop, armed, main, unused>>

-----------------------------------------------------------------------------
(* CloseWorkerLoop.                                                        *)

MayClose == scheduled /\ holds = 0 /\ loaded

\* A mutant of Due: the deadline is the one that the wait began with.
TimerRanOut == armed = 0

\* wait_until takes closeDeadline_ by reference and compares it with the clock
\* once it has the mutex again.
Due == left = 0

\* With the mutex: leave, wait for work, close, or wait for the deadline.
WorkerLeaves ==
    /\ worker = "awake"
    /\ stop
    /\ worker' = "gone"
    /\ UNCHANGED <<loaded, holds, scheduled, left, stop, armed, users, main, unused>>

WorkerWaits ==
    /\ worker = "awake"
    /\ ~stop /\ ~MayClose
    /\ worker' = "waiting"
    /\ UNCHANGED <<loaded, holds, scheduled, left, stop, armed, users, main, unused>>

WorkerCloses ==
    /\ worker = "awake"
    /\ ~stop /\ MayClose /\ Due
    /\ loaded' = FALSE
    /\ scheduled' = FALSE
    /\ UNCHANGED <<holds, left, stop, worker, armed, users, main, unused>>

WorkerWaitsUntil ==
    /\ worker = "awake"
    /\ ~stop /\ MayClose /\ ~Due
    /\ worker' = "timed"
    /\ armed' = left
    /\ UNCHANGED <<loaded, holds, scheduled, left, stop, users, main, unused>>

WorkerTimesOut ==
    /\ worker = "timed"
    /\ armed = 0
    /\ worker' = "awake"
    /\ UNCHANGED <<loaded, holds, scheduled, left, stop, armed, users, main, unused>>

SpuriousWakeup ==
    /\ worker \in {"waiting", "timed"}
    /\ worker' = "awake"
    /\ UNCHANGED <<loaded, holds, scheduled, left, stop, armed, users, main, unused>>

Down(n) == IF n = 0 THEN 0 ELSE n - 1

Tick ==
    /\ left > 0 \/ armed > 0
    /\ left' = Down(left)
    /\ armed' = Down(armed)
    /\ unused' = IF unused < Delay THEN unused + 1 ELSE unused
    /\ UNCHANGED <<loaded, holds, scheduled, stop, worker, users, main>>

-----------------------------------------------------------------------------
(* The destructor, when the process ends and no digest is being computed.  *)

StopWorker ==
    /\ main = "running"
    /\ \A t \in Users : users[t] = "idle"
    /\ stop' = TRUE
    /\ scheduled' = FALSE
    /\ main' = "notifying"
    /\ UNCHANGED <<loaded, holds, left, worker, armed, users, unused>>

\* A mutant of WakesOnStop: the worker is left to wake up by itself.
StopSilently == worker

WakesOnStop == NotifyOne

StopNotifies ==
    /\ main = "notifying"
    /\ worker' = WakesOnStop
    /\ main' = "joining"
    /\ UNCHANGED <<loaded, holds, scheduled, left, stop, armed, users, unused>>

JoinWorker ==
    /\ main = "joining"
    /\ worker = "gone"
    /\ main' = "ended"
    /\ UNCHANGED <<loaded, holds, scheduled, left, stop, worker, armed, users, unused>>

\* Only this may stop the system.
Ended == main = "ended" /\ UNCHANGED loaderVars

-----------------------------------------------------------------------------
UseStep(t) ==
    \/ \E found \in BOOLEAN : Acquire(t, found)
    \/ AcquireNotifies(t)
    \/ Release(t)
    \/ ReleaseNotifies(t)

WorkerStep ==
    \/ WorkerLeaves
    \/ WorkerWaits
    \/ WorkerCloses
    \/ WorkerWaitsUntil
    \/ WorkerTimesOut

EndStep == StopWorker \/ StopNotifies \/ JoinWorker \/ Ended

LoaderNext ==
    \/ \E t \in Users : UseStep(t)
    \/ WorkerStep
    \/ SpuriousWakeup
    \/ Tick
    \/ EndStep

\* The worker runs when it can, time passes, and a thread that has left the
\* mutex gets to its notify_one. Nothing makes a thread use the library, or
\* stop using it, and nobody counts on spurious wakeups.
LoaderSpec ==
    /\ LoaderInit
    /\ [][LoaderNext]_loaderVars
    /\ WF_loaderVars(WorkerStep)
    /\ WF_loaderVars(Tick)
    /\ WF_loaderVars(StopNotifies)
    /\ WF_loaderVars(JoinWorker)
    /\ \A t \in Users : WF_loaderVars(AcquireNotifies(t) \/ ReleaseNotifies(t))

-----------------------------------------------------------------------------
LoaderTypeOK ==
    /\ loaded \in BOOLEAN
    /\ holds \in Nat
    /\ scheduled \in BOOLEAN
    /\ left \in 0..Delay
    /\ stop \in BOOLEAN
    /\ worker \in {"awake", "waiting", "timed", "gone"}
    /\ armed \in 0..Delay
    /\ users \in [Users -> {"idle", "acquired", "using", "released"}]
    /\ main \in {"running", "notifying", "joining", "ended"}
    /\ unused \in 0..Delay

Holders == {t \in Users : users[t] \in {"acquired", "using"}}

\* Whoever has acquired the library and not yet released it finds the function
\* pointers set whenever it calls through them, without the mutex, and IsReady
\* true: the worker closes nothing under a holder, whatever wakes it and when.
HoldersAreReady == Holders # {} => loaded /\ holds > 0

\* activeHolds_ counts the holders, through every failure, and a close is
\* scheduled only for a library that is loaded and that nobody holds.
HoldsAreCounted ==
    /\ holds = Cardinality(Holders)
    /\ scheduled => loaded /\ Holders = {}

\* The library is closed only after it has been unused for the whole delay,
\* even when it is acquired and released again while the worker, whose wait has
\* timed out, is on its way back to the mutex.
ClosedAfterDelay == [][loaded /\ ~loaded' => unused = Delay]_loaderVars

\* A library that nobody holds is closed, unless someone acquires it again or
\* the process ends: no release is lost on a worker that is about to wait.
UnusedIsClosed == loaded /\ holds = 0 /\ ~stop ~> ~loaded \/ holds > 0 \/ stop

\* The destructor returns: the worker sees stopWorker_ wherever it is.
DestructorReturns == stop ~> main = "ended"
=============================================================================
