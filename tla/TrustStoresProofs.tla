------------------------- MODULE TrustStoresProofs -------------------------
(***************************************************************************)
(* Proofs about TrustStores, for any set of threads.                       *)
(***************************************************************************)
EXTENDS TrustStores, TLAPS

-----------------------------------------------------------------------------
(* Type correctness.                                                       *)

\* Each way the actions change a record of a store keeps its type.
LEMMA StoreTypes ==
    ASSUME NEW r \in StoreType, NEW read \in Contents, NEW flag \in BOOLEAN
    PROVE  /\ InitStore(r, read) \in StoreType
           /\ Recovery(r) \in StoreType
           /\ [r EXCEPT !.test = Parsed(@, read)] \in StoreType
           /\ [r EXCEPT !.test = "none"] \in StoreType
           /\ [r EXCEPT !.isDebug = flag] \in StoreType
  BY DEF StoreType, InitStore, Recovery, Parsed, Contents

LEMMA EndSwitchTypes ==
    ASSUME TypeOK, NEW t \in Threads, EndSwitch(t)
    PROVE  /\ thr' \in [Threads -> ThreadType]
           /\ gMtx' \in Threads \cup {NoThread}
           /\ dtMtx' \in Threads \cup {NoThread}
           /\ deviceType' \in BOOLEAN
<1>1. thr \in [Threads -> ThreadType] /\ thr[t] \in ThreadType
  BY DEF TypeOK
<1>2. ASSUME NEW pc \in PCs, Goto(t, pc)
      PROVE  thr' \in [Threads -> ThreadType]
  BY <1>1, <1>2 DEF Goto, ThreadType
<1>3. ASSUME Finish(t)
      PROVE  thr' \in [Threads -> ThreadType]
  BY <1>1, <1>3 DEF Finish, Idle, ThreadType, PCs, Stores
<1>4. CASE thr[t].by = "device"
  <2>1. AfterDeviceType(t) /\ dtMtx' = NoThread
        /\ deviceType' = IF thr[t].flag THEN thr[t].want ELSE deviceType
    BY <1>4 DEF EndSwitch, AfterUnlock
  <2>2. thr' \in [Threads -> ThreadType]
    BY <2>1, <1>2, <1>3 DEF AfterDeviceType, PCs
  <2>3. QED
    BY <1>1, <2>1, <2>2 DEF TypeOK, AfterDeviceType, ThreadType
<1>5. CASE thr[t].by = "param"
  BY <1>2, <1>5 DEF EndSwitch, TypeOK, PCs
<1>6. CASE thr[t].by = "api"
  BY <1>3, <1>6 DEF EndSwitch, TypeOK
<1>7. QED
  BY <1>1, <1>4, <1>5, <1>6 DEF ThreadType

LEMMA NextStoreTypes ==
    ASSUME TypeOK, NEW t \in Threads, NEW pc \in Switching, NextStore(t, pc)
    PROVE  /\ thr' \in [Threads -> ThreadType]
           /\ gMtx' \in Threads \cup {NoThread}
           /\ dtMtx' \in Threads \cup {NoThread}
           /\ deviceType' \in BOOLEAN
  BY EndSwitchTypes DEF TypeOK, NextStore, ThreadType, PCs, Stores

LEMMA StartSwitchTypes ==
    ASSUME TypeOK, NEW t \in Threads, NEW want \in BOOLEAN,
           NEW by \in {"param", "device", "api"}, StartSwitch(t, want, by)
    PROVE  /\ thr' \in [Threads -> ThreadType]
           /\ alone' \in BOOLEAN
           /\ mixed' \in BOOLEAN
  BY DEF TypeOK, StartSwitch, ThreadType, PCs, Switching, Stores

LEMMA TypeStep ==
    ASSUME TypeOK, Next
    PROVE  TypeOK'
<1>1. PICK t \in Threads : ThreadStep(t)
  BY DEF Next
<1>types. /\ gIsInit \in BOOLEAN
          /\ store \in [Stores -> StoreType]
          /\ gMtx \in Threads \cup {NoThread}
          /\ dtMtx \in Threads \cup {NoThread}
          /\ deviceType \in BOOLEAN
          /\ thr \in [Threads -> ThreadType]
          /\ trusting \subseteq Threads
          /\ enabled \subseteq Threads
          /\ alone \in BOOLEAN
          /\ mixed \in BOOLEAN
  BY DEF TypeOK, ThreadType
<1>at. thr[t].at \in Stores /\ thr[t].flag \in BOOLEAN
  BY <1>types DEF ThreadType
<1>goto. ASSUME NEW pc \in PCs, Goto(t, pc)
         PROVE  thr' \in [Threads -> ThreadType]
  BY <1>types, <1>goto DEF Goto, ThreadType
<1>finish. ASSUME Finish(t)
           PROVE  thr' \in [Threads -> ThreadType]
  BY <1>types, <1>finish DEF Finish, Idle, ThreadType, PCs, Stores
<1>2. CASE LockInit(t)
  BY <1>types, <1>goto, <1>2 DEF LockInit, TypeOK, ThreadType, PCs, Loading
<1>3. ASSUME NEW want \in BOOLEAN, SwitchByApi(t, want)
      PROVE  TypeOK'
  <2>1. thr' \in [Threads -> ThreadType] /\ alone' \in BOOLEAN /\ mixed' \in BOOLEAN
    BY <1>3, StartSwitchTypes DEF SwitchByApi
  <2>2. QED
    BY <1>types, <1>3, <2>1 DEF SwitchByApi, TypeOK, ThreadType
<1>4. ASSUME NEW read \in Contents, LoadTestList(t, read)
      PROVE  TypeOK'
  <2>1. CASE store[thr[t].at].isDebug
    BY <1>types, <1>4, <2>1, NextStoreTypes
       DEF LoadTestList, TypeOK, ThreadType, Switching, history
  <2>2. CASE ~store[thr[t].at].isDebug
    <3>1. store' \in [Stores -> StoreType]
      <4>1. [store[thr[t].at] EXCEPT !.test = Parsed(@, read)] \in StoreType
        BY <1>types, <1>at, StoreTypes
      <4>2. store' = [store EXCEPT ![thr[t].at] =
                         [store[thr[t].at] EXCEPT !.test = Parsed(@, read)]]
        BY <1>4, <2>2, <1>types, <1>at DEF LoadTestList, StoreType
      <4>3. QED
        BY <1>types, <1>at, <4>1, <4>2
    <3>2. thr' \in [Threads -> ThreadType]
      BY <1>types, <1>4, <2>2 DEF LoadTestList, ThreadType, PCs, Switching
    <3>3. QED
      BY <1>types, <1>4, <2>2, <3>1, <3>2
         DEF LoadTestList, TypeOK, ThreadType, history
  <2>3. QED
    BY <2>1, <2>2
<1>5. CASE SetDebugFlag(t)
  <2>1. store' \in [Stores -> StoreType]
    <3>1. [store[thr[t].at] EXCEPT !.isDebug = thr[t].flag] \in StoreType
      BY <1>types, <1>at, StoreTypes DEF Contents
    <3>2. QED
      BY <1>types, <1>at, <1>5, <3>1 DEF SetDebugFlag
  <2>2. CASE CleansUp(t)
    BY <1>types, <1>5, <2>1, <2>2
       DEF SetDebugFlag, TypeOK, ThreadType, PCs, Switching, Stores, history
  <2>3. CASE ~CleansUp(t)
    BY <1>types, <1>5, <2>1, <2>3, NextStoreTypes
       DEF SetDebugFlag, TypeOK, ThreadType, Switching, history
  <2>4. QED
    BY <2>2, <2>3
<1>6. CASE DropDebugFlag(t)
  <2>1. store' \in [Stores -> StoreType]
    <3>1. [store[thr[t].at] EXCEPT !.isDebug = FALSE] \in StoreType
      BY <1>types, <1>at, StoreTypes DEF Contents
    <3>2. QED
      BY <1>types, <1>at, <1>6, <3>1 DEF DropDebugFlag
  <2>2. QED
    BY <1>types, <1>goto, <1>6, <2>1
       DEF DropDebugFlag, TypeOK, ThreadType, PCs, Switching, history
<1>7. CASE ClearTestList(t)
  <2>1. store' \in [Stores -> StoreType]
    <3>1. [store[thr[t].at] EXCEPT !.test = "none"] \in StoreType
      BY <1>types, <1>at, StoreTypes DEF Contents
    <3>2. QED
      BY <1>types, <1>at, <1>7, <3>1 DEF ClearTestList
  <2>2. QED
    BY <1>types, <1>7, <2>1, NextStoreTypes
       DEF ClearTestList, TypeOK, ThreadType, Switching
<1>8. ASSUME NEW read \in Contents, InitRoots(t, read)
      PROVE  TypeOK'
  <2>1. store' \in [Stores -> StoreType]
    BY <1>types, <1>8, StoreTypes DEF InitRoots, Stores
  <2>2. QED
    BY <1>types, <1>goto, <1>8, <2>1
       DEF InitRoots, TypeOK, ThreadType, PCs, Loading, history
<1>9. ASSUME NEW read \in Contents, InitSources(t, read)
      PROVE  TypeOK'
  <2>1. InitStore(store["source"], read) \in StoreType
    BY <1>types, StoreTypes DEF Stores
  <2>2. store' \in [Stores -> StoreType]
    BY <1>types, <1>9, <2>1 DEF InitSources, Stores
  <2>3. gIsInit' \in BOOLEAN
    BY <1>9, <2>1 DEF InitSources, StoreType
  <2>4. thr' \in [Threads -> ThreadType]
    <3>1. Goto(t, "readType") \/ Goto(t, "recover")
      BY <1>9 DEF InitSources
    <3>2. QED
      BY <3>1, <1>goto DEF PCs, Loading
  <2>5. QED
    BY <1>types, <1>9, <2>2, <2>3, <2>4 DEF InitSources, TypeOK, history
<1>10. CASE RecoverStores(t)
  <2>1. store' \in [Stores -> StoreType]
    BY <1>types, <1>10, StoreTypes DEF RecoverStores, Contents
  <2>2. QED
    BY <1>types, <1>goto, <1>10, <2>1
       DEF RecoverStores, TypeOK, ThreadType, PCs, history
<1>11. ASSUME NEW param \in BOOLEAN, ReadParam(t, param)
       PROVE  TypeOK'
  <2>1. thr' \in [Threads -> ThreadType] /\ alone' \in BOOLEAN /\ mixed' \in BOOLEAN
    BY <1>11, StartSwitchTypes DEF ReadParam, ActsOn
  <2>2. QED
    BY <1>types, <1>11, <2>1 DEF ReadParam, ActsOn, TypeOK, ThreadType
<1>12. ASSUME NEW development \in BOOLEAN, ReadDeviceType(t, development)
       PROVE  TypeOK'
  <2>1. [thr[t] EXCEPT !.pc = "lockType", !.want = development] \in ThreadType
    BY <1>types DEF ThreadType, PCs
  <2>2. thr' = [thr EXCEPT ![t] =
                  [thr[t] EXCEPT !.pc = "lockType", !.want = development]]
    BY <1>types, <1>12 DEF ReadDeviceType, ThreadType
  <2>3. QED
    BY <1>types, <1>12, <2>1, <2>2 DEF ReadDeviceType, TypeOK, history
<1>13. CASE SameDeviceType(t)
  <2>1. thr' \in [Threads -> ThreadType]
    BY <1>goto, <1>finish, <1>13 DEF SameDeviceType, AfterDeviceType, PCs
  <2>2. gMtx' \in Threads \cup {NoThread}
    BY <1>types, <1>13 DEF SameDeviceType, AfterDeviceType
  <2>3. QED
    BY <1>types, <1>13, <2>1, <2>2 DEF SameDeviceType, TypeOK, ThreadType, history
<1>14. CASE DeviceTypeChanged(t)
  <2>1. thr[t].want \in BOOLEAN
    BY <1>types DEF ThreadType
  <2>2. thr' \in [Threads -> ThreadType] /\ alone' \in BOOLEAN /\ mixed' \in BOOLEAN
    BY <1>14, <2>1, StartSwitchTypes DEF DeviceTypeChanged
  <2>3. QED
    BY <1>types, <1>14, <2>2 DEF DeviceTypeChanged, TypeOK, ThreadType
<1>15. ASSUME NEW s \in Stores, ReadDebugFlag(t, s)
       PROVE  TypeOK'
  <2>1. store[s].isDebug \in BOOLEAN
    BY <1>types DEF StoreType
  <2>2. [thr[t] EXCEPT !.pc = "search", !.at = s, !.flag = store[s].isDebug]
           \in ThreadType
    BY <1>types, <2>1 DEF ThreadType, PCs
  <2>3. thr' = [thr EXCEPT ![t] =
                  [thr[t] EXCEPT !.pc = "search", !.at = s,
                                 !.flag = store[s].isDebug]]
    BY <1>types, <1>15 DEF ReadDebugFlag, ThreadType
  <2>4. QED
    BY <1>types, <1>15, <2>2, <2>3 DEF ReadDebugFlag, TypeOK, history
<1>16. ASSUME NEW found \in BOOLEAN, SearchTestList(t, found)
       PROVE  TypeOK'
  BY <1>types, <1>goto, <1>16 DEF SearchTestList, TypeOK, ThreadType, PCs
<1>17. CASE EndCall(t)
  BY <1>types, <1>finish, <1>17 DEF EndCall, TypeOK, ThreadType
<1>18. QED
  BY <1>1, <1>2, <1>3, <1>4, <1>5, <1>6, <1>7, <1>8, <1>9, <1>10, <1>11,
     <1>12, <1>13, <1>14, <1>15, <1>16, <1>17
     DEF ThreadStep, SwitchStep, InitStep

LEMMA InitTypes == Init => TypeOK
<1>1. Idle \in ThreadType
  BY DEF Idle, ThreadType, PCs, Stores
<1>2. Empty \in StoreType
  BY DEF Empty, StoreType, Contents
<1>3. QED
  BY <1>1, <1>2 DEF Init, TypeOK

\* The type invariant: among other things a list counts as loaded only when it
\* holds every entry of its file.
THEOREM TypeCorrect == Spec => []TypeOK
<1>1. Init => TypeOK
  BY InitTypes
<1>2. TypeOK /\ [Next]_vars => TypeOK'
  <2>1. CASE Next
    BY <2>1, TypeStep
  <2>2. CASE UNCHANGED vars
    BY <2>2 DEF vars, TypeOK
  <2>3. QED
    BY <2>1, <2>2
<1>3. QED
  BY <1>1, <1>2, PTL DEF Spec

-----------------------------------------------------------------------------
(* Who holds g_mtx, and what the lists contain meanwhile.                  *)

\* The steps of HapVerifyInit, and the switches it and the exported functions
\* make, are taken with g_mtx; lookups are made without it.
Holding ==
    \A t \in Threads :
        /\ thr[t].pc \in Loading \cup {"readType", "readParam"} => gMtx = t
        /\ IsSwitching(t) /\ thr[t].by # "device" => gMtx = t
        /\ gMtx = t => thr[t].pc \notin {"idle", "lookup", "search"}

Loaded(s) ==
    /\ store[s].isInit = gIsInit
    /\ store[s].list = IF gIsInit THEN "all" ELSE "none"

\* Between the load of the root list and the end of the other load, or of the
\* recovery, the lists may differ.
Lists ==
    /\ \A t \in Threads :
          /\ thr[t].pc \in Loading => ~gIsInit
          /\ thr[t].pc = "sources" =>
                /\ store["root"].isInit
                /\ ~store["source"].isInit
                /\ store["source"].list = "none"
    /\ (\A t \in Threads : thr[t].pc \notin {"sources", "recover"}) =>
          \A s \in Stores : Loaded(s)

LEMMA OthersStay ==
    ASSUME TypeOK, NEW t \in Threads, ThreadStep(t)
    PROVE  \A u \in Threads \ {t} : thr'[u] = thr[u]
<1>1. thr \in [Threads -> ThreadType]
  BY DEF TypeOK
<1>2. ASSUME NEW pc, Goto(t, pc)
      PROVE  \A u \in Threads \ {t} : thr'[u] = thr[u]
  BY <1>1, <1>2 DEF Goto
<1>3. ASSUME Finish(t)
      PROVE  \A u \in Threads \ {t} : thr'[u] = thr[u]
  BY <1>1, <1>3 DEF Finish
<1>4. ASSUME NEW want, NEW by, StartSwitch(t, want, by)
      PROVE  \A u \in Threads \ {t} : thr'[u] = thr[u]
  BY <1>1, <1>4 DEF StartSwitch
<1>5. ASSUME AfterDeviceType(t)
      PROVE  \A u \in Threads \ {t} : thr'[u] = thr[u]
  BY <1>5, <1>2, <1>3 DEF AfterDeviceType
<1>6. ASSUME EndSwitch(t)
      PROVE  \A u \in Threads \ {t} : thr'[u] = thr[u]
  <2>1. thr[t].by \in {"device", "param", "api"}
    BY <1>1 DEF ThreadType
  <2>2. AfterDeviceType(t) \/ Goto(t, "lookup") \/ Finish(t)
    BY <1>6, <2>1 DEF EndSwitch
  <2>3. QED
    BY <2>2, <1>2, <1>3, <1>5
<1>7. ASSUME NEW pc, NextStore(t, pc)
      PROVE  \A u \in Threads \ {t} : thr'[u] = thr[u]
  BY <1>1, <1>6, <1>7 DEF NextStore
<1>8. CASE LockInit(t) \/ (\E want \in BOOLEAN : SwitchByApi(t, want))
  BY <1>8, <1>2, <1>4 DEF LockInit, SwitchByApi
<1>9. CASE SwitchStep(t)
  BY <1>1, <1>9, <1>2, <1>7
     DEF SwitchStep, LoadTestList, SetDebugFlag, DropDebugFlag, ClearTestList
<1>10. CASE InitStep(t)
  <2>1. CASE (\E read \in Contents : InitRoots(t, read) \/ InitSources(t, read))
             \/ RecoverStores(t)
    BY <2>1, <1>2 DEF InitRoots, InitSources, RecoverStores
  <2>2. CASE \E param \in BOOLEAN : ReadParam(t, param)
    BY <2>2, <1>4 DEF ReadParam, ActsOn
  <2>3. CASE \E development \in BOOLEAN : ReadDeviceType(t, development)
    BY <1>1, <2>3 DEF ReadDeviceType
  <2>4. CASE SameDeviceType(t) \/ DeviceTypeChanged(t)
    BY <2>4, <1>4, <1>5 DEF SameDeviceType, DeviceTypeChanged
  <2>5. QED
    BY <1>10, <2>1, <2>2, <2>3, <2>4 DEF InitStep
<1>11. CASE \E development \in BOOLEAN : ReadDeviceType(t, development)
  BY <1>1, <1>11 DEF ReadDeviceType
<1>12. CASE \E s \in Stores : ReadDebugFlag(t, s)
  BY <1>1, <1>12 DEF ReadDebugFlag
<1>13. CASE (\E found \in BOOLEAN : SearchTestList(t, found)) \/ EndCall(t)
  BY <1>13, <1>2, <1>3 DEF SearchTestList, EndCall
<1>14. QED
  BY <1>8, <1>9, <1>10, <1>11, <1>12, <1>13 DEF ThreadStep

\* How a thread leaves a switch, or GetDeviceTypeInfo: it goes on to the
\* parameter with g_mtx, or it is out of HapVerifyInit without it.
Leaves(t) ==
    \/ thr'[t].pc = "readParam" /\ gMtx = t /\ gMtx' = t
    \/ /\ thr'[t].pc \in {"idle", "lookup"}
       /\ gMtx' = IF gMtx = t THEN NoThread ELSE gMtx

LEMMA AfterDeviceTypeLeaves ==
    ASSUME TypeOK, NEW t \in Threads, AfterDeviceType(t)
    PROVE  Leaves(t)
  BY ThreadAssumption DEF TypeOK, ThreadType, AfterDeviceType, Leaves, Goto, Finish, Idle

LEMMA EndSwitchLeaves ==
    ASSUME TypeOK, Holding, NEW t \in Threads, IsSwitching(t), EndSwitch(t)
    PROVE  Leaves(t)
<1>1. thr \in [Threads -> ThreadType] /\ thr[t].by \in {"device", "param", "api"}
  BY DEF TypeOK, ThreadType
<1>2. CASE thr[t].by = "device"
  BY <1>2, AfterDeviceTypeLeaves DEF EndSwitch
<1>3. CASE thr[t].by # "device"
  <2>1. gMtx = t
    BY <1>3 DEF Holding
  <2>2. gMtx' = NoThread /\ (Goto(t, "lookup") \/ Finish(t))
    BY <1>1, <1>3 DEF EndSwitch
  <2>3. thr'[t].pc \in {"idle", "lookup"}
    BY <1>1, <2>2 DEF Goto, Finish, Idle, ThreadType
  <2>4. QED
    BY <2>1, <2>2, <2>3 DEF Leaves
<1>4. QED
  BY <1>2, <1>3

LEMMA NextStoreLeaves ==
    ASSUME TypeOK, Holding, NEW t \in Threads, IsSwitching(t),
           NEW pc \in Switching, NextStore(t, pc)
    PROVE  \/ /\ thr[t].at = "root"
              /\ thr'[t] = [thr[t] EXCEPT !.pc = pc, !.at = "source"]
              /\ gMtx' = gMtx
           \/ thr[t].at = "source" /\ Leaves(t)
<1>1. CASE thr[t].at = "root"
  BY <1>1 DEF NextStore, TypeOK, ThreadType
<1>2. CASE thr[t].at # "root"
  BY <1>2, EndSwitchLeaves DEF NextStore, TypeOK, ThreadType, Stores
<1>3. QED
  BY <1>1, <1>2

\* What each step of a thread does to its program counter and to g_mtx.
LEMMA Moves ==
    ASSUME TypeOK, Holding, NEW t \in Threads, ThreadStep(t)
    PROVE  \/ /\ thr[t].pc = "idle" /\ gMtx = NoThread /\ gMtx' = t
              /\ thr'[t].pc \in {"roots", "readParam", "load", "drop"}
              /\ thr'[t].pc = "roots" => ~gIsInit /\ ~gIsInit'
           \/ /\ gMtx = t /\ gMtx' = t
              /\ thr[t].pc \in Loading
              /\ thr'[t].pc \in Loading \cup {"readType"}
              /\ thr'[t].pc \in Loading => (~gIsInit => ~gIsInit')
           \/ /\ gMtx' = gMtx
              /\ thr[t].pc \in {"readType", "lookup"}
              /\ thr'[t].pc = "lockType"
           \/ /\ gMtx' = gMtx
              /\ thr[t].pc \in {"lookup", "search"}
              /\ thr'[t].pc \in {"lookup", "search", "idle"}
           \/ /\ gMtx' = gMtx
              /\ \/ thr[t].pc = "lockType" /\ thr'[t].by = "device"
                 \/ thr[t].pc = "readParam" /\ thr'[t].by = "param"
                 \/ IsSwitching(t) /\ thr'[t].by = thr[t].by
              /\ thr'[t].pc \in Switching
           \/ thr[t].pc \in Switching \cup {"lockType"} /\ Leaves(t)
<1>thr. thr \in [Threads -> ThreadType] /\ thr[t] \in ThreadType
  BY DEF TypeOK
<1>goto. ASSUME NEW pc, Goto(t, pc)
         PROVE  thr'[t] = [thr[t] EXCEPT !.pc = pc] /\ thr'[t].pc = pc
                /\ thr'[t].by = thr[t].by
  BY <1>thr, <1>goto DEF Goto, ThreadType
<1>start. ASSUME NEW want \in BOOLEAN, NEW by, StartSwitch(t, want, by)
          PROVE  thr'[t].pc \in {"load", "drop"} /\ thr'[t].by = by
  BY <1>thr, <1>start DEF StartSwitch
<1>next. ASSUME IsSwitching(t), NEW pc \in Switching, NextStore(t, pc)
         PROVE  \/ gMtx' = gMtx /\ thr'[t].pc \in Switching /\ thr'[t].by = thr[t].by
                \/ Leaves(t)
  <2>1. \/ /\ thr'[t] = [thr[t] EXCEPT !.pc = pc, !.at = "source"]
           /\ gMtx' = gMtx
        \/ Leaves(t)
    BY <1>next, NextStoreLeaves
  <2>2. CASE /\ thr'[t] = [thr[t] EXCEPT !.pc = pc, !.at = "source"]
             /\ gMtx' = gMtx
    BY <1>thr, <1>next, <2>2 DEF ThreadType
  <2>3. QED
    BY <2>1, <2>2
<1>1. CASE LockInit(t)
  <2>1. CASE gIsInit
    <3>1. Goto(t, "readParam") /\ thr[t].pc = "idle" /\ gMtx = NoThread /\ gMtx' = t
      BY <1>1, <2>1 DEF LockInit
    <3>2. thr'[t].pc = "readParam"
      BY <3>1, <1>goto
    <3>3. QED
      BY <3>1, <3>2
  <2>2. CASE ~gIsInit
    BY <1>1, <2>2, <1>goto DEF LockInit
  <2>3. QED
    BY <2>1, <2>2
<1>2. ASSUME NEW want \in BOOLEAN, SwitchByApi(t, want)
      PROVE  thr[t].pc = "idle" /\ gMtx = NoThread /\ gMtx' = t
             /\ thr'[t].pc \in {"load", "drop"}
  BY <1>2, <1>start DEF SwitchByApi
<1>3. CASE SwitchStep(t)
  <2>1. IsSwitching(t)
    BY <1>3 DEF SwitchStep, LoadTestList, SetDebugFlag, DropDebugFlag, ClearTestList,
                IsSwitching, Switching
  <2>2. ASSUME NEW read \in Contents, LoadTestList(t, read)
        PROVE  \/ gMtx' = gMtx /\ thr'[t].pc \in Switching /\ thr'[t].by = thr[t].by
               \/ Leaves(t)
    BY <1>thr, <2>1, <2>2, <1>next DEF LoadTestList, Switching, ThreadType
  <2>3. ASSUME SetDebugFlag(t)
        PROVE  \/ gMtx' = gMtx /\ thr'[t].pc \in Switching /\ thr'[t].by = thr[t].by
               \/ Leaves(t)
    BY <1>thr, <2>1, <2>3, <1>next DEF SetDebugFlag, Switching, ThreadType
  <2>4. ASSUME DropDebugFlag(t) \/ ClearTestList(t)
        PROVE  \/ gMtx' = gMtx /\ thr'[t].pc \in Switching /\ thr'[t].by = thr[t].by
               \/ Leaves(t)
    BY <2>1, <2>4, <1>goto, <1>next DEF DropDebugFlag, ClearTestList, Switching
  <2>5. QED
    BY <1>3, <2>1, <2>2, <2>3, <2>4 DEF SwitchStep, IsSwitching
<1>4. ASSUME NEW read \in Contents, InitRoots(t, read) \/ InitSources(t, read)
      PROVE  /\ gMtx = t /\ gMtx' = t
             /\ thr[t].pc \in Loading
             /\ thr'[t].pc \in Loading \cup {"readType"}
             /\ thr'[t].pc \in Loading => (~gIsInit => ~gIsInit')
  <2>1. CASE InitRoots(t, read)
    BY <1>goto, <2>1 DEF InitRoots, Loading, Holding
  <2>2. CASE InitSources(t, read) /\ InitStore(store["source"], read).isInit
    BY <1>goto, <2>2 DEF InitSources, Loading, Holding
  <2>3. CASE InitSources(t, read) /\ ~InitStore(store["source"], read).isInit
    BY <1>goto, <2>3 DEF InitSources, Loading, Holding
  <2>4. QED
    BY <1>4, <2>1, <2>2, <2>3
<1>5. CASE RecoverStores(t)
  BY <1>5, <1>goto DEF RecoverStores, Loading, Holding
<1>6. ASSUME NEW param \in BOOLEAN, ReadParam(t, param)
      PROVE  /\ gMtx' = gMtx
             /\ thr[t].pc = "readParam" /\ thr'[t].by = "param"
             /\ thr'[t].pc \in Switching
  BY <1>6, <1>start DEF ReadParam, ActsOn, Switching
<1>7. ASSUME NEW development \in BOOLEAN, ReadDeviceType(t, development)
      PROVE  /\ gMtx' = gMtx
             /\ thr[t].pc \in {"readType", "lookup"}
             /\ thr'[t].pc = "lockType"
  BY <1>thr, <1>7 DEF ReadDeviceType, ThreadType
<1>8. CASE SameDeviceType(t)
  BY <1>8, AfterDeviceTypeLeaves DEF SameDeviceType
<1>9. CASE DeviceTypeChanged(t)
  <2>1. thr[t].want \in BOOLEAN
    BY <1>thr DEF ThreadType
  <2>2. QED
    BY <1>9, <2>1, <1>start DEF DeviceTypeChanged, Switching
<1>10. ASSUME NEW s \in Stores, ReadDebugFlag(t, s)
       PROVE  gMtx' = gMtx /\ thr[t].pc = "lookup" /\ thr'[t].pc = "search"
  <2>1. thr'[t] = [thr[t] EXCEPT !.pc = "search", !.at = s,
                                 !.flag = store[s].isDebug]
    BY <1>thr, <1>10 DEF ReadDebugFlag
  <2>2. QED
    BY <1>thr, <1>10, <2>1 DEF ReadDebugFlag, ThreadType
<1>11. CASE (\E found \in BOOLEAN : SearchTestList(t, found)) \/ EndCall(t)
  <2>1. CASE \E found \in BOOLEAN : SearchTestList(t, found)
    BY <2>1, <1>goto DEF SearchTestList
  <2>2. CASE EndCall(t)
    BY <1>thr, <2>2 DEF EndCall, Finish, Idle
  <2>3. QED
    BY <1>11, <2>1, <2>2
<1>12. CASE InitStep(t)
  BY <1>4, <1>5, <1>6, <1>7, <1>8, <1>9, <1>12 DEF InitStep
<1>13. CASE \E want \in BOOLEAN : SwitchByApi(t, want)
  BY <1>2, <1>13
<1>14. CASE (\E development \in BOOLEAN : ReadDeviceType(t, development))
            \/ (\E s \in Stores : ReadDebugFlag(t, s))
  BY <1>7, <1>10, <1>14
<1>15. QED
  BY <1>1, <1>3, <1>11, <1>12, <1>13, <1>14 DEF ThreadStep

LEMMA HoldingStep ==
    ASSUME TypeOK, Holding, Next
    PROVE  Holding'
<1>1. PICK t \in Threads : ThreadStep(t)
  BY DEF Next
<1>2. \A u \in Threads \ {t} : thr'[u] = thr[u]
  BY <1>1, OthersStay
<1>3. gMtx \in Threads \cup {NoThread} /\ NoThread \notin Threads
  BY ThreadAssumption DEF TypeOK
<1>4. SUFFICES ASSUME NEW u \in Threads
               PROVE  /\ thr'[u].pc \in Loading \cup {"readType", "readParam"}
                            => gMtx' = u
                      /\ thr'[u].pc \in Switching /\ thr'[u].by # "device"
                            => gMtx' = u
                      /\ gMtx' = u => thr'[u].pc \notin {"idle", "lookup", "search"}
  BY DEF Holding, IsSwitching
<1>5. /\ thr[u].pc \in Loading \cup {"readType", "readParam"} => gMtx = u
      /\ thr[u].pc \in Switching /\ thr[u].by # "device" => gMtx = u
      /\ gMtx = u => thr[u].pc \notin {"idle", "lookup", "search"}
  BY DEF Holding, IsSwitching
<1>6. CASE u = t
  BY <1>1, <1>3, <1>5, <1>6, Moves DEF Leaves, Loading, Switching, IsSwitching
<1>7. CASE u # t
  <2>1. gMtx' = gMtx \/ (gMtx = NoThread /\ gMtx' = t) \/ (gMtx = t /\ gMtx' = NoThread)
    BY <1>1, Moves DEF Leaves
  <2>2. QED
    BY <1>2, <1>3, <1>5, <1>7, <2>1
<1>8. QED
  BY <1>6, <1>7

-----------------------------------------------------------------------------
(* Both lists are whole or both are empty.                                 *)

LEMMA ListsStep ==
    ASSUME TypeOK, Holding, Lists, Next
    PROVE  Lists'
<1>1. PICK t \in Threads : ThreadStep(t)
  BY DEF Next
<1>2. \A u \in Threads \ {t} : thr'[u] = thr[u]
  BY <1>1, OthersStay
<1>3. store \in [Stores -> StoreType] /\ thr \in [Threads -> ThreadType]
  BY DEF TypeOK
<1>goto. ASSUME NEW pc, Goto(t, pc)
         PROVE  thr'[t].pc = pc
  BY <1>3, <1>goto DEF Goto, ThreadType
\* While a thread loads or recovers, no other does.
<1>4. \A u \in Threads : u # t /\ thr[t].pc \in Loading => thr[u].pc \notin Loading
  BY DEF Holding
<1>5. CASE thr[t].pc \notin Loading
  <2>1. /\ gIsInit' = gIsInit
        /\ \A s \in Stores : /\ store'[s].isInit = store[s].isInit
                             /\ store'[s].list = store[s].list
    <3>1. CASE SwitchStep(t)
      <4>1. gIsInit' = gIsInit
        BY <3>1 DEF SwitchStep, LoadTestList, SetDebugFlag, DropDebugFlag, ClearTestList
      <4>2. ASSUME NEW read \in Contents, LoadTestList(t, read), NEW s \in Stores
            PROVE  /\ store'[s].isInit = store[s].isInit
                   /\ store'[s].list = store[s].list
        BY <1>3, <4>2 DEF LoadTestList, StoreType
      <4>3. ASSUME SetDebugFlag(t) \/ DropDebugFlag(t) \/ ClearTestList(t), NEW s \in Stores
            PROVE  /\ store'[s].isInit = store[s].isInit
                   /\ store'[s].list = store[s].list
        <5>1. \/ store' = [store EXCEPT ![thr[t].at].isDebug = thr[t].flag]
              \/ store' = [store EXCEPT ![thr[t].at].isDebug = FALSE]
              \/ store' = [store EXCEPT ![thr[t].at].test = "none"]
          BY <4>3 DEF SetDebugFlag, DropDebugFlag, ClearTestList
        <5>2. QED
          BY <1>3, <4>3, <5>1 DEF StoreType
      <4>4. QED
        BY <3>1, <4>1, <4>2, <4>3 DEF SwitchStep
    <3>2. CASE InitStep(t)
      BY <1>5, <3>2
         DEF InitStep, InitRoots, InitSources, RecoverStores, ReadParam, ReadDeviceType,
             SameDeviceType, DeviceTypeChanged, Loading
    <3>3. CASE ~SwitchStep(t) /\ ~InitStep(t)
      BY <1>1, <3>3
         DEF ThreadStep, LockInit, SwitchByApi, ReadDeviceType, ReadDebugFlag,
             SearchTestList, EndCall
    <3>4. QED
      BY <3>1, <3>2, <3>3
  <2>2. thr'[t].pc \in Loading => thr'[t].pc = "roots" /\ ~gIsInit
    BY <1>1, <1>5, Moves DEF Leaves, Loading, Switching
  <2>3. QED
    BY <1>2, <1>5, <2>1, <2>2 DEF Lists, Loaded, Loading, Stores
<1>6. CASE thr[t].pc = "roots"
  <2>1. PICK read \in Contents : InitRoots(t, read)
    BY <1>1, <1>6
       DEF ThreadStep, SwitchStep, InitStep, LockInit, SwitchByApi, LoadTestList,
           SetDebugFlag, DropDebugFlag, ClearTestList, InitSources,
           RecoverStores, ReadParam, ReadDeviceType, SameDeviceType,
           DeviceTypeChanged, ReadDebugFlag, SearchTestList, EndCall
  <2>2. ~gIsInit /\ gIsInit' = gIsInit
    BY <1>6, <2>1 DEF Lists, Loading, InitRoots
  <2>3. \A s \in Stores : Loaded(s)
    BY <1>4, <1>6 DEF Lists, Loading
  <2>4. /\ store'["source"] = store["source"]
        /\ store'["root"] = InitStore(store["root"], read)
    BY <1>3, <2>1 DEF InitRoots, Stores
  <2>5. thr'[t].pc = IF store'["root"].isInit THEN "sources" ELSE "recover"
    BY <2>1, <2>4, <1>goto DEF InitRoots
  <2>6. QED
    BY <1>2, <1>4, <1>6, <2>2, <2>3, <2>4, <2>5 DEF Lists, Loaded, Loading, Stores
<1>7. CASE thr[t].pc = "sources"
  <2>1. PICK read \in Contents : InitSources(t, read)
    BY <1>1, <1>7
       DEF ThreadStep, SwitchStep, InitStep, LockInit, SwitchByApi, LoadTestList,
           SetDebugFlag, DropDebugFlag, ClearTestList, InitRoots,
           RecoverStores, ReadParam, ReadDeviceType, SameDeviceType,
           DeviceTypeChanged, ReadDebugFlag, SearchTestList, EndCall
  <2>2. store["root"].isInit
    BY <1>7 DEF Lists
  <2>3. /\ store'["root"] = store["root"]
        /\ store'["source"] = InitStore(store["source"], read)
        /\ gIsInit' = store'["source"].isInit
    BY <1>3, <2>1 DEF InitSources, Stores
  <2>4. store' \in [Stores -> StoreType]
    BY TypeStep DEF TypeOK
  <2>5. CASE gIsInit'
    <3>1. thr'[t].pc = "readType"
      BY <2>1, <2>3, <2>5, <1>goto DEF InitSources
    <3>2. \A s \in Stores : Loaded(s)'
      BY <2>2, <2>3, <2>4, <2>5 DEF Loaded, Stores, StoreType
    <3>3. QED
      BY <1>2, <1>4, <1>7, <3>1, <3>2 DEF Lists, Loading
  <2>6. CASE ~gIsInit'
    <3>1. thr'[t].pc = "recover"
      BY <2>1, <2>3, <2>6, <1>goto DEF InitSources
    <3>2. QED
      BY <1>2, <1>4, <1>7, <2>6, <3>1 DEF Lists, Loading
  <2>7. QED
    BY <2>5, <2>6
<1>8. CASE thr[t].pc = "recover"
  <2>1. RecoverStores(t)
    BY <1>1, <1>8
       DEF ThreadStep, SwitchStep, InitStep, LockInit, SwitchByApi, LoadTestList,
           SetDebugFlag, DropDebugFlag, ClearTestList, InitRoots, InitSources,
           ReadParam, ReadDeviceType, SameDeviceType,
           DeviceTypeChanged, ReadDebugFlag, SearchTestList, EndCall
  <2>2. gIsInit = FALSE /\ gIsInit' = gIsInit
    BY <1>8, <2>1 DEF Lists, Loading, RecoverStores, TypeOK
  <2>3. \A s \in Stores : store'[s].isInit = FALSE /\ store'[s].list = "none"
    BY <1>3, <2>1 DEF RecoverStores, Recovery, StoreType
  <2>4. thr'[t].pc = "readType"
    BY <2>1, <1>goto DEF RecoverStores
  <2>5. \A u \in Threads : thr'[u].pc \notin Loading
    BY <1>2, <1>4, <1>8, <2>4 DEF Loading
  <2>6. \A s \in Stores : Loaded(s)'
    BY <2>2, <2>3 DEF Loaded
  <2>7. QED
    BY <2>5, <2>6 DEF Lists, Loading
<1>9. QED
  BY <1>5, <1>6, <1>7, <1>8 DEF Loading

LEMMA ListsImply ==
    ASSUME TypeOK, Holding, Lists
    PROVE  StoresAllOrNothing
<1>1. SUFFICES ASSUME gMtx = NoThread
               PROVE  \A s \in Stores : Loaded(s)
  BY DEF StoresAllOrNothing, Loaded
<1>2. \A t \in Threads : thr[t].pc \notin Loading
  BY <1>1, ThreadAssumption DEF Holding
<1>3. QED
  BY <1>2 DEF Lists, Loading

\* Whichever load fails, a caller that finds g_mtx free finds the trusted roots
\* and the trusted sources both loaded or both empty.
THEOREM ListsWholeOrEmpty == Spec => []StoresAllOrNothing
<1>1. Init => Holding /\ Lists
  <2>1. SUFFICES ASSUME Init
                 PROVE  Holding /\ Lists
    OBVIOUS
  <2>2. \A t \in Threads : thr[t].pc = "idle" /\ gMtx # t
    BY <2>1, ThreadAssumption DEF Init, Idle
  <2>3. \A s \in Stores : Loaded(s)
    BY <2>1 DEF Init, Loaded, Empty
  <2>4. QED
    BY <2>2, <2>3 DEF Holding, Lists, Loading, Switching, IsSwitching
<1>2. TypeOK /\ Holding /\ Lists /\ [Next]_vars => Holding' /\ Lists'
  <2>1. CASE UNCHANGED vars
    BY <2>1 DEF vars, Holding, Lists, Loaded, IsSwitching
  <2>2. QED
    BY <2>1, HoldingStep, ListsStep
<1>3. TypeOK /\ Holding /\ Lists => StoresAllOrNothing
  BY ListsImply
<1>4. QED
  BY <1>1, <1>2, <1>3, TypeCorrect, PTL DEF Spec

-----------------------------------------------------------------------------
(* A verification trusts a test entry only while someone enables debug     *)
(* mode.                                                                   *)

\* Nobody is counted out of enabled while debug mode is being enabled.
EnablingSeen == (\E u \in Threads : Enabling(u)) => enabled = Threads

\* A verification past HapVerifyInit does not hold g_mtx.
Passed(t) == gMtx # t /\ thr[t].pc # "idle"

\* What a switch off has disabled when nobody enables meanwhile.
DroppedSoFar(t) ==
    /\ thr[t].at = "source" \/ thr[t].pc = "clear" => ~store["root"].isDebug
    /\ thr[t].at = "source" /\ thr[t].pc = "clear" => ~store["source"].isDebug

\* For a thread during whose call nobody has enabled debug mode: it has matched
\* no test entry; once past HapVerifyInit it finds debug mode off in both
\* stores, and before that its own switch is getting there.
Unseen(t) ==
    /\ t \notin trusting
    /\ Passed(t) => \A s \in Stores : ~store[s].isDebug
    /\ thr[t].pc = "search" => ~thr[t].flag
    /\ thr[t].pc \in {"drop", "clear"} /\ thr[t].by = "param" => DroppedSoFar(t)

Trust ==
    \A t \in Threads :
        /\ gMtx = t => t \notin trusting
        /\ t \notin enabled => Unseen(t)

TrustInv == TypeOK /\ Holding /\ EnablingSeen /\ Trust

\* Debug mode of a store goes on only in a thread that is enabling it.
LEMMA DebugGoesOn ==
    ASSUME TypeOK, NEW t \in Threads, ThreadStep(t), NEW s \in Stores,
           store'[s].isDebug, ~store[s].isDebug
    PROVE  Enabling(t)
<1>1. store \in [Stores -> StoreType] /\ thr[t].at \in Stores
  BY DEF TypeOK, ThreadType
<1>2. store' # store
  OBVIOUS
<1>3. CASE \E read \in Contents : LoadTestList(t, read)
  BY <1>3 DEF LoadTestList, Enabling
<1>4. CASE SetDebugFlag(t)
  BY <1>4 DEF SetDebugFlag, Enabling
<1>5. CASE DropDebugFlag(t)
  BY <1>1, <1>5 DEF DropDebugFlag, StoreType
<1>6. CASE ClearTestList(t)
  BY <1>1, <1>6 DEF ClearTestList, StoreType
<1>7. CASE \E read \in Contents : InitRoots(t, read) \/ InitSources(t, read)
  <2>1. PICK read \in Contents : InitRoots(t, read) \/ InitSources(t, read)
    BY <1>7
  <2>2. CASE InitRoots(t, read)
    BY <1>1, <2>2 DEF InitRoots, InitStore, StoreType, Stores
  <2>3. CASE InitSources(t, read)
    BY <1>1, <2>3 DEF InitSources, InitStore, StoreType, Stores
  <2>4. QED
    BY <2>1, <2>2, <2>3
<1>8. CASE RecoverStores(t)
  BY <1>1, <1>8 DEF RecoverStores, Recovery, StoreType
<1>9. QED
  BY <1>2, <1>3, <1>4, <1>5, <1>6, <1>7, <1>8
     DEF ThreadStep, SwitchStep, InitStep, LockInit, SwitchByApi, ReadParam, ActsOn,
         ReadDeviceType, SameDeviceType, DeviceTypeChanged, ReadDebugFlag,
         SearchTestList, EndCall

\* Debug mode is being enabled after a step only if it was before or everybody
\* is told; and only the reading of the parameter, while nobody enables it,
\* takes a thread out of enabled.
LEMMA EnabledMoves ==
    ASSUME TypeOK, EnablingSeen, NEW t \in Threads, ThreadStep(t)
    PROVE  /\ EnablingSeen'
           /\ \/ enabled \subseteq enabled'
              \/ /\ \A u \in Threads : ~Enabling(u)
                 /\ ReadParam(t, FALSE)
                 /\ enabled' = enabled \ {t}
<1>1. \A u \in Threads \ {t} : thr'[u] = thr[u]
  BY OthersStay
<1>thr. thr \in [Threads -> ThreadType] /\ thr[t] \in ThreadType /\ enabled \subseteq Threads
  BY DEF TypeOK
<1>goto. ASSUME NEW pc, Goto(t, pc)
         PROVE  thr'[t].pc = pc
  BY <1>thr, <1>goto DEF Goto, ThreadType
<1>finish. ASSUME Finish(t)
           PROVE  thr'[t].pc = "idle"
  BY <1>thr, <1>finish DEF Finish, Idle
<1>start. ASSUME NEW want \in BOOLEAN, NEW by, StartSwitch(t, want, by)
          PROVE  thr'[t].pc = IF want THEN "load" ELSE "drop"
  BY <1>thr, <1>start DEF StartSwitch
<1>after. ASSUME AfterDeviceType(t)
          PROVE  thr'[t].pc \in {"readParam", "idle", "lookup"}
  BY <1>after, <1>goto, <1>finish DEF AfterDeviceType
<1>end. ASSUME EndSwitch(t)
        PROVE  thr'[t].pc \in {"readParam", "idle", "lookup"}
  <2>1. AfterDeviceType(t) \/ Goto(t, "lookup") \/ Finish(t)
    BY <1>thr, <1>end DEF EndSwitch, ThreadType
  <2>2. QED
    BY <2>1, <1>after, <1>goto, <1>finish
<1>next. ASSUME NEW pc, NextStore(t, pc)
         PROVE  thr'[t].pc \in {pc, "readParam", "idle", "lookup"}
  BY <1>thr, <1>end, <1>next DEF NextStore, ThreadType
\* It suffices that t does not begin to enable, or that all are told.
<1>2. ASSUME enabled' = enabled, Enabling(t)' => Enabling(t)
      PROVE  EnablingSeen' /\ enabled \subseteq enabled'
  BY <1>1, <1>2 DEF EnablingSeen, Enabling
<1>3. ASSUME enabled' = Threads
      PROVE  EnablingSeen' /\ enabled \subseteq enabled'
  BY <1>thr, <1>3 DEF EnablingSeen
<1>4. CASE LockInit(t)
  <2>1. ~Enabling(t)'
    <3>1. Goto(t, "readParam") \/ Goto(t, "roots")
      BY <1>4 DEF LockInit
    <3>2. QED
      BY <3>1, <1>goto DEF Enabling
  <2>2. QED
    BY <1>2, <1>4, <2>1 DEF LockInit
<1>5. ASSUME NEW want \in BOOLEAN, SwitchByApi(t, want)
      PROVE  EnablingSeen' /\ enabled \subseteq enabled'
  <2>1. CASE want
    BY <1>3, <1>5, <2>1 DEF SwitchByApi
  <2>2. CASE ~want
    BY <1>2, <1>5, <1>start, <2>2 DEF SwitchByApi, Enabling
  <2>3. QED
    BY <2>1, <2>2
<1>6. CASE SwitchStep(t)
  <2>1. enabled' = enabled
    BY <1>6 DEF SwitchStep, LoadTestList, SetDebugFlag, DropDebugFlag, ClearTestList, history
  <2>2. CASE (\E read \in Contents : LoadTestList(t, read)) \/ SetDebugFlag(t)
    BY <1>2, <2>1, <2>2 DEF LoadTestList, SetDebugFlag, Enabling
  <2>3. CASE DropDebugFlag(t)
    BY <1>2, <2>1, <2>3, <1>goto DEF DropDebugFlag, Enabling
  <2>4. CASE ClearTestList(t)
    BY <1>2, <2>1, <2>4, <1>next DEF ClearTestList, Enabling
  <2>5. QED
    BY <1>6, <2>2, <2>3, <2>4 DEF SwitchStep
<1>7. CASE (\E read \in Contents : InitRoots(t, read) \/ InitSources(t, read))
           \/ RecoverStores(t)
  <2>1. enabled' = enabled
    BY <1>7 DEF InitRoots, InitSources, RecoverStores, history
  <2>2. Goto(t, "sources") \/ Goto(t, "recover") \/ Goto(t, "readType")
    BY <1>7 DEF InitRoots, InitSources, RecoverStores
  <2>3. QED
    BY <1>2, <2>1, <2>2, <1>goto DEF Enabling
<1>8. ASSUME NEW param \in BOOLEAN, ReadParam(t, param)
      PROVE  /\ EnablingSeen'
             /\ \/ enabled \subseteq enabled'
                \/ /\ \A u \in Threads : ~Enabling(u)
                   /\ ReadParam(t, FALSE)
                   /\ enabled' = enabled \ {t}
  <2>1. CASE param
    BY <1>3, <1>8, <2>1 DEF ReadParam
  <2>2. CASE ~param /\ (\E u \in Threads : Enabling(u))
    BY <1>3, <1>8, <2>2, <1>thr DEF ReadParam, EnablingSeen
  <2>3. CASE ~param /\ ~(\E u \in Threads : Enabling(u))
    <3>1. thr'[t].pc = "drop"
      BY <1>8, <1>start, <2>3 DEF ReadParam, ActsOn
    <3>2. EnablingSeen'
      BY <1>1, <2>3, <3>1 DEF EnablingSeen, Enabling
    <3>3. param = FALSE
      BY <2>3
    <3>4. QED
      BY <1>8, <2>3, <3>2, <3>3 DEF ReadParam
  <2>4. QED
    BY <2>1, <2>2, <2>3
<1>9. ASSUME NEW development \in BOOLEAN, ReadDeviceType(t, development)
      PROVE  EnablingSeen' /\ enabled \subseteq enabled'
  <2>1. thr'[t].pc = "lockType"
    BY <1>thr, <1>9 DEF ReadDeviceType, ThreadType
  <2>2. QED
    BY <1>2, <1>9, <2>1 DEF ReadDeviceType, Enabling, history
<1>10. CASE SameDeviceType(t)
  BY <1>2, <1>10, <1>after DEF SameDeviceType, Enabling, history
<1>11. CASE DeviceTypeChanged(t)
  <2>1. CASE thr[t].want
    BY <1>3, <1>11, <2>1 DEF DeviceTypeChanged
  <2>2. CASE ~thr[t].want
    <3>1. StartSwitch(t, FALSE, "device")
      BY <1>thr, <1>11, <2>2 DEF DeviceTypeChanged, ThreadType
    <3>2. QED
      BY <1>2, <1>11, <1>start, <2>2, <3>1 DEF DeviceTypeChanged, Enabling
  <2>3. QED
    BY <2>1, <2>2
<1>12. ASSUME NEW s \in Stores, ReadDebugFlag(t, s)
       PROVE  EnablingSeen' /\ enabled \subseteq enabled'
  <2>1. thr'[t] = [thr[t] EXCEPT !.pc = "search", !.at = s,
                                 !.flag = store[s].isDebug]
    BY <1>thr, <1>12 DEF ReadDebugFlag
  <2>2. thr'[t].pc = "search"
    BY <1>thr, <2>1 DEF ThreadType
  <2>3. QED
    BY <1>2, <1>12, <2>2 DEF ReadDebugFlag, Enabling, history
<1>13. CASE \E found \in BOOLEAN : SearchTestList(t, found)
  BY <1>2, <1>13, <1>goto DEF SearchTestList, Enabling
<1>14. CASE EndCall(t)
  BY <1>2, <1>14, <1>finish DEF EndCall, Enabling
<1>15. CASE InitStep(t)
  BY <1>7, <1>8, <1>9, <1>10, <1>11, <1>15 DEF InitStep
<1>16. QED
  BY <1>4, <1>5, <1>6, <1>9, <1>12, <1>13, <1>14, <1>15 DEF ThreadStep

LEMMA TrustOfOthers ==
    ASSUME TrustInv, NEW t \in Threads, ThreadStep(t),
           NEW u \in Threads, u # t
    PROVE  /\ gMtx' = u => u \notin trusting'
           /\ u \notin enabled' => Unseen(u)'
<1>1. TypeOK /\ Holding /\ EnablingSeen /\ Trust
  BY DEF TrustInv
<1>2. thr'[u] = thr[u]
  BY <1>1, OthersStay
<1>3. gMtx' = u <=> gMtx = u
  <2>1. \/ gMtx' = gMtx
        \/ gMtx' = t /\ gMtx = NoThread
        \/ gMtx' = NoThread /\ gMtx = t
    BY <1>1, Moves DEF Leaves
  <2>2. QED
    BY <2>1, ThreadAssumption
<1>4. u \in trusting' => u \in trusting
  BY DEF ThreadStep, SwitchStep, InitStep, LockInit, SwitchByApi, LoadTestList,
         SetDebugFlag, DropDebugFlag, ClearTestList, InitRoots, InitSources,
         RecoverStores, ReadParam, ReadDeviceType, SameDeviceType,
         DeviceTypeChanged, ReadDebugFlag, SearchTestList, EndCall, history
<1>5. ASSUME u \notin enabled'
      PROVE  Unseen(u)'
  <2>1. u \notin enabled
    BY <1>1, <1>5, EnabledMoves
  <2>2. ~Enabling(t)
    BY <1>1, <2>1 DEF EnablingSeen
  <2>3. \A s \in Stores : store'[s].isDebug => store[s].isDebug
    BY <1>1, <2>2, DebugGoesOn
  <2>4. Unseen(u)
    BY <1>1, <2>1 DEF Trust
  <2>5. QED
    BY <1>2, <1>3, <1>4, <2>3, <2>4 DEF Unseen, Passed, DroppedSoFar, Stores
<1>6. QED
  BY <1>1, <1>3, <1>4, <1>5 DEF Trust

LEMMA TrustOfMover ==
    ASSUME TrustInv, Holding', NEW t \in Threads, ThreadStep(t)
    PROVE  /\ gMtx' = t => t \notin trusting'
           /\ t \notin enabled' => Unseen(t)'
<1>inv. TypeOK /\ Holding /\ EnablingSeen /\ Trust
  BY DEF TrustInv
<1>thr. thr \in [Threads -> ThreadType] /\ thr[t] \in ThreadType
        /\ store \in [Stores -> StoreType]
  BY <1>inv DEF TypeOK
<1>goto. ASSUME NEW pc, Goto(t, pc)
         PROVE  thr'[t] = [thr[t] EXCEPT !.pc = pc] /\ thr'[t].pc = pc
  BY <1>thr, <1>goto DEF Goto, ThreadType
<1>finish. ASSUME Finish(t)
           PROVE  thr'[t].pc = "idle"
  BY <1>thr, <1>finish DEF Finish, Idle
<1>start. ASSUME NEW by, StartSwitch(t, FALSE, by)
          PROVE  thr'[t].pc = "drop" /\ thr'[t].at = "root" /\ thr'[t].by = by
  BY <1>thr, <1>start DEF StartSwitch
<1>held. thr[t].pc \in {"lookup", "search", "idle"} => gMtx # t
  BY <1>inv DEF Holding
<1>mine. /\ gMtx = t => t \notin trusting
         /\ t \notin enabled => Unseen(t)
  BY <1>inv DEF Trust
<1>debug. t \notin enabled => \A s \in Stores : store'[s].isDebug => store[s].isDebug
  BY <1>inv, DebugGoesOn DEF EnablingSeen
\* Leaving GetDeviceTypeInfo keeps what holds.
<1>after. ASSUME AfterDeviceType(t), trusting' = trusting, enabled' = enabled,
                 t \notin enabled, thr[t].pc # "idle"
          PROVE  Unseen(t)'
  <2>1. Unseen(t)
    BY <1>after, <1>mine
  <2>2. thr'[t].pc \in {"readParam", "idle", "lookup"}
    BY <1>after, <1>goto, <1>finish DEF AfterDeviceType
  <2>3. Passed(t)' => Passed(t)
    <3>1. CASE gMtx = t /\ gIsInit
      BY <1>after, <3>1 DEF AfterDeviceType, Passed
    <3>2. CASE gMtx = t /\ ~gIsInit
      BY <1>after, <1>finish, <3>2 DEF AfterDeviceType, Passed
    <3>3. CASE gMtx # t
      BY <1>after, <3>3 DEF Passed
    <3>4. QED
      BY <3>1, <3>2, <3>3
  <2>4. QED
    BY <1>after, <1>debug, <2>1, <2>2, <2>3 DEF Unseen, Passed
<1>1. CASE LockInit(t)
  <2>1. thr'[t].pc \in {"readParam", "roots"}
    <3>1. Goto(t, "readParam") \/ Goto(t, "roots")
      BY <1>1 DEF LockInit
    <3>2. QED
      BY <3>1, <1>goto
  <2>2. QED
    BY <1>1, <2>1 DEF LockInit, Unseen, Passed
<1>2. ASSUME NEW want \in BOOLEAN, SwitchByApi(t, want)
      PROVE  /\ gMtx' = t => t \notin trusting'
             /\ t \notin enabled' => Unseen(t)'
  <2>1. gMtx' = t /\ t \notin trusting'
    BY <1>2 DEF SwitchByApi
  <2>2. ASSUME t \notin enabled'
        PROVE  Unseen(t)'
    <3>1. want = FALSE
      BY <1>2, <2>2 DEF SwitchByApi
    <3>2. StartSwitch(t, FALSE, "api")
      BY <1>2, <3>1 DEF SwitchByApi
    <3>3. thr'[t].pc = "drop" /\ thr'[t].by = "api"
      BY <1>start, <3>2
    <3>4. QED
      BY <2>1, <3>3 DEF Unseen, Passed
  <2>3. QED
    BY <2>1, <2>2
<1>3. CASE SwitchStep(t)
  <2>1. trusting' = trusting /\ enabled' = enabled
    BY <1>3 DEF SwitchStep, LoadTestList, SetDebugFlag, DropDebugFlag, ClearTestList, history
  <2>2. IsSwitching(t)
    BY <1>3 DEF SwitchStep, LoadTestList, SetDebugFlag, DropDebugFlag, ClearTestList,
                IsSwitching, Switching
  <2>3. gMtx' = t => gMtx = t
    BY <1>inv, <2>2, Moves, ThreadAssumption DEF Leaves, IsSwitching, Switching, Loading
  <2>4. ASSUME t \notin enabled
        PROVE  Unseen(t)'
    <3>1. Unseen(t) /\ ~Enabling(t)
      BY <1>inv, <1>mine, <2>4 DEF EnablingSeen
    <3>2. CASE DropDebugFlag(t)
      <4>1. thr'[t] = [thr[t] EXCEPT !.pc = "clear"] /\ gMtx' = gMtx
            /\ store' = [store EXCEPT ![thr[t].at].isDebug = FALSE]
            /\ thr[t].pc = "drop"
        BY <1>goto, <3>2 DEF DropDebugFlag
      <4>2. thr'[t].pc = "clear" /\ thr'[t].at = thr[t].at /\ thr'[t].by = thr[t].by
        BY <1>thr, <4>1 DEF ThreadType
      <4>3. ~store'[thr[t].at].isDebug
        BY <1>thr, <4>1 DEF ThreadType, StoreType
      <4>4. thr[t].by = "param" => DroppedSoFar(t)'
        BY <1>thr, <1>debug, <2>4, <3>1, <4>1, <4>2, <4>3
           DEF Unseen, DroppedSoFar, ThreadType, Stores
      <4>5. QED
        BY <1>debug, <2>1, <2>4, <3>1, <4>1, <4>2, <4>4 DEF Unseen, Passed
    <3>3. CASE ClearTestList(t) /\ thr[t].at = "root"
      <4>1. thr'[t].pc = "drop" /\ thr'[t].at = "source" /\ thr'[t].by = thr[t].by
            /\ gMtx' = gMtx
        BY <1>thr, <3>3 DEF ClearTestList, NextStore, ThreadType
      <4>2. thr[t].pc = "clear"
        BY <3>3 DEF ClearTestList
      <4>3. QED
        BY <1>debug, <2>1, <2>4, <3>1, <4>1, <4>2 DEF Unseen, Passed, DroppedSoFar, Stores
    <3>4. CASE ClearTestList(t) /\ thr[t].at = "source"
      <4>1. EndSwitch(t) /\ thr[t].pc = "clear"
        BY <3>4 DEF ClearTestList, NextStore
      <4>2. CASE thr[t].by = "device"
        <5>1. AfterDeviceType(t) /\ thr[t].pc # "idle"
          BY <4>1, <4>2 DEF EndSwitch
        <5>2. QED
          BY <1>after, <2>1, <2>4, <5>1
      <4>3. CASE thr[t].by = "param"
        <5>1. thr'[t].pc = "lookup"
          BY <1>goto, <4>1, <4>3 DEF EndSwitch
        <5>2. \A s \in Stores : ~store[s].isDebug
          BY <3>1, <3>4, <4>1, <4>3 DEF Unseen, DroppedSoFar, Stores
        <5>3. QED
          BY <1>debug, <2>1, <2>4, <3>1, <5>1, <5>2 DEF Unseen
      <4>4. CASE thr[t].by = "api"
        <5>1. thr'[t].pc = "idle"
          BY <1>finish, <4>1, <4>4 DEF EndSwitch
        <5>2. QED
          BY <2>1, <3>1, <5>1 DEF Unseen, Passed
      <4>5. QED
        BY <1>thr, <4>2, <4>3, <4>4 DEF ThreadType
    <3>5. QED
      BY <1>3, <1>thr, <3>1, <3>2, <3>3, <3>4
         DEF SwitchStep, LoadTestList, SetDebugFlag, Enabling, ThreadType, Stores
  <2>5. QED
    BY <1>mine, <2>1, <2>3, <2>4
<1>4. CASE (\E read \in Contents : InitRoots(t, read) \/ InitSources(t, read))
           \/ RecoverStores(t)
  <2>1. trusting' = trusting /\ enabled' = enabled /\ gMtx' = t /\ gMtx = t
    BY <1>4, <1>inv DEF InitRoots, InitSources, RecoverStores, history, Holding, Loading
  <2>2. Goto(t, "sources") \/ Goto(t, "recover") \/ Goto(t, "readType")
    BY <1>4 DEF InitRoots, InitSources, RecoverStores
  <2>3. thr'[t].pc \in {"sources", "recover", "readType"}
    BY <2>2, <1>goto
  <2>4. QED
    BY <1>mine, <2>1, <2>3 DEF Unseen, Passed
<1>5. ASSUME NEW param \in BOOLEAN, ReadParam(t, param)
      PROVE  /\ gMtx' = t => t \notin trusting'
             /\ t \notin enabled' => Unseen(t)'
  <2>1. gMtx = t /\ gMtx' = t /\ trusting' = trusting
    BY <1>5, <1>inv DEF ReadParam, ActsOn, Holding
  <2>2. ASSUME t \notin enabled'
        PROVE  Unseen(t)'
    <3>1. param = FALSE
      BY <1>5, <2>2 DEF ReadParam
    <3>2. StartSwitch(t, FALSE, "param")
      BY <1>5, <3>1 DEF ReadParam, ActsOn
    <3>3. QED
      BY <1>mine, <1>start, <2>1, <3>2 DEF Unseen, Passed, DroppedSoFar
  <2>3. QED
    BY <1>mine, <2>1, <2>2
<1>6. ASSUME NEW development \in BOOLEAN, ReadDeviceType(t, development)
      PROVE  /\ gMtx' = t => t \notin trusting'
             /\ t \notin enabled' => Unseen(t)'
  <2>1. thr'[t].pc = "lockType"
    BY <1>thr, <1>6 DEF ReadDeviceType, ThreadType
  <2>2. QED
    BY <1>mine, <1>6, <2>1 DEF ReadDeviceType, history, Unseen, Passed
<1>7. CASE SameDeviceType(t)
  <2>1. AfterDeviceType(t) /\ trusting' = trusting /\ enabled' = enabled
        /\ thr[t].pc # "idle"
    BY <1>7 DEF SameDeviceType, history
  <2>2. gMtx' = t => gMtx = t
    BY <2>1, ThreadAssumption DEF AfterDeviceType
  <2>3. QED
    BY <1>mine, <1>after, <2>1, <2>2
<1>8. CASE DeviceTypeChanged(t)
  <2>1. gMtx' = gMtx /\ trusting' = trusting /\ store' = store /\ thr[t].pc = "lockType"
    BY <1>8 DEF DeviceTypeChanged
  <2>2. ASSUME t \notin enabled'
        PROVE  Unseen(t)'
    <3>1. thr[t].want = FALSE /\ t \notin enabled
      BY <1>thr, <1>8, <2>2 DEF DeviceTypeChanged, ThreadType
    <3>2. StartSwitch(t, FALSE, "device")
      BY <1>8, <3>1 DEF DeviceTypeChanged
    <3>3. thr'[t].pc = "drop" /\ thr'[t].by = "device"
      BY <1>start, <3>2
    <3>4. QED
      BY <1>mine, <2>1, <3>1, <3>3 DEF Unseen, Passed
  <2>3. QED
    BY <1>mine, <2>1, <2>2
<1>9. ASSUME NEW s \in Stores, ReadDebugFlag(t, s)
      PROVE  /\ gMtx' = t => t \notin trusting'
             /\ t \notin enabled' => Unseen(t)'
  <2>1. thr'[t] = [thr[t] EXCEPT !.pc = "search", !.at = s,
                                 !.flag = store[s].isDebug]
    BY <1>thr, <1>9 DEF ReadDebugFlag
  <2>2. thr'[t].pc = "search" /\ thr'[t].flag = store[s].isDebug
    BY <1>thr, <2>1 DEF ThreadType
  <2>3. gMtx' = gMtx /\ trusting' = trusting /\ enabled' = enabled /\ store' = store
        /\ thr[t].pc = "lookup"
    BY <1>9 DEF ReadDebugFlag, history
  <2>4. QED
    BY <1>held, <1>mine, <2>2, <2>3 DEF Unseen, Passed
<1>10. ASSUME NEW found \in BOOLEAN, SearchTestList(t, found)
       PROVE  /\ gMtx' = t => t \notin trusting'
              /\ t \notin enabled' => Unseen(t)'
  <2>1. gMtx' = gMtx /\ enabled' = enabled /\ store' = store /\ thr[t].pc = "search"
        /\ thr'[t].pc = "lookup" /\ (~found => trusting' = trusting)
        /\ (found => thr[t].flag)
    BY <1>10, <1>goto DEF SearchTestList
  <2>2. QED
    BY <1>held, <1>mine, <2>1 DEF Unseen, Passed
<1>11. CASE EndCall(t)
  <2>1. thr'[t].pc = "idle"
    BY <1>11, <1>finish DEF EndCall
  <2>2. QED
    BY <1>held, <1>11, <2>1 DEF EndCall, Unseen, Passed
<1>12. CASE InitStep(t)
  BY <1>4, <1>5, <1>6, <1>7, <1>8, <1>12 DEF InitStep
<1>13. QED
  BY <1>1, <1>2, <1>3, <1>6, <1>9, <1>10, <1>11, <1>12 DEF ThreadStep

\* A verification that read the parameter as not "true" matches no test entry
\* while nobody enables debug mode, whatever other threads left behind.
THEOREM NoUnjustifiedTrust == Spec => []TestTrustJustified
<1>1. Init => TrustInv
  <2>1. SUFFICES ASSUME Init
                 PROVE  EnablingSeen /\ Holding /\ Trust
    BY InitTypes DEF TrustInv
  <2>2. \A t \in Threads : thr[t].pc = "idle" /\ gMtx # t
    BY <2>1, ThreadAssumption DEF Init, Idle
  <2>3. trusting = {}
    BY <2>1 DEF Init
  <2>4. QED
    BY <2>2, <2>3 DEF EnablingSeen, Enabling, Holding, Trust, Unseen, Passed, Loading,
                      Switching, IsSwitching
<1>2. TrustInv /\ TypeOK' /\ [Next]_vars => TrustInv'
  <2>1. CASE UNCHANGED vars
    BY <2>1 DEF vars, TrustInv, TypeOK, Holding, EnablingSeen, Trust, Unseen, Passed,
                DroppedSoFar, IsSwitching, Enabling
  <2>2. ASSUME TrustInv, TypeOK', Next
        PROVE  TrustInv'
    <3>1. PICK t \in Threads : ThreadStep(t)
      BY <2>2 DEF Next
    <3>2. Holding'
      BY <2>2, HoldingStep DEF TrustInv
    <3>3. EnablingSeen'
      BY <2>2, <3>1, EnabledMoves DEF TrustInv
    <3>4. Trust'
      BY <2>2, <3>1, <3>2, TrustOfOthers, TrustOfMover DEF Trust
    <3>5. QED
      BY <2>2, <3>2, <3>3, <3>4 DEF TrustInv
  <2>3. QED
    BY <2>1, <2>2
<1>3. TrustInv => TestTrustJustified
  BY DEF TrustInv, Trust, Unseen, TestTrustJustified, TypeOK
<1>4. QED
  BY <1>1, <1>2, <1>3, TypeCorrect, PTL DEF Spec

-----------------------------------------------------------------------------
(* When no switch is in progress, both stores are in debug mode or neither *)
(* is.                                                                     *)

On(s)    == store[s].isDebug /\ store[s].test = "all"
Clean(s) == ~store[s].isDebug /\ store[s].test = "none"

Agreed == (\A s \in Stores : On(s)) \/ (\A s \in Stores : Clean(s))

\* How far a switch on has come that has met no other.
Coming(t) ==
    /\ thr[t].pc = "load" /\ thr[t].at = "root" => Agreed
    /\ thr[t].pc = "load" /\ thr[t].at = "source" =>
          On("root") /\ (On("source") \/ Clean("source"))
    /\ thr[t].pc = "flag" /\ thr[t].at = "root" =>
          Clean("source") /\ (thr[t].flag => store["root"].test = "all")
    /\ thr[t].pc = "flag" /\ thr[t].at = "source" =>
          On("root") /\ (thr[t].flag => store["source"].test = "all")

\* How far a switch off has come that has met no other, whatever it found.
Going(t) ==
    /\ thr[t].pc \in {"drop", "clear"} /\ thr[t].at = "source" => Clean("root")
    /\ thr[t].pc = "clear" => ~store[thr[t].at].isDebug

\* Switches that meet know it, and one that is alone gets on as it should.
Apart ==
    \A t \in Threads : IsSwitching(t) =>
        /\ alone => \A u \in Threads \ {t} : ~IsSwitching(u)
        /\ ~alone => mixed
        /\ alone => Going(t) /\ (~mixed => Coming(t))

AgreeInv == Apart /\ DebugAgrees

\* A step starts a switch, is one of a switch, or has nothing to do with debug
\* mode.
LEMMA SwitchKinds ==
    ASSUME TypeOK, NEW t \in Threads, ThreadStep(t)
    PROVE  \/ /\ ~IsSwitching(t)
              /\ store' = store
              /\ \E want \in BOOLEAN, by \in {"param", "device", "api"} :
                    StartSwitch(t, want, by)
           \/ IsSwitching(t) /\ SwitchStep(t)
           \/ /\ ~IsSwitching(t) /\ ~IsSwitching(t)'
              /\ alone' = alone /\ mixed' = mixed
              /\ \A s \in Stores : /\ store'[s].isDebug = store[s].isDebug
                                   /\ store'[s].test = store[s].test
<1>thr. thr \in [Threads -> ThreadType] /\ thr[t] \in ThreadType
        /\ store \in [Stores -> StoreType]
  BY DEF TypeOK
<1>goto. ASSUME NEW pc, Goto(t, pc)
         PROVE  thr'[t].pc = pc
  BY <1>thr, <1>goto DEF Goto, ThreadType
<1>finish. ASSUME Finish(t)
           PROVE  thr'[t].pc = "idle"
  BY <1>thr, <1>finish DEF Finish, Idle
<1> USE DEF IsSwitching, Switching
<1>1. CASE LockInit(t)
  <2>1. Goto(t, "readParam") \/ Goto(t, "roots")
    BY <1>1 DEF LockInit
  <2>2. QED
    BY <1>1, <2>1, <1>goto DEF LockInit
<1>2. CASE \E want \in BOOLEAN : SwitchByApi(t, want)
  BY <1>2 DEF SwitchByApi
<1>3. CASE SwitchStep(t)
  BY <1>3 DEF SwitchStep, LoadTestList, SetDebugFlag, DropDebugFlag, ClearTestList
<1>4. CASE (\E read \in Contents : InitRoots(t, read) \/ InitSources(t, read))
           \/ RecoverStores(t)
  <2>1. thr[t].pc \in {"roots", "sources", "recover"} /\ alone' = alone /\ mixed' = mixed
    BY <1>4 DEF InitRoots, InitSources, RecoverStores, history
  <2>2. Goto(t, "sources") \/ Goto(t, "recover") \/ Goto(t, "readType")
    BY <1>4 DEF InitRoots, InitSources, RecoverStores
  <2>3. ASSUME NEW r \in StoreType, NEW read
        PROVE  /\ InitStore(r, read).isDebug = r.isDebug
               /\ InitStore(r, read).test = r.test
               /\ Recovery(r).isDebug = r.isDebug
               /\ Recovery(r).test = r.test
    BY DEF InitStore, Recovery, StoreType
  <2>4. \A s \in Stores : /\ store'[s].isDebug = store[s].isDebug
                          /\ store'[s].test = store[s].test
    BY <1>thr, <1>4, <2>3 DEF InitRoots, InitSources, RecoverStores, Stores
  <2>5. QED
    BY <1>goto, <2>1, <2>2, <2>4
<1>5. CASE \E param \in BOOLEAN : ReadParam(t, param)
  BY <1>5 DEF ReadParam, ActsOn
<1>6. CASE \E development \in BOOLEAN : ReadDeviceType(t, development)
  BY <1>thr, <1>6 DEF ReadDeviceType, ThreadType, history
<1>7. CASE SameDeviceType(t)
  BY <1>7, <1>goto, <1>finish DEF SameDeviceType, AfterDeviceType, history
<1>8. CASE DeviceTypeChanged(t)
  BY <1>thr, <1>8 DEF DeviceTypeChanged, ThreadType
<1>9. CASE \E s \in Stores : ReadDebugFlag(t, s)
  <2>1. PICK s \in Stores : ReadDebugFlag(t, s)
    BY <1>9
  <2>2. thr'[t] = [thr[t] EXCEPT !.pc = "search", !.at = s, !.flag = store[s].isDebug]
    BY <1>thr, <2>1 DEF ReadDebugFlag
  <2>3. thr'[t].pc = "search"
    BY <1>thr, <2>2 DEF ThreadType
  <2>4. QED
    BY <2>1, <2>3 DEF ReadDebugFlag, history
<1>10. CASE \E found \in BOOLEAN : SearchTestList(t, found)
  BY <1>10, <1>goto DEF SearchTestList
<1>11. CASE EndCall(t)
  BY <1>11, <1>finish DEF EndCall
<1>12. CASE InitStep(t)
  BY <1>4, <1>5, <1>6, <1>7, <1>8, <1>12 DEF InitStep
<1>13. QED
  BY <1>1, <1>2, <1>3, <1>6, <1>9, <1>10, <1>11, <1>12 DEF ThreadStep

\* The end of a switch, or its next store.
LEMMA NextStoreMoves ==
    ASSUME TypeOK, NEW t \in Threads, NEW pc \in Switching, NextStore(t, pc)
    PROVE  \/ /\ thr[t].at = "root"
              /\ thr'[t].pc = pc /\ thr'[t].at = "source"
              /\ thr'[t].flag = thr[t].flag
           \/ thr[t].at = "source" /\ ~IsSwitching(t)'
<1>thr. thr \in [Threads -> ThreadType] /\ thr[t] \in ThreadType
  BY DEF TypeOK
<1>goto. ASSUME NEW q, Goto(t, q)
         PROVE  thr'[t].pc = q
  BY <1>thr, <1>goto DEF Goto, ThreadType
<1>finish. ASSUME Finish(t)
           PROVE  thr'[t].pc = "idle"
  BY <1>thr, <1>finish DEF Finish, Idle
<1>1. CASE thr[t].at = "root"
  BY <1>thr, <1>1 DEF NextStore, ThreadType
<1>2. CASE thr[t].at = "source"
  <2>1. EndSwitch(t)
    BY <1>2 DEF NextStore
  <2>2. AfterDeviceType(t) \/ Goto(t, "lookup") \/ Finish(t)
    BY <1>thr, <2>1 DEF EndSwitch, ThreadType
  <2>3. thr'[t].pc \in {"readParam", "lookup", "idle"}
    BY <2>2, <1>goto, <1>finish DEF AfterDeviceType
  <2>4. QED
    BY <1>2, <2>3 DEF IsSwitching, Switching
<1>3. QED
  BY <1>thr, <1>1, <1>2 DEF ThreadType, Stores

\* What a step of a switch that is alone leaves behind.
LEMMA AloneStep ==
    ASSUME TypeOK, AgreeInv, NEW t \in Threads, IsSwitching(t), SwitchStep(t), alone
    PROVE  /\ IsSwitching(t)' => Going(t)' /\ (~mixed' => Coming(t)')
           /\ ~IsSwitching(t)' /\ ~mixed' => Agreed'
<1>thr. thr \in [Threads -> ThreadType] /\ thr[t] \in ThreadType
        /\ store \in [Stores -> StoreType] /\ thr[t].at \in Stores
        /\ \A s \in Stores : store[s] \in StoreType
  BY DEF TypeOK, ThreadType
<1>inv. Going(t) /\ (~mixed => Coming(t))
  BY DEF AgreeInv, Apart
<1>1. ASSUME NEW read \in Contents, LoadTestList(t, read)
      PROVE  /\ IsSwitching(t)' => Going(t)' /\ (~mixed' => Coming(t)')
             /\ ~IsSwitching(t)' /\ ~mixed' => Agreed'
  <2>1. mixed' = mixed /\ thr[t].pc = "load"
    BY <1>1 DEF LoadTestList, history
  <2>2. CASE store[thr[t].at].isDebug
    <3>1. NextStore(t, "load") /\ store' = store
      BY <1>1, <2>2 DEF LoadTestList
    <3>2. \/ thr[t].at = "root" /\ thr'[t].pc = "load" /\ thr'[t].at = "source"
          \/ thr[t].at = "source" /\ ~IsSwitching(t)'
      BY <3>1, NextStoreMoves DEF Switching
    <3>3. QED
      BY <1>inv, <2>1, <2>2, <3>1, <3>2
         DEF Going, Coming, Agreed, On, Clean, Stores
  <2>3. CASE ~store[thr[t].at].isDebug
    <3>1. /\ thr'[t] = [thr[t] EXCEPT !.pc = "flag", !.flag = read = "all"]
          /\ store' = [store EXCEPT ![thr[t].at].test = Parsed(@, read)]
      BY <1>thr, <1>1, <2>3 DEF LoadTestList
    <3>2. thr'[t].pc = "flag" /\ thr'[t].at = thr[t].at /\ thr'[t].flag = (read = "all")
      BY <1>thr, <3>1 DEF ThreadType
    <3>3. store'[thr[t].at].test = Parsed(store[thr[t].at].test, read)
      BY <1>thr, <3>1 DEF StoreType
    <3>4. \A s \in Stores : s # thr[t].at => store'[s] = store[s]
      BY <1>thr, <3>1
    <3>5. read = "all" => store'[thr[t].at].test = "all"
      BY <3>3 DEF Parsed
    <3>6. Going(t)'
      BY <3>2 DEF Going
    <3>7. ASSUME ~mixed
          PROVE  Coming(t)'
      <4>1. Coming(t)
        BY <1>inv, <3>7
      <4>2. QED
        BY <1>thr, <2>1, <2>3, <3>2, <3>4, <3>5, <4>1 DEF Coming, Agreed, On, Clean, Stores
    <3>8. QED
      BY <2>1, <3>2, <3>6, <3>7 DEF IsSwitching, Switching
  <2>4. QED
    BY <2>2, <2>3
<1>2. CASE SetDebugFlag(t)
  <2>1. mixed' = mixed /\ thr[t].pc = "flag"
        /\ store' = [store EXCEPT ![thr[t].at].isDebug = thr[t].flag]
    BY <1>2 DEF SetDebugFlag, history
  <2>2. CASE ~thr[t].flag
    <3>1. thr'[t] = [thr[t] EXCEPT !.pc = "drop", !.at = "root"]
      BY <1>thr, <1>2, <2>2 DEF SetDebugFlag, CleansUp
    <3>2. thr'[t].pc = "drop" /\ thr'[t].at = "root"
      BY <1>thr, <3>1 DEF ThreadType
    <3>3. QED
      BY <3>2 DEF Going, Coming, IsSwitching, Switching
  <2>3. CASE thr[t].flag
    <3>1. NextStore(t, "load")
      BY <1>2, <2>3 DEF SetDebugFlag, CleansUp
    <3>2. \/ thr[t].at = "root" /\ thr'[t].pc = "load" /\ thr'[t].at = "source"
          \/ thr[t].at = "source" /\ ~IsSwitching(t)'
      BY <3>1, NextStoreMoves DEF Switching
    <3>3. store'[thr[t].at].isDebug /\ store'[thr[t].at].test = store[thr[t].at].test
      BY <1>thr, <2>1, <2>3 DEF StoreType
    <3>4. \A s \in Stores : s # thr[t].at => store'[s] = store[s]
      BY <1>thr, <2>1
    <3>5. CASE thr[t].at = "root" /\ thr'[t].pc = "load" /\ thr'[t].at = "source"
      <4>1. Going(t)'
        BY <3>5 DEF Going
      <4>2. ~mixed => Coming(t)'
        BY <1>inv, <2>1, <2>3, <3>3, <3>4, <3>5 DEF Coming, Agreed, On, Clean, Stores
      <4>3. QED
        BY <2>1, <3>5, <4>1, <4>2 DEF IsSwitching, Switching
    <3>6. CASE thr[t].at = "source" /\ ~IsSwitching(t)'
      BY <1>inv, <2>1, <2>3, <3>3, <3>4, <3>6 DEF Coming, Agreed, On, Clean, Stores
    <3>7. QED
      BY <3>2, <3>5, <3>6
  <2>4. QED
    BY <2>2, <2>3
<1>3. CASE DropDebugFlag(t)
  <2>1. /\ thr[t].pc = "drop" /\ thr'[t] = [thr[t] EXCEPT !.pc = "clear"]
        /\ store' = [store EXCEPT ![thr[t].at].isDebug = FALSE]
    BY <1>thr, <1>3 DEF DropDebugFlag, Goto
  <2>2. thr'[t].pc = "clear" /\ thr'[t].at = thr[t].at
    BY <1>thr, <2>1 DEF ThreadType
  <2>3. ~store'[thr[t].at].isDebug
    BY <1>thr, <2>1 DEF StoreType
  <2>4. \A s \in Stores : s # thr[t].at => store'[s] = store[s]
    BY <1>thr, <2>1
  <2>5. Going(t)' /\ Coming(t)'
    BY <1>thr, <1>inv, <2>1, <2>2, <2>3, <2>4 DEF Going, Coming, Clean, Stores
  <2>6. QED
    BY <2>2, <2>5 DEF IsSwitching, Switching
<1>4. CASE ClearTestList(t)
  <2>1. /\ thr[t].pc = "clear" /\ NextStore(t, "drop")
        /\ store' = [store EXCEPT ![thr[t].at].test = "none"]
    BY <1>4 DEF ClearTestList
  <2>2. \/ thr[t].at = "root" /\ thr'[t].pc = "drop" /\ thr'[t].at = "source"
        \/ thr[t].at = "source" /\ ~IsSwitching(t)'
    BY <2>1, NextStoreMoves DEF Switching
  <2>3. ~store[thr[t].at].isDebug
    BY <1>inv, <2>1 DEF Going
  <2>4. store'[thr[t].at].test = "none" /\ ~store'[thr[t].at].isDebug
    BY <1>thr, <2>1, <2>3 DEF StoreType
  <2>5. \A s \in Stores : s # thr[t].at => store'[s] = store[s]
    BY <1>thr, <2>1
  <2>6. CASE thr[t].at = "root" /\ thr'[t].pc = "drop" /\ thr'[t].at = "source"
    BY <2>4, <2>6 DEF Going, Coming, Clean, IsSwitching, Switching
  <2>7. CASE thr[t].at = "source" /\ ~IsSwitching(t)'
    <3>1. Clean("root")
      BY <1>inv, <2>1, <2>7 DEF Going
    <3>2. \A s \in Stores : Clean(s)'
      BY <2>4, <2>5, <2>7, <3>1 DEF Clean, Stores
    <3>3. QED
      BY <2>7, <3>2 DEF Agreed
  <2>8. QED
    BY <2>2, <2>6, <2>7
<1>5. QED
  BY <1>1, <1>2, <1>3, <1>4 DEF SwitchStep

\* Whatever switches run, alone or not, when none is left and either none has
\* met another since both stores agreed, or one has switched debug mode off
\* alone, both stores are in debug mode with their whole test lists or neither
\* is and both test lists are empty (EnableDebugModeLocked, GetDeviceTypeInfo).
THEOREM StoresAgreeOnDebug == Spec => []DebugAgrees
<1>1. Init => AgreeInv
  <2>1. SUFFICES ASSUME Init
                 PROVE  AgreeInv
    OBVIOUS
  <2>2. \A t \in Threads : ~IsSwitching(t)
    BY <2>1 DEF Init, Idle, IsSwitching, Switching
  <2>3. \A s \in Stores : ~store[s].isDebug /\ store[s].test = "none"
    BY <2>1 DEF Init, Empty
  <2>4. QED
    BY <2>2, <2>3 DEF AgreeInv, Apart, DebugAgrees
<1>2. TypeOK /\ AgreeInv /\ [Next]_vars => AgreeInv'
  <2>1. CASE UNCHANGED vars
    BY <2>1 DEF vars, history, AgreeInv, Apart, DebugAgrees, IsSwitching, Going, Coming,
                Agreed, On, Clean
  <2>2. ASSUME TypeOK, AgreeInv, NEW t \in Threads, ThreadStep(t)
        PROVE  AgreeInv'
    <3>inv. Apart /\ (DebugAgrees <=> ((\A u \in Threads : ~IsSwitching(u)) /\ ~mixed => Agreed))
      BY <2>2 DEF AgreeInv, DebugAgrees, Agreed, On, Clean
    <3>next. ((\A u \in Threads : ~IsSwitching(u)') /\ ~mixed' => Agreed') => DebugAgrees'
      BY DEF DebugAgrees, Agreed, On, Clean
    <3>others. \A u \in Threads \ {t} : thr'[u] = thr[u] /\ (IsSwitching(u)' <=> IsSwitching(u))
      BY <2>2, OthersStay DEF IsSwitching
    <3>1. CASE /\ ~IsSwitching(t)
               /\ store' = store
               /\ \E want \in BOOLEAN, by \in {"param", "device", "api"} :
                     StartSwitch(t, want, by)
      <4>1. PICK want \in BOOLEAN, by \in {"param", "device", "api"} :
                   StartSwitch(t, want, by)
        BY <3>1
      <4>2. /\ thr'[t].pc = IF want THEN "load" ELSE "drop"
            /\ thr'[t].at = "root"
        BY <2>2, <4>1 DEF StartSwitch, TypeOK
      <4>3. /\ alone' = ~(\E u \in Threads \ {t} : IsSwitching(u))
            /\ mixed' = (mixed \/ \E u \in Threads \ {t} : IsSwitching(u))
        BY <4>1 DEF StartSwitch
      <4>4. IsSwitching(t)'
        BY <4>2 DEF IsSwitching, Switching
      <4>5. CASE \E u \in Threads \ {t} : IsSwitching(u)
        <5>1. ~alone' /\ mixed'
          BY <4>3, <4>5
        <5>2. QED
          BY <3>next, <5>1 DEF AgreeInv, Apart
      <4>6. CASE \A u \in Threads \ {t} : ~IsSwitching(u)
        <5>1. alone' /\ (mixed' <=> mixed)
          BY <4>3, <4>6
        <5>2. ~mixed => Agreed
          BY <2>2, <3>inv, <3>1, <4>6 DEF AgreeInv
        <5>3. Agreed' <=> Agreed
          BY <3>1 DEF Agreed, On, Clean
        <5>4. Going(t)' /\ (~mixed' => Coming(t)')
          BY <4>2, <5>1, <5>2, <5>3 DEF Going, Coming
        <5>5. \A u \in Threads \ {t} : ~IsSwitching(u)'
          BY <3>others, <4>6
        <5>6. Apart'
          BY <5>1, <5>4, <5>5 DEF Apart
        <5>7. DebugAgrees'
          BY <4>4 DEF DebugAgrees
        <5>8. QED
          BY <5>6, <5>7 DEF AgreeInv
      <4>7. QED
        BY <4>5, <4>6
    <3>2. CASE IsSwitching(t) /\ SwitchStep(t)
      <4>1. alone' = alone /\ (~alone => mixed' = mixed)
        BY <3>2 DEF SwitchStep, LoadTestList, SetDebugFlag, DropDebugFlag, ClearTestList,
                    history
      <4>2. CASE alone
        <5>1. \A u \in Threads \ {t} : ~IsSwitching(u)'
          BY <3>inv, <3>others, <3>2, <4>2 DEF Apart
        <5>2. /\ IsSwitching(t)' => Going(t)' /\ (~mixed' => Coming(t)')
              /\ ~IsSwitching(t)' /\ ~mixed' => Agreed'
          BY <2>2, <3>2, <4>2, AloneStep
        <5>3. Apart'
          BY <4>1, <4>2, <5>1, <5>2 DEF Apart
        <5>4. QED
          BY <3>next, <5>2, <5>3 DEF AgreeInv
      <4>3. CASE ~alone
        <5>1. mixed
          BY <3>inv, <3>2, <4>3 DEF Apart
        <5>2. QED
          BY <3>next, <4>1, <4>3, <5>1 DEF AgreeInv, Apart, TypeOK
      <4>4. QED
        BY <4>2, <4>3
    <3>3. CASE /\ ~IsSwitching(t) /\ ~IsSwitching(t)'
               /\ alone' = alone /\ mixed' = mixed
               /\ \A s \in Stores : /\ store'[s].isDebug = store[s].isDebug
                                    /\ store'[s].test = store[s].test
      <4>1. Agreed' <=> Agreed
        BY <3>3 DEF Agreed, On, Clean
      <4>2. \A s \in Stores : (On(s)' <=> On(s)) /\ (Clean(s)' <=> Clean(s))
        BY <3>3 DEF On, Clean
      <4>3. ASSUME NEW u \in Threads \ {t}, Going(u)
            PROVE  Going(u)'
        BY <2>2, <3>others, <3>3, <4>2, <4>3 DEF Going, Stores, TypeOK, ThreadType
      <4>4. ASSUME NEW u \in Threads \ {t}, Coming(u)
            PROVE  Coming(u)'
        BY <3>others, <3>3, <4>1, <4>2, <4>4 DEF Coming, Stores
      <4>5. Apart'
        <5>1. SUFFICES ASSUME NEW u \in Threads, IsSwitching(u)'
                       PROVE  /\ alone' => \A v \in Threads \ {u} : ~IsSwitching(v)'
                              /\ ~alone' => mixed'
                              /\ alone' => Going(u)' /\ (~mixed' => Coming(u)')
          BY DEF Apart
        <5>2. u \in Threads \ {t} /\ IsSwitching(u)
          BY <3>others, <3>3, <5>1
        <5>3. /\ alone => \A v \in Threads \ {u} : ~IsSwitching(v)
              /\ ~alone => mixed
              /\ alone => Going(u) /\ (~mixed => Coming(u))
          BY <3>inv, <5>2 DEF Apart
        <5>4. alone' => \A v \in Threads \ {u} : ~IsSwitching(v)'
          BY <3>others, <3>3, <5>3
        <5>5. QED
          BY <3>3, <4>3, <4>4, <5>2, <5>3, <5>4
      <4>6. DebugAgrees'
        <5>1. SUFFICES ASSUME \A u \in Threads : ~IsSwitching(u)', ~mixed'
                       PROVE  Agreed'
          BY <3>next
        <5>2. \A u \in Threads : ~IsSwitching(u)
          BY <3>others, <3>3, <5>1
        <5>3. QED
          BY <2>2, <3>inv, <3>3, <4>1, <5>1, <5>2 DEF AgreeInv
      <4>7. QED
        BY <4>5, <4>6 DEF AgreeInv
    <3>4. QED
      BY <2>2, <3>1, <3>2, <3>3, SwitchKinds
  <2>3. QED
    BY <2>1, <2>2 DEF Next
<1>3. AgreeInv => DebugAgrees
  BY DEF AgreeInv
<1>4. QED
  BY <1>1, <1>2, <1>3, TypeCorrect, PTL DEF Spec
=============================================================================
