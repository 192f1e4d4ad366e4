------------------------ MODULE HapPermissionProofs ------------------------
(***************************************************************************)
(* Proofs about HapPermission, for any packages, signers and trust.  The   *)
(* invariant says what each scene has established about the package that   *)
(* it has open (Stages), what the caller's memory and disk have to do with *)
(* each other (CallerData), that trust and the cached key are recorded by  *)
(* the history (Trusting), and what holds besides while nothing changes    *)
(* (Steady) and when the last call has succeeded so (Again).               *)
(***************************************************************************)
EXTENDS HapPermission, TLAPS

\* The pieces of a package that is ever installed.
LEMMA FileTypes ==
    ASSUME NEW f \in Files
    PROVE  /\ f \in AllFiles /\ f # None
           /\ f.contents \in Contents /\ f.sealed \in Contents
           /\ f.signer \in Signers \cup {None}
           /\ f.contents.zip \in Zips /\ f.contents.block \in Blocks \cup {None}
  BY PermissionAssumption DEF PermissionAssumption, AllFiles, Contents

\* What is read of a package is never without a profile or a module.json.
LEMMA RawTypes ==
    ASSUME NEW c \in Contents
    PROVE  /\ ReadPermissionRaw(c) \in Raws
           /\ ReadPermissionRaw(c).profile \in Profiles
           /\ ReadPermissionRaw(c).profile # None
           /\ ReadPermissionRaw(c).json.module # None
  BY PermissionAssumption
  DEF PermissionAssumption, Contents, Zips, Raws, Json, ReadPermissionRaw

LEMMA EmptyTypes ==
    /\ EmptyBoot \in BootstrapInfo
    /\ EmptyBoot.raw.profile = None /\ EmptyBoot.chunks = None
    /\ \A module \in Modules \cup {None} :
            LET b == [EmptyBoot EXCEPT !.raw.json.module = module]
            IN  b \in BootstrapInfo /\ b.raw.profile = None /\ b.chunks = None
  BY DEF EmptyBoot, NoRaw, BootstrapInfo, Raws, Json

LEMMA NewCallType ==
    ASSUME TypeOK, NEW pc \in {"all", "fast", "done"}, NEW path \in Paths,
           NEW b \in BootstrapInfo
    PROVE  NewCall(pc, path, b) \in CallType
  BY PermissionAssumption DEF PermissionAssumption, TypeOK, CallType, NewCall, Codes

LEMMA IdleType ==
    ASSUME TypeOK, NEW b \in BootstrapInfo
    PROVE  /\ Idle(b) \in CallType
           /\ Idle(b).pc = "done" /\ Idle(b).ret = "none" /\ Idle(b).boot = b
           /\ Idle(b).seen = trusted /\ ~Idle(b).again /\ ~Idle(b).steady
  BY PermissionAssumption
  DEF PermissionAssumption, TypeOK, CallType, NewCall, Codes, Idle, Paths

LEMMA DisturbedType ==
    ASSUME TypeOK
    PROVE  /\ Disturbed \in CallType
           /\ Disturbed.pc = call.pc /\ Disturbed.boot = call.boot
           /\ ~Disturbed.again /\ ~Disturbed.steady
           /\ call.pc = "done" => Disturbed.ret = "none" /\ Disturbed.seen = trusted
           /\ call.pc # "done" =>
                /\ Disturbed.path = call.path /\ Disturbed.file = call.file
                /\ Disturbed.isChanged = call.isChanged
                /\ Disturbed.seen = call.seen
                /\ Disturbed.strict = call.strict
                /\ Disturbed.enforced = call.enforced
  <1>1. call \in CallType /\ call.boot \in BootstrapInfo
    BY DEF TypeOK, CallType
  <1>2. CASE call.pc = "done"
    BY <1>1, <1>2, IdleType DEF Disturbed
  <1>3. CASE call.pc # "done"
    BY <1>1, <1>3 DEF Disturbed, CallType
  <1> QED  BY <1>2, <1>3

LEMMA TypeInit == Init => TypeOK
  <1> SUFFICES ASSUME Init PROVE TypeOK
    OBVIOUS
  <1>1. /\ files \in [Paths -> Files \cup {None}]
        /\ enforcing \in BOOLEAN
        /\ trusted \in Trusts
        /\ ever \in SUBSET Signers
        /\ agcKey \in AgcNamed \cup {None}
        /\ saved \in Saved
    BY EmptyTypes, PermissionAssumption DEF PermissionAssumption, Init, Saved
  <1>2. call \in CallType
    BY <1>1, EmptyTypes, PermissionAssumption
    DEF PermissionAssumption, Init, Idle, NewCall, CallType, Codes, Paths
  <1> QED  BY <1>1, <1>2 DEF TypeOK

\* The steps around a call keep the types.
LEMMA TypeAround ==
    ASSUME TypeOK,
           \/ \E f \in Files \cup {None} : Install(f) \/ Restart(f)
           \/ SetEnforcing
           \/ \E signers \in Trusts : SetTrust(signers)
           \/ \E signer \in Signers : OtherCall(signer)
    PROVE  TypeOK'
  <1>1. call \in CallType /\ call.boot \in BootstrapInfo /\ saved.boot \in BootstrapInfo
    BY DEF TypeOK, CallType, Saved
  <1>2. ASSUME NEW f \in Files \cup {None}, Install(f) PROVE TypeOK'
    BY <1>2, DisturbedType DEF Install, TypeOK
  <1>3. ASSUME NEW f \in Files \cup {None}, Restart(f) PROVE TypeOK'
    <2>1. call' \in CallType /\ ever' \in SUBSET Signers
      BY <1>1, <1>3, IdleType, PermissionAssumption DEF Restart, TypeOK, PermissionAssumption
    <2> QED  BY <1>3, <2>1 DEF Restart, TypeOK
  <1>4. CASE SetEnforcing
    <2>1. call' \in CallType
      BY <1>4, DisturbedType DEF SetEnforcing, CallType
    <2> QED  BY <1>4, <2>1 DEF SetEnforcing, TypeOK
  <1>5. ASSUME NEW signers \in Trusts, SetTrust(signers) PROVE TypeOK'
    <2>1. signers \in SUBSET Signers
      BY PermissionAssumption DEF PermissionAssumption
    <2>2. call' \in CallType
      BY <1>5, <2>1, DisturbedType DEF SetTrust, CallType
    <2> QED  BY <1>5, <2>1, <2>2 DEF SetTrust, TypeOK
  <1>6. ASSUME NEW signer \in Signers, OtherCall(signer) PROVE TypeOK'
    BY <1>6 DEF OtherCall, TryCacheAgcPubKey, TypeOK, env
  <1> QED  BY <1>2, <1>3, <1>4, <1>5, <1>6

\* What a step of the call itself leaves alone, and how it may change the rest.
LEMMA TypeOfParts ==
    ASSUME TypeOK, UNCHANGED env, agcKey' \in AgcNamed \cup {None},
           saved' \in Saved, call' \in CallType
    PROVE  TypeOK'
  BY DEF TypeOK, env

LEMMA GotoType ==
    ASSUME TypeOK, NEW pc \in {"readOnly", "block", "signer", "raw", "chunks",
                               "all", "verify", "keep", "done"},
           NEW file \in Files \cup {None}, NEW b \in BootstrapInfo,
           NEW ret \in Codes, NEW isChanged \in BOOLEAN,
           NEW profile \in Profiles \cup {None}, NEW fault \in BOOLEAN
    PROVE  /\ [call EXCEPT !.pc = pc] \in CallType
           /\ [call EXCEPT !.pc = pc, !.file = file] \in CallType
           /\ [call EXCEPT !.pc = pc, !.ret = ret] \in CallType
           /\ [call EXCEPT !.pc = pc, !.fault = fault] \in CallType
           /\ [call EXCEPT !.pc = pc, !.ret = ret, !.isChanged = isChanged,
                           !.boot = b, !.profile = profile] \in CallType
  <1>1. call \in CallType
    BY DEF TypeOK
  <1>2. [call EXCEPT !.pc = pc] \in CallType
    BY <1>1 DEF CallType
  <1>3. [call EXCEPT !.pc = pc, !.file = file] \in CallType
    BY <1>1 DEF CallType
  <1>4. [call EXCEPT !.pc = pc, !.ret = ret] \in CallType
    BY <1>1 DEF CallType
  <1>5. [call EXCEPT !.pc = pc, !.fault = fault] \in CallType
    BY <1>1 DEF CallType
  <1>6. [call EXCEPT !.pc = pc, !.ret = ret, !.isChanged = isChanged,
                     !.boot = b, !.profile = profile] \in CallType
    BY <1>1 DEF CallType
  <1> QED  BY <1>2, <1>3, <1>4, <1>5, <1>6

LEMMA AnswerType ==
    ASSUME TypeOK, NEW code \in Codes, NEW b \in BootstrapInfo
    PROVE  [Idle(b) EXCEPT !.ret = code] \in CallType
  BY IdleType DEF CallType

\* Where a step that opens a package may lead.
LEMMA OpenSteps ==
    ASSUME NEW pc, NEW missing, NEW unsigned, Open(pc, missing, unsigned)
    PROVE  \/ Answer(missing) \/ Answer(unsigned)
           \/ /\ files[call.path] # None /\ files[call.path].signer # None
              /\ call' = [call EXCEPT !.pc = pc, !.file = files[call.path]]
  BY DEF Open, NotSigned

LEMMA OpenType ==
    ASSUME TypeOK, NEW missing \in Codes, NEW unsigned \in Codes,
           NEW pc \in {"readOnly", "block", "verify"}, Open(pc, missing, unsigned)
    PROVE  call' \in CallType
  <1>1. call.boot \in BootstrapInfo /\ files[call.path] \in Files \cup {None}
    BY DEF TypeOK, CallType
  <1>2. CASE Answer(missing) \/ Answer(unsigned)
    BY <1>1, <1>2, AnswerType DEF Answer
  <1>3. CASE call' = [call EXCEPT !.pc = pc, !.file = files[call.path]]
    BY <1>1, <1>3, GotoType
  <1> QED  BY <1>2, <1>3, OpenSteps

LEMMA ChangedType ==
    ASSUME TypeOK, call.file \in Files, NEW b \in BootstrapInfo, SucceedChanged(b)
    PROVE  saved' \in Saved /\ call' \in CallType
  <1>1. call.file.contents.profile \in Profiles
    BY FileTypes DEF Contents
  <1>2. "done" \in {"done"} /\ "VERIFY_SUCCESS" \in Codes /\ TRUE \in BOOLEAN
    BY DEF Codes
  <1>3. call' \in CallType
    BY <1>1, <1>2, GotoType DEF SucceedChanged
  <1> QED  BY <1>1, <1>3 DEF SucceedChanged, Saved

LEMMA BootTypes ==
    ASSUME call.file \in Files
    PROVE  ReadOnlyBoot \in BootstrapInfo /\ NewBoot \in BootstrapInfo
  BY FileTypes, RawTypes DEF ReadOnlyBoot, NewBoot, ChunkDigestOf, BootstrapInfo

-----------------------------------------------------------------------------
(* What the scenes have established.                                       *)

OpenStages == {"readOnly", "block", "signer", "raw", "chunks", "verify", "keep"}

\* The file is open from a scene's first step on; enforcement is recorded while
\* the call runs; each stage knows what the tests before it have shown.
Stages ==
    /\ call.pc \in OpenStages => call.file \in Files /\ call.file.signer # None
    /\ call.pc = "readOnly" => call.path = "system"
    /\ call.pc \in {"block", "signer", "raw", "chunks"} => call.path = "data"
    /\ call.pc = "signer" =>
            Block # None /\ Block.key # None /\ CheckPermissionDigests(Block, call.boot)
    /\ call.pc = "raw" => Block = None /\ ~call.strict
    /\ call.pc = "chunks" => Block = None /\ call.enforced /\ call.boot.chunks # None
    /\ call.pc = "keep" => call.file.signer \in call.seen /\ Intact(call.file)
    /\ call.pc # "done" =>
            /\ call.strict => enforcing
            /\ enforcing => call.enforced
            /\ ~call.isChanged

LEMMA StagesInit == Init => Stages
  BY DEF Init, Stages, Idle, NewCall, OpenStages

LEMMA StagesDone ==
    ASSUME call'.pc = "done"
    PROVE  Stages'
  BY DEF Stages, OpenStages

LEMMA TypeOfStep ==
    ASSUME TypeOK, Stages,
           \/ \E type \in {"all", "fast"}, path \in Paths, b \in {saved.boot, call.boot} :
                    Begin(type, path, b)
           \/ FastStep \/ AllStep \/ Refuse \/ Falter
    PROVE  TypeOK'
  <1>1. call \in CallType /\ call.boot \in BootstrapInfo /\ saved \in Saved
        /\ saved.boot \in BootstrapInfo /\ agcKey \in AgcNamed \cup {None}
    BY DEF TypeOK, CallType, Saved
  <1>2. {"OPEN_FILE_ERROR", "PROFILE_PARSE_FAIL", "VERIFY_FAIL", "VERIFY_SUCCESS",
         "SIGNATURE_NOT_FOUND"} \subseteq Codes
    BY DEF Codes
  <1> USE DEF At
  <1>3. ASSUME NEW type \in {"all", "fast"}, NEW path \in Paths,
               NEW b \in {saved.boot, call.boot}, Begin(type, path, b)
        PROVE  TypeOK'
    <2>1. NewCall(type, path, b) \in CallType
      BY <1>1, NewCallType
    <2>2. call' \in CallType
      BY <1>3, <2>1 DEF Begin, CallType
    <2> QED  BY <1>1, <1>3, <2>2, TypeOfParts DEF Begin
  <1>4. CASE OpenReadOnly
    BY <1>1, <1>2, <1>4, OpenType, TypeOfParts DEF OpenReadOnly
  <1>5. CASE ReadOnlySame \/ RawScene \/ ChunksScene
    BY <1>1, <1>2, <1>5, GotoType, TypeOfParts
    DEF ReadOnlySame, RawScene, ChunksScene, Succeed, FallBack, Goto
  <1>6. CASE ReadOnlyChanged
    <2>1. call.file \in Files
      BY <1>6 DEF ReadOnlyChanged, Stages, OpenStages
    <2> QED  BY <1>1, <1>6, <2>1, BootTypes, ChangedType, TypeOfParts DEF ReadOnlyChanged
  <1>7. CASE OpenPackage
    BY <1>1, <1>2, <1>7, OpenType, TypeOfParts DEF OpenPackage
  <1>8. CASE BlockScene \/ ReadParameter
    BY <1>1, <1>2, <1>8, GotoType, TypeOfParts
    DEF BlockScene, ReadParameter, Succeed, FallBack, Goto
  <1>9. CASE SignerScene
    <2>1. call.file.signer \in Signers \cup {None}
      BY <1>9, FileTypes DEF SignerScene, Stages, OpenStages
    <2>2. agcKey' \in AgcNamed \cup {None}
      BY <1>1, <1>9, <2>1 DEF SignerScene, TryCacheAgcPubKey
    <2> QED
      BY <1>1, <1>2, <1>9, <2>2, GotoType, TypeOfParts
      DEF SignerScene, Succeed, FallBack, Goto
  <1>10. CASE OpenAll
    BY <1>1, <1>2, <1>10, OpenType, TypeOfParts DEF OpenAll
  <1>11. CASE SignatureNotFound
    <2>1. PICK module \in {files[call.path].contents.zip.module, None} :
                call' = [Idle([EmptyBoot EXCEPT !.raw.json.module = module])
                            EXCEPT !.ret = "SIGNATURE_NOT_FOUND"]
      BY <1>11 DEF SignatureNotFound
    <2>2. files[call.path] \in Files
      BY <1>1, <1>11 DEF SignatureNotFound, NotSigned, TypeOK, CallType
    <2>3. module \in Modules \cup {None}
      BY <2>2, FileTypes DEF Zips
    <2>4. call' \in CallType
      BY <1>2, <2>1, <2>3, EmptyTypes, AnswerType
    <2> QED  BY <1>1, <1>11, <2>4, TypeOfParts DEF SignatureNotFound
  <1>12. CASE Verify
    <2>1. [call EXCEPT !.pc = "keep"] \in CallType
      BY <1>1 DEF CallType
    <2>2. call' \in CallType
      BY <1>1, <1>2, <1>12, <2>1, AnswerType DEF Verify, Goto, Answer
    <2> QED  BY <1>1, <1>12, <2>2, TypeOfParts DEF Verify
  <1>13. CASE Keep
    <2>1. call.file \in Files
      BY <1>13 DEF Keep, Stages, OpenStages
    <2> QED  BY <1>1, <1>13, <2>1, BootTypes, ChangedType, TypeOfParts DEF Keep
  <1>14. CASE Refuse
    BY <1>1, <1>2, <1>14, AnswerType, TypeOfParts DEF Refuse, Answer
  <1>15. CASE Falter
    <2>1. call' \in CallType
      BY <1>1, <1>15 DEF Falter, CallType
    <2> QED  BY <1>1, <1>15, <2>1, TypeOfParts DEF Falter
  <1> QED
    BY <1>3, <1>4, <1>5, <1>6, <1>7, <1>8, <1>9, <1>10, <1>11, <1>12, <1>13,
       <1>14, <1>15 DEF FastStep, AllStep

-----------------------------------------------------------------------------
(* The fields of the call after its steps.                                 *)

\* A step that goes on with the call.
Goes == /\ call'.path = call.path /\ call'.boot = call.boot
        /\ call'.isChanged = call.isChanged /\ call'.seen = call.seen
        /\ call'.strict = call.strict /\ call'.enforced = call.enforced
        /\ call'.steady = call.steady /\ call'.again = call.again

LEMMA GotoFields ==
    ASSUME TypeOK, NEW pc, Goto(pc)
    PROVE  /\ Goes /\ call'.pc = pc /\ call'.file = call.file
           /\ call'.fault = call.fault
  BY DEF TypeOK, CallType, Goto, Goes

LEMMA SucceedFields ==
    ASSUME TypeOK, Succeed
    PROVE  /\ Goes /\ call'.pc = "done" /\ call'.ret = "VERIFY_SUCCESS"
           /\ call'.file = call.file
  BY DEF TypeOK, CallType, Succeed, Goes

LEMMA ChangedFields ==
    ASSUME TypeOK, NEW b, SucceedChanged(b)
    PROVE  /\ call'.pc = "done" /\ call'.ret = "VERIFY_SUCCESS" /\ call'.isChanged
           /\ call'.file = call.file /\ call'.path = call.path /\ call'.boot = b
           /\ call'.seen = call.seen /\ call'.strict = call.strict
           /\ call'.steady = call.steady /\ call'.again = call.again
           /\ call'.fault = call.fault
           /\ saved'.boot = b /\ saved'.profile = call.file.contents.profile
  BY DEF TypeOK, CallType, SucceedChanged

LEMMA AnswerFields ==
    ASSUME TypeOK, NEW code, Answer(code)
    PROVE  /\ call'.pc = "done" /\ call'.ret = code /\ call'.boot = call.boot
           /\ call'.seen = trusted /\ ~call'.again /\ ~call'.steady
  <1>1. call.boot \in BootstrapInfo
    BY DEF TypeOK, CallType
  <1> QED  BY <1>1, IdleType DEF Answer, CallType

LEMMA OpenFields ==
    ASSUME TypeOK, NEW pc, NEW missing, NEW unsigned, Open(pc, missing, unsigned)
    PROVE  \/ /\ call'.pc = "done" /\ call'.ret \in {missing, unsigned}
              /\ call'.boot = call.boot /\ call'.seen = trusted
              /\ ~call'.again /\ ~call'.steady
           \/ /\ Goes /\ call'.pc = pc /\ call'.fault = call.fault
              /\ call'.file = files[call.path]
              /\ call'.file \in Files /\ call'.file.signer # None
  <1>1. CASE Answer(missing) \/ Answer(unsigned)
    BY <1>1, AnswerFields
  <1>2. CASE /\ files[call.path] # None /\ files[call.path].signer # None
             /\ call' = [call EXCEPT !.pc = pc, !.file = files[call.path]]
    BY <1>2 DEF TypeOK, CallType, Goes
  <1> QED  BY <1>1, <1>2, OpenSteps

LEMMA BeginFields ==
    ASSUME TypeOK, NEW type, NEW path, NEW b, Begin(type, path, b)
    PROVE  /\ call'.pc = type /\ call'.path = path /\ call'.boot = b
           /\ call'.file = None /\ call'.ret = "none" /\ ~call'.isChanged
           /\ call'.seen = trusted
           /\ call'.strict = enforcing /\ call'.enforced = enforcing
           /\ call'.steady /\ ~call'.fault
           /\ call'.again = (/\ type = "fast" /\ path = call.path
                             /\ call.steady /\ call.ret = "VERIFY_SUCCESS")
  BY DEF Begin, NewCall

LEMMA UnsignedFields ==
    ASSUME TypeOK, SignatureNotFound
    PROVE  /\ call'.pc = "done" /\ call'.ret = "SIGNATURE_NOT_FOUND"
           /\ call'.seen = trusted /\ ~call'.again /\ ~call'.steady
           /\ call'.boot.raw.profile = None /\ call'.boot.chunks = None
  <1>1. PICK module \in {files[call.path].contents.zip.module, None} :
                call' = [Idle([EmptyBoot EXCEPT !.raw.json.module = module])
                            EXCEPT !.ret = "SIGNATURE_NOT_FOUND"]
    BY DEF SignatureNotFound
  <1>2. files[call.path] \in Files
    BY DEF SignatureNotFound, NotSigned, TypeOK, CallType, At
  <1>3. module \in Modules \cup {None}
    BY <1>2, FileTypes DEF Zips
  <1> DEFINE b == [EmptyBoot EXCEPT !.raw.json.module = module]
  <1>4. b \in BootstrapInfo /\ b.raw.profile = None /\ b.chunks = None
    BY <1>3, EmptyTypes
  <1> HIDE DEF b
  <1>5. call' = [Idle(b) EXCEPT !.ret = "SIGNATURE_NOT_FOUND"]
    BY <1>1 DEF b
  <1>6. /\ Idle(b) \in CallType /\ Idle(b).pc = "done" /\ Idle(b).boot = b
        /\ Idle(b).seen = trusted /\ ~Idle(b).again /\ ~Idle(b).steady
    BY <1>4, IdleType
  <1> QED  BY <1>4, <1>5, <1>6 DEF CallType

LEMMA FalterFields ==
    ASSUME TypeOK, Falter
    PROVE  Goes /\ call'.pc = "all" /\ call'.file = call.file /\ call'.fault
  BY DEF TypeOK, CallType, Falter, Goes

-----------------------------------------------------------------------------
(* The stages.                                                             *)

AroundStep ==
    \/ \E f \in Files \cup {None} : Install(f)
    \/ SetEnforcing
    \/ \E signers \in Trusts : SetTrust(signers)
    \/ \E f \in SystemFiles \cup {None} : Restart(f)
    \/ \E signer \in Signers : OtherCall(signer)

CallStep ==
    \/ \E type \in {"all", "fast"}, path \in Paths, b \in {saved.boot, call.boot} :
            Begin(type, path, b)
    \/ FastStep \/ AllStep \/ Refuse \/ Falter

LEMMA NextSplit == Next => AroundStep \/ CallStep
  BY DEF Next, AroundStep, CallStep

LEMMA TypeStep ==
    ASSUME TypeOK, Stages, [Next]_vars
    PROVE  TypeOK'
  <1>1. CASE AroundStep
    BY <1>1, TypeAround, PermissionAssumption DEF AroundStep, PermissionAssumption
  <1>2. CASE CallStep
    BY <1>2, TypeOfStep DEF CallStep
  <1>3. CASE UNCHANGED vars
    BY <1>3 DEF vars, TypeOK
  <1> QED  BY <1>1, <1>2, <1>3, NextSplit

\* What a step around the calls leaves of a call that runs.
LEMMA AroundFields ==
    ASSUME TypeOK, AroundStep
    PROVE  /\ saved' = saved
           /\ call'.boot \in {call.boot, saved.boot}
           /\ call.seen \subseteq call'.seen \/ call'.pc = "done"
           /\ call'.pc \in {call.pc, "done"}
           /\ call'.pc # "done" =>
                /\ call'.path = call.path /\ call'.file = call.file
                /\ call'.boot = call.boot /\ call'.isChanged = call.isChanged
                /\ call'.strict => call.strict /\ enforcing' = enforcing
                /\ call.enforced => call'.enforced
                /\ enforcing' # enforcing => call'.enforced
           /\ call'.pc = "done" /\ call'.ret # "none" =>
                call' = call /\ UNCHANGED env
           /\ call' # call => ~call'.again
  <1>1. call \in CallType /\ call.boot \in BootstrapInfo /\ saved.boot \in BootstrapInfo
    BY DEF TypeOK, CallType, Saved
  <1>2. ASSUME NEW f \in Files \cup {None}, Install(f)
        PROVE  call' = Disturbed /\ saved' = saved /\ enforcing' = enforcing
    BY <1>2 DEF Install
  <1>3. CASE \E f \in Files \cup {None} : Install(f)
    BY <1>1, <1>2, <1>3, DisturbedType
  <1>4. CASE SetEnforcing
    BY <1>1, <1>4, DisturbedType DEF SetEnforcing, CallType
  <1>5. ASSUME NEW signers \in Trusts, SetTrust(signers)
        PROVE  /\ saved' = saved /\ enforcing' = enforcing
               /\ call'.seen = Disturbed.seen \cup signers
               /\ call'.pc = Disturbed.pc /\ call'.path = Disturbed.path
               /\ call'.file = Disturbed.file /\ call'.boot = Disturbed.boot
               /\ call'.isChanged = Disturbed.isChanged
               /\ call'.strict = Disturbed.strict /\ call'.ret = Disturbed.ret
               /\ call'.enforced = Disturbed.enforced
               /\ call'.again = Disturbed.again
    BY <1>5, DisturbedType DEF SetTrust, CallType
  <1>6. CASE \E signers \in Trusts : SetTrust(signers)
    BY <1>1, <1>5, <1>6, DisturbedType
  <1>7. CASE \E f \in SystemFiles \cup {None} : Restart(f)
    BY <1>1, <1>7, IdleType DEF Restart
  <1>8. CASE \E signer \in Signers : OtherCall(signer)
    BY <1>1, <1>8 DEF OtherCall, env
  <1> QED  BY <1>3, <1>4, <1>6, <1>7, <1>8 DEF AroundStep

\* The history has all the trust there is and the key that is cached.
Trusting ==
    /\ trusted \subseteq call.seen
    /\ trusted \subseteq ever
    /\ agcKey # None => agcKey \in ever

LEMMA TrustingStep ==
    ASSUME TypeOK, Stages, Trusting, [Next]_vars
    PROVE  Trusting'
  <1>1. call \in CallType /\ call.boot \in BootstrapInfo /\ saved.boot \in BootstrapInfo
    BY DEF TypeOK, CallType, Saved
  <1> USE DEF At
  <1>2. ASSUME NEW f \in Files \cup {None}, Install(f) PROVE Trusting'
    BY <1>2, DisturbedType DEF Install, Trusting
  <1>3. CASE SetEnforcing
    <2>1. call'.seen = Disturbed.seen
      BY <1>3, DisturbedType DEF SetEnforcing, CallType
    <2> QED  BY <1>3, <2>1, DisturbedType DEF SetEnforcing, Trusting
  <1>4. ASSUME NEW signers \in Trusts, SetTrust(signers) PROVE Trusting'
    <2>1. call'.seen = Disturbed.seen \cup signers
      BY <1>4, DisturbedType DEF SetTrust, CallType
    <2> QED  BY <1>4, <2>1 DEF SetTrust, Trusting
  <1>5. ASSUME NEW f \in SystemFiles \cup {None}, Restart(f) PROVE Trusting'
    BY <1>1, <1>5, IdleType DEF Restart, Trusting
  <1>6. ASSUME NEW signer \in Signers, OtherCall(signer) PROVE Trusting'
    BY <1>6 DEF OtherCall, TryCacheAgcPubKey, env, Trusting
  <1>7. ASSUME NEW type \in {"all", "fast"}, NEW path \in Paths,
               NEW b \in {saved.boot, call.boot}, Begin(type, path, b)
        PROVE  Trusting'
    BY <1>7, BeginFields DEF Begin, env, Trusting
  <1>8. CASE OpenReadOnly \/ OpenPackage \/ OpenAll
    <2>1. call'.seen \in {trusted, call.seen}
      BY <1>8, OpenFields DEF OpenReadOnly, OpenPackage, OpenAll, Goes
    <2> QED  BY <1>8, <2>1 DEF OpenReadOnly, OpenPackage, OpenAll, env, Trusting
  <1>9. CASE ReadOnlySame \/ RawScene \/ ChunksScene \/ BlockScene \/ ReadParameter
    <2>1. Succeed \/ \E pc \in {"raw", "chunks", "signer", "all"} : Goto(pc)
      BY <1>9 DEF ReadOnlySame, RawScene, ChunksScene, BlockScene, ReadParameter, FallBack
    <2>2. call'.seen = call.seen
      BY <2>1, GotoFields, SucceedFields DEF Goes
    <2> QED
      BY <1>9, <2>2 DEF ReadOnlySame, RawScene, ChunksScene, BlockScene,
                        ReadParameter, env, Trusting
  <1>10. CASE ReadOnlyChanged \/ Keep
    <2>1. call'.seen = call.seen
      BY <1>10, ChangedFields DEF ReadOnlyChanged, Keep
    <2> QED  BY <1>10, <2>1 DEF ReadOnlyChanged, Keep, env, Trusting
  <1>11. CASE SignerScene
    <2>1. Succeed \/ Goto("all")
      BY <1>11 DEF SignerScene, FallBack
    <2>2. call'.seen = call.seen
      BY <2>1, GotoFields, SucceedFields DEF Goes
    <2>3. agcKey' = agcKey \/ agcKey' \in trusted
      BY <1>11 DEF SignerScene, TryCacheAgcPubKey
    <2> QED  BY <1>11, <2>2, <2>3 DEF SignerScene, env, Trusting
  <1>12. CASE SignatureNotFound
    BY <1>12, UnsignedFields DEF SignatureNotFound, env, Trusting
  <1>13. CASE Verify
    <2>1. Goto("keep") \/ Answer("VERIFY_FAIL")
      BY <1>13 DEF Verify
    <2>2. call'.seen \in {trusted, call.seen}
      BY <2>1, GotoFields, AnswerFields DEF Goes
    <2> QED  BY <1>13, <2>2 DEF Verify, env, Trusting
  <1>14. CASE Refuse
    BY <1>14, AnswerFields DEF Refuse, env, Trusting
  <1>15. CASE Falter
    BY <1>15, FalterFields DEF Falter, env, Trusting, Goes
  <1>16. CASE UNCHANGED vars
    BY <1>16 DEF vars, Trusting
  <1> QED
    BY <1>2, <1>3, <1>4, <1>5, <1>6, <1>7, <1>8, <1>9, <1>10, <1>11, <1>12,
       <1>13, <1>14, <1>15, <1>16 DEF Next, FastStep, AllStep

\* Each step of a scene ends the call or establishes what the next stage knows.
LEMMA StagesStep ==
    ASSUME TypeOK, Stages, Trusting, [Next]_vars
    PROVE  Stages'
  <1> USE DEF At, OpenStages
  <1>1. TypeOK'
    BY TypeStep
  <1>2. CASE AroundStep
    BY <1>2, AroundFields, StagesDone
    DEF Stages, Block, CheckPermissionDigests, Intact
  <1>3. CASE UNCHANGED vars
    BY <1>3 DEF vars, Stages, Block, CheckPermissionDigests, Intact
  <1>4. ASSUME NEW type \in {"all", "fast"}, NEW path \in Paths,
               NEW b \in {saved.boot, call.boot}, Begin(type, path, b)
        PROVE  Stages'
    <2>1. enforcing' = enforcing
      BY <1>4 DEF Begin, env
    <2> QED  BY <1>4, <2>1, BeginFields DEF Stages
  <1>5. CASE OpenReadOnly
    BY <1>5, OpenFields, StagesDone DEF OpenReadOnly, Stages, env, Goes
  <1>6. CASE OpenPackage
    BY <1>6, OpenFields, StagesDone DEF OpenPackage, Stages, env, Goes
  <1>7. CASE ReadOnlySame \/ ReadOnlyChanged \/ Keep
    BY <1>7, SucceedFields, ChangedFields, StagesDone
    DEF ReadOnlySame, ReadOnlyChanged, Keep
  <1>8. CASE BlockScene
    <2>1. CASE ~CheckPermissionDigests(Block, call.boot) \/ Block.key = None
      BY <1>8, <2>1, GotoFields DEF BlockScene, FallBack, Stages, env, Goes
    <2>2. CASE CheckPermissionDigests(Block, call.boot) /\ Block.key # None
      <3>1. CASE agcKey = Block.key
        BY <1>8, <2>2, <3>1, SucceedFields, StagesDone DEF BlockScene
      <3>2. CASE agcKey # Block.key
        <4>1. Goto("signer") /\ Block # None /\ UNCHANGED env
          BY <1>8, <2>2, <3>2 DEF BlockScene
        <4>2. /\ Block' = Block /\ call'.boot = call.boot
              /\ CheckPermissionDigests(Block, call.boot)'
          BY <2>2, <4>1, GotoFields DEF Block, Goes, CheckPermissionDigests
        <4> QED  BY <1>8, <2>2, <4>1, <4>2, GotoFields
                 DEF BlockScene, Stages, env, Goes
      <3> QED  BY <3>1, <3>2
    <2> QED  BY <2>1, <2>2
  <1>9. CASE SignerScene
    <2>1. Succeed \/ Goto("all")
      BY <1>9 DEF SignerScene, FallBack
    <2> QED  BY <1>9, <2>1, GotoFields, SucceedFields, StagesDone
             DEF SignerScene, Stages, env, Goes
  <1>10. CASE ReadParameter
    <2>1. \/ Goto("raw") /\ ~enforcing
          \/ Goto("chunks") /\ enforcing /\ call.boot.chunks # None
          \/ Goto("all")
      BY <1>10 DEF ReadParameter, FallBack
    <2> QED  BY <1>10, <2>1, GotoFields DEF ReadParameter, Stages, env, Goes, Block
  <1>11. CASE RawScene \/ ChunksScene
    <2>1. Succeed \/ Goto("all")
      BY <1>11 DEF RawScene, ChunksScene, FallBack
    <2> QED  BY <1>11, <2>1, GotoFields, SucceedFields, StagesDone
             DEF RawScene, ChunksScene, Stages, env, Goes
  <1>12. CASE OpenAll
    BY <1>12, OpenFields, StagesDone DEF OpenAll, Stages, env, Goes
  <1>13. CASE SignatureNotFound
    BY <1>13, UnsignedFields, StagesDone
  <1>14. CASE Verify
    <2>1. CASE Verified(call.file)
      <3>1. Goto("keep") /\ UNCHANGED env
        BY <1>14, <2>1 DEF Verify
      <3>2. call.file.signer \in call.seen
        BY <2>1 DEF Verified, Trusting
      <3> QED  BY <1>14, <2>1, <3>1, <3>2, GotoFields
               DEF Verify, Verified, Stages, env, Goes, Intact
    <2>2. CASE ~Verified(call.file)
      BY <1>14, <2>2, AnswerFields, StagesDone DEF Verify
    <2> QED  BY <2>1, <2>2
  <1>15. CASE Refuse
    BY <1>15, AnswerFields, StagesDone DEF Refuse
  <1>16. CASE Falter
    BY <1>16, FalterFields DEF Falter, Stages, env, Goes
  <1> QED
    BY <1>2, <1>3, <1>4, <1>5, <1>6, <1>7, <1>8, <1>9, <1>10, <1>11, <1>12,
       <1>13, <1>14, <1>15, <1>16, NextSplit DEF CallStep, FastStep, AllStep

-----------------------------------------------------------------------------
(* The caller's data.                                                      *)

\* The strings that lie in the chunks of a zip.
JsonOf(zip) ==
    [module |-> zip.module,
     share  |-> IF zip.module \in NamesShare THEN zip.share ELSE None]

\* What an unsigned package leaves in memory has no profile and no digests.
Foreign(b) == b.raw.profile = None /\ b.chunks = None

CallerData ==
    /\ saved.profile = saved.boot.raw.profile
    /\ call.boot = saved.boot \/ Foreign(call.boot)
    /\ saved.boot.chunks # None => saved.boot.raw.json = JsonOf(saved.boot.chunks)

LEMMA CallerDataInit == Init => CallerData
  BY EmptyTypes DEF Init, Idle, NewCall, CallerData

LEMMA CallerDataStep ==
    ASSUME TypeOK, Stages, CallerData, [Next]_vars
    PROVE  CallerData'
  <1>1. ASSUME saved' = saved, call'.boot \in {call.boot, saved.boot} \/ Foreign(call'.boot)
        PROVE  CallerData'
    BY <1>1 DEF CallerData, Foreign
  <1> USE DEF At
  <1>2. ASSUME NEW type \in {"all", "fast"}, NEW path \in Paths,
               NEW b \in {saved.boot, call.boot}, Begin(type, path, b)
        PROVE  CallerData'
    BY <1>1, <1>2, BeginFields DEF Begin
  <1>3. CASE AroundStep
    BY <1>1, <1>3, AroundFields
  <1>4. CASE OpenReadOnly \/ OpenPackage \/ OpenAll
    <2>1. call'.boot = call.boot
      BY <1>4, OpenFields DEF OpenReadOnly, OpenPackage, OpenAll, Goes
    <2> QED  BY <1>1, <1>4, <2>1 DEF OpenReadOnly, OpenPackage, OpenAll
  <1>5. CASE ReadOnlySame \/ RawScene \/ ChunksScene \/ BlockScene \/ ReadParameter
             \/ SignerScene
    <2>1. Succeed \/ \E pc \in {"raw", "chunks", "signer", "all"} : Goto(pc)
      BY <1>5 DEF ReadOnlySame, RawScene, ChunksScene, BlockScene, ReadParameter,
                  SignerScene, FallBack
    <2>2. call'.boot = call.boot
      BY <2>1, GotoFields, SucceedFields DEF Goes
    <2> QED
      BY <1>1, <1>5, <2>2 DEF ReadOnlySame, RawScene, ChunksScene, BlockScene,
                              ReadParameter, SignerScene
  <1>6. CASE ReadOnlyChanged
    BY <1>6, ChangedFields DEF ReadOnlyChanged, ReadOnlyBoot, ReadPermissionRaw, CallerData
  <1>7. CASE Keep
    <2>1. /\ call'.boot = NewBoot /\ saved'.boot = NewBoot
          /\ saved'.profile = call.file.contents.profile
      BY <1>7, ChangedFields DEF Keep
    <2>2. /\ NewBoot.raw = ReadPermissionRaw(call.file.contents)
          /\ NewBoot.chunks \in {None, call.file.contents.zip}
      BY DEF NewBoot, ChunkDigestOf
    <2> QED  BY <2>1, <2>2 DEF ReadPermissionRaw, CallerData, JsonOf
  <1>8. CASE SignatureNotFound
    BY <1>1, <1>8, UnsignedFields DEF SignatureNotFound, Foreign
  <1>9. CASE Verify
    <2>1. Goto("keep") \/ Answer("VERIFY_FAIL")
      BY <1>9 DEF Verify
    <2> QED  BY <1>1, <1>9, <2>1, GotoFields, AnswerFields DEF Verify, Goes
  <1>10. CASE Refuse
    BY <1>1, <1>10, AnswerFields DEF Refuse
  <1>11. CASE Falter
    BY <1>1, <1>11, FalterFields DEF Falter, Goes
  <1>12. CASE UNCHANGED vars
    BY <1>12 DEF vars, CallerData
  <1> QED
    BY <1>2, <1>3, <1>4, <1>5, <1>6, <1>7, <1>8, <1>9, <1>10, <1>11, <1>12,
       NextSplit DEF CallStep, FastStep, AllStep

-----------------------------------------------------------------------------
(* The successes.                                                          *)

\* A success that changes nothing.
QuietSuccess ==
    /\ Succeed /\ UNCHANGED <<env, saved>>
    /\ \/ call.pc \in {"readOnly", "raw"} /\ IsPermissionRawSame(call.boot)
       \/ /\ call.pc = "block" /\ Block # None /\ Block.key # None
          /\ CheckPermissionDigests(Block, call.boot)
          /\ agcKey = Block.key /\ agcKey' = agcKey
       \/ /\ call.pc = "signer"
          /\ call.file.signer \in trusted /\ Block.key = call.file.signer
       \/ call.pc = "chunks" /\ ChunksVouch(call.boot)

LEMMA SuccessWays ==
    ASSUME TypeOK, Stages, [Next]_vars, Succeeded'
    PROVE  \/ UNCHANGED <<call, saved, env>>
           \/ QuietSuccess
           \/ ReadOnlyChanged
           \/ Keep
  <1> USE DEF At, Succeeded
  <1>1. CASE AroundStep
    BY <1>1, AroundFields
  <1>2. ASSUME NEW type \in {"all", "fast"}, NEW path \in Paths,
               NEW b \in {saved.boot, call.boot}, Begin(type, path, b)
        PROVE  FALSE
    BY <1>2, BeginFields
  <1>3. CASE OpenReadOnly \/ OpenPackage \/ OpenAll
    BY <1>3, OpenFields DEF OpenReadOnly, OpenPackage, OpenAll
  <1>4. CASE ReadOnlySame
    BY <1>4 DEF ReadOnlySame, QuietSuccess
  <1>5. CASE BlockScene
    <2>1. ~FallBack /\ ~Goto("signer")
      BY GotoFields DEF FallBack
    <2> QED  BY <1>5, <2>1 DEF BlockScene, QuietSuccess
  <1>6. CASE SignerScene
    <2>1. ~FallBack
      BY GotoFields DEF FallBack
    <2> QED  BY <1>6, <2>1 DEF SignerScene, QuietSuccess
  <1>7. CASE RawScene \/ ChunksScene
    <2>1. ~FallBack
      BY GotoFields DEF FallBack
    <2> QED  BY <1>7, <2>1 DEF RawScene, ChunksScene, QuietSuccess
  <1>8. CASE ReadParameter
    <2>1. \E pc \in {"raw", "chunks", "all"} : Goto(pc)
      BY <1>8 DEF ReadParameter, FallBack
    <2> QED  BY <2>1, GotoFields
  <1>9. CASE SignatureNotFound
    BY <1>9, UnsignedFields
  <1>10. CASE Verify
    <2>1. Goto("keep") \/ Answer("VERIFY_FAIL")
      BY <1>10 DEF Verify
    <2> QED  BY <2>1, GotoFields, AnswerFields
  <1>11. CASE Refuse
    BY <1>11, AnswerFields DEF Refuse
  <1>12. CASE Falter
    BY <1>12, FalterFields
  <1>13. CASE UNCHANGED vars
    BY <1>13 DEF vars, env
  <1> QED
    BY <1>1, <1>2, <1>3, <1>4, <1>5, <1>6, <1>7, <1>8, <1>9, <1>10, <1>11,
       <1>12, <1>13, NextSplit DEF CallStep, FastStep, AllStep

\* Data that satisfies a scene is not what an unsigned package has left.
LEMMA QuietIsSaved ==
    ASSUME TypeOK, Stages, CallerData, QuietSuccess
    PROVE  call.boot = saved.boot
  <1>1. SUFFICES ASSUME Foreign(call.boot) PROVE FALSE
    BY DEF CallerData
  <1>2. call.file \in Files
    BY DEF QuietSuccess, Stages, OpenStages
  <1>3. ReadPermissionRaw(call.file.contents).profile # None
    BY <1>2, FileTypes, RawTypes
  <1>4. CASE call.pc \in {"readOnly", "raw"} /\ IsPermissionRawSame(call.boot)
    BY <1>1, <1>3, <1>4 DEF IsPermissionRawSame, Foreign
  <1>5. CASE call.pc \in {"block", "signer"}
    <2>1. CheckPermissionDigests(Block, call.boot)
      BY <1>5 DEF QuietSuccess, Stages
    <2> QED  BY <1>1, <2>1 DEF CheckPermissionDigests, Foreign
  <1>6. CASE call.pc = "chunks"
    BY <1>1, <1>6 DEF Stages, Foreign
  <1> QED  BY <1>4, <1>5, <1>6 DEF QuietSuccess

LEMMA SavedAgreesStep ==
    ASSUME TypeOK, Stages, CallerData, SavedAgrees, [Next]_vars
    PROVE  SavedAgrees'
  <1>1. SUFFICES ASSUME Succeeded' PROVE SavedAgrees'
    BY DEF SavedAgrees
  <1>2. CallerData'
    BY CallerDataStep
  <1>3. saved'.profile = saved'.boot.raw.profile
    BY <1>2 DEF CallerData
  <1>4. CASE UNCHANGED <<call, saved, env>>
    BY <1>1, <1>4 DEF SavedAgrees, Succeeded
  <1>5. CASE QuietSuccess
    <2>1. call'.boot = call.boot /\ saved' = saved
      BY <1>5, SucceedFields DEF QuietSuccess, Goes
    <2> QED  BY <1>3, <1>5, <2>1, QuietIsSaved DEF SavedAgrees
  <1>6. CASE ReadOnlyChanged \/ Keep
    BY <1>3, <1>6, ChangedFields DEF ReadOnlyChanged, Keep, SavedAgrees
  <1> QED  BY <1>1, <1>4, <1>5, <1>6, SuccessWays

\* What the trusted signer's digest says of the JSON when the cached chunks fit.
LEMMA ChunksAreSealed ==
    ASSUME CallerData, call.file \in Files, saved.boot.chunks # None,
           ChunksVouch(saved.boot)
    PROVE  /\ call.file.signer \in trusted
           /\ saved.boot.raw.json = ReadPermissionRaw(call.file.sealed).json
  <1>1. call.file.contents \in Contents
    BY FileTypes
  <1>2. call.file.sealed.zip = saved.boot.chunks
    BY <1>1 DEF ChunksVouch, CachedDigestSealed, Contents
  <1>3. ReadPermissionRaw(call.file.sealed).json = JsonOf(call.file.sealed.zip)
    BY DEF ReadPermissionRaw, JsonOf
  <1> QED  BY <1>2, <1>3 DEF CallerData, ChunksVouch

LEMMA CacheVouchedStep ==
    ASSUME TypeOK, Stages, Trusting, CallerData, CacheVouched, [Next]_vars
    PROVE  CacheVouched'
  <1> DEFINE f == call'.file
             raw == saved'.boot.raw
             BySigner == /\ f.signer \in call'.seen
                         /\ raw.json = ReadPermissionRaw(f.sealed).json
             ByBlock == /\ f.contents.block # None
                        /\ raw = f.contents.block.raw
                        /\ \/ f.contents.block.key \in call'.seen
                           \/ f.contents.block.key \in ever' \cap AgcNamed
  <1>1. SUFFICES ASSUME Succeeded', call'.path = "data", call'.strict
                 PROVE  BySigner \/ ByBlock
    BY DEF CacheVouched, Block
  <1>2. CASE UNCHANGED <<call, saved, env>>
    BY <1>1, <1>2 DEF CacheVouched, Block, env, Succeeded
  <1>3. CASE QuietSuccess
    <2>1. /\ f = call.file /\ call'.seen = call.seen /\ call'.path = call.path
          /\ call'.strict = call.strict /\ saved' = saved /\ ever' = ever
          /\ call.boot = saved.boot
      BY <1>3, SucceedFields, QuietIsSaved DEF QuietSuccess, Goes, env
    <2>2. f \in Files
      BY <1>3, <2>1 DEF QuietSuccess, Stages, OpenStages
    <2>3. call.pc \notin {"readOnly", "raw"}
      BY <1>1, <2>1 DEF Stages
    <2>4. CASE call.pc = "block"
      <3>1. agcKey = Block.key /\ Block.key # None /\ Block # None
            /\ CheckPermissionDigests(Block, call.boot)
        BY <1>3, <2>4 DEF QuietSuccess
      <3>2. agcKey \in ever \cap AgcNamed
        BY <3>1 DEF Trusting, TypeOK
      <3> QED  BY <2>1, <3>1, <3>2 DEF Block, CheckPermissionDigests
    <2>5. CASE call.pc = "signer"
      <3>1. /\ Block.key \in trusted /\ Block # None
            /\ CheckPermissionDigests(Block, call.boot)
        BY <1>3, <2>5 DEF QuietSuccess, Stages
      <3> QED  BY <2>1, <3>1 DEF Block, CheckPermissionDigests, Trusting
    <2>6. CASE call.pc = "chunks"
      <3>1. ChunksVouch(saved.boot) /\ saved.boot.chunks # None
        BY <1>3, <2>1, <2>6 DEF QuietSuccess, Stages
      <3> QED  BY <2>1, <2>2, <3>1, ChunksAreSealed DEF Trusting
    <2> QED  BY <1>3, <2>3, <2>4, <2>5, <2>6 DEF QuietSuccess
  <1>4. CASE ReadOnlyChanged
    <2>1. call'.path = call.path /\ call.path = "system"
      BY <1>4, ChangedFields DEF ReadOnlyChanged, At, Stages
    <2> QED  BY <1>1, <2>1
  <1>5. CASE Keep
    <2>1. /\ f = call.file /\ call'.seen = call.seen /\ saved'.boot = NewBoot
          /\ f.signer \in call.seen /\ f.sealed = f.contents
      BY <1>5, ChangedFields DEF Keep, At, Stages, Intact
    <2> QED  BY <2>1 DEF NewBoot
  <1> QED  BY <1>1, <1>2, <1>3, <1>4, <1>5, SuccessWays

LEMMA CacheCurrentStep ==
    ASSUME TypeOK, Stages, Trusting, CallerData, CacheCurrent, [Next]_vars
    PROVE  CacheCurrent'
  <1> DEFINE f == call'.file
             raw == saved'.boot.raw
             current == ReadPermissionRaw(f.contents)
             Excused == /\ ~call'.isChanged /\ call'.enforced
                        /\ call'.path = "data" /\ f.contents.block = None
  <1>1. SUFFICES ASSUME Succeeded', Intact(f), WellMade(f)
                 PROVE  /\ raw.json = current.json
                        /\ raw.profile = current.profile \/ Excused
    BY DEF CacheCurrent, Block
  <1>2. CASE UNCHANGED <<call, saved, env>>
    BY <1>1, <1>2 DEF CacheCurrent, Block, Succeeded
  <1>3. CASE QuietSuccess
    <2>1. /\ f = call.file /\ call'.path = call.path /\ saved' = saved
          /\ call'.isChanged = call.isChanged /\ call'.enforced = call.enforced
          /\ call.boot = saved.boot
      BY <1>3, SucceedFields, QuietIsSaved DEF QuietSuccess, Goes
    <2>2. f \in Files
      BY <1>3, <2>1 DEF QuietSuccess, Stages, OpenStages
    <2>3. CASE call.pc \in {"readOnly", "raw"} /\ IsPermissionRawSame(call.boot)
      BY <2>1, <2>3 DEF IsPermissionRawSame
    <2>4. CASE call.pc \in {"block", "signer"}
      <3>1. Block # None /\ CheckPermissionDigests(Block, call.boot)
        BY <1>3, <2>4 DEF QuietSuccess, Stages
      <3>2. Block.raw = current
        BY <1>1, <2>1, <3>1 DEF WellMade, Block
      <3> QED  BY <2>1, <3>1, <3>2 DEF CheckPermissionDigests
    <2>5. CASE call.pc = "chunks"
      <3>1. ChunksVouch(saved.boot) /\ saved.boot.chunks # None
        BY <1>3, <2>1, <2>5 DEF QuietSuccess, Stages
      <3>2. raw.json = current.json
        BY <1>1, <2>1, <2>2, <3>1, ChunksAreSealed DEF Intact
      <3>3. Excused
        BY <2>1, <2>5 DEF Stages, Block
      <3> QED  BY <3>2, <3>3
    <2> QED  BY <1>3, <2>3, <2>4, <2>5 DEF QuietSuccess
  <1>4. CASE ReadOnlyChanged \/ Keep
    <2>1. f = call.file /\ saved'.boot \in {ReadOnlyBoot, NewBoot}
      BY <1>4, ChangedFields DEF ReadOnlyChanged, Keep
    <2> QED  BY <2>1 DEF ReadOnlyBoot, NewBoot
  <1> QED  BY <1>1, <1>2, <1>3, <1>4, SuccessWays

-----------------------------------------------------------------------------
(* The fast way.                                                           *)

\* A fast call with the data b accepts the file f when it may rely on signers,
\* the parameter is on or off, and key is the cached one.
Fits(b, f, path, signers, on, key) ==
    LET c == f.contents
    IN  /\ path = "system" => ReadPermissionRaw(c) = b.raw
        /\ path = "data" /\ c.block # None =>
                b.raw = c.block.raw /\ (f.signer \in signers \/ f.signer = key)
        /\ path = "data" /\ c.block = None /\ ~on => ReadPermissionRaw(c) = b.raw
        /\ path = "data" /\ c.block = None /\ on =>
                /\ b.chunks # None /\ f.signer \in signers
                /\ JsonChunksSame(f, b) /\ CachedDigestSealed(f, b)

Package == files[call.path]

PackageFits ==
    /\ Package \in Files /\ Package.signer # None
    /\ WellMade(Package) =>
            Fits(call.boot, Package, call.path, trusted, enforcing, agcKey)

\* What a call knows if nothing has changed since it began.
Steady ==
    call.steady =>
        /\ call.pc \in OpenStages => call.file = Package
        /\ call.pc = "raw" => ~enforcing
        /\ call.pc = "chunks" => enforcing
        /\ call.pc = "keep" => call.file.signer \in trusted
        /\ Succeeded => call.file = Package /\ PackageFits

\* What it knows in addition if it repeats a call that succeeded.
Again ==
    call.again =>
        /\ call.steady
        /\ call.pc # "done" => PackageFits
        /\ call.pc = "fast" => call.file = None
        /\ call.pc # "fast" => call.file = Package
        /\ call.pc = "signer" /\ WellMade(Package) => Package.signer \in trusted

LEMMA AroundSteady ==
    ASSUME TypeOK, AroundStep
    PROVE  \/ ~call'.steady /\ ~call'.again
           \/ /\ call' = call /\ UNCHANGED <<env, saved>>
              /\ agcKey = None \/ agcKey' = agcKey
  <1>1. call \in CallType /\ saved.boot \in BootstrapInfo
    BY DEF TypeOK, CallType, Saved
  <1>2. ASSUME NEW f \in Files \cup {None}, Install(f) PROVE ~call'.steady /\ ~call'.again
    BY <1>2, DisturbedType DEF Install
  <1>3. CASE SetEnforcing
    BY <1>3, DisturbedType DEF SetEnforcing, CallType
  <1>4. ASSUME NEW signers \in Trusts, SetTrust(signers)
        PROVE  ~call'.steady /\ ~call'.again
    BY <1>4, DisturbedType DEF SetTrust, CallType
  <1>5. ASSUME NEW f \in SystemFiles \cup {None}, Restart(f)
        PROVE  ~call'.steady /\ ~call'.again
    BY <1>1, <1>5, IdleType DEF Restart
  <1>6. CASE \E signer \in Signers : OtherCall(signer)
    BY <1>6 DEF OtherCall, TryCacheAgcPubKey
  <1> QED  BY <1>2, <1>3, <1>4, <1>5, <1>6 DEF AroundStep

LEMMA PackageKept ==
    ASSUME UNCHANGED env, call'.path = call.path
    PROVE  Package' = Package
  BY DEF Package, env

\* A key that is cached meanwhile takes nothing away.
LEMMA FitsKept ==
    ASSUME PackageFits, UNCHANGED env, agcKey = None \/ agcKey' = agcKey,
           call'.path = call.path, call'.boot = call.boot
    PROVE  PackageFits'
  <1>1. Package' = Package /\ trusted' = trusted /\ enforcing' = enforcing
    BY PackageKept DEF env
  <1>2. ASSUME WellMade(Package)
        PROVE  Fits(call.boot, Package, call.path, trusted, enforcing, agcKey')
    BY <1>2 DEF PackageFits, Fits
  <1> QED  BY <1>1, <1>2 DEF PackageFits

\* After a success on the package that is there now, the next fast call fits.
LEMMA SuccessFits ==
    ASSUME TypeOK, Stages, CallerData, Steady, [Next]_vars, Succeeded', call'.steady
    PROVE  Steady'
  <1>1. SUFFICES call'.file = Package' /\ PackageFits'
    BY DEF Steady, Succeeded, OpenStages
  <1>2. CASE UNCHANGED <<call, saved, env>>
    <2>1. Succeeded /\ call.steady /\ PackageFits /\ call.file = Package
      BY <1>2 DEF Succeeded, Steady
    <2>2. Package' = Package /\ call'.file = call.file
      BY <1>2, PackageKept
    <2>3. agcKey = None \/ agcKey' = agcKey
      <3>1. CASE AroundStep
        BY <3>1, AroundSteady
      <3>2. CASE CallStep
        <4>1. call.pc = "done"
          BY <2>1 DEF Succeeded
        <4>2. \E type \in {"all", "fast"}, path \in Paths, b \in {saved.boot, call.boot} :
                    Begin(type, path, b)
          BY <3>2, <4>1 DEF CallStep, FastStep, AllStep, At, OpenReadOnly,
                  ReadOnlySame, ReadOnlyChanged, OpenPackage, BlockScene, SignerScene,
                  ReadParameter, RawScene, ChunksScene, OpenAll, SignatureNotFound,
                  Verify, Keep, Refuse, Falter
        <4> QED  BY <4>2 DEF Begin
      <3>3. CASE UNCHANGED vars
        BY <3>3 DEF vars
      <3> QED  BY <3>1, <3>2, <3>3, NextSplit
    <2> QED  BY <1>2, <2>1, <2>2, <2>3, FitsKept
  <1>3. ASSUME call.pc \in OpenStages, call'.file = call.file, call'.path = call.path,
               call'.steady = call.steady, UNCHANGED env,
               WellMade(call.file) =>
                   Fits(call'.boot, call.file, call.path, trusted, enforcing, agcKey')
        PROVE  call'.file = Package' /\ PackageFits'
    <2>1. call.file = Package /\ Package' = Package
      BY <1>3, PackageKept DEF Steady
    <2>2. Package \in Files /\ Package.signer # None
      BY <1>3, <2>1 DEF Stages
    <2>3. trusted' = trusted /\ enforcing' = enforcing
      BY <1>3 DEF env
    <2> QED  BY <1>3, <2>1, <2>2, <2>3 DEF PackageFits
  <1>4. CASE QuietSuccess
    <2>1. /\ call'.file = call.file /\ call'.path = call.path /\ call'.boot = call.boot
          /\ call'.steady = call.steady /\ call.steady /\ UNCHANGED env
          /\ call.pc \in OpenStages
      BY <1>4, SucceedFields DEF QuietSuccess, Goes, OpenStages
    <2>2. ASSUME WellMade(call.file)
          PROVE  Fits(call.boot, call.file, call.path, trusted, enforcing, agcKey')
      <3>1. CASE call.pc \in {"readOnly", "raw"}
        BY <1>4, <2>1, <3>1 DEF QuietSuccess, IsPermissionRawSame, Fits, Stages,
                                Steady, Block
      <3>2. CASE call.pc = "block"
        <4>1. /\ Block # None /\ CheckPermissionDigests(Block, call.boot)
              /\ agcKey = Block.key /\ agcKey # None /\ call.path = "data"
          BY <1>4, <3>2 DEF QuietSuccess, Stages
        <4>2. Block.key = call.file.signer
          BY <2>2, <4>1 DEF WellMade, Block
        <4>3. agcKey' = agcKey
          BY <1>4, <3>2 DEF QuietSuccess
        <4> QED  BY <4>1, <4>2, <4>3 DEF Fits, Block, CheckPermissionDigests
      <3>3. CASE call.pc = "signer"
        BY <1>4, <3>3 DEF QuietSuccess, Stages, Fits, Block, CheckPermissionDigests
      <3>4. CASE call.pc = "chunks"
        BY <1>4, <2>1, <3>4 DEF QuietSuccess, Stages, Steady, Fits, Block, ChunksVouch
      <3> QED  BY <1>4, <3>1, <3>2, <3>3, <3>4 DEF QuietSuccess
    <2> QED  BY <1>3, <2>1, <2>2
  <1>5. CASE ReadOnlyChanged
    <2>1. /\ call'.file = call.file /\ call'.path = call.path
          /\ call'.boot = ReadOnlyBoot /\ call'.steady = call.steady /\ UNCHANGED env
          /\ call.pc = "readOnly" /\ call.path = "system"
      BY <1>5, ChangedFields DEF ReadOnlyChanged, At, Stages
    <2>2. Fits(ReadOnlyBoot, call.file, call.path, trusted, enforcing, agcKey')
      BY <2>1 DEF ReadOnlyBoot, Fits
    <2> QED  BY <1>3, <2>1, <2>2 DEF OpenStages
  <1>6. CASE Keep
    <2>1. /\ call'.file = call.file /\ call'.path = call.path
          /\ call'.boot = NewBoot /\ call'.steady = call.steady /\ UNCHANGED env
          /\ call.pc = "keep" /\ Intact(call.file) /\ call.file.signer \in trusted
          /\ call.file \in Files
      BY <1>6, ChangedFields DEF Keep, At, Stages, Steady, OpenStages
    <2>2. ASSUME WellMade(call.file)
          PROVE  Fits(NewBoot, call.file, call.path, trusted, enforcing, agcKey')
      <3> DEFINE f == call.file
                 c == f.contents
      <3>1. c \in Contents /\ c.zip # None
        BY <2>1, FileTypes, PermissionAssumption DEF PermissionAssumption
      <3>2. c.block # None => ReadPermissionRaw(c) = c.block.raw
        BY <2>2 DEF WellMade
      <3>3. ASSUME enforcing, call.path = "data", c.block = None
            PROVE  /\ NewBoot.chunks = c.zip
                   /\ JsonChunksSame(f, NewBoot) /\ CachedDigestSealed(f, NewBoot)
        <4>1. NewBoot.chunks = c.zip /\ NewBoot.raw = ReadPermissionRaw(c)
          BY <3>3 DEF NewBoot, ChunkDigestOf
        <4>2. JsonChunksSame(f, NewBoot)
          BY <2>2, <4>1 DEF JsonChunksSame, WellMade, ReadPermissionRaw
        <4>3. CachedDigestSealed(f, NewBoot)
          BY <2>1, <3>1, <4>1 DEF CachedDigestSealed, Intact, Contents
        <4> QED  BY <4>1, <4>2, <4>3
      <3>4. NewBoot.raw = ReadPermissionRaw(c)
        BY DEF NewBoot
      <3> QED  BY <2>1, <3>1, <3>2, <3>3, <3>4 DEF Fits
    <2> QED  BY <1>3, <2>1, <2>2 DEF OpenStages
  <1> QED  BY <1>2, <1>4, <1>5, <1>6, SuccessWays

LEMMA SteadyStep ==
    ASSUME TypeOK, Stages, CallerData, Steady, [Next]_vars
    PROVE  Steady'
  <1>1. SUFFICES ASSUME call'.steady, ~Succeeded' PROVE Steady'
    BY SuccessFits DEF Steady
  <1> USE DEF At
  <1>2. ASSUME call'.pc \in {"all", "fast", "done"} PROVE Steady'
    BY <1>1, <1>2 DEF Steady, OpenStages
  <1>3. ASSUME NEW pc \in {"signer", "raw", "chunks", "keep"}, Goto(pc), UNCHANGED env,
               call.pc \in OpenStages, pc = "raw" => ~enforcing,
               pc = "chunks" => enforcing, pc = "keep" => call.file.signer \in trusted
        PROVE  Steady'
    <2>1. /\ call'.pc = pc /\ call'.file = call.file /\ call'.path = call.path
          /\ call'.steady = call.steady /\ Package' = Package
      BY <1>3, GotoFields, PackageKept DEF Goes
    <2>2. call'.file = Package'
      BY <1>1, <1>3, <2>1 DEF Steady
    <2> QED  BY <1>1, <1>3, <2>1, <2>2 DEF Steady, env
  <1>4. CASE AroundStep
    <2>1. call' = call /\ UNCHANGED env
      BY <1>1, <1>4, AroundSteady
    <2> QED  BY <1>1, <2>1 DEF Steady, Package, Succeeded, env
  <1>5. ASSUME NEW type \in {"all", "fast"}, NEW path \in Paths,
               NEW b \in {saved.boot, call.boot}, Begin(type, path, b)
        PROVE  Steady'
    BY <1>2, <1>5, BeginFields
  <1>6. CASE OpenReadOnly \/ OpenPackage \/ OpenAll
    <2>1. /\ call'.pc \in {"readOnly", "block", "verify"} /\ UNCHANGED env
          /\ call'.path = call.path /\ call'.file = files[call.path]
      BY <1>1, <1>6, OpenFields DEF OpenReadOnly, OpenPackage, OpenAll, Goes
    <2> QED  BY <1>1, <2>1 DEF Steady, Package, env
  <1>7. CASE ReadOnlySame \/ ReadOnlyChanged \/ Keep \/ SignatureNotFound \/ Refuse
    BY <1>2, <1>7, SucceedFields, ChangedFields, UnsignedFields, AnswerFields
    DEF ReadOnlySame, ReadOnlyChanged, Keep, Refuse
  <1>8. CASE SignerScene \/ RawScene \/ ChunksScene \/ Falter
    <2>1. Succeed \/ Goto("all") \/ Falter
      BY <1>8 DEF SignerScene, RawScene, ChunksScene, FallBack
    <2> QED  BY <1>2, <2>1, SucceedFields, GotoFields, FalterFields
  <1>9. CASE BlockScene
    <2>1. /\ Succeed \/ Goto("all") \/ Goto("signer")
          /\ call.pc \in OpenStages /\ UNCHANGED env
      BY <1>9 DEF BlockScene, FallBack, OpenStages
    <2>2. CASE Succeed \/ Goto("all")
      BY <1>2, <2>2, SucceedFields, GotoFields
    <2> QED  BY <1>3, <2>1, <2>2
  <1>10. CASE ReadParameter
    <2>1. /\ \/ Goto("all")
             \/ Goto("raw") /\ ~enforcing
             \/ Goto("chunks") /\ enforcing
          /\ call.pc \in OpenStages /\ UNCHANGED env
      BY <1>10 DEF ReadParameter, FallBack, OpenStages
    <2>2. CASE Goto("all")
      BY <1>2, <2>2, GotoFields
    <2> QED  BY <1>3, <2>1, <2>2
  <1>11. CASE Verify
    <2>1. /\ \/ Goto("keep") /\ call.file.signer \in trusted
             \/ Answer("VERIFY_FAIL")
          /\ call.pc \in OpenStages /\ UNCHANGED env
      BY <1>11 DEF Verify, Verified, OpenStages
    <2> QED  BY <1>2, <1>3, <2>1, AnswerFields
  <1>12. CASE UNCHANGED vars
    BY <1>1, <1>12 DEF vars, Steady, Package, Succeeded
  <1> QED
    BY <1>4, <1>5, <1>6, <1>7, <1>8, <1>9, <1>10, <1>11, <1>12, NextSplit
    DEF CallStep, FastStep, AllStep

LEMMA GoesAgain ==
    ASSUME Again, UNCHANGED env, agcKey = None \/ agcKey' = agcKey,
           Goes, call.pc # "done", call'.pc # "fast",
           call.again => call'.file = Package,
           call.again /\ call'.pc = "signer" /\ WellMade(Package) =>
               Package.signer \in trusted
    PROVE  Again'
  <1>1. SUFFICES ASSUME call.again PROVE Again'
    BY DEF Again, Goes
  <1>2. Package' = Package /\ PackageFits'
    BY <1>1, PackageKept, FitsKept DEF Again, Goes
  <1> QED  BY <1>1, <1>2 DEF Again, Goes, env

LEMMA AgainStep ==
    ASSUME TypeOK, Stages, SavedAgrees, Steady, Again, [Next]_vars
    PROVE  Again'
  <1>1. SUFFICES ASSUME call'.again PROVE Again'
    BY DEF Again
  <1> USE DEF At
  <1>2. CASE AroundStep
    <2>1. call' = call /\ UNCHANGED env /\ (agcKey = None \/ agcKey' = agcKey)
      BY <1>1, <1>2, AroundSteady
    <2>2. Package' = Package /\ (call.pc # "done" => PackageFits')
      BY <1>1, <2>1, PackageKept, FitsKept DEF Again
    <2> QED  BY <1>1, <2>1, <2>2 DEF Again, env
  <1>3. ASSUME NEW type \in {"all", "fast"}, NEW path \in Paths,
               NEW b \in {saved.boot, call.boot}, Begin(type, path, b)
        PROVE  Again'
    <2>1. /\ call'.pc = "fast" /\ call'.path = call.path /\ call'.boot = b
          /\ call'.file = None /\ call'.steady /\ call.steady
          /\ Succeeded /\ UNCHANGED env /\ agcKey' = agcKey
      BY <1>1, <1>3, BeginFields DEF Begin, Succeeded
    <2>2. call'.boot = call.boot /\ PackageFits
      BY <2>1 DEF SavedAgrees, Steady
    <2>3. PackageFits'
      BY <2>1, <2>2, FitsKept
    <2> QED  BY <2>1, <2>3 DEF Again
  <1>4. CASE OpenReadOnly \/ OpenPackage \/ OpenAll
    BY <1>1, <1>4, OpenFields, GoesAgain DEF OpenReadOnly, OpenPackage, OpenAll, Package
  <1>5. ASSUME Succeed \/ Falter \/ \E pc \in {"raw", "chunks", "all", "keep"} : Goto(pc),
               call.pc \notin {"fast", "done"}, UNCHANGED env,
               agcKey = None \/ agcKey' = agcKey
        PROVE  Again'
    <2>1. Goes /\ call'.pc \notin {"fast", "signer"} /\ call'.file = call.file
      BY <1>5, SucceedFields, FalterFields, GotoFields
    <2> QED  BY <1>5, <2>1, GoesAgain DEF Again
  <1>6. CASE ReadOnlySame \/ RawScene \/ ChunksScene \/ ReadParameter \/ Falter
    <2>1. Succeed \/ Falter \/ \E pc \in {"raw", "chunks", "all", "keep"} : Goto(pc)
      BY <1>6 DEF ReadOnlySame, RawScene, ChunksScene, ReadParameter, FallBack
    <2> QED
      BY <1>5, <1>6, <2>1 DEF ReadOnlySame, RawScene, ChunksScene, ReadParameter, Falter
  <1>7. CASE SignerScene
    <2>1. Succeed \/ Goto("all")
      BY <1>7 DEF SignerScene, FallBack
    <2>2. agcKey = None \/ agcKey' = agcKey
      BY <1>7 DEF SignerScene, TryCacheAgcPubKey
    <2> QED  BY <1>5, <1>7, <2>1, <2>2 DEF SignerScene
  <1>8. CASE ReadOnlyChanged \/ Keep
    <2>1. /\ call'.pc = "done" /\ call'.file = call.file /\ call'.path = call.path
          /\ call'.steady = call.steady /\ call'.again = call.again
          /\ call.pc # "fast" /\ UNCHANGED env
      BY <1>8, ChangedFields DEF ReadOnlyChanged, Keep
    <2> QED  BY <1>1, <2>1, PackageKept DEF Again
  <1>9. CASE BlockScene
    <2>1. CASE Goto("signer")
      <3>1. /\ agcKey' = agcKey /\ UNCHANGED env /\ call.pc = "block"
            /\ agcKey # Block.key /\ Block # None
        <4>1. ~Succeed /\ ~Goto("all")
          BY <2>1, SucceedFields, GotoFields
        <4> QED  BY <1>9, <4>1 DEF BlockScene, FallBack
      <3>2. Goes /\ call'.pc = "signer" /\ call'.file = call.file
        BY <2>1, GotoFields
      <3>3. ASSUME call.again, WellMade(Package) PROVE Package.signer \in trusted
        <4>1. /\ call.file = Package /\ call.path = "data"
              /\ Fits(call.boot, Package, call.path, trusted, enforcing, agcKey)
          BY <3>1, <3>3 DEF Again, PackageFits, Stages
        <4>2. Block.key = Package.signer
          BY <3>1, <3>3, <4>1 DEF WellMade, Block
        <4> QED  BY <3>1, <4>1, <4>2 DEF Fits, Block
      <3> QED  BY <3>1, <3>2, <3>3, GoesAgain DEF Again
    <2>2. CASE ~Goto("signer")
      <3>1. Succeed \/ Goto("all")
        BY <1>9, <2>2 DEF BlockScene, FallBack
      <3> QED  BY <1>5, <1>9, <3>1 DEF BlockScene
    <2> QED  BY <2>1, <2>2
  <1>10. CASE SignatureNotFound \/ Refuse
    BY <1>1, <1>10, UnsignedFields, AnswerFields DEF Refuse
  <1>11. CASE Verify
    <2>1. Goto("keep") \/ Answer("VERIFY_FAIL")
      BY <1>11 DEF Verify
    <2> QED  BY <1>1, <1>5, <1>11, <2>1, AnswerFields DEF Verify
  <1>12. CASE UNCHANGED vars
    BY <1>1, <1>12 DEF vars, Again, Package, PackageFits
  <1> QED
    BY <1>2, <1>3, <1>4, <1>6, <1>7, <1>8, <1>9, <1>10, <1>11, <1>12, NextSplit
    DEF CallStep, FastStep, AllStep

LEMMA QuickAgainStep ==
    ASSUME TypeOK, Stages, Steady, Again, QuickAgain, [Next]_vars
    PROVE  QuickAgain'
  <1>1. SUFFICES ASSUME call'.again, call'.file # None, WellMade(call'.file), ~call'.fault
                 PROVE  /\ call'.pc \notin {"all", "verify", "keep"}
                        /\ call'.pc = "done" =>
                              call'.ret = "VERIFY_SUCCESS" /\ ~call'.isChanged
    BY DEF QuickAgain
  <1> USE DEF At
  <1>2. CASE AroundStep
    <2>1. call' = call
      BY <1>1, <1>2, AroundSteady
    <2> QED  BY <1>1, <2>1 DEF QuickAgain
  <1>3. ASSUME NEW type \in {"all", "fast"}, NEW path \in Paths,
               NEW b \in {saved.boot, call.boot}, Begin(type, path, b)
        PROVE  FALSE
    BY <1>1, <1>3, BeginFields
  <1>4. CASE OpenReadOnly \/ OpenPackage
    BY <1>1, <1>4, OpenFields DEF OpenReadOnly, OpenPackage
  <1>5. ASSUME Succeed, call.pc # "done"
        PROVE  call'.pc = "done" /\ call'.ret = "VERIFY_SUCCESS" /\ ~call'.isChanged
    BY <1>5, SucceedFields DEF Stages, Goes
  \* The package that the scenes have open is the one that fits.
  <1>6. ASSUME call.pc \in OpenStages, call'.file = call.file, call'.again = call.again
        PROVE  /\ call.file = Package /\ call.steady /\ WellMade(call.file)
               /\ Fits(call.boot, call.file, call.path, trusted, enforcing, agcKey)
    BY <1>1, <1>6 DEF Again, PackageFits, OpenStages
  \* Scene 1 has not been entered.
  <1>7. ASSUME call.pc \in {"all", "verify", "keep"}, call'.again = call.again,
               call'.fault = call.fault, call'.file \in {call.file, Package}
        PROVE  FALSE
    BY <1>1, <1>7 DEF Again, QuickAgain
  <1>8. CASE ReadOnlySame
    BY <1>5, <1>8 DEF ReadOnlySame
  <1>9. CASE ReadOnlyChanged
    <2>1. /\ call.pc = "readOnly" /\ call'.file = call.file /\ call'.again = call.again
          /\ ~IsPermissionRawSame(call.boot) /\ call.path = "system"
      BY <1>9, ChangedFields DEF ReadOnlyChanged, Stages
    <2>2. Fits(call.boot, call.file, call.path, trusted, enforcing, agcKey)
      BY <1>6, <2>1 DEF OpenStages
    <2> QED  BY <2>1, <2>2 DEF Fits, IsPermissionRawSame
  <1>10. ASSUME Goto("all"), call.pc \in OpenStages
         PROVE  /\ call.file \in Files /\ call.file = Package /\ call.steady
                /\ WellMade(call.file)
                /\ Fits(call.boot, call.file, call.path, trusted, enforcing, agcKey)
    BY <1>6, <1>10, GotoFields DEF Goes, Stages
  <1>11. CASE BlockScene
    <2>1. call.pc = "block" /\ Block # None /\ call.path = "data"
      BY <1>11 DEF BlockScene, Stages
    <2>2. ~Goto("all")
      <3>1. SUFFICES ASSUME Goto("all") PROVE FALSE
        OBVIOUS
      <3>2. /\ call.file \in Files /\ WellMade(call.file) /\ call.file.signer # None
            /\ Fits(call.boot, call.file, call.path, trusted, enforcing, agcKey)
        BY <1>10, <2>1, <3>1 DEF OpenStages, Stages
      <3>3. Block.raw = ReadPermissionRaw(call.file.contents) /\ Block.key # None
        BY <2>1, <3>2 DEF WellMade, Block
      <3>4. call.boot.raw = Block.raw
        BY <2>1, <3>2 DEF Fits, Block
      <3>5. CheckPermissionDigests(Block, call.boot)
        BY <3>2, <3>3, <3>4, FileTypes, RawTypes DEF CheckPermissionDigests
      <3>6. Succeed \/ Goto("signer")
        BY <1>11, <3>3, <3>5 DEF BlockScene
      <3> QED  BY <3>1, <3>6, SucceedFields, GotoFields
    <2>3. Succeed \/ Goto("signer")
      BY <1>11, <2>2 DEF BlockScene, FallBack
    <2> QED  BY <1>5, <2>1, <2>3, GotoFields
  <1>12. CASE SignerScene
    <2>1. call.pc = "signer" /\ Block # None
      BY <1>12 DEF SignerScene, Stages
    <2>2. ~Goto("all")
      <3>1. SUFFICES ASSUME Goto("all") PROVE FALSE
        OBVIOUS
      <3>2. call.again
        BY <1>1, <3>1, GotoFields DEF Goes
      <3>3. /\ call.file = Package /\ WellMade(call.file)
            /\ call.file.signer \in trusted
        BY <1>10, <2>1, <3>1, <3>2 DEF OpenStages, Again
      <3>4. Block.key = call.file.signer
        BY <2>1, <3>3 DEF WellMade, Block
      <3>5. Succeed
        BY <1>12, <3>3, <3>4 DEF SignerScene
      <3> QED  BY <3>1, <3>5, SucceedFields, GotoFields
    <2>3. Succeed
      BY <1>12, <2>2 DEF SignerScene, FallBack
    <2> QED  BY <1>5, <2>1, <2>3
  <1>13. CASE ReadParameter
    <2>1. call.pc = "block" /\ Block = None /\ call.path = "data"
      BY <1>13 DEF ReadParameter, Stages
    <2>2. ~Goto("all")
      <3>1. SUFFICES ASSUME Goto("all") PROVE FALSE
        OBVIOUS
      <3>2. Fits(call.boot, call.file, call.path, trusted, enforcing, agcKey)
        BY <1>10, <2>1, <3>1 DEF OpenStages
      <3>3. enforcing => call.boot.chunks # None
        BY <2>1, <3>2 DEF Fits, Block
      <3>4. Goto("raw") \/ Goto("chunks")
        BY <1>13, <3>3 DEF ReadParameter
      <3> QED  BY <3>1, <3>4, GotoFields
    <2>3. Goto("raw") \/ Goto("chunks")
      BY <1>13, <2>2 DEF ReadParameter, FallBack
    <2> QED  BY <2>3, GotoFields
  <1>14. CASE RawScene \/ ChunksScene
    <2>1. ~Goto("all")
      <3>1. SUFFICES ASSUME Goto("all") PROVE FALSE
        OBVIOUS
      <3>2. call.pc \in {"raw", "chunks"} /\ Block = None /\ call.path = "data"
        BY <1>14 DEF RawScene, ChunksScene, Stages
      <3>3. /\ Fits(call.boot, call.file, call.path, trusted, enforcing, agcKey)
            /\ call.steady
        BY <1>10, <3>1, <3>2 DEF OpenStages
      <3>4. Succeed
        BY <1>14, <3>2, <3>3
        DEF RawScene, ChunksScene, Steady, Fits, Block, IsPermissionRawSame, ChunksVouch
      <3> QED  BY <3>1, <3>4, SucceedFields, GotoFields
    <2>2. Succeed /\ call.pc # "done"
      BY <1>14, <2>1 DEF RawScene, ChunksScene, FallBack
    <2> QED  BY <1>5, <2>2
  <1>15. CASE OpenAll
    <2>1. /\ call.pc = "all" /\ call'.again = call.again /\ call'.fault = call.fault
          /\ call'.file = Package
      BY <1>1, <1>15, OpenFields DEF OpenAll, Package, Goes
    <2> QED  BY <1>7, <2>1
  <1>16. CASE Verify
    <2>1. call.pc = "verify" /\ (Goto("keep") \/ Answer("VERIFY_FAIL"))
      BY <1>16 DEF Verify
    <2>2. /\ call'.again = call.again /\ call'.fault = call.fault
          /\ call'.file = call.file
      BY <1>1, <2>1, GotoFields, AnswerFields DEF Goes
    <2> QED  BY <1>7, <2>1, <2>2
  <1>17. CASE Keep
    BY <1>7, <1>17, ChangedFields DEF Keep
  <1>18. CASE SignatureNotFound \/ Refuse \/ Falter
    BY <1>1, <1>18, UnsignedFields, AnswerFields, FalterFields DEF Refuse
  <1>19. CASE UNCHANGED vars
    BY <1>1, <1>19 DEF vars, QuickAgain
  <1> QED
    BY <1>2, <1>3, <1>4, <1>8, <1>9, <1>11, <1>12, <1>13, <1>14, <1>15, <1>16,
       <1>17, <1>18, <1>19, NextSplit DEF CallStep, FastStep, AllStep

-----------------------------------------------------------------------------
(* The theorems.                                                           *)

PermissionInv ==
    /\ TypeOK /\ Stages /\ Trusting /\ CallerData
    /\ SavedAgrees /\ CacheVouched /\ CacheCurrent
    /\ Steady /\ Again /\ QuickAgain

LEMMA InvInit == Init => PermissionInv
  <1> SUFFICES ASSUME Init PROVE PermissionInv
    OBVIOUS
  <1>1. ~Succeeded /\ ~call.steady /\ ~call.again
    BY DEF Init, Idle, NewCall, Succeeded
  <1>2. Trusting
    BY DEF Init, Idle, NewCall, Trusting
  <1> QED
    BY <1>1, <1>2, TypeInit, StagesInit, CallerDataInit
    DEF PermissionInv, SavedAgrees, CacheVouched, CacheCurrent, Steady, Again, QuickAgain

LEMMA InvStep == PermissionInv /\ [Next]_vars => PermissionInv'
  BY TypeStep, StagesStep, TrustingStep, CallerDataStep, SavedAgreesStep,
     CacheVouchedStep, CacheCurrentStep, SteadyStep, AgainStep, QuickAgainStep
  DEF PermissionInv

LEMMA InvAlways == Spec => []PermissionInv
  BY InvInit, InvStep, PTL DEF Spec

\* Every field of the call, of what is saved and of the environment keeps its
\* type, and the cached key is always one that IsAgcCert accepted.
THEOREM TypeCorrect == Spec => []TypeOK
  <1>1. PermissionInv => TypeOK
    BY DEF PermissionInv
  <1> QED  BY <1>1, InvAlways, PTL

\* VerifyOrParseHapPermission, for any packages, signers and order of events:
\* under enforcement the JSON that a caller goes on with was signed by somebody
\* the device trusts.
THEOREM CachedJsonVouched == Spec => []CacheVouched
  <1>1. PermissionInv => CacheVouched
    BY DEF PermissionInv
  <1> QED  BY <1>1, InvAlways, PTL

\* On a package that is as its signer made it, every scene leaves the caller with
\* the JSON of that package, and all but 2-2-2-2 with its profile.
THEOREM CachedJsonCurrent == Spec => []CacheCurrent
  <1>1. PermissionInv => CacheCurrent
    BY DEF PermissionInv
  <1> QED  BY <1>1, InvAlways, PTL

\* isChanged tells the truth: after a success the caller's disk and memory agree.
THEOREM ChangesAreSaved == Spec => []SavedAgrees
  <1>1. PermissionInv => SavedAgrees
    BY DEF PermissionInv
  <1> QED  BY <1>1, InvAlways, PTL

\* Whatever the first success was, the next fast call on the same well-made
\* package, under the same parameter and trust, succeeds without verifying it.
THEOREM FastAgain == Spec => []QuickAgain
  <1>1. PermissionInv => QuickAgain
    BY DEF PermissionInv
  <1> QED  BY <1>1, InvAlways, PTL
=============================================================================
