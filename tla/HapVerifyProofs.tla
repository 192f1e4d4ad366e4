-------------------------- MODULE HapVerifyProofs --------------------------
(***************************************************************************)
(* What a call of HapVerify promises, for every set of certificates,       *)
(* sources, profiles and tickets, and whatever switches during the call.   *)
(*                                                                         *)
(* The properties of HapVerify speak of a call that hands out a provision. *)
(* The invariant says what the call has established by each of its steps,  *)
(* part by part, so that the part that one step establishes is still there *)
(* when the provision is handed out, however the call ends.                *)
(***************************************************************************)
EXTENDS HapVerify, TLAPS

-----------------------------------------------------------------------------
\* The steps of the call, from one on to the last before the provision.
FromSource      == {"source", "profile", "profileChain", "profileSource",
                    "provision", "profileInfo", "ticket", "certificate", "identity"}
FromProfile     == FromSource \ {"source"}
FromChain       == FromProfile \ {"profile"}
FromProvision   == FromChain \ {"profileChain", "profileSource"}
FromProfileInfo == FromProvision \ {"provision"}
FromTicket      == FromProfileInfo \ {"profileInfo"}
FromCertificate == FromTicket \ {"ticket"}
Answering       == {"integrity", "developer", "resign", "resigner"}

Reached(steps) == call.pc \in steps \/ Answered

\* The provision is there from GenerateIdentity on, and only then.
AnsweredPart ==
    /\ Answered => call.pc \in Answering \cup {"done"}
    /\ call.pc \in Answering => Answered

SignerPart ==
    Reached(FromSource) => call.cert \in Certs /\ Rooted(call.cert)

SourcePart ==
    /\ call.pc \in {"find", "signature", "source"} => call.source = None
    /\ Reached(FromProfile) /\ call.source # None =>
            /\ call.source \in Entries
            /\ call.source.app = call.cert.name
            /\ call.source.root = call.cert.root

\* What VerifyProfileChain has seen of the envelope.
ChainHolds == call.signed.fault = "none" /\ Rooted(call.signed.cert)

VouchedBy(s) ==
    call.signed.cert.name = IF call.vouched = "RELEASE" THEN s.release ELSE s.debug

ProfilePart ==
    /\ Reached(FromChain) =>
            /\ call.profile \in Profiles
            /\ NeedsSignature => call.signed \in Envelopes
    /\ call.pc \in {"profileChain", "profileSource"} => NeedsSignature
    /\ call.pc = "profileSource" => ChainHolds
    /\ Reached(FromProvision) /\ NeedsSignature =>
            /\ ChainHolds
            /\ call.vouched \in Types
            /\ \E s \in Entries :
                    VouchedBy(s) /\ (call.source = None => s.root = call.cert.root)

DeviceListed(p) ==
    \/ p.devices = "listed"
    \/ p.devices = "others" /\ "development" \in seen

DevicePart ==
    Reached(FromProfileInfo) =>
        /\ ParseProvision(call.profile)
        /\ call.profile.type = "DEBUG" =>
                DeviceListed(call.profile) \/ "rdDevice" \in seen
        /\ call.profile.dist = "INTERNALTESTING" => DeviceListed(call.profile)

\* The package of no known source: vouched for by its type, with its ticket,
\* signed by the certificate that the profile names.
UnknownPart ==
    /\ call.pc \in {"profileInfo", "ticket", "certificate"} =>
            call.source = None /\ call.info = Provision(call.profile)
    /\ Reached(FromTicket) /\ call.source = None => call.vouched = call.profile.type
    /\ Reached({"identity"}) /\ call.source = None =>
            call.cert = CertInProfile(call.profile)

TicketPart ==
    Reached(FromCertificate) /\ call.source = None
          /\ call.profile.type = "RELEASE" /\ call.profile.dist = "APP_GALLERY" =>
        /\ call.ticket \in [ticket: Tickets, signer: Certs]
        /\ Rooted(call.ticket.signer)
        /\ call.ticket.signer.name \in TicketSigners
        /\ call.ticket.ticket.profile.type = "RELEASE"
        /\ call.ticket.ticket.profile.distribution = call.profile.distribution
        /\ call.ticket.ticket.profile.devices = "listed"

InfoPart ==
    /\ call.pc = "identity" =>
            /\ call.info \in ProvisionInfo
            /\ AppIdCert(call.info) # None
            /\ call.info.dist = call.profile.dist
            /\ call.info.distribution = call.profile.distribution
            /\ ~call.info.isEnterpriseResigned
            /\ call.source = None => call.info.development = call.cert
    /\ Answered => call.provision.dist = call.profile.dist

ResignPart ==
    /\ call.pc # "done" => call.ret = "none"
    /\ call.pc \notin {"resigner", "done"} => call.resigner = None
    /\ call.pc \in {"resign", "resigner"} => call.resign
    /\ call.pc = "resigner" => call.resigner \in Certs /\ Rooted(call.resigner)
    /\ Answered /\ call.pc # "done" => ~call.provision.isEnterpriseResigned

Established ==
    /\ AnsweredPart /\ SignerPart /\ SourcePart /\ ProfilePart /\ DevicePart
    /\ UnknownPart /\ TicketPart /\ InfoPart /\ ResignPart

IInv == TypeOK /\ Established /\ IdentityOfSigner /\ ResignJustified

-----------------------------------------------------------------------------
\* A root that a lookup finds is trusted at some moment of the call.
LEMMA RootTrustedRooted ==
    ASSUME TypeOK, NEW cert, RootTrusted(cert.root)
    PROVE  Rooted(cert)
BY DEF TypeOK, RootTrusted, Rooted

LEMMA Pkcs7ResultCode ==
    ASSUME NEW e
    PROVE  Pkcs7Result(e) \in {"VERIFY_SUCCESS", "VERIFY_APP_PKCS7_FAIL",
                               "CERTIFICATE_EXPIRED"}
BY DEF Pkcs7Result

LEMMA Pkcs7Success ==
    ASSUME TypeOK, NEW e \in Envelopes, Pkcs7Result(e) = "VERIFY_SUCCESS"
    PROVE  e.cert \in Certs /\ e.fault = "none" /\ Rooted(e.cert)
<1>1. RootTrusted(e.cert.root) /\ e.fault \notin {"form", "expired", "refused"}
  BY DEF Pkcs7Result
<1>2. Rooted(e.cert)
  BY <1>1, RootTrustedRooted
<1> QED
  BY <1>1, <1>2 DEF Envelopes, Faults

\* A call that forgets what it has read has established nothing.
LEMMA Forgotten ==
    ASSUME call'.pc \in {"find", "done"}, call'.pc = "find" => call'.ret = "none",
           call'.source = None, call'.provision = None, call'.resigner = None
    PROVE  Established' /\ IdentityOfSigner' /\ ResignJustified'
<1>1. Established'
  BY DEF Established, AnsweredPart, SignerPart, SourcePart, ProfilePart, DevicePart,
         UnknownPart, TicketPart, InfoPart, ResignPart, Reached, Answered, Answering,
         FromSource, FromProfile, FromChain, FromProvision, FromProfileInfo,
         FromTicket, FromCertificate
<1> QED
  BY <1>1 DEF IdentityOfSigner, ResignJustified, Answered

LEMMA Fails ==
    ASSUME IInv, NEW code \in Codes, Fail(code), UNCHANGED <<facts, seen>>
    PROVE  IInv'
<1>1. /\ call'.pc = "done"
      /\ call'.source = None /\ call'.provision = None /\ call'.resigner = None
  BY DEF Fail, NewCall
<1>2. call' \in CallType
  BY DEF Fail, NewCall, CallType, IInv, TypeOK
<1>3. Established' /\ IdentityOfSigner' /\ ResignJustified'
  BY <1>1, Forgotten
<1> QED
  BY <1>2, <1>3 DEF IInv, TypeOK

\* An end after the provision changes nothing but the answer.
LEMMA Ends ==
    ASSUME IInv, call.pc \in Answering, NEW code \in Codes, End(code),
           code = "VERIFY_SUCCESS" => call.resigner = None,
           UNCHANGED <<facts, seen>>
    PROVE  IInv'
<1>1. call' = [call EXCEPT !.pc = "done", !.ret = code]
  BY DEF End
<1>2. call \in CallType
  BY DEF IInv, TypeOK
<1>3. TypeOK'
  BY <1>1, <1>2 DEF IInv, TypeOK, CallType, Codes
<1>4. /\ call'.pc = "done" /\ call'.ret = code
      /\ call'.resign = call.resign /\ call'.cert = call.cert
      /\ call'.source = call.source /\ call'.profile = call.profile
      /\ call'.signed = call.signed /\ call'.vouched = call.vouched
      /\ call'.ticket = call.ticket /\ call'.info = call.info
      /\ call'.provision = call.provision /\ call'.resigner = call.resigner
  BY <1>1, <1>2 DEF CallType
<1>5. Answered
  BY DEF IInv, Established, AnsweredPart
<1>6. ~call.provision.isEnterpriseResigned
  BY <1>5 DEF IInv, Established, ResignPart, Answering
<1>7. AnsweredPart'
  BY <1>4, <1>5 DEF AnsweredPart, Answered, Answering
<1>8. SignerPart' /\ SourcePart'
  BY <1>4, <1>5 DEF IInv, Established, SignerPart, SourcePart, Reached, Answered,
         Rooted, Entries
<1>9. ProfilePart'
  BY <1>4, <1>5 DEF IInv, Established, ProfilePart, Reached, Answered,
         NeedsSignature, ChainHolds, VouchedBy, Rooted, Entries
<1>10. DevicePart' /\ UnknownPart'
  BY <1>4, <1>5 DEF IInv, Established, DevicePart, UnknownPart, Reached, Answered,
         DeviceListed
<1>11. TicketPart' /\ InfoPart' /\ ResignPart'
  BY <1>4, <1>5, <1>6 DEF IInv, Established, TicketPart, InfoPart, ResignPart,
         Reached, Answered, Rooted
<1>12. IdentityOfSigner' /\ ResignJustified'
  BY <1>4, <1>5, <1>6 DEF IInv, IdentityOfSigner, ResignJustified, Answered
<1> QED
  BY <1>3, <1>7, <1>8, <1>9, <1>10, <1>11, <1>12 DEF IInv, Established

-----------------------------------------------------------------------------
(* What holds of a call stays true when a fact of the device changes: what *)
(* has been seen only grows.                                               *)

LEMMA SwitchKeeps ==
    ASSUME IInv, NEW fact \in Switchable, Switch(fact)
    PROVE  IInv'
<1>1. /\ call' = call /\ seen \subseteq seen' /\ facts' \subseteq seen'
      /\ fact # "enterprise" /\ fact \in Facts
      /\ facts' = facts \ {fact} \/ facts' = facts \cup {fact}
  BY DataAssumption DEF Switch
<1>2. TypeOK'
  BY <1>1 DEF Switch, IInv, TypeOK
<1>3. Entries \subseteq Entries' /\ \A cert : Rooted(cert) => Rooted(cert)'
  BY <1>1 DEF Entries, Rooted
<1>4. AnsweredPart' /\ SignerPart' /\ SourcePart'
  BY <1>1, <1>3 DEF IInv, Established, AnsweredPart, SignerPart, SourcePart, Reached, Answered
<1>5. ProfilePart'
  <2>1. ChainHolds => ChainHolds'
    BY <1>1, <1>3 DEF ChainHolds
  <2> QED
    BY <1>1, <1>3, <2>1 DEF IInv, Established, ProfilePart, Reached, Answered,
           NeedsSignature, VouchedBy
<1>6. DevicePart' /\ UnknownPart'
  BY <1>1 DEF IInv, Established, DevicePart, UnknownPart, Reached, Answered, DeviceListed
<1>7. TicketPart' /\ InfoPart' /\ ResignPart'
  BY <1>1, <1>3 DEF IInv, Established, TicketPart, InfoPart, ResignPart, Reached, Answered
<1>8. IdentityOfSigner' /\ ResignJustified'
  BY <1>1, <1>3 DEF IInv, IdentityOfSigner, ResignJustified, Answered
<1> QED
  BY <1>2, <1>4, <1>5, <1>6, <1>7, <1>8 DEF IInv, Established

LEMMA BeginKeeps ==
    ASSUME IInv, NEW resign \in BOOLEAN, Begin(resign)
    PROVE  IInv'
<1>1. /\ call'.pc = "find" /\ call'.ret = "none"
      /\ call'.source = None /\ call'.provision = None /\ call'.resigner = None
  BY DEF Begin, NewCall
<1>2. call' \in CallType
  BY DEF Begin, NewCall, CallType, Codes
<1>3. Established' /\ IdentityOfSigner' /\ ResignJustified'
  BY <1>1, Forgotten
<1> QED
  BY <1>2, <1>3 DEF Begin, IInv, TypeOK

-----------------------------------------------------------------------------
(* The steps before there is a provision: the parts that speak of one hold *)
(* by the type, those of the steps to come have nothing to say.            *)

LEMMA NoProvisionYet ==
    ASSUME IInv, call.pc \notin Answering \cup {"done"}
    PROVE  ~Answered /\ call.ret = "none" /\ call.resigner = None
BY DEF IInv, Established, AnsweredPart, ResignPart, Answering

\* The parts that no step before the provision can disturb.
LEMMA NotAnswered ==
    ASSUME IInv, call.pc \notin Answering \cup {"done"},
           call' \in CallType, call'.pc \notin Answering \cup {"done"},
           call'.provision = call.provision, call'.ret = call.ret,
           call'.resigner = call.resigner, UNCHANGED <<facts, seen>>
    PROVE  /\ ~Answered' /\ TypeOK' /\ AnsweredPart' /\ ResignPart'
           /\ IdentityOfSigner' /\ ResignJustified'
<1>1. ~Answered /\ call.ret = "none" /\ call.resigner = None
  BY NoProvisionYet
<1>2. ~Answered'
  BY <1>1 DEF Answered
<1> QED
  BY <1>1, <1>2 DEF IInv, TypeOK, AnsweredPart, ResignPart, IdentityOfSigner,
         ResignJustified, Answering

LEMMA SourceStepKeeps ==
    ASSUME IInv, SourceStep
    PROVE  IInv'
<1> USE DEF At
<1>0. call \in CallType /\ UNCHANGED <<facts, seen>>
  BY DEF SourceStep, FindHapSignature, VerifyAppPkcs7, UnknownSource, KnownSource, IInv, TypeOK
<1>1. ASSUME NEW found \in BOOLEAN, FindHapSignature(found)
      PROVE  IInv'
  <2>1. CASE ~found
    BY <1>1, <2>1, Fails DEF FindHapSignature, Codes
  <2>2. CASE found
    <3>1. call.pc = "find" /\ call' = [call EXCEPT !.pc = "signature"]
      BY <1>1, <2>2 DEF FindHapSignature, Goto
    <3>2. call' \in CallType
      BY <1>0, <3>1 DEF CallType
    <3>3. /\ ~Answered' /\ TypeOK' /\ AnsweredPart' /\ ResignPart'
          /\ IdentityOfSigner' /\ ResignJustified'
      BY <1>0, <3>1, <3>2, NotAnswered DEF CallType, Answering
    <3>4. Established'
      BY <1>0, <3>1, <3>3 DEF IInv, Established, SignerPart, SourcePart, ProfilePart, DevicePart,
             UnknownPart, TicketPart, InfoPart, Reached, CallType, FromSource,
             FromProfile, FromChain, FromProvision, FromProfileInfo, FromTicket,
             FromCertificate
    <3> QED
      BY <3>3, <3>4 DEF IInv
  <2> QED
    BY <2>1, <2>2
<1>2. ASSUME NEW e \in Envelopes, NEW hasProfile \in BOOLEAN, VerifyAppPkcs7(e, hasProfile)
      PROVE  IInv'
  <2>1. CASE Pkcs7Result(e) # "VERIFY_SUCCESS"
    BY <1>2, <2>1, Fails, Pkcs7ResultCode DEF VerifyAppPkcs7, Codes
  <2>2. CASE Pkcs7Result(e) = "VERIFY_SUCCESS" /\ ~hasProfile
    BY <1>2, <2>2, Fails DEF VerifyAppPkcs7, Codes
  <2>3. CASE Pkcs7Result(e) = "VERIFY_SUCCESS" /\ hasProfile
    <3>1. call.pc = "signature" /\ call' = [call EXCEPT !.pc = "source", !.cert = e.cert]
      BY <1>2, <2>3 DEF VerifyAppPkcs7
    <3>2. e.cert \in Certs /\ Rooted(e.cert)
      BY <2>3, Pkcs7Success DEF IInv
    <3>3. call' \in CallType
      BY <1>0, <3>1, <3>2 DEF CallType
    <3>4. /\ ~Answered' /\ TypeOK' /\ AnsweredPart' /\ ResignPart'
          /\ IdentityOfSigner' /\ ResignJustified'
      BY <1>0, <3>1, <3>3, NotAnswered DEF CallType, Answering
    <3>5. SignerPart' /\ SourcePart'
      BY <1>0, <3>1, <3>2, <3>4 DEF IInv, Established, SignerPart, SourcePart, Reached,
             CallType, Rooted, FromProfile, FromSource
    <3>6. Established'
      BY <1>0, <3>1, <3>4, <3>5 DEF Established, ProfilePart, DevicePart,
             UnknownPart, TicketPart, InfoPart, Reached, CallType, FromSource,
             FromProfile, FromChain, FromProvision, FromProfileInfo, FromTicket,
             FromCertificate
    <3> QED
      BY <3>4, <3>6 DEF IInv
  <2> QED
    BY <2>1, <2>2, <2>3
<1>3. ASSUME UnknownSource
      PROVE  IInv'
  <2>1. call.pc = "source" /\ call' = [call EXCEPT !.pc = "profile"]
    BY <1>3 DEF UnknownSource, Goto
  <2>2. call' \in CallType
    BY <1>0, <2>1 DEF CallType
  <2>3. /\ ~Answered' /\ TypeOK' /\ AnsweredPart' /\ ResignPart'
        /\ IdentityOfSigner' /\ ResignJustified'
    BY <1>0, <2>1, <2>2, NotAnswered DEF CallType, Answering
  <2>4. SignerPart' /\ SourcePart'
    BY <1>0, <2>1, <2>3 DEF IInv, Established, SignerPart, SourcePart, Reached, CallType,
           Rooted, FromProfile, FromSource
  <2>5. Established'
    BY <1>0, <2>1, <2>3, <2>4 DEF Established, ProfilePart, DevicePart, UnknownPart,
           TicketPart, InfoPart, Reached, CallType, FromSource, FromProfile, FromChain,
           FromProvision, FromProfileInfo, FromTicket, FromCertificate
  <2> QED
    BY <2>3, <2>5 DEF IInv
<1>4. ASSUME NEW entry \in Sources, KnownSource(entry)
      PROVE  IInv'
  <2>1. CASE ~SameRoot(entry)
    BY <1>4, <2>1, Fails DEF KnownSource, Codes
  <2>2. CASE SameRoot(entry)
    <3>1. /\ call.pc = "source"
          /\ call' = [call EXCEPT !.pc = "profile", !.source = entry]
      BY <1>4, <2>2 DEF KnownSource
    <3>2. /\ entry \in Entries
          /\ entry.app = call.cert.name /\ entry.root = call.cert.root
      BY <1>4, <2>2 DEF KnownSource, AppMatches, ReleaseFirst, Consulted, Entries, SameRoot,
             IInv, TypeOK
    <3>3. call' \in CallType
      BY <1>0, <3>1 DEF CallType
    <3>4. /\ ~Answered' /\ TypeOK' /\ AnsweredPart' /\ ResignPart'
          /\ IdentityOfSigner' /\ ResignJustified'
      BY <1>0, <3>1, <3>3, NotAnswered DEF CallType, Answering
    <3>5. SignerPart' /\ SourcePart'
      BY <1>0, <3>1, <3>2, <3>4 DEF IInv, Established, SignerPart, SourcePart, Reached,
             CallType, Rooted, Entries, FromProfile, FromSource
    <3>6. Established'
      BY <1>0, <3>1, <3>4, <3>5 DEF Established, ProfilePart, DevicePart, UnknownPart,
             TicketPart, InfoPart, Reached, CallType, FromSource, FromProfile, FromChain,
             FromProvision, FromProfileInfo, FromTicket, FromCertificate
    <3> QED
      BY <3>4, <3>6 DEF IInv
  <2> QED
    BY <2>1, <2>2
<1> QED
  BY <1>1, <1>2, <1>3, <1>4 DEF SourceStep

LEMMA RawNeedsNoSignature == ~(IsRaw /\ NeedsSignature)
BY DEF IsRaw, NeedsSignature

LEMMA ParseRawProfileKeeps ==
    ASSUME IInv, NEW p \in Profiles, ParseRawProfile(p)
    PROVE  IInv'
<1>0. call \in CallType /\ UNCHANGED <<facts, seen>>
  BY DEF ParseRawProfile, At, IInv, TypeOK
<1>1. /\ call.pc = "profile" /\ IsRaw
      /\ call' = [call EXCEPT !.pc = "provision", !.profile = p]
  BY DEF ParseRawProfile, At
<1>2. call' \in CallType
  BY <1>0, <1>1 DEF CallType
<1>3. /\ ~Answered' /\ TypeOK' /\ AnsweredPart' /\ ResignPart'
      /\ IdentityOfSigner' /\ ResignJustified'
  BY <1>0, <1>1, <1>2, NotAnswered DEF CallType, Answering
<1>4. SignerPart' /\ SourcePart'
  BY <1>0, <1>1, <1>3 DEF IInv, Established, SignerPart, SourcePart, Reached, CallType,
         Rooted, Entries, FromSource, FromProfile
<1>5. ~NeedsSignature'
  BY <1>0, <1>1, RawNeedsNoSignature DEF NeedsSignature, CallType
<1>6. ProfilePart'
  BY <1>0, <1>1, <1>3, <1>5 DEF ProfilePart, Reached, CallType
<1>7. DevicePart' /\ UnknownPart' /\ TicketPart' /\ InfoPart'
  BY <1>0, <1>1, <1>3 DEF DevicePart, UnknownPart, TicketPart, InfoPart, Reached, CallType,
         FromProfileInfo, FromTicket, FromCertificate, FromProvision, FromChain,
         FromProfile, FromSource
<1> QED
  BY <1>3, <1>4, <1>6, <1>7 DEF IInv, Established

LEMMA ParseProfileKeeps ==
    ASSUME IInv, NEW p \in Profiles, NEW e \in Envelopes, ParseProfile(p, e)
    PROVE  IInv'
<1>0. call \in CallType /\ UNCHANGED <<facts, seen>>
  BY DEF ParseProfile, At, IInv, TypeOK
<1>1. CASE e.fault = "form"
  BY <1>1, Fails DEF ParseProfile, At, Codes
<1>2. CASE e.fault # "form"
  <2> DEFINE next == IF NeedsSignature THEN "profileChain" ELSE "provision"
  <2>1. /\ call.pc = "profile"
        /\ call' = [call EXCEPT !.profile = p, !.signed = e, !.pc = next]
    BY <1>2 DEF ParseProfile, At
  <2>2. next \in {"profileChain", "provision"} /\ (NeedsSignature => next = "profileChain")
        /\ (next = "profileChain" => NeedsSignature)
    OBVIOUS
  <2> HIDE DEF next
  <2>3. call' \in CallType
    BY <1>0, <2>1, <2>2 DEF CallType
  <2>4. /\ ~Answered' /\ TypeOK' /\ AnsweredPart' /\ ResignPart'
        /\ IdentityOfSigner' /\ ResignJustified'
    BY <1>0, <2>1, <2>2, <2>3, NotAnswered DEF CallType, Answering
  <2>5. SignerPart' /\ SourcePart'
    BY <1>0, <2>1, <2>2, <2>4 DEF IInv, Established, SignerPart, SourcePart, Reached, CallType,
           Rooted, Entries, FromSource, FromProfile
  <2>6. NeedsSignature' <=> NeedsSignature
    BY <1>0, <2>1 DEF NeedsSignature, CallType
  <2>7. ProfilePart'
    BY <1>0, <2>1, <2>2, <2>4, <2>6 DEF ProfilePart, Reached, CallType, FromProvision,
           FromChain, FromProfile, FromSource
  <2>8. DevicePart' /\ UnknownPart' /\ TicketPart' /\ InfoPart'
    BY <1>0, <2>1, <2>2, <2>4 DEF DevicePart, UnknownPart, TicketPart, InfoPart, Reached,
           CallType, FromProfileInfo, FromTicket, FromCertificate, FromProvision,
           FromChain, FromProfile, FromSource
  <2> QED
    BY <2>4, <2>5, <2>7, <2>8 DEF IInv, Established
<1> QED
  BY <1>1, <1>2

LEMMA VerifyProfileChainKeeps ==
    ASSUME IInv, VerifyProfileChain
    PROVE  IInv'
<1>0. call \in CallType /\ UNCHANGED <<facts, seen>> /\ call.pc = "profileChain"
  BY DEF VerifyProfileChain, At, IInv, TypeOK
<1>1. CASE Pkcs7Result(call.signed) # "VERIFY_SUCCESS"
  BY <1>0, <1>1, Fails DEF VerifyProfileChain, Codes
<1>2. CASE Pkcs7Result(call.signed) = "VERIFY_SUCCESS"
  <2>1. call' = [call EXCEPT !.pc = "profileSource"]
    BY <1>2 DEF VerifyProfileChain, Goto
  <2>2. /\ call.profile \in Profiles /\ call.signed \in Envelopes /\ NeedsSignature
    BY <1>0 DEF IInv, Established, ProfilePart, Reached, FromChain, FromProfile, FromSource
  <2>3. call.signed.fault = "none" /\ Rooted(call.signed.cert)
    BY <1>2, <2>2, Pkcs7Success DEF IInv
  <2>4. call' \in CallType
    BY <1>0, <2>1 DEF CallType
  <2>5. /\ ~Answered' /\ TypeOK' /\ AnsweredPart' /\ ResignPart'
        /\ IdentityOfSigner' /\ ResignJustified'
    BY <1>0, <2>1, <2>4, NotAnswered DEF CallType, Answering
  <2>6. SignerPart' /\ SourcePart'
    BY <1>0, <2>1, <2>5 DEF IInv, Established, SignerPart, SourcePart, Reached, CallType,
           Rooted, Entries, FromSource, FromProfile
  <2>7. ProfilePart'
    BY <1>0, <2>1, <2>2, <2>3, <2>5 DEF ProfilePart, Reached, CallType, NeedsSignature,
           ChainHolds, Rooted, FromProvision, FromChain, FromProfile, FromSource
  <2>8. DevicePart' /\ UnknownPart' /\ TicketPart' /\ InfoPart'
    BY <1>0, <2>1, <2>5 DEF DevicePart, UnknownPart, TicketPart, InfoPart, Reached,
           CallType, FromProfileInfo, FromTicket, FromCertificate, FromProvision,
           FromChain, FromProfile, FromSource
  <2> QED
    BY <2>5, <2>6, <2>7, <2>8 DEF IInv, Established
<1> QED
  BY <1>1, <1>2

LEMMA KnownProfileSourceKeeps ==
    ASSUME IInv, NEW entry \in Sources, KnownProfileSource(entry)
    PROVE  IInv'
<1>0. call \in CallType /\ UNCHANGED <<facts, seen>> /\ call.pc = "profileSource"
  BY DEF KnownProfileSource, At, IInv, TypeOK
<1>1. CASE call.source = None /\ entry.root # call.cert.root
  BY <1>0, <1>1, Fails DEF KnownProfileSource, Codes
<1>2. CASE ~(call.source = None /\ entry.root # call.cert.root)
  <2> DEFINE type == IF call.signed.cert.name = entry.release THEN "RELEASE" ELSE "DEBUG"
  <2>1. call' = [call EXCEPT !.pc = "provision", !.vouched = type]
    BY <1>2 DEF KnownProfileSource
  <2>2. entry \in Entries /\ call.signed.cert.name \in {entry.release, entry.debug}
    BY DEF KnownProfileSource, ProfileMatches, ReleaseFirst, Consulted, Entries, IInv, TypeOK
  <2>3. /\ type \in Types
        /\ call.signed.cert.name = IF type = "RELEASE" THEN entry.release ELSE entry.debug
    BY <2>2 DEF Types
  <2> HIDE DEF type
  <2>4. /\ call.profile \in Profiles /\ call.signed \in Envelopes /\ NeedsSignature
        /\ ChainHolds
    BY <1>0 DEF IInv, Established, ProfilePart, Reached, FromChain, FromProfile, FromSource
  <2>5. call' \in CallType
    BY <1>0, <2>1, <2>3 DEF CallType
  <2>6. /\ ~Answered' /\ TypeOK' /\ AnsweredPart' /\ ResignPart'
        /\ IdentityOfSigner' /\ ResignJustified'
    BY <1>0, <2>1, <2>5, NotAnswered DEF CallType, Answering
  <2>7. SignerPart' /\ SourcePart'
    BY <1>0, <2>1, <2>6 DEF IInv, Established, SignerPart, SourcePart, Reached, CallType,
           Rooted, Entries, FromSource, FromProfile
  <2>8. /\ call'.pc = "provision" /\ call'.profile = call.profile
        /\ call'.signed = call.signed /\ call'.source = call.source
        /\ call'.cert = call.cert /\ call'.vouched = type
    BY <1>0, <2>1 DEF CallType
  <2>9. ChainHolds' /\ entry \in Entries' /\ VouchedBy(entry)'
    BY <1>0, <2>2, <2>3, <2>4, <2>8 DEF ChainHolds, Rooted, Entries, VouchedBy
  <2>10. ProfilePart'
    BY <1>2, <2>3, <2>4, <2>8, <2>9 DEF ProfilePart
  <2>11. DevicePart' /\ UnknownPart' /\ TicketPart' /\ InfoPart'
    BY <2>6, <2>8 DEF DevicePart, UnknownPart, TicketPart, InfoPart, Reached,
           FromProfileInfo, FromTicket, FromCertificate, FromProvision,
           FromChain, FromProfile, FromSource
  <2> QED
    BY <2>6, <2>7, <2>10, <2>11 DEF IInv, Established
<1> QED
  BY <1>1, <1>2

\* What the checks of the profile say, in terms of what has been seen.
LEMMA ParseAndVerifySuccess ==
    ASSUME TypeOK, NEW p \in Profiles, NEW udid \in BOOLEAN,
           ParseAndVerify(p, udid) = "VERIFY_SUCCESS"
    PROVE  /\ ParseProvision(p)
           /\ p.type = "DEBUG" => DeviceListed(p) \/ "rdDevice" \in seen
           /\ p.dist = "INTERNALTESTING" => DeviceListed(p)
<1>1. ParseProvision(p) /\ (NeedsDevice(p) => CheckDeviceID(p, udid) = "VERIFY_SUCCESS")
  BY DEF ParseAndVerify
<1>2. p.devices \in Devices
  BY DataAssumption DEF AllProfiles
<1>3. NeedsDevice(p) => DeviceListed(p)
  <2>1. CASE p.devices = "empty" \/ p.devices = "otherType"
    BY <1>1, <2>1 DEF CheckDeviceID
  <2>2. CASE p.devices = "listed"
    BY <2>2 DEF DeviceListed
  <2>3. CASE p.devices = "others"
    BY <1>1, <2>3 DEF CheckDeviceID, DeviceListed, TypeOK
  <2> QED
    BY <1>2, <2>1, <2>2, <2>3 DEF Devices
<1> QED
  BY <1>1, <1>3 DEF NeedsDevice, TypeOK

LEMMA ParseAndVerifyCode ==
    ASSUME NEW p \in Profiles, NEW udid \in BOOLEAN
    PROVE  ParseAndVerify(p, udid) \in Codes
<1>1. p.devices \in Devices
  BY DataAssumption DEF AllProfiles
<1>2. CheckDeviceID(p, udid) \in Codes
  BY <1>1 DEF CheckDeviceID, Devices, Codes
<1> QED
  BY <1>2 DEF ParseAndVerify, Codes

LEMMA ProvisionType ==
    ASSUME NEW p \in Profiles
    PROVE  /\ Provision(p) \in ProvisionInfo
           /\ ParseProvision(p) => AppIdCert(Provision(p)) # None
<1>1. p \in AllProfiles
  BY DataAssumption
<1> QED
  BY <1>1 DEF Provision, ProvisionInfo, AllProfiles, ParseProvision, AppIdCert, Types

LEMMA VerifyProvisionKeeps ==
    ASSUME IInv, NEW udid \in BOOLEAN, VerifyProvision(udid)
    PROVE  IInv'
<1>0. call \in CallType /\ UNCHANGED <<facts, seen>> /\ call.pc = "provision"
  BY DEF VerifyProvision, At, IInv, TypeOK
<1>1. call.profile \in Profiles
  BY <1>0 DEF IInv, Established, ProfilePart, Reached, FromChain, FromProfile, FromSource
<1>2. CASE ParseAndVerify(call.profile, udid) # "VERIFY_SUCCESS"
  BY <1>0, <1>1, <1>2, Fails, ParseAndVerifyCode DEF VerifyProvision
<1>3. CASE ParseAndVerify(call.profile, udid) = "VERIFY_SUCCESS"
  <2> DEFINE next == IF call.source = None THEN "profileInfo" ELSE "identity"
             info == Provision(call.profile)
  <2>1. call' = [call EXCEPT !.info = info, !.pc = next]
    BY <1>3 DEF VerifyProvision
  <2>2. /\ info \in ProvisionInfo /\ AppIdCert(info) # None
        /\ info.dist = call.profile.dist
        /\ info.distribution = call.profile.distribution
        /\ ~info.isEnterpriseResigned
    BY <1>1, <1>3, ProvisionType, ParseAndVerifySuccess DEF Provision, IInv
  <2>3. /\ next \in {"profileInfo", "identity"}
        /\ next = "profileInfo" <=> call.source = None
    OBVIOUS
  <2>4. info = Provision(call.profile)
    OBVIOUS
  <2> HIDE DEF next, info
  <2>5. call' \in CallType
    BY <1>0, <2>1, <2>2, <2>3 DEF CallType
  <2>6. /\ ~Answered' /\ TypeOK' /\ AnsweredPart' /\ ResignPart'
        /\ IdentityOfSigner' /\ ResignJustified'
    BY <1>0, <2>1, <2>3, <2>5, NotAnswered DEF CallType, Answering
  <2>7. /\ call'.pc = next /\ call'.profile = call.profile
        /\ call'.signed = call.signed /\ call'.source = call.source
        /\ call'.cert = call.cert /\ call'.vouched = call.vouched
        /\ call'.info = info
    BY <1>0, <2>1 DEF CallType
  <2>8. SignerPart' /\ SourcePart'
    BY <1>0, <2>3, <2>6, <2>7 DEF IInv, Established, SignerPart, SourcePart, Reached,
           Rooted, Entries, FromSource, FromProfile
  <2>9. ProfilePart'
    BY <1>0, <2>3, <2>6, <2>7 DEF IInv, Established, ProfilePart, Reached, NeedsSignature,
           ChainHolds, VouchedBy, Rooted, Entries, FromProvision, FromChain, FromProfile,
           FromSource
  <2>10. DevicePart'
    BY <1>0, <1>1, <1>3, <2>7, ParseAndVerifySuccess DEF IInv, DevicePart, DeviceListed
  <2>11. UnknownPart' /\ TicketPart' /\ InfoPart'
    BY <2>2, <2>3, <2>4, <2>6, <2>7 DEF UnknownPart, TicketPart, InfoPart, Reached,
           FromTicket, FromCertificate, FromProfileInfo, FromProvision, FromChain,
           FromProfile, FromSource
  <2> QED
    BY <2>6, <2>8, <2>9, <2>10, <2>11 DEF IInv, Established
<1> QED
  BY <1>2, <1>3

LEMMA ProfileStepKeeps ==
    ASSUME IInv, ProfileStep
    PROVE  IInv'
<1>1. ASSUME UnknownProfileSource
      PROVE  IInv'
  BY <1>1, Fails DEF UnknownProfileSource, At, Codes
<1> QED
  BY <1>1, ParseRawProfileKeeps, ParseProfileKeeps, VerifyProfileChainKeeps,
     KnownProfileSourceKeeps, VerifyProvisionKeeps DEF ProfileStep

-----------------------------------------------------------------------------
(* A package of no known source.                                           *)

LEMMA DistributionTypeKeeps ==
    ASSUME IInv, IsAppDistributedTypeAllowInstall
    PROVE  IInv'
<1>0. /\ call \in CallType /\ UNCHANGED <<facts, seen>> /\ call.pc = "profileInfo"
      /\ call.source = None /\ call.info = Provision(call.profile)
  BY DEF IsAppDistributedTypeAllowInstall, At, IInv, TypeOK, Established, UnknownPart
<1>1. CASE ~CheckProfileSignatureIsRight
  BY <1>0, <1>1, Fails DEF IsAppDistributedTypeAllowInstall, Codes
<1>2. CASE CheckProfileSignatureIsRight
  <2> DEFINE gallery == call.info.type = "RELEASE" /\ call.info.dist = "APP_GALLERY"
             next    == IF gallery THEN "ticket" ELSE "certificate"
  <2>1. call' = [call EXCEPT !.pc = next]
    BY <1>2 DEF IsAppDistributedTypeAllowInstall, Goto
  <2>2. /\ next \in {"ticket", "certificate"}
        /\ call.profile.type = "RELEASE" /\ call.profile.dist = "APP_GALLERY" =>
                next = "ticket"
    BY <1>0 DEF Provision
  <2>3. call.vouched = call.profile.type
    BY <1>0, <1>2 DEF CheckProfileSignatureIsRight, Provision
  <2> HIDE DEF next
  <2>4. call' \in CallType
    BY <1>0, <2>1, <2>2 DEF CallType
  <2>5. /\ ~Answered' /\ TypeOK' /\ AnsweredPart' /\ ResignPart'
        /\ IdentityOfSigner' /\ ResignJustified'
    BY <1>0, <2>1, <2>2, <2>4, NotAnswered DEF CallType, Answering
  <2>6. /\ call'.pc = next /\ call'.profile = call.profile
        /\ call'.signed = call.signed /\ call'.source = call.source
        /\ call'.cert = call.cert /\ call'.vouched = call.vouched
        /\ call'.info = call.info
    BY <1>0, <2>1 DEF CallType
  <2>7. SignerPart' /\ SourcePart'
    BY <1>0, <2>2, <2>5, <2>6 DEF IInv, Established, SignerPart, SourcePart, Reached,
           Rooted, Entries, FromSource, FromProfile
  <2>8. ProfilePart'
    BY <1>0, <2>2, <2>5, <2>6 DEF IInv, Established, ProfilePart, Reached, NeedsSignature,
           ChainHolds, VouchedBy, Rooted, Entries, FromProvision, FromChain, FromProfile,
           FromSource
  <2>9. DevicePart'
    BY <1>0, <2>2, <2>5, <2>6 DEF IInv, Established, DevicePart, Reached, DeviceListed,
           FromProfileInfo, FromProvision, FromChain, FromProfile, FromSource
  <2>10. UnknownPart' /\ TicketPart' /\ InfoPart'
    BY <1>0, <2>2, <2>3, <2>5, <2>6 DEF UnknownPart, TicketPart, InfoPart, Reached,
           FromTicket, FromCertificate, FromProfileInfo, FromProvision, FromChain,
           FromProfile, FromSource
  <2> QED
    BY <2>5, <2>7, <2>8, <2>9, <2>10 DEF IInv, Established
<1> QED
  BY <1>1, <1>2

LEMMA CheckTicketSourceKeeps ==
    ASSUME IInv, NEW t \in Tickets, NEW e \in Envelopes, NEW udid \in BOOLEAN,
           CheckTicketSource(t, e, udid)
    PROVE  IInv'
<1>0. /\ call \in CallType /\ UNCHANGED <<facts, seen>> /\ call.pc = "ticket"
      /\ call.source = None /\ call.info = Provision(call.profile)
  BY DEF CheckTicketSource, At, IInv, TypeOK, Established, UnknownPart
<1>1. CASE ~VerifyTicket(t, e, udid)
  BY <1>0, <1>1, Fails DEF CheckTicketSource, Codes
<1>2. CASE VerifyTicket(t, e, udid)
  <2> DEFINE ticket == [ticket |-> t, signer |-> e.cert]
  <2>1. call' = [call EXCEPT !.pc = "certificate", !.ticket = ticket]
    BY <1>2 DEF CheckTicketSource
  <2>2. e.cert \in Certs /\ Rooted(e.cert) /\ e.cert.name \in TicketSigners
    BY <1>2, Pkcs7Success DEF VerifyTicket, IInv
  <2>3. /\ t.profile.type = call.profile.type /\ t.profile.devices = "listed"
        /\ t.profile.type # "DEBUG" =>
                t.profile.distribution = call.profile.distribution
    BY <1>0, <1>2 DEF VerifyTicket, CompareTicketAndProfile, Provision
  <2>4. call' \in CallType
    <3>1. ticket \in [ticket: Tickets, signer: Certs]
      BY <2>2
    <3>2. call \in CallType
      BY <1>0
    <3> HIDE DEF ticket
    <3> QED
      BY <2>1, <3>1, <3>2 DEF CallType
  <2>5. /\ ~Answered' /\ TypeOK' /\ AnsweredPart' /\ ResignPart'
        /\ IdentityOfSigner' /\ ResignJustified'
    BY <1>0, <2>1, <2>4, NotAnswered DEF CallType, Answering
  <2>6. /\ call'.pc = "certificate" /\ call'.profile = call.profile
        /\ call'.signed = call.signed /\ call'.source = call.source
        /\ call'.cert = call.cert /\ call'.vouched = call.vouched
        /\ call'.info = call.info /\ call'.ticket = ticket
    BY <1>0, <2>1 DEF CallType
  <2>7. SignerPart' /\ SourcePart'
    BY <1>0, <2>5, <2>6 DEF IInv, Established, SignerPart, SourcePart, Reached,
           Rooted, Entries, FromSource, FromProfile
  <2>8. ProfilePart'
    BY <1>0, <2>5, <2>6 DEF IInv, Established, ProfilePart, Reached, NeedsSignature,
           ChainHolds, VouchedBy, Rooted, Entries, FromProvision, FromChain, FromProfile,
           FromSource
  <2>9. DevicePart'
    BY <1>0, <2>5, <2>6 DEF IInv, Established, DevicePart, Reached, DeviceListed,
           FromProfileInfo, FromProvision, FromChain, FromProfile, FromSource
  <2>10. UnknownPart' /\ InfoPart'
    BY <1>0, <2>5, <2>6 DEF IInv, Established, UnknownPart, InfoPart, Reached,
           FromTicket, FromProfileInfo, FromProvision, FromChain, FromProfile, FromSource
  <2>11. TicketPart'
    BY <1>0, <2>2, <2>3, <2>6 DEF TicketPart, Rooted
  <2> QED
    BY <2>5, <2>7, <2>8, <2>9, <2>10, <2>11 DEF IInv, Established
<1> QED
  BY <1>1, <1>2

LEMMA CompareSignerKeeps ==
    ASSUME IInv, CompareSignerWithProfile
    PROVE  IInv'
<1>0. /\ call \in CallType /\ UNCHANGED <<facts, seen>> /\ call.pc = "certificate"
      /\ call.source = None /\ call.info = Provision(call.profile)
  BY DEF CompareSignerWithProfile, At, IInv, TypeOK, Established, UnknownPart
<1>1. CASE call.cert # CertInProfile(call.info)
  BY <1>0, <1>1, Fails DEF CompareSignerWithProfile, Codes
<1>2. CASE call.cert = CertInProfile(call.info)
  <2> DEFINE info == [call.info EXCEPT !.development = call.cert]
  <2>1. call' = [call EXCEPT !.pc = "identity", !.info.development = call.cert]
    BY <1>2 DEF CompareSignerWithProfile
  <2>2. /\ call.profile \in Profiles /\ ParseProvision(call.profile)
        /\ call.cert \in Certs
    BY <1>0 DEF IInv, Established, ProfilePart, DevicePart, SignerPart, Reached,
           FromProfileInfo, FromProvision, FromChain, FromProfile, FromSource
  <2>3. call.info \in ProvisionInfo
    BY <1>0, <2>2, ProvisionType
  <2>4. call'.info = info
    BY <1>0, <2>1, <2>3 DEF CallType
  <2>5. call.cert = CertInProfile(call.profile)
    BY <1>0, <1>2 DEF CertInProfile, Provision
  <2>6. call.cert # None
    BY <2>2, DataAssumption
  <2>7. /\ info \in ProvisionInfo /\ AppIdCert(info) # None
        /\ info.dist = call.profile.dist /\ info.development = call.cert
        /\ info.distribution = call.profile.distribution
        /\ ~info.isEnterpriseResigned
    <3>1. info \in ProvisionInfo
      BY <2>2, <2>3 DEF ProvisionInfo
    <3>2. /\ info.development = call.cert /\ info.dist = call.info.dist
          /\ info.distribution = call.info.distribution
          /\ info.isEnterpriseResigned = call.info.isEnterpriseResigned
      BY <2>3 DEF ProvisionInfo
    <3> HIDE DEF info
    <3> QED
      BY <1>0, <2>6, <3>1, <3>2 DEF Provision, AppIdCert
  <2>8. call' = [call EXCEPT !.pc = "identity", !.info = info]
    BY <1>0, <2>1
  <2> HIDE DEF info
  <2>9. call' \in CallType
    <3>1. call \in CallType /\ info \in ProvisionInfo
      BY <1>0, <2>7
    <3> QED
      BY <2>8, <3>1 DEF CallType
  <2>10. /\ ~Answered' /\ TypeOK' /\ AnsweredPart' /\ ResignPart'
         /\ IdentityOfSigner' /\ ResignJustified'
    BY <1>0, <2>8, <2>9, NotAnswered DEF CallType, Answering
  <2>11. /\ call'.pc = "identity" /\ call'.profile = call.profile
         /\ call'.signed = call.signed /\ call'.source = call.source
         /\ call'.cert = call.cert /\ call'.vouched = call.vouched
         /\ call'.ticket = call.ticket
    BY <1>0, <2>8 DEF CallType
  <2>12. SignerPart' /\ SourcePart'
    BY <1>0, <2>10, <2>11 DEF IInv, Established, SignerPart, SourcePart, Reached,
           Rooted, Entries, FromSource, FromProfile
  <2>13. ProfilePart'
    BY <1>0, <2>10, <2>11 DEF IInv, Established, ProfilePart, Reached, NeedsSignature,
           ChainHolds, VouchedBy, Rooted, Entries, FromProvision, FromChain, FromProfile,
           FromSource
  <2>14. DevicePart'
    BY <1>0, <2>10, <2>11 DEF IInv, Established, DevicePart, Reached, DeviceListed,
           FromProfileInfo, FromProvision, FromChain, FromProfile, FromSource
  <2>15. UnknownPart'
    BY <1>0, <2>5, <2>10, <2>11 DEF IInv, Established, UnknownPart, Reached, CertInProfile,
           FromTicket, FromProfileInfo, FromProvision, FromChain, FromProfile, FromSource
  <2>16. TicketPart' /\ InfoPart'
    BY <1>0, <2>4, <2>7, <2>10, <2>11 DEF IInv, Established, TicketPart, InfoPart, Reached,
           Rooted, AppIdCert, FromCertificate, FromTicket, FromProfileInfo, FromProvision,
           FromChain, FromProfile, FromSource
  <2> QED
    BY <2>10, <2>12, <2>13, <2>14, <2>15, <2>16 DEF IInv, Established
<1> QED
  BY <1>1, <1>2

LEMMA ProfileInfoStepKeeps ==
    ASSUME IInv, ProfileInfoStep
    PROVE  IInv'
<1>1. ASSUME NoTicket
      PROVE  IInv'
  BY <1>1, Fails DEF NoTicket, At, Codes
<1> QED
  BY <1>1, DistributionTypeKeeps, CheckTicketSourceKeeps, CompareSignerKeeps
     DEF ProfileInfoStep

-----------------------------------------------------------------------------
(* The answer.                                                             *)

LEMMA GenerateIdentityKeeps ==
    ASSUME IInv, NEW readable \in BOOLEAN, GenerateIdentity(readable)
    PROVE  IInv'
<1>0. call \in CallType /\ UNCHANGED <<facts, seen>> /\ call.pc = "identity"
  BY DEF GenerateIdentity, At, IInv, TypeOK
<1>1. CASE ~readable
  BY <1>0, <1>1, Fails DEF GenerateIdentity, Codes
<1>2. CASE readable
  <2> DEFINE id   == AppIdCert(call.info)
             info == [call.info EXCEPT !.distribution = id, !.appId = id,
                         !.isOpenHarmony = call.cert.root = OpenHarmony]
  <2>1. call' = [call EXCEPT !.pc = "integrity", !.info = info, !.provision = info]
    BY <1>2 DEF GenerateIdentity
  <2>2. /\ call.info \in ProvisionInfo /\ id # None
        /\ call.info.dist = call.profile.dist
        /\ call.info.distribution = call.profile.distribution
        /\ ~call.info.isEnterpriseResigned
        /\ call.source = None => call.info.development = call.cert
    BY <1>0 DEF IInv, Established, InfoPart
  <2>3. id \in Certs
    BY <2>2 DEF AppIdCert, ProvisionInfo
  <2>4. info \in ProvisionInfo
    BY <2>2, <2>3 DEF ProvisionInfo
  <2>5. /\ info.appId = id /\ info.distribution = id
        /\ info.development = call.info.development /\ info.dist = call.info.dist
        /\ info.isEnterpriseResigned = call.info.isEnterpriseResigned
    BY <2>2 DEF ProvisionInfo
  <2>6. call.source = None /\ id # call.cert =>
            call.profile.type = "DEBUG" /\ call.profile.distribution # None
    <3>1. SUFFICES ASSUME call.source = None, id # call.cert
                   PROVE  call.profile.type = "DEBUG" /\ call.profile.distribution # None
      OBVIOUS
    <3>2. call.profile.distribution # None /\ id = call.profile.distribution
      BY <2>2, <3>1 DEF AppIdCert
    <3>3. call.cert = CertInProfile(call.profile) /\ call.profile \in AllProfiles
      BY <1>0, <3>1, DataAssumption DEF IInv, Established, UnknownPart, ProfilePart, Reached,
             FromChain, FromProfile, FromSource
    <3> QED
      BY <3>1, <3>2, <3>3 DEF CertInProfile, AllProfiles, Types
  <2>7. id # None
    BY <2>2
  <2> HIDE DEF info, id
  <2>8. call' \in CallType
    <3>1. call \in CallType /\ info \in ProvisionInfo /\ info.appId # None
      BY <1>0, <2>4, <2>5, <2>7
    <3> QED
      BY <2>1, <3>1 DEF CallType
  <2>9. /\ call'.pc = "integrity" /\ call'.profile = call.profile
        /\ call'.signed = call.signed /\ call'.source = call.source
        /\ call'.cert = call.cert /\ call'.vouched = call.vouched
        /\ call'.ticket = call.ticket /\ call'.provision = info
        /\ call'.ret = call.ret /\ call'.resigner = call.resigner
    BY <1>0, <2>1 DEF CallType
  <2>10. info # None
    BY <2>4, DataAssumption
  <2>11. Answered'
    BY <2>9, <2>10 DEF Answered
  <2>12. TypeOK' /\ AnsweredPart'
    BY <1>0, <2>8, <2>9, <2>11 DEF IInv, TypeOK, AnsweredPart, Answering
  <2>13. SignerPart' /\ SourcePart'
    BY <1>0, <2>9 DEF IInv, Established, SignerPart, SourcePart, Reached,
           Rooted, Entries, FromSource, FromProfile
  <2>14. ProfilePart'
    BY <1>0, <2>9 DEF IInv, Established, ProfilePart, Reached, NeedsSignature,
           ChainHolds, VouchedBy, Rooted, Entries, FromProvision, FromChain, FromProfile,
           FromSource
  <2>15. DevicePart'
    BY <1>0, <2>9 DEF IInv, Established, DevicePart, Reached, DeviceListed,
           FromProfileInfo, FromProvision, FromChain, FromProfile, FromSource
  <2>16. UnknownPart'
    BY <1>0, <2>9 DEF IInv, Established, UnknownPart, Reached,
           FromTicket, FromProfileInfo, FromProvision, FromChain, FromProfile, FromSource
  <2>17. TicketPart' /\ InfoPart'
    BY <1>0, <2>2, <2>5, <2>9 DEF IInv, Established, TicketPart, InfoPart, Reached,
           Rooted, FromCertificate, FromTicket, FromProfileInfo, FromProvision,
           FromChain, FromProfile, FromSource
  <2>18. call.ret = "none" /\ call.resigner = None
    BY <1>0 DEF IInv, Established, ResignPart
  <2>19. ResignPart' /\ ResignJustified'
    BY <1>0, <2>2, <2>5, <2>9, <2>18 DEF ResignPart, ResignJustified
  <2>20. IdentityOfSigner'
    BY <2>2, <2>5, <2>6, <2>9 DEF IdentityOfSigner
  <2> QED
    BY <2>11, <2>12, <2>13, <2>14, <2>15, <2>16, <2>17, <2>19, <2>20 DEF IInv, Established
<1> QED
  BY <1>1, <1>2

\* A step between two checks of the answer, which keeps what has been read.
LEMMA Continues ==
    ASSUME IInv, call.pc \in Answering, NEW next \in Answering,
           NEW resigner \in Certs \cup {None},
           call' = [call EXCEPT !.pc = next, !.resigner = resigner],
           next # "resigner" => resigner = None,
           next \in {"resign", "resigner"} => call.resign,
           next = "resigner" => resigner \in Certs /\ Rooted(resigner),
           UNCHANGED <<facts, seen>>
    PROVE  IInv'
<1>1. call \in CallType
  BY DEF IInv, TypeOK
<1>2. call' \in CallType
  BY <1>1 DEF CallType, Answering
<1>3. /\ call'.pc = next /\ call'.ret = call.ret
      /\ call'.resign = call.resign /\ call'.cert = call.cert
      /\ call'.source = call.source /\ call'.profile = call.profile
      /\ call'.signed = call.signed /\ call'.vouched = call.vouched
      /\ call'.ticket = call.ticket /\ call'.info = call.info
      /\ call'.provision = call.provision /\ call'.resigner = resigner
  BY <1>1 DEF CallType
<1>4. Answered /\ Answered'
  BY <1>3 DEF IInv, Established, AnsweredPart, Answered
<1>5. call.ret = "none" /\ ~call.provision.isEnterpriseResigned
  BY <1>4 DEF IInv, Established, ResignPart, Answering
<1>6. TypeOK' /\ AnsweredPart'
  BY <1>2, <1>3, <1>4 DEF IInv, TypeOK, AnsweredPart, Answering
<1>7. SignerPart' /\ SourcePart'
  BY <1>3, <1>4 DEF IInv, Established, SignerPart, SourcePart, Reached,
         Rooted, Entries, Answering
<1>8. ProfilePart'
  BY <1>3, <1>4 DEF IInv, Established, ProfilePart, Reached, Answering,
         NeedsSignature, ChainHolds, VouchedBy, Rooted, Entries
<1>9. DevicePart' /\ UnknownPart'
  BY <1>3, <1>4 DEF IInv, Established, DevicePart, UnknownPart, Reached, DeviceListed, Answering
<1>10. TicketPart' /\ InfoPart'
  BY <1>3, <1>4 DEF IInv, Established, TicketPart, InfoPart, Reached, Rooted, Answering
<1>11. ResignPart' /\ ResignJustified'
  BY <1>3, <1>5 DEF ResignPart, ResignJustified, Rooted, Answering
<1>12. IdentityOfSigner'
  BY <1>3, <1>4 DEF IInv, IdentityOfSigner
<1> QED
  BY <1>6, <1>7, <1>8, <1>9, <1>10, <1>11, <1>12 DEF IInv, Established

LEMMA CheckDeveloperCertKeeps ==
    ASSUME IInv, CheckDeveloperCert
    PROVE  IInv'
<1>0. /\ call.pc = "developer" /\ call.resigner = None
      /\ call \in CallType /\ UNCHANGED <<facts, seen>>
  BY DEF CheckDeveloperCert, At, IInv, TypeOK, Established, ResignPart
<1>1. CASE End("VERIFY_BINARY_DEVELOPER_CERT_FAIL")
  BY <1>0, <1>1, Ends DEF Codes, Answering
<1>2. CASE Succeed
  BY <1>0, <1>2, Ends DEF Succeed, Codes, Answering
<1>3. CASE call.resign /\ Goto("resign")
  <2>1. call' = [call EXCEPT !.pc = "resign", !.resigner = None]
    BY <1>0, <1>3 DEF Goto, CallType
  <2> QED
    BY <1>0, <1>3, <2>1, Continues DEF Answering
<1> QED
  BY <1>1, <1>2, <1>3 DEF CheckDeveloperCert

LEMMA VerifyResignPkcs7Keeps ==
    ASSUME IInv, NEW e \in Envelopes, VerifyResignPkcs7(e)
    PROVE  IInv'
<1>0. /\ call.pc = "resign" /\ call.resign /\ UNCHANGED <<facts, seen>>
  BY DEF VerifyResignPkcs7, At, IInv, Established, ResignPart
<1>1. CASE Pkcs7Result(e) # "VERIFY_SUCCESS"
  <2>1. Pkcs7Result(e) \in Codes
    BY Pkcs7ResultCode DEF Codes
  <2> QED
    BY <1>0, <1>1, <2>1, Ends DEF VerifyResignPkcs7, Answering
<1>2. CASE Pkcs7Result(e) = "VERIFY_SUCCESS"
  <2>1. call' = [call EXCEPT !.pc = "resigner", !.resigner = e.cert]
    BY <1>2 DEF VerifyResignPkcs7
  <2>2. e.cert \in Certs /\ Rooted(e.cert)
    BY <1>2, Pkcs7Success DEF IInv
  <2> QED
    BY <1>0, <2>1, <2>2, Continues DEF Answering
<1> QED
  BY <1>1, <1>2

LEMMA VerifyResignKeeps ==
    ASSUME IInv, NEW intact \in BOOLEAN, VerifyResign(intact)
    PROVE  IInv'
<1>0. /\ call.pc = "resigner" /\ call.resign /\ UNCHANGED <<facts, seen>>
      /\ call.resigner \in Certs /\ Rooted(call.resigner) /\ call \in CallType
  BY DEF VerifyResign, At, IInv, TypeOK, Established, ResignPart
<1>1. CASE EnterpriseResignMgr # "VERIFY_SUCCESS"
  <2>1. EnterpriseResignMgr \in Codes
    BY DEF EnterpriseResignMgr, Codes
  <2> QED
    BY <1>0, <1>1, <2>1, Ends DEF VerifyResign, Answering
<1>2. CASE EnterpriseResignMgr = "VERIFY_SUCCESS" /\ ~intact
  BY <1>0, <1>2, Ends DEF VerifyResign, Answering, Codes, IntegrityCodes
<1>3. CASE EnterpriseResignMgr = "VERIFY_SUCCESS" /\ intact
  <2> DEFINE info == [call.provision EXCEPT !.isEnterpriseResigned = TRUE]
  <2>1. call' = [call EXCEPT !.pc = "done", !.ret = "VERIFY_SUCCESS",
                    !.provision.isEnterpriseResigned = TRUE]
    BY <1>3 DEF VerifyResign
  <2>2. Answered
    BY <1>0 DEF IInv, Established, AnsweredPart, Answering
  <2>3. call.provision \in ProvisionInfo /\ call.provision.appId # None
    BY <1>0, <2>2 DEF CallType, Answered
  <2>4. /\ info \in ProvisionInfo /\ info.appId = call.provision.appId
        /\ info.development = call.provision.development
        /\ info.distribution = call.provision.distribution
        /\ info.dist = call.provision.dist /\ info.isEnterpriseResigned
    BY <2>3 DEF ProvisionInfo
  <2>5. call' = [call EXCEPT !.pc = "done", !.ret = "VERIFY_SUCCESS", !.provision = info]
    BY <2>1
  <2> HIDE DEF info
  <2>6. call' \in CallType
    <3>1. call \in CallType /\ info \in ProvisionInfo /\ info.appId # None
      BY <1>0, <2>3, <2>4
    <3> QED
      BY <2>5, <3>1 DEF CallType, Codes
  <2>7. /\ call'.pc = "done" /\ call'.ret = "VERIFY_SUCCESS"
        /\ call'.resign = call.resign /\ call'.cert = call.cert
        /\ call'.source = call.source /\ call'.profile = call.profile
        /\ call'.signed = call.signed /\ call'.vouched = call.vouched
        /\ call'.ticket = call.ticket /\ call'.provision = info
        /\ call'.resigner = call.resigner
    BY <1>0, <2>5 DEF CallType
  <2>8. Answered'
    BY <2>4, <2>7, DataAssumption DEF Answered
  <2>9. TypeOK' /\ AnsweredPart'
    BY <1>0, <2>6, <2>7, <2>8 DEF IInv, TypeOK, AnsweredPart, Answering
  <2>10. SignerPart' /\ SourcePart'
    BY <1>0, <2>2, <2>7 DEF IInv, Established, SignerPart, SourcePart, Reached,
           Rooted, Entries
  <2>11. ProfilePart'
    BY <1>0, <2>2, <2>7 DEF IInv, Established, ProfilePart, Reached, NeedsSignature,
           ChainHolds, VouchedBy, Rooted, Entries
  <2>12. DevicePart' /\ UnknownPart'
    BY <1>0, <2>2, <2>7 DEF IInv, Established, DevicePart, UnknownPart, Reached, DeviceListed
  <2>13. TicketPart' /\ InfoPart' /\ ResignPart'
    BY <1>0, <2>2, <2>4, <2>7 DEF IInv, Established, TicketPart, InfoPart, ResignPart,
           Reached, Rooted
  <2>14. IdentityOfSigner'
    BY <2>2, <2>4, <2>7 DEF IInv, IdentityOfSigner
  <2>15. call.provision.dist = call.profile.dist
    BY <2>2 DEF IInv, Established, InfoPart
  <2>16. /\ call.provision.dist \in EnterpriseTypes /\ "enterprise" \in facts
         /\ call.resigner \in LocalCerts
    BY <1>3 DEF EnterpriseResignMgr
  <2>17. call.resigner # None
    BY <1>0, DataAssumption
  <2>18. ResignJustified'
    BY <1>0, <2>4, <2>7, <2>15, <2>16, <2>17 DEF ResignJustified, Rooted
  <2> QED
    BY <2>9, <2>10, <2>11, <2>12, <2>13, <2>14, <2>18 DEF IInv, Established
<1> QED
  BY <1>1, <1>2, <1>3

LEMMA AnswerStepKeeps ==
    ASSUME IInv, AnswerStep
    PROVE  IInv'
<1>1. ASSUME NEW code \in IntegrityCodes, IntegrityFails(code)
      PROVE  IInv'
  <2>1. code \in Codes /\ code # "VERIFY_SUCCESS"
    BY DEF Codes, IntegrityCodes
  <2> QED
    BY <1>1, <2>1, Ends DEF IntegrityFails, At, Answering
<1>2. ASSUME VerifyHapIntegrity
      PROVE  IInv'
  <2>1. /\ call.pc = "integrity" /\ call.resigner = None /\ UNCHANGED <<facts, seen>>
        /\ call \in CallType
    BY <1>2 DEF VerifyHapIntegrity, At, IInv, TypeOK, Established, ResignPart
  <2>2. call' = [call EXCEPT !.pc = "developer", !.resigner = None]
    BY <1>2, <2>1 DEF VerifyHapIntegrity, Goto, CallType
  <2> QED
    BY <2>1, <2>2, Continues DEF Answering
<1>3. ASSUME NoResignBlock
      PROVE  IInv'
  <2>1. call.pc = "resign" /\ call.resigner = None /\ UNCHANGED <<facts, seen>>
    BY <1>3 DEF NoResignBlock, At, IInv, Established, ResignPart
  <2> QED
    BY <1>3, <2>1, Ends DEF NoResignBlock, Succeed, Answering, Codes
<1>4. ASSUME ResignDigestFails
      PROVE  IInv'
  BY <1>4, Ends DEF ResignDigestFails, At, Answering, Codes, IntegrityCodes
<1> QED
  BY <1>1, <1>2, <1>3, <1>4, GenerateIdentityKeeps, CheckDeveloperCertKeeps,
     VerifyResignPkcs7Keeps, VerifyResignKeeps DEF AnswerStep

-----------------------------------------------------------------------------
LEMMA InitHolds == Init => IInv
<1> SUFFICES ASSUME Init PROVE IInv
  OBVIOUS
<1>1. /\ call.pc = "done" /\ call.source = None /\ call.provision = None
      /\ call.resigner = None
  BY DEF Init, NewCall
<1>2. TypeOK
  BY DataAssumption DEF Init, NewCall, TypeOK, CallType, Codes
<1>3. Established
  BY <1>1 DEF Established, AnsweredPart, SignerPart, SourcePart, ProfilePart, DevicePart,
         UnknownPart, TicketPart, InfoPart, ResignPart, Reached, Answered, Answering,
         FromSource, FromProfile, FromChain, FromProvision, FromProfileInfo,
         FromTicket, FromCertificate
<1> QED
  BY <1>1, <1>2, <1>3 DEF IInv, IdentityOfSigner, ResignJustified, Answered

LEMMA NextKeeps == IInv /\ [Next]_vars => IInv'
<1> SUFFICES ASSUME IInv, [Next]_vars PROVE IInv'
  OBVIOUS
<1>1. CASE UNCHANGED vars
  BY <1>1 DEF vars, IInv, TypeOK, Established, AnsweredPart, SignerPart, SourcePart,
         ProfilePart, DevicePart, UnknownPart, TicketPart, InfoPart, ResignPart,
         IdentityOfSigner, ResignJustified, Reached, Answered, Rooted, Entries,
         NeedsSignature, ChainHolds, VouchedBy, DeviceListed
<1>2. CASE Next
  BY <1>2, SwitchKeeps, BeginKeeps, SourceStepKeeps, ProfileStepKeeps,
     ProfileInfoStepKeeps, AnswerStepKeeps DEF Next
<1> QED
  BY <1>1, <1>2

LEMMA Invariance == Spec => []IInv
BY InitHolds, NextKeeps, PTL DEF Spec

-----------------------------------------------------------------------------
\* The locals of a call are always of their types, and what holds of the
\* device has been seen.
THEOREM TypeCorrect == Spec => []TypeOK
BY Invariance, PTL DEF IInv

\* No call hands out a provision, not even with an error code, unless a list
\* that it has consulted holds its root and a trusted source vouches for its
\* signer or for its profile.
THEOREM ProvisionFromTrustedSource == Spec => []SourceTrusted
<1>1. IInv => SourceTrusted
  <2> SUFFICES ASSUME IInv, Answered
               PROVE  /\ Rooted(call.cert)
                      /\ \/ \E s \in Entries :
                                s.app = call.cert.name /\ s.root = call.cert.root
                         \/ /\ Rooted(call.signed.cert)
                            /\ \E s \in Entries :
                                /\ s.root = call.cert.root
                                /\ call.signed.cert.name = IF call.profile.type = "RELEASE"
                                                           THEN s.release ELSE s.debug
                            /\ call.cert = IF call.profile.type = "RELEASE"
                                           THEN call.profile.distribution
                                           ELSE call.profile.development
    BY DEF SourceTrusted
  <2>1. Rooted(call.cert)
    BY DEF IInv, Established, SignerPart, Reached
  <2>2. CASE call.source # None
    BY <2>1, <2>2 DEF IInv, Established, SourcePart, Reached
  <2>3. CASE call.source = None
    <3>1. ChainHolds /\ \E s \in Entries : VouchedBy(s) /\ s.root = call.cert.root
      BY <2>3 DEF IInv, Established, ProfilePart, Reached, NeedsSignature
    <3>2. call.vouched = call.profile.type /\ call.cert = CertInProfile(call.profile)
      BY <2>3 DEF IInv, Established, UnknownPart, Reached
    <3> QED
      BY <2>1, <3>1, <3>2 DEF ChainHolds, VouchedBy, CertInProfile
  <2> QED
    BY <2>2, <2>3
<1> QED
  BY <1>1, Invariance, PTL

\* The profile of a provision is signed by a profile signer of a trusted source,
\* unless the gallery or a source of no known kind signed the package itself.
THEOREM ProfileSignedByTrustedSource == Spec => []ProfileVouched
<1>1. IInv => ProfileVouched
  <2> SUFFICES ASSUME IInv, Answered
               PROVE  \/ \E s \in Entries : /\ s.app = call.cert.name
                                            /\ s.kind \in {"gallery", "other"}
                      \/ /\ call.signed.fault = "none"
                         /\ Rooted(call.signed.cert)
                         /\ \E s \in Entries : call.signed.cert.name \in {s.release, s.debug}
    BY DEF ProfileVouched
  <2>1. CASE NeedsSignature
    <3>1. ChainHolds /\ \E s \in Entries : VouchedBy(s)
      BY <2>1 DEF IInv, Established, ProfilePart, Reached
    <3> QED
      BY <3>1 DEF ChainHolds, VouchedBy
  <2>2. CASE ~NeedsSignature
    <3>1. call.source \in Entries /\ call.source.app = call.cert.name
      BY <2>2 DEF IInv, Established, SourcePart, Reached, NeedsSignature
    <3>2. call.source.kind \in {"gallery", "other"}
      BY <2>2, <3>1, DataAssumption DEF Entries, NeedsSignature, AllSources, Kinds
    <3> QED
      BY <3>1, <3>2
  <2> QED
    BY <2>1, <2>2
<1> QED
  BY <1>1, Invariance, PTL

\* Whatever way a call took to the profile, the device that it found itself on
\* is one for which the profile's kind of application may be installed.
THEOREM DeviceAllowedForProfile == Spec => []DeviceAllowed
<1>1. IInv => DeviceAllowed
  BY DEF IInv, Established, DevicePart, Reached, DeviceAllowed, DeviceListed
<1> QED
  BY <1>1, Invariance, PTL

\* A gallery release that the gallery did not sign has its ticket.
THEOREM TicketForGalleryRelease == Spec => []GalleryByTicket
<1>1. IInv => GalleryByTicket
  <2> SUFFICES ASSUME IInv, Answered, call.source = None,
                      call.profile.type = "RELEASE", call.profile.dist = "APP_GALLERY"
               PROVE  /\ call.ticket # None
                      /\ Rooted(call.ticket.signer)
                      /\ call.ticket.signer.name \in TicketSigners
                      /\ call.ticket.ticket.profile.type = "RELEASE"
                      /\ call.ticket.ticket.profile.distribution = call.cert
                      /\ call.ticket.ticket.profile.devices = "listed"
    BY DEF GalleryByTicket
  <2>1. /\ call.ticket \in [ticket: Tickets, signer: Certs]
        /\ Rooted(call.ticket.signer)
        /\ call.ticket.signer.name \in TicketSigners
        /\ call.ticket.ticket.profile.type = "RELEASE"
        /\ call.ticket.ticket.profile.distribution = call.profile.distribution
        /\ call.ticket.ticket.profile.devices = "listed"
    BY DEF IInv, Established, TicketPart, Reached
  <2>2. call.cert = call.profile.distribution
    BY DEF IInv, Established, UnknownPart, Reached, CertInProfile
  <2> QED
    BY <2>1, <2>2, DataAssumption
<1> QED
  BY <1>1, Invariance, PTL

\* The identity in a provision is that of the package's signer.
THEOREM IdentityIsSigners == Spec => []IdentityOfSigner
BY Invariance, PTL DEF IInv

\* The mark of the enterprise's second signature is set exactly when the whole
\* check of that signature has succeeded.
THEOREM ResignMarkJustified == Spec => []ResignJustified
BY Invariance, PTL DEF IInv
=============================================================================
