----------------------------- MODULE HapVerify -----------------------------
(***************************************************************************)
(* HapVerifyV2::Verify: what one call of HapVerify reads of a package, in  *)
(* which order, against which lists and device facts, and what it answers. *)
(*                                                                         *)
(* Other threads switch debug mode, the developer mode and the device type *)
(* at any moment between two lookups, so each lookup is a step and reads   *)
(* the facts of that moment (TrustStores has the lookups in detail).  The  *)
(* CRLs that the call updates and saves are the matter of CrlManager, the  *)
(* digests that of ChunkDigest.  A package has one signer.                 *)
(***************************************************************************)
EXTENDS FiniteSets

CONSTANTS
    None,           \* no certificate, entry, profile, ... (yet)
    Names,          \* subject, issuer and chain length of a certificate
    NoName,         \* an empty field of a trusted source
    Certs,          \* the leaf certificates, each with its chain
    ReleaseRoots, TestRoots,    \* the two lists of TrustedRootCa
    OpenHarmony,    \* OPENHARMONY_CERT
    Sources,        \* the entries of TrustedSourceManager, both lists
    TicketSigners,  \* the names in TrustedTicketManager
    LocalCerts,     \* those of the re-sign issuer whose chain is in localCertDir
    Profiles,       \* the profiles that packages carry
    Tickets,        \* the tickets that lie under /data/update/ticket
    Settings,       \* the facts that hold when the process starts
    Switchable      \* the facts that change later, even during a call

VARIABLES
    facts,          \* what holds of the library and the device now
    seen,           \* history: what has held at some moment of this call
    call            \* the locals of the call and what it has read

vars == <<facts, seen, call>>

-----------------------------------------------------------------------------
Facts == {"testRoots",      \* TrustedRootCa::isDebug
          "testSources",    \* TrustedSourceManager::isDebug
          "devMode",        \* TrustedRootCa::devMode is not NON_DEV
          "rdDevice",       \* g_isRdDevice
          "development",    \* DeviceTypeManager: the device is a debug device
          "enterprise"}     \* const.edm.is_enterprise_device

Types   == {"DEBUG", "RELEASE"}
Devices == {"listed", "others", "otherType", "empty"}
Kinds   == {"gallery", "system", "preload", "other"}
Faults  == {"none", "form", "expired", "refused"}
OIDs    == {"developer", "resign"}

EnterpriseTypes == {"ENTERPRISE", "ENTERPRISE_NORMAL", "ENTERPRISE_MDM"}
DistTypes == EnterpriseTypes \cup {"NONE", "APP_GALLERY", "OS_INTEGRATION",
                                   "CROWDTESTING", "INTERNALTESTING", "DEVELOPER"}

Roots == ReleaseRoots \cup TestRoots

\* root is the issuer of the last certificate of the chain, trusted or not.
AllCerts == [name: Names, root: Roots \cup {NoName}, oids: SUBSET OIDs]

ProvisionInfo ==
    [type: Types, dist: DistTypes, development: Certs \cup {None},
     distribution: Certs \cup {None}, appId: Certs \cup {None},
     isOpenHarmony: BOOLEAN, isEnterpriseResigned: BOOLEAN]

\* A pkcs7 envelope: its form is wrong, its signer's chain has expired, the
\* signer is revoked or the signature wrong, or nothing is wrong with it.
Envelopes == [cert: Certs, fault: Faults]

AllSources == [test: BOOLEAN, kind: Kinds, root: Roots, app: Names,
               release: Names \cup {NoName}, debug: Names \cup {NoName}]

\* whole: the tags that ParseProvision asks of every profile are there.
AllProfiles == [whole: BOOLEAN, type: Types, dist: DistTypes, devices: Devices,
                development: Certs \cup {None}, distribution: Certs \cup {None}]

\* alike: bundle name and restricted permissions fit those of the profile.
AllTickets == [profile: AllProfiles, alike: BOOLEAN]

ASSUME DataAssumption ==
    /\ None \notin Certs \cup Sources \cup Profiles \cup Tickets \cup Envelopes
    /\ None \notin ProvisionInfo \cup [ticket: Tickets, signer: Certs]
    /\ NoName \notin Names \cup Roots
    /\ Certs \subseteq AllCerts
    /\ Sources \subseteq AllSources
    /\ LocalCerts \subseteq Certs
    /\ Profiles \subseteq AllProfiles
    /\ Tickets \subseteq AllTickets
    /\ Settings \subseteq SUBSET Facts
    /\ Switchable \subseteq Facts \ {"enterprise"}

-----------------------------------------------------------------------------
NewCall(resign) ==
    [pc |-> "find", ret |-> "none",
     resign    |-> resign,  \* verifyEnterpriseResign
     cert      |-> None,    \* pkcs7Context.certChains[0]
     source    |-> None,    \* pkcs7Context.matchResult
     profile   |-> None,    \* the profile block
     signed    |-> None,    \* profileContext
     vouched   |-> None,    \* profileContext.matchResult
     ticket    |-> None,    \* the ticket of the bundle and its envelope
     info      |-> None,    \* provisionInfo
     provision |-> None,    \* hapVerifyV1Result.GetProvisionInfo()
     resigner  |-> None]    \* fullPackageSignContext.certChains[0]

Init ==
    /\ facts \in Settings
    /\ seen = facts
    /\ call = [NewCall(FALSE) EXCEPT !.pc = "done"]

\* SetDevMode, SetRdDevice, a switch of debug mode, a change of a parameter.
Switch(fact) ==
    /\ facts' = IF fact \in facts THEN facts \ {fact} ELSE facts \cup {fact}
    /\ seen' = seen \cup facts'
    /\ UNCHANGED call

Begin(resign) ==
    /\ call.pc = "done"
    /\ call' = NewCall(resign)
    /\ seen' = facts
    /\ UNCHANGED facts

At(pc) == call.pc = pc /\ UNCHANGED <<facts, seen>>

Goto(pc) == call' = [call EXCEPT !.pc = pc]

\* A call that fails before it has a provision forgets what it has read; a later
\* end keeps it, for the properties to speak of.
Fail(code) == call' = [NewCall(call.resign) EXCEPT !.pc = "done", !.ret = code]
End(code)  == call' = [call EXCEPT !.pc = "done", !.ret = code]
Succeed    == End("VERIFY_SUCCESS")

-----------------------------------------------------------------------------
(* The lookups.                                                            *)

\* FindMatchedRoot.
RootTrusted(root) ==
    /\ root \in ReleaseRoots \/ ("testRoots" \in facts /\ root \in TestRoots)
    /\ root = OpenHarmony => "devMode" \in facts

\* VerifyAppPkcs7: GetCertChains, then VerifyPkcs7.
Pkcs7Result(e) ==
    IF e.fault = "form" \/ ~RootTrusted(e.cert.root) THEN "VERIFY_APP_PKCS7_FAIL"
    ELSE IF e.fault = "expired" THEN "CERTIFICATE_EXPIRED"
    ELSE IF e.fault = "refused" THEN "VERIFY_APP_PKCS7_FAIL"
    ELSE "VERIFY_SUCCESS"

\* The list of the release decides when it has an entry that matches.
ReleaseFirst(S) == IF \E s \in S : ~s.test THEN {s \in S : ~s.test} ELSE S

Consulted == {s \in Sources : s.test => "testSources" \in facts}

\* IsTrustedSource(HAP_SIGN_BLOB) and IsTrustedSource(PROFILE_BLOB).
AppMatches(cert)     == ReleaseFirst({s \in Consulted : s.app = cert.name})
ProfileMatches(cert) ==
    ReleaseFirst({s \in Consulted : cert.name \in {s.release, s.debug}})

-----------------------------------------------------------------------------
(* The signature of the package and its source.                            *)

FindHapSignature(found) ==
    /\ At("find")
    /\ IF found THEN Goto("signature") ELSE Fail("SIGNATURE_NOT_FOUND")

VerifyAppPkcs7(e, hasProfile) ==
    /\ At("signature")
    /\ IF Pkcs7Result(e) # "VERIFY_SUCCESS"
       THEN Fail(Pkcs7Result(e))
       ELSE IF ~hasProfile
       THEN Fail("NO_PROFILE_BLOCK_FAIL")
       ELSE call' = [call EXCEPT !.pc = "source", !.cert = e.cert]

UnknownSource ==
    /\ At("source")
    /\ AppMatches(call.cert) = {}
    /\ Goto("profile")

\* A mutant of SameRoot: the root that the entry asks for is not looked at.
AnyRoot(entry) == TRUE

SameRoot(entry) == entry.root = call.cert.root

KnownSource(entry) ==
    /\ At("source")
    /\ entry \in AppMatches(call.cert)
    /\ IF SameRoot(entry)
       THEN call' = [call EXCEPT !.pc = "profile", !.source = entry]
       ELSE Fail("APP_SOURCE_NOT_TRUSTED")

-----------------------------------------------------------------------------
(* The profile: its signature, its contents, and what ties it to the app.  *)

\* A mutant of NeedsSignature: only for a package of no known source.
NeedsSignatureUnknown == call.source = None

NeedsSignature ==
    \/ call.source = None
    \/ call.source.kind \in {"preload", "system"}

\* The gallery's profile is not an envelope.
IsRaw == IF call.source = None THEN FALSE ELSE call.source.kind = "gallery"

ParseRawProfile(p) ==
    /\ At("profile")
    /\ IsRaw
    /\ call' = [call EXCEPT !.pc = "provision", !.profile = p]

ParseProfile(p, e) ==
    /\ At("profile")
    /\ ~IsRaw
    /\ IF e.fault = "form"
       THEN Fail("APP_SOURCE_NOT_TRUSTED")
       ELSE call' = [call EXCEPT !.profile = p, !.signed = e,
                        !.pc = IF NeedsSignature THEN "profileChain"
                                                 ELSE "provision"]

VerifyProfileChain ==
    /\ At("profileChain")
    /\ IF Pkcs7Result(call.signed) = "VERIFY_SUCCESS"
       THEN Goto("profileSource")
       ELSE Fail("APP_SOURCE_NOT_TRUSTED")

UnknownProfileSource ==
    /\ At("profileSource")
    /\ ProfileMatches(call.signed.cert) = {}
    /\ Fail("APP_SOURCE_NOT_TRUSTED")

KnownProfileSource(entry) ==
    /\ At("profileSource")
    /\ entry \in ProfileMatches(call.signed.cert)
    /\ IF call.source = None /\ entry.root # call.cert.root
       THEN Fail("APP_SOURCE_NOT_TRUSTED")
       ELSE call' = [call EXCEPT !.pc = "provision",
                !.vouched = IF call.signed.cert.name = entry.release
                            THEN "RELEASE" ELSE "DEBUG"]

ParseProvision(p) ==
    /\ p.whole
    /\ p.type = "DEBUG" => p.development # None
    /\ p.type = "RELEASE" => p.dist # "NONE" /\ p.distribution # None

\* A mutant of NeedsDevice: internal testing counts as a release.
NeedsDeviceDebug(p) == p.type = "DEBUG" /\ "rdDevice" \notin facts

NeedsDevice(p) ==
    \/ p.type = "DEBUG" /\ "rdDevice" \notin facts
    \/ p.dist = "INTERNALTESTING"

\* udid: the device's own id could be read.
CheckDeviceID(p, udid) ==
    CASE p.devices = "empty"     -> "DEVICE_UNAUTHORIZED"
      [] p.devices = "otherType" -> "APP_SOURCE_NOT_TRUSTED"
      [] p.devices = "listed"    -> IF udid THEN "VERIFY_SUCCESS"
                                            ELSE "DEVICE_UNAUTHORIZED"
      [] p.devices = "others"    -> IF udid /\ "development" \in facts
                                    THEN "VERIFY_SUCCESS"
                                    ELSE "DEVICE_UNAUTHORIZED"

ParseAndVerify(p, udid) ==
    IF ~ParseProvision(p) THEN "APP_SOURCE_NOT_TRUSTED"
    ELSE IF NeedsDevice(p) THEN CheckDeviceID(p, udid)
    ELSE "VERIFY_SUCCESS"

Provision(p) ==
    [type |-> p.type, dist |-> p.dist, development |-> p.development,
     distribution |-> p.distribution, appId |-> None,
     isOpenHarmony |-> FALSE, isEnterpriseResigned |-> FALSE]

VerifyProvision(udid) ==
    LET code == ParseAndVerify(call.profile, udid)
    IN  /\ At("provision")
        /\ IF code # "VERIFY_SUCCESS"
           THEN Fail(code)
           ELSE call' = [call EXCEPT !.info = Provision(call.profile),
                    !.pc = IF call.source = None THEN "profileInfo"
                                                 ELSE "identity"]

-----------------------------------------------------------------------------
(* A package of no known source: VerifyProfileInfo.                        *)

CheckProfileSignatureIsRight == call.vouched = call.info.type

IsAppDistributedTypeAllowInstall ==
    /\ At("profileInfo")
    /\ IF ~CheckProfileSignatureIsRight
       THEN Fail("APP_SOURCE_NOT_TRUSTED")
       ELSE IF call.info.type = "RELEASE" /\ call.info.dist = "APP_GALLERY"
       THEN Goto("ticket")
       ELSE Goto("certificate")

\* A mutant of CompareTicketAndProfile: the certificates are not compared.
CompareTicketAlike(ticket) == ticket.alike

CompareTicketAndProfile(ticket) ==
    /\ ticket.alike
    /\ ticket.profile.type = call.info.type
    /\ IF ticket.profile.type = "DEBUG"
       THEN ticket.profile.development = call.info.development
       ELSE ticket.profile.distribution = call.info.distribution

VerifyTicket(ticket, e, udid) ==
    /\ Pkcs7Result(e) = "VERIFY_SUCCESS"
    /\ e.cert.name \in TicketSigners
    /\ ParseProvision(ticket.profile)
    /\ CompareTicketAndProfile(ticket)
    /\ ticket.profile.devices = "listed" /\ udid

CheckTicketSource(ticket, e, udid) ==
    /\ At("ticket")
    /\ IF VerifyTicket(ticket, e, udid)
       THEN call' = [call EXCEPT !.pc = "certificate",
                        !.ticket = [ticket |-> ticket, signer |-> e.cert]]
       ELSE Fail("APP_SOURCE_NOT_TRUSTED")

NoTicket ==
    /\ At("ticket")
    /\ Fail("APP_SOURCE_NOT_TRUSTED")

\* A mutant of CertInProfile: always the development certificate.
DevelopmentCert(info) == info.development

CertInProfile(info) ==
    IF info.type = "RELEASE" THEN info.distribution ELSE info.development

\* certInProfile is a reference: a release profile loses its development
\* certificate here.
CompareSignerWithProfile ==
    /\ At("certificate")
    /\ IF call.cert # CertInProfile(call.info)
       THEN Fail("APP_SOURCE_NOT_TRUSTED")
       ELSE call' = [call EXCEPT !.pc = "identity",
                        !.info.development = CertInProfile(call.info)]

-----------------------------------------------------------------------------
(* The answer: identity, integrity and the enterprise's own signature.     *)

AppIdCert(info) ==
    IF info.distribution = None THEN info.development ELSE info.distribution

\* GenerateAppId and GenerateFingerprint fail on what is no certificate. Here
\* too the reference fills in the distribution certificate.
GenerateIdentity(readable) ==
    LET id   == AppIdCert(call.info)
        info == [call.info EXCEPT !.distribution = id, !.appId = id,
                    !.isOpenHarmony = call.cert.root = OpenHarmony]
    IN  /\ At("identity")
        /\ IF readable
           THEN call' = [call EXCEPT !.pc = "integrity",
                            !.info = info, !.provision = info]
           ELSE Fail("APP_SOURCE_NOT_TRUSTED")

IntegrityFails(code) ==
    /\ At("integrity")
    /\ End(code)

\* VerifyHapIntegrityWithHitls, or else VerifyHapIntegrity, agrees with the
\* digest of the app signature.
VerifyHapIntegrity ==
    /\ At("integrity")
    /\ Goto("developer")

CheckDeveloperCert ==
    /\ At("developer")
    /\ IF /\ call.provision.dist = "DEVELOPER"
          /\ call.provision.type # "RELEASE" \/ "developer" \notin call.cert.oids
       THEN End("VERIFY_BINARY_DEVELOPER_CERT_FAIL")
       ELSE IF call.resign THEN Goto("resign") ELSE Succeed

NoResignBlock ==
    /\ At("resign")
    /\ Succeed

VerifyResignPkcs7(e) ==
    /\ At("resign")
    /\ IF Pkcs7Result(e) # "VERIFY_SUCCESS"
       THEN End(Pkcs7Result(e))
       ELSE call' = [call EXCEPT !.pc = "resigner", !.resigner = e.cert]

\* A mutant of EnterpriseResignMgr: any application may be signed again.
ResignAnyType ==
    IF "resign" \notin call.resigner.oids \/ "enterprise" \notin facts
    THEN "APP_SOURCE_NOT_TRUSTED"
    ELSE IF call.resigner \notin LocalCerts THEN "VERIFY_ENTERPRISE_RESIGN_FAIL"
    ELSE "VERIFY_SUCCESS"

EnterpriseResignMgr ==
    IF \/ call.provision.dist \notin EnterpriseTypes
       \/ "resign" \notin call.resigner.oids
       \/ "enterprise" \notin facts
    THEN "APP_SOURCE_NOT_TRUSTED"
    ELSE IF call.resigner \notin LocalCerts THEN "VERIFY_ENTERPRISE_RESIGN_FAIL"
    ELSE "VERIFY_SUCCESS"

VerifyResign(intact) ==
    /\ At("resigner")
    /\ IF EnterpriseResignMgr # "VERIFY_SUCCESS"
       THEN End(EnterpriseResignMgr)
       ELSE IF ~intact
       THEN End("VERIFY_INTEGRITY_FAIL")
       ELSE call' = [call EXCEPT !.pc = "done", !.ret = "VERIFY_SUCCESS",
                        !.provision.isEnterpriseResigned = TRUE]

ResignDigestFails ==
    /\ At("resigner")
    /\ End("GET_DIGEST_FAIL")

-----------------------------------------------------------------------------
IntegrityCodes == {"GET_DIGEST_FAIL", "GET_PUBLICKEY_FAIL",
                   "GET_SIGNATURE_FAIL", "VERIFY_INTEGRITY_FAIL"}

SourceStep ==
    \/ \E found \in BOOLEAN : FindHapSignature(found)
    \/ \E e \in Envelopes, hasProfile \in BOOLEAN : VerifyAppPkcs7(e, hasProfile)
    \/ UnknownSource
    \/ \E entry \in Sources : KnownSource(entry)

ProfileStep ==
    \/ \E p \in Profiles : ParseRawProfile(p)
    \/ \E p \in Profiles, e \in Envelopes : ParseProfile(p, e)
    \/ VerifyProfileChain
    \/ UnknownProfileSource
    \/ \E entry \in Sources : KnownProfileSource(entry)
    \/ \E udid \in BOOLEAN : VerifyProvision(udid)

ProfileInfoStep ==
    \/ IsAppDistributedTypeAllowInstall
    \/ \E t \in Tickets, e \in Envelopes, udid \in BOOLEAN :
            CheckTicketSource(t, e, udid)
    \/ NoTicket
    \/ CompareSignerWithProfile

AnswerStep ==
    \/ \E readable \in BOOLEAN : GenerateIdentity(readable)
    \/ \E code \in IntegrityCodes : IntegrityFails(code)
    \/ VerifyHapIntegrity
    \/ CheckDeveloperCert
    \/ NoResignBlock
    \/ \E e \in Envelopes : VerifyResignPkcs7(e)
    \/ \E intact \in BOOLEAN : VerifyResign(intact)
    \/ ResignDigestFails

Next ==
    \/ \E fact \in Switchable : Switch(fact)
    \/ \E resign \in BOOLEAN : Begin(resign)
    \/ SourceStep
    \/ ProfileStep
    \/ ProfileInfoStep
    \/ AnswerStep

Spec == Init /\ [][Next]_vars

-----------------------------------------------------------------------------
Codes == {"none", "VERIFY_SUCCESS", "SIGNATURE_NOT_FOUND", "DEVICE_UNAUTHORIZED",
          "VERIFY_APP_PKCS7_FAIL", "CERTIFICATE_EXPIRED", "NO_PROFILE_BLOCK_FAIL",
          "APP_SOURCE_NOT_TRUSTED", "VERIFY_BINARY_DEVELOPER_CERT_FAIL",
          "VERIFY_ENTERPRISE_RESIGN_FAIL"} \cup IntegrityCodes

CallType ==
    [pc: {"find", "signature", "source", "profile", "profileChain",
          "profileSource", "provision", "profileInfo", "ticket", "certificate",
          "identity", "integrity", "developer", "resign", "resigner", "done"},
     ret: Codes,
     resign: BOOLEAN,
     cert: Certs \cup {None},
     source: Sources \cup {None},
     profile: Profiles \cup {None},
     signed: Envelopes \cup {None},
     vouched: Types \cup {None},
     ticket: [ticket: Tickets, signer: Certs] \cup {None},
     info: ProvisionInfo \cup {None},
     provision: {i \in ProvisionInfo : i.appId # None} \cup {None},
     resigner: Certs \cup {None}]

TypeOK ==
    /\ facts \subseteq Facts
    /\ seen \subseteq Facts
    /\ facts \subseteq seen
    /\ call \in CallType

\* What the properties say of a package, in the terms of the two lists: a test
\* entry counts if debug mode was on in its list at some moment of the call.
Rooted(cert) == cert.root \in ReleaseRoots \cup
                              (IF "testRoots" \in seen THEN TestRoots ELSE {})
Entries == {s \in Sources : s.test => "testSources" \in seen}

Answered == call.provision # None

\* A call that hands out a provision, even with an error code, has found the
\* package's root in a list, and either the signer is a trusted source under
\* that very root, or a trusted source of that root signed the profile, for
\* profiles of its type, and the profile names the signer (VerifyAppPkcs7,
\* VerifyAppSourceAndParseProfile, VerifyProfileInfo).
SourceTrusted ==
    Answered =>
        /\ Rooted(call.cert)
        /\ \/ \E s \in Entries : s.app = call.cert.name /\ s.root = call.cert.root
           \/ /\ Rooted(call.signed.cert)
              /\ \E s \in Entries :
                    /\ s.root = call.cert.root
                    /\ call.signed.cert.name =
                        IF call.profile.type = "RELEASE" THEN s.release ELSE s.debug
              /\ call.cert = IF call.profile.type = "RELEASE"
                             THEN call.profile.distribution
                             ELSE call.profile.development

\* The profile behind a provision was signed, by a profile signer of a trusted
\* source, with a chain that holds, unless the package itself was signed by the
\* gallery or by a source of no known kind (VerifyProfileSignature).
ProfileVouched ==
    Answered =>
        \/ \E s \in Entries : /\ s.app = call.cert.name
                             /\ s.kind \in {"gallery", "other"}
        \/ /\ call.signed.fault = "none"
           /\ Rooted(call.signed.cert)
           /\ \E s \in Entries : call.signed.cert.name \in {s.release, s.debug}

\* On a device that the profile does not list there is no provision from a
\* debug profile, unless the device is an rd or a debug device, nor from one
\* for internal testing, unless it is a debug device; whatever way the call
\* took to the profile (ParseAndVerify, ParseAndVerifyProfileIfNeed).
DeviceAllowed ==
    LET p == call.profile
        here == \/ p.devices = "listed"
                \/ p.devices = "others" /\ "development" \in seen
    IN  Answered =>
            /\ p.type = "DEBUG" => here \/ "rdDevice" \in seen
            /\ p.dist = "INTERNALTESTING" => here

\* A gallery release that the gallery did not sign comes with a ticket: signed
\* by a ticket source, for a release of the same certificate, on a device that
\* the ticket lists (CheckTicketSource).
GalleryByTicket ==
    Answered /\ call.source = None /\ call.profile.type = "RELEASE"
             /\ call.profile.dist = "APP_GALLERY" =>
        /\ call.ticket # None
        /\ Rooted(call.ticket.signer) /\ call.ticket.signer.name \in TicketSigners
        /\ call.ticket.ticket.profile.type = "RELEASE"
        /\ call.ticket.ticket.profile.distribution = call.cert
        /\ call.ticket.ticket.profile.devices = "listed"

\* The appId of a package of no known source is that of its signer, and both
\* certificates of its provision are; only a debug profile that carries a
\* distribution certificate gives it that one's appId (VerifyProfileInfo and
\* GenerateAppId overwrite the certificates that they compare).
IdentityOfSigner ==
    Answered /\ call.source = None =>
        /\ call.provision.development = call.cert
        /\ call.provision.distribution = call.provision.appId
        /\ call.provision.appId # call.cert =>
                call.profile.type = "DEBUG" /\ call.profile.distribution # None

\* A call says that the enterprise signed again exactly when it succeeds on a
\* package with a re-sign block and was asked to look for one: the device is an
\* enterprise's, so is the application, and the second signer is a local one
\* under a trusted root (VerifyEnterpriseResignBlocks).
ResignJustified ==
    Answered =>
        /\ call.provision.isEnterpriseResigned <=>
                call.ret = "VERIFY_SUCCESS" /\ call.resigner # None
        /\ call.provision.isEnterpriseResigned =>
                /\ call.resign
                /\ "enterprise" \in facts
                /\ call.profile.dist \in EnterpriseTypes
                /\ call.resigner \in LocalCerts /\ Rooted(call.resigner)

\* The comment on VerifyAppSourceAndParseProfile: a package of no known source
\* with a release profile is not installed.
ReleaseRefused ==
    call.ret = "VERIFY_SUCCESS" /\ call.source = None =>
        call.profile.type # "RELEASE"
=============================================================================
