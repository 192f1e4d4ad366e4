----------------------------- MODULE CrlPolicy -----------------------------
(***************************************************************************)
(* What the revocation check promises, with no map, file, lock or call in  *)
(* it: every certificate is judged by the newest revocation list (CRL) of  *)
(* its issuer that the process has met since it started, the list that     *)
(* came with the package included.  CrlManager is shown to implement it.   *)
(***************************************************************************)
EXTENDS Naturals

CONSTANTS
    Certs,      \* the signing certificates that are checked
    Issuers,    \* the certificate authorities that publish CRLs
    IssuerOf,   \* the issuer of each certificate
    CRLs,       \* the CRLs the authorities have published
    NoCrl       \* "no CRL": a null X509_CRL pointer

VARIABLES
    known,      \* the CRLs met since the process started
    verdict     \* the outcome of the latest check

NoVerdict == [cert |-> {}, ok |-> TRUE]

\* What a package may carry for a certificate: nothing, or a CRL of its issuer.
PackageCrls(cert) == {NoCrl} \cup {crl \in CRLs : crl.issuer = IssuerOf[cert]}

Newest(crl, crls) ==
    \A other \in crls : other.issuer = crl.issuer => other.time <= crl.time

RevokedBy(crls, cert) ==
    \E crl \in crls : /\ crl.issuer = IssuerOf[cert]
                      /\ Newest(crl, crls)
                      /\ cert \in crl.revoked

Init == known = {} /\ verdict = NoVerdict

Check(cert, packageCrl) ==
    /\ known' = known \cup ({packageCrl} \ {NoCrl})
    /\ verdict' = [cert |-> cert, ok |-> ~RevokedBy(known', cert)]

\* The process restarts and remembers nothing.
Restart == known' = {} /\ verdict' = NoVerdict

\* What the previous process saved is read back before the first check.
Recover ==
    /\ known = {}
    /\ known' \in SUBSET CRLs
    /\ UNCHANGED verdict

Next ==
    \/ \E cert \in Certs : \E crl \in PackageCrls(cert) : Check(cert, crl)
    \/ Restart
    \/ Recover

Spec == Init /\ [][Next]_<<known, verdict>>
=============================================================================
