--------------------------- MODULE MCCrlManager ---------------------------
(***************************************************************************)
(* Two authorities. One revokes a certificate in its second CRL, the other *)
(* takes a revocation back in its second: an older list used in place of a *)
(* newer one shows in the verdict either way.                              *)
(***************************************************************************)
EXTENDS CrlManager, TLC

CONSTANTS appCA, profileCA, appCert, profileCert

MCCerts == {appCert, profileCert}
MCIssuers == {appCA, profileCA}
MCIssuerOf == (appCert :> appCA) @@ (profileCert :> profileCA)
MCCRLs ==
    {[issuer |-> appCA,     time |-> 1, revoked |-> {}],
     [issuer |-> appCA,     time |-> 2, revoked |-> {appCert}],
     [issuer |-> profileCA, time |-> 1, revoked |-> {profileCert}],
     [issuer |-> profileCA, time |-> 2, revoked |-> {}]}
=============================================================================
