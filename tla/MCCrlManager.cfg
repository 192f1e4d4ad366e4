SPECIFICATION Spec
CONSTANTS
    appCA = appCA
    profileCA = profileCA
    appCert = appCert
    profileCert = profileCert
    NoCrl = NoCrl
    NoThread = NoThread
    Threads = {t1, t2}
    Certs <- MCCerts
    Issuers <- MCIssuers
    IssuerOf <- MCIssuerOf
    CRLs <- MCCRLs
INVARIANTS
    NoSilentLoss
PROPERTIES
    WriteIsSnapshot
    NoRollback
    ImplementsPolicy
    MutexReleased
