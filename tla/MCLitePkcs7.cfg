SPECIFICATION Spec
CONSTANTS
    None = None
    Messages <- MCMessages
    Roots <- MCRoots
    Listed <- MCListed
    ListedTest <- MCListedTest
    MaxDepth = 3
INVARIANTS
    TypeOK
    CertOwnedOnce
    AcceptedIsVouched
    DepthNotUndercounted
    PlainIsAccepted
