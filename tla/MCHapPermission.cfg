SPECIFICATION Spec
CONSTANTS
    None = None
    Modules = {"m1", "m2"}
    NamesShare = {"m2"}
    Shares = {"s1"}
    Profiles = {"p1", "p2"}
    Rests = {"r1", "r2"}
    Signers <- MCSigners
    AgcNamed <- MCAgcNamed
    Files <- MCFiles
    SystemFiles <- MCSystemFiles
    Trusts <- MCTrusts
INVARIANTS
    CacheVouched
    CacheCurrent
    SavedAgrees
    QuickAgain
