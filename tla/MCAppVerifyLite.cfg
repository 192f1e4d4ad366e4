SPECIFICATION Spec
CONSTANTS
    None = None
    Packages <- MCPackages
    Sizes <- MCSizes
    Certs = {"C1", "C2"}
    Device = "D1"
    MaxIds = 2
    ChunkSize = 2
    HashLen <- MCHashLen
    HashField = 1
    MaxInt = 13
INVARIANTS
    NothingKept
PROPERTIES
    ImplementsPolicy
