SPECIFICATION SearchSpec
CONSTANTS
    None = None
    Files <- MCFiles
    EocdLen = 1
    HeadLen = 2
    SubHeadLen = 1
    MaxComment = 4
    MaxShort = 2
    MaxBlockSize = 8
    MaxBlockCount = 3
    MaxBlockNum = 5
    NewMagic = 3
    MaxInt = 24
INVARIANTS
    AcceptedIffFits
    LiteAgrees
