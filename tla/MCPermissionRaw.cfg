SPECIFICATION Spec
CONSTANTS
    None = None
    Files <- MCFiles
    Updates <- MCUpdates
    Module = "module"
    Config = "config"
    Contents <- MCContents
    ShareOf <- MCShareOf
    Tags = {"name", "apl"}
    MaxParses = 2
INVARIANTS
    FirstEntryWins
    ReadIsChecked
    InfoFollowsBoot
