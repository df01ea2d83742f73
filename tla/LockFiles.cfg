SPECIFICATION LockFilesSpec
CONSTANTS
    Cmds <- MCCmds
    Kind <- MCKind
    MaxTries = 3
    SlowHolders = FALSE
    MaxCrashes = 1
    Runs = {"r1", "r2"}
    Typed = {"new"}
    MaxFailures = 1
INVARIANT MutualExclusion
INVARIANT NoLostUpdate
INVARIANT LocksFitSections
INVARIANT MigrationsAreSafe
PROPERTY WaitersEnd
CHECK_DEADLOCK FALSE
