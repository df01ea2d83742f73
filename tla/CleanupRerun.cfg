SPECIFICATION CleanupSpec
CONSTANTS
    Manifest <- MCManifest
    MaxEdits = 1
    MaxReruns = 1
    MaxGitFaults = 1
INVARIANT CleanedEntriesDoNotBlock
CHECK_DEADLOCK FALSE
