CONSTANTS
    Crate = {1, 2}
    Deps <- MCDeps
    Manifest <- MCManifest
    Run = {a, b}
    Retry = retry
    Candidate = 1
    MaxMain = 2
    MaxFaults = 1
SPECIFICATION ReleaseSpec
INVARIANTS
    OrderIsSeen
    OneSource
    PublishedIsOneBuild
CHECK_DEADLOCK FALSE
PROPERTIES
    VersionGetsOut
