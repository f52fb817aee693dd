CONSTANTS
    Reasons = {"already set", "not found"}
    Customs = {"VersionAlreadyExists", "OnlyOwner", "NotInAnyABI"}
    KnownErrors = {"VersionAlreadyExists", "OnlyOwner"}
    AuditErrors = {"VersionAlreadyExists", "OnlyOwner"}
    Short = "short"
    Settings <- MCSettings
    Images = {"image"}
    MaxBuilds = 2
    MaxTests = 1
    MaxOthers = 1
    MaxMishaps = 1
SPECIFICATION FairSpec
INVARIANTS TypeOK ConfigNamesItsRegistration StepOneMeansBound ReasonsHold
PROPERTIES GrantsAreFinal  KnownSenderIsNoError BuildEnds TestEndsUnlessDropped
CHECK_DEADLOCK FALSE
