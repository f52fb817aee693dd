CONSTANTS
    Reasons = {"already set", "not found"}
    Customs = {"VersionAlreadyExists", "OnlyOwner", "NotInAnyABI"}
    KnownErrors = {"VersionAlreadyExists", "OnlyOwner"}
    AuditErrors = {"VersionAlreadyExists", "OnlyOwner"}
    Short = "short"
    Settings <- MCSettings
    Images = {"old image", "new image"}
    MaxBuilds = 1
    MaxTests = 2
    MaxOthers = 0
    MaxMishaps = 0
SPECIFICATION FairSpec
INVARIANT AllowedMeansSupported
CHECK_DEADLOCK FALSE
