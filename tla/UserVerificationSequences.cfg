CONSTANTS
    rpA = rpA
    rpB = rpB
    NoRp = NoRp
    Family = "keys"
    Commands = "sequences"
    HasStore = TRUE
    LossyStore = FALSE
    MaxUvRetries = 1
    MaxCeremonies = 3
    MaxEvents = 2
    MaxSecrets = 16
    RP <- MCRp
    Profiles <- MCProfiles
    Requests <- MCRequests
SPECIFICATION Spec
INVARIANTS
    ReuseIsHarmless
    CacheMatchesGrant
    StoredTokenOnlyReads
    ExtensionUnderChannelSecret
