CONSTANTS
    rpA = rpA
    rpB = rpB
    NoRp = NoRp
    Family = "any"
    Commands = "one-of-each"
    HasStore = TRUE
    LossyStore = TRUE
    MaxUvRetries = 1
    MaxCeremonies = 3
    MaxEvents = 1
    MaxSecrets = 16
    RP <- MCRp
    Profiles <- MCProfiles
    Requests <- MCRequests
SPECIFICATION OneOfEach
INVARIANTS
    TypeOK
    PinNeverMintsMcGa
    PinSentUnderFreshSecret
    TouchIsAnnounced
    UnverifiedOnlyWhenBlocked
PROPERTIES
    CommandReturns
    KeepsPromise
