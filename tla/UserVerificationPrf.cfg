CONSTANTS
    rpA = rpA
    rpB = rpB
    NoRp = NoRp
    Family = "keys"
    Commands = "prf"
    HasStore = FALSE
    LossyStore = FALSE
    MaxUvRetries = 1
    MaxCeremonies = 2
    MaxEvents = 1
    MaxSecrets = 16
    RP <- MCRp
    Profiles <- MCProfiles
    Requests <- MCRequests
SPECIFICATION Spec
INVARIANTS
    ExtensionUnderChannelSecret
