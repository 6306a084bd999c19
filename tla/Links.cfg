CONSTANTS
    BYTE = 3
    BleRequestSizes = {1, 8, 9}
    AnswerSizes = {3}
    ControlPoints = {3, 4}
    Supports = {{}, {"U2fv11", "V2"}}
    Timeout = 0
    MaxOpens = 2
    MaxCalls = 2
    MaxExtras = 1
    MaxLosses = 1
    MaxBondChanges = 1
    CHUNK = 2
    Readers = 2
    Kinds = {"fido2", "u2f", "both", "unknown", "none"}
    RequestSizes = {2, 3}
    AnswerParts = {1, 2}
    MaxFailures = 1
    MaxOthers = 1
SPECIFICATION MCFairSpec
CHECK_DEADLOCK FALSE
INVARIANT OnlyOverBondedLinks
 
INVARIANT TypeOK
INVARIANT OwnAnswers
INVARIANT MessagesAreWhole
PROPERTY KeepsExchange
 
