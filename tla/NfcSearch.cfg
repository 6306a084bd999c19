CONSTANTS
    BYTE = 3
    BleRequestSizes = {1}
    AnswerSizes = {1}
    ControlPoints = {4}
    Supports = {{"V2"}}
    Timeout = 0
    MaxOpens = 1
    MaxCalls = 1
    MaxExtras = 0
    MaxLosses = 0
    MaxBondChanges = 0
    CHUNK = 2
    Readers = 2
    Kinds = {"fido2", "unknown"}
    RequestSizes = {2}
    AnswerParts = {1}
    MaxFailures = 0
    MaxOthers = 0
SPECIFICATION MCSpec
CHECK_DEADLOCK FALSE
INVARIANT PicksFido
