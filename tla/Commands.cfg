CONSTANTS
    Absent = Absent
    Rp = "rp"
    AppIdRp = "app"
    OtherRp = "other"
    NewId = "new"
    LongIds = {"long"}
    Credentials <- MCCredentials
    Requests <- MCRequests
    Devices <- MCDevices
    Areas = {"admission", "operation", "blobs", "manage", "store", "interfaces", "signed", "wire"}
    MaxCalls = 2
    MaxFragment = 2
    MaxArray = 5
    Rooms = {4, 6}
    Samples = 2
    MaxCommands = 4
    MaxFailures = 1
    MaxOthers = 1
SPECIFICATION MCFairSpec
CHECK_DEADLOCK FALSE
INVARIANT TypeOK
INVARIANT ListsAreWhole
INVARIANT ExcludedStayOut
INVARIANT AssertionsAreAsked
INVARIANT RequirementsAreMet
INVARIANT OutputsAreTrue
INVARIANT OnlyOwnersAreServed
INVARIANT PromptsAreSettled
INVARIANT ResponsesVerify
INVARIANT CommandsArriveAsAsked
INVARIANT PinsAreWhatWasTyped
PROPERTY RecordsAreKeptApart
PROPERTY KeepsStore
PROPERTY OperationsReturn
