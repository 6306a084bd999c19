CONSTANTS
    Absent = Absent
    Rp = "rp"
    AppIdRp = "app"
    OtherRp = "other"
    NewId = "new"
    LongIds = {"long"}
    Credentials <- MCCredentials
    Requests <- MCRequests
    Devices <- MCDevices
    Areas = {"operation"}
    MaxCalls = 2
    MaxFragment = 2
    MaxArray = 5
    Rooms = {4, 6}
    Samples = 2
    MaxCommands = 4
    MaxFailures = 1
    MaxOthers = 1
SPECIFICATION MCSpec
CHECK_DEADLOCK FALSE
INVARIANT AbsentIsProven
