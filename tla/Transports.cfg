CONSTANTS
    Areas = {"wire", "stream", "hid", "cable", "handshake"}
    PACKET_SIZE = 9
    PACKET_CONT_SEQ_MAX = 3
    HidCommand <- MCHidCommand
    Timeout = 1
    HidCalls = 3
    MaxDisturbances = 2
    MaxLength = 18
    p1 = p1
    p2 = p2
    Phones = {p1, p2}
    Nobody = Nobody
    Capacity = 1
    MAX_TUNNEL_REDIRECTS = 1
    ReusesAfter = {"Timeout", "Aborted"}
    MaxSessions = 2
    MaxCalls = 2
    MaxLinks = 1
    MaxOdd = 1
SPECIFICATION MCFairSpec
CHECK_DEADLOCK FALSE
INVARIANT TypeOK
INVARIANT ConnectedOnlyWhenNear
INVARIANT FailuresAreTold
INVARIANT AnswersMatch
INVARIANT PhonesAreReached
PROPERTY StoreIsGenuine
PROPERTY HidCallsAreServed
 
