SPECIFICATION Spec
CONSTANTS
    Nodes = {"A", "B"}
    Clients = {1, 2, 3, 4}
    Home <- TwoEach
    Cap = 1
    MaxRequests = 5
CHECK_DEADLOCK FALSE
INVARIANTS
    TypeOK
    OneInFlight
    JamNeedsClients
PROPERTIES
    ImplementsChannel
    EveryMessageArrives
