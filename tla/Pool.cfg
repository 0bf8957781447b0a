SPECIFICATION Spec
CONSTANTS
    v = v
    w = w
    Lines <- ABC
    Lives <- LastRestarts
    Arrivals <- TwoClients
    Choices <- ListenerOrDialer
    FirstRequest <- DepositAndBalance
    MaxEvents = 2
CHECK_DEADLOCK FALSE
INVARIANTS
    TypeOK
    SameStream
    StartUpCompletes
    NobodyLeftBehind
    ClientsHearBack
