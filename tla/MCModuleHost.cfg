SPECIFICATION LiveSpec
CONSTANTS
    Timers = {1, 2}
    Sockets = {1, 2}
    Payloads = {a, b}
    TooLarge = TooLarge
    Widgets = {clock}
    Values = {1, 2}
    None = None
    TimerSlots = 1
    SocketSlots = 2
    UpdateSlots = 1
    MaxBatch = 2
    MaxCalls = 2
    MaxLines = 2
INVARIANTS
    TypeOK
    SocketsAreServed
    TimersFollowModule
    AcceptedIsOnItsWay
PROPERTIES
    ClosedIsLast
    
CHECK_DEADLOCK FALSE
