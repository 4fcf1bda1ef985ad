SPECIFICATION AllSpec
CONSTANTS
    Parts = {"types", "pair", "signals", "watch", "exec", "request", "detached", "files", "numbers",
             "widgets", "scene"}
    None = None
    Threads = {"bar"}
    Subscribers = {}
    Arguments <- MCArguments
    Types <- MCTypes
    MaxFaults = 0
    MaxSignals = 3
    Slots = 1
INVARIANTS
    
    FilesStayGranted
    

    
CHECK_DEADLOCK FALSE
