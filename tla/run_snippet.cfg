SPECIFICATION Spec
CONSTANTS
    Nil = Nil
    h1 = h1
    h2 = h2
    Run <- TwoRuns
    Host = {h1, h2}
    Held = {h2}
    Workers = 1
    ChanCap = 1
CHECK_DEADLOCK FALSE
INVARIANTS
    WithinTheLimit
    
    EveryHostIsHeard
PROPERTIES
    TableIsTrue
    StoppedRunComesBack
