SPECIFICATION Spec
CONSTANTS
    Nil = Nil
    N = 3
    Pane = {a}
    Doomed = {1}
    Slow = FALSE
    Holds = FALSE
CHECK_DEADLOCK FALSE
INVARIANTS
    SaidOfSessions
    
    StepsToTheNeighbour

    
