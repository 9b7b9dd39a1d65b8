SPECIFICATION Spec
CONSTANTS
    Nil = Nil
    Host <- MCHost
    Groups <- MCGroups
    Dialled <- MCDialled
    Addressed <- MCAddressed
    Jump <- MCJump
    Machine <- MCMachine
    JumpWorkers = 1
    Fewest = 2
    Most = 2
    Room = 1
    Abandons = TRUE
    Ports <- MCPorts
    MaxSweeps = 2
CHECK_DEADLOCK FALSE
INVARIANTS
    
    SlotsAreSpent
PROPERTIES
    EverySweepEnds
    IsASweep
