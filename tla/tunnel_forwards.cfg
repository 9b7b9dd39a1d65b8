SPECIFICATION Spec
CONSTANTS
    Nil = Nil
    w1 = w1
    w2 = w2
    r1 = r1
    r2 = r2
    p1 = p1
    prod = prod
    staging = staging
    Window = {w1}
    Rule = {r1, r2}
    Stored = {r1, r2}
    Routes = {prod}
    Port <- OnePort
    Start = {j1, j2}
    Dialogs = TRUE
    Quits = TRUE
    MaxTicks = 2
CHECK_DEADLOCK FALSE
INVARIANTS
    NotRefusedByItself
PROPERTIES
    NoTunnelIsLeft
    DeathIsSeen
