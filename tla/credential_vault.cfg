SPECIFICATION Spec
CONSTANTS
    Nil = Nil
    Window = {w1, w2}
    Cred = {c1}
    Password = {p1, p2}
    GetFails = TRUE
    SetFails = TRUE
    DeleteFails = TRUE
    Imports = TRUE
    Kills = TRUE
SYMMETRY Alike
CHECK_DEADLOCK FALSE
PROPERTIES
    SecretsMatchRecords
    IsAVault
