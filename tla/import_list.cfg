SPECIFICATION ImportSpec
CONSTANTS
    laptop = laptop
    desktop = desktop
    u1 = u1
    u2 = u2
    Machine = {laptop, desktop}
    Creds = {"cred"}
    Groups = {"up", "down"}
    Hosts = {"web"}
    Users = {u1, u2}
    Rules = {"db", "web"}
    MaxEdits = 3
    MaxImports = 2
    None = None
SYMMETRY Alike
CHECK_DEADLOCK FALSE
INVARIANTS
    ReferencesResolve
PROPERTIES
    ImportIsWhatItSays
