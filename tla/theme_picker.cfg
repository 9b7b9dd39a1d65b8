SPECIFICATION Spec
CONSTANTS
    Builtin = {"terminal"}
    DefaultName = "terminal"
    Aliases = {}
    Own = {"mine"}
    Shades = {"dark", "light"}
    MaxSwitches = 2
    MaxRemovals = 1
    MaxEdits = 1
    MaxCrashes = 1
    Omarchy = "omarchy"
    Gone = Gone
    Half = Half
CHECK_DEADLOCK FALSE
INVARIANTS
    KeptIsShown
PROPERTIES
    FileIsAsSaid
    OmarchyIsFollowed
