SPECIFICATION Spec
CONSTANTS
    Nil = Nil
    Old = Old
    c1 = c1
    c2 = c2
    f1 = f1
    f2 = f2
    l1 = l1
    d1 = d1
    s1 = s1
    s2 = s2
    Chunks = 2
    ChanCap = 1
    Copy = {c1, c2}
    File = {f1, f2, l1}
    Dir = {d1}
    Remote = {f1, l1, d1}
    Session = {s1}
    Tree <- TreeAndFile
    Into <- IntoTree
    Linked = {l1}
    Refused = {}
    There = {f2}
    Overlap = "apart"
    Posix = FALSE
    Drops = TRUE
CHECK_DEADLOCK FALSE
INVARIANTS
    OldOrNew
    PartsAreInUse
    EscMeansWhatItSays
PROPERTIES
    AsksFirst
    
    EveryCopyIsReported
