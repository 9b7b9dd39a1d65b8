SPECIFICATION SSHSpec
CONSTANTS
    Items <- MCItems
    Included <- MCIncluded
    HostChoice <- MCHosts
    Unusable <- MCUnusable
    MaxItems = 2
    MaxHosts = 3
    MaxChanges = 2
    MaxExports = 2
    None = None
CHECK_DEADLOCK FALSE
INVARIANTS
    WrittenHolds
    
PROPERTY OwnIsKept
