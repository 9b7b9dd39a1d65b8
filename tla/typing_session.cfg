SPECIFICATION TypingSpec
CONSTANTS
    MaxBack = 2
    Scanty = TRUE
    Shared = TRUE
CHECK_DEADLOCK FALSE
PROPERTIES
    
    TypedAsMeant
