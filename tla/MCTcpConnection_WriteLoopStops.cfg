CONSTANTS
    MaxWrites <- MCMaxWrites
SPECIFICATION Spec
PROPERTY WriteLoopStops
CHECK_DEADLOCK FALSE
