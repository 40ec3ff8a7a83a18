CONSTANTS
    MaxWrites <- MCMaxWrites
SPECIFICATION Spec
INVARIANT FramesDeliveredIntact
CHECK_DEADLOCK FALSE
