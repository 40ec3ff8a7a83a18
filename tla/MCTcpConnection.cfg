CONSTANTS
    MaxWrites <- MCMaxWrites
SPECIFICATION Spec
INVARIANTS
    TypeOK
    SingleWriter
    StreamInOrder
PROPERTIES
    FramesDelivered
    ImplementsFrameChannel
CHECK_DEADLOCK FALSE
