CONSTANTS
    Self <- MCSelf
    Peers <- MCPeers
    Types <- MCTypes
    Sizes <- MCSizes
    MaxFrames <- MCMaxFrames
SPECIFICATION Spec
INVARIANTS
    TypeOK
    SingleRead
PROPERTIES
    FramesServed
    ReadLoopEndsOnClose
    LostLeaderReplaced
