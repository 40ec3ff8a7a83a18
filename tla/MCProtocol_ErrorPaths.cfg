CONSTANTS
    Self <- MCSelf
    Peers <- MCPeers
    Types <- MCTypesWithRequest
    Sizes <- MCSizesWithOversized
    MaxFrames <- MCMaxFramesOne
SPECIFICATION Spec
INVARIANTS
    SingleRead
CHECK_DEADLOCK FALSE
