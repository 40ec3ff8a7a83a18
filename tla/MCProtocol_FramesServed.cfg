CONSTANTS
    Self <- MCSelf
    Peers <- MCPeers
    Types <- MCTypesWithRequest
    Sizes <- MCSizes
    MaxFrames <- MCMaxFrames
SPECIFICATION Spec
PROPERTY
    FramesServed
CHECK_DEADLOCK FALSE
