CONSTANTS
    Self <- MCSelf
    Peers <- MCPeers
    Types <- MCTypes
    Sizes <- MCSizesWithOversized
    MaxFrames <- MCMaxFrames
SPECIFICATION Spec
INVARIANT
    OversizedFrameRejected
