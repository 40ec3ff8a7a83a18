CONSTANTS
    Self <- MCSelf
    Peers <- MCPeers
    Types <- MCTypes
    Sizes <- MCSizes
    MaxFrames <- MCMaxFrames
SPECIFICATION Spec
PROPERTY
    ReadErrorMarksPeerDead
