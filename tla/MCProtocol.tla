----------------------------- MODULE MCProtocol -----------------------------
(* A three-node quorum seen from the node with the middle endpoint, so    *)
(* that both "this node is the candidate" and "a peer is" happen.         *)
EXTENDS Protocol

MCSelf == 2
MCPeers == {1, 3}
\* The types a peer sends to a node on the connection it opened to it.
MCTypes == {"handshake_start", "leader_announce"}
\* A type of the command enumeration that handle_command has no case for.
MCTypesWithRequest == MCTypes \cup {"request_initiate"}
MCSizes == {"fits"}
MCSizesWithOversized == {"fits", "oversized"}
MCMaxFrames == 2
MCMaxFramesOne == 1
=============================================================================
