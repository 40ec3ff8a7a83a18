-------------------------- MODULE MCTcpConnection --------------------------
(* Model-checking instance of TcpConnection: three frames, enough for a   *)
(* write to be appended while an earlier one is half sent and for a third *)
(* to arrive after a partial write has been restarted.                     *)
EXTENDS TcpConnection

MCMaxWrites == 3
=============================================================================
