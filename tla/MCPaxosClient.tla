--------------------------- MODULE MCPaxosClient ---------------------------
(* Model-checking instance of PaxosClient: three requests from one client, *)
(* so that a retried request can be overtaken by two later ones, and two   *)
(* retries, so that a request can fail, retry and fail again.              *)
EXTENDS PaxosClient

MCNumRequests == 3
MCRetries == 2
=============================================================================
