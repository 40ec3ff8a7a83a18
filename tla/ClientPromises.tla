--------------------------- MODULE ClientPromises ---------------------------
(***************************************************************************)
(* What client::send promises its caller (spec 4.6), with the retries,   *)
(* the queue and the leader abstracted away: each call returns a future   *)
(* that is eventually fulfilled exactly once, with the leader's reply or  *)
(* with request_error, and never before the call was made.                 *)
(***************************************************************************)
EXTENDS Naturals

CONSTANT NumRequests

VARIABLES submitted, promise

avars == <<submitted, promise>>

Init ==
    /\ submitted = 0
    /\ promise = [r \in 1..NumRequests |-> "pending"]

(* The user calls send.                                                    *)
Submit ==
    /\ submitted < NumRequests
    /\ submitted' = submitted + 1
    /\ UNCHANGED promise

(* The future of an outstanding call is fulfilled, once.                  *)
Answer(r) ==
    /\ r <= submitted
    /\ promise[r] = "pending"
    /\ \E v \in {"value", "request_error"} : promise' = [promise EXCEPT ![r] = v]
    /\ UNCHANGED submitted

Next == Submit \/ \E r \in 1..NumRequests : Answer(r)

SafeSpec == Init /\ [][Next]_avars

Spec == SafeSpec /\ \A r \in 1..NumRequests : WF_avars(Answer(r))

=============================================================================
