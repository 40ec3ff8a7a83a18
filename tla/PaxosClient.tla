---------------------------- MODULE PaxosClient ----------------------------
(***************************************************************************)
(* The client side of libpaxos-cpp: client::send, client::do_request and  *)
(* the response callback with its 500 ms retry timer (client.cpp), and    *)
(* the per-client request queue that admits one request at a time and    *)
(* hands it, with a guard, to initiate_request::step1.                    *)
(*                                                                         *)
(* Requests are numbered 1..NumRequests in the order the user calls send. *)
(* A request lives in exactly one place at a time: waiting in the queue,  *)
(* admitted (step1 running, guard held), waiting on its retry timer, or   *)
(* answered through its promise.  The leader's side of an attempt         *)
(* (initiate_request::step1 and the Paxos round) is abstracted to its     *)
(* outcome: a reply, a request error, or not_ready when the client's      *)
(* quorum view has no live leader.                                         *)
(***************************************************************************)
EXTENDS Naturals, Sequences

CONSTANTS
    NumRequests,   \* how many times the user calls client::send
    Retries        \* the retries argument of client::send (uint16_t)

ASSUME NumRequestsAssumption == NumRequests \in Nat \ {0}
ASSUME RetriesAssumption == Retries \in Nat

Req == 1..NumRequests

\* A queued request, as pushed by do_request: the request and its retries left.
Entry == [req : Req, retries : 0..Retries]

\* An admitted request: step1 has been called with the guard; ready records
\* whether the client's quorum view was ready when step1 looked at it.
Attempt == [req : Req, retries : 0..Retries, ready : BOOLEAN]
NoAttempt == [req |-> 0, retries |-> 0, ready |-> FALSE]

\* What the std::promise of a request holds.
PromiseState == {"pending", "value", "request_error"}

VARIABLES
    submitted,  \* number of client::send calls made so far
    queue,      \* request_queue_: pushed requests not yet admitted
    inflight,   \* the admitted request whose guard is held, or NoAttempt
    timers,     \* pending 500 ms retry timers, one Entry each
    promise,    \* promise of each request
    sets,       \* number of set_value/set_exception calls on each promise
    attempts,   \* history: number of times step1 was called for each request
    ready       \* the client's quorum view: is it ready (live leader known)?

vars == <<submitted, queue, inflight, timers, promise, sets, attempts, ready>>

TypeOK ==
    /\ submitted \in 0..NumRequests
    /\ queue \in Seq(Entry)
    /\ inflight \in Attempt \cup {NoAttempt}
    /\ timers \in SUBSET [req : Req, retries : 1..Retries]
    /\ promise \in [Req -> PromiseState]
    /\ sets \in [Req -> Nat]
    /\ attempts \in [Req -> Nat]
    /\ ready \in BOOLEAN

Init ==
    /\ submitted = 0
    /\ queue = <<>>
    /\ inflight = NoAttempt
    /\ timers = {}
    /\ promise = [r \in Req |-> "pending"]
    /\ sets = [r \in Req |-> 0]
    /\ attempts = [r \in Req |-> 0]
    /\ ready \in BOOLEAN

-----------------------------------------------------------------------------
(* client::do_request: push the request onto request_queue_.              *)
DoRequest(r, k) == queue' = Append(queue, [req |-> r, retries |-> k])

(* client::send, called from a user thread: a new promise, then           *)
(* do_request with the caller's retries.                                   *)
Send ==
    /\ submitted < NumRequests
    /\ submitted' = submitted + 1
    /\ DoRequest(submitted + 1, Retries)
    /\ UNCHANGED <<inflight, timers, promise, sets, attempts, ready>>

(* The request_queue_ handler installed by the client constructor: when  *)
(* no guard is held, the head of the queue is handed to                   *)
(* initiate_request::step1 together with a fresh guard.                    *)
Admit ==
    /\ inflight = NoAttempt
    /\ queue # <<>>
    /\ inflight' = [req |-> Head(queue).req, retries |-> Head(queue).retries,
                    ready |-> ready]
    /\ queue' = Tail(queue)
    /\ attempts' = [attempts EXCEPT ![Head(queue).req] = @ + 1]
    /\ UNCHANGED <<submitted, timers, promise, sets, ready>>

(* What initiate_request::step1 reports to the callback: not_ready when   *)
(* the quorum view had no live leader, otherwise the leader's reply or a  *)
(* request error (round failed, connection lost, timeout).                 *)
Outcomes(a) == IF a.ready THEN {"reply", "request_error"} ELSE {"not_ready"}

(* Faults of the response callback, for checking that the properties    *)
(* detect them: the retries > 0 test dropped; the promise failed as well  *)
(* as a retry armed; the retry test off by one (retries > 1).             *)
OnResponseNoRetryGuard(a, o) ==
    \/ /\ o = "reply"
       /\ promise' = [promise EXCEPT ![a.req] = "value"]
       /\ sets' = [sets EXCEPT ![a.req] = @ + 1]
       /\ UNCHANGED timers
    \/ /\ o # "reply"
       /\ timers' = timers \cup {[req |-> a.req, retries |-> a.retries]}
       /\ UNCHANGED <<promise, sets>>

OnResponseFailsAndRetries(a, o) ==
    \/ /\ o = "reply"
       /\ promise' = [promise EXCEPT ![a.req] = "value"]
       /\ sets' = [sets EXCEPT ![a.req] = @ + 1]
       /\ UNCHANGED timers
    \/ /\ o # "reply"
       /\ a.retries > 0
       /\ timers' = timers \cup {[req |-> a.req, retries |-> a.retries]}
       /\ promise' = [promise EXCEPT ![a.req] = "request_error"]
       /\ sets' = [sets EXCEPT ![a.req] = @ + 1]
    \/ /\ o # "reply"
       /\ a.retries = 0
       /\ promise' = [promise EXCEPT ![a.req] = "request_error"]
       /\ sets' = [sets EXCEPT ![a.req] = @ + 1]
       /\ UNCHANGED timers

OnResponseRetryOffByOne(a, o) ==
    \/ /\ o = "reply"
       /\ promise' = [promise EXCEPT ![a.req] = "value"]
       /\ sets' = [sets EXCEPT ![a.req] = @ + 1]
       /\ UNCHANGED timers
    \/ /\ o # "reply"
       /\ a.retries > 1
       /\ timers' = timers \cup {[req |-> a.req, retries |-> a.retries]}
       /\ UNCHANGED <<promise, sets>>
    \/ /\ o # "reply"
       /\ a.retries <= 1
       /\ promise' = [promise EXCEPT ![a.req] = "request_error"]
       /\ sets' = [sets EXCEPT ![a.req] = @ + 1]
       /\ UNCHANGED timers

(* The response callback of do_request.  Without error the promise gets   *)
(* the value; with an error and retries left a 500 ms timer is armed; with *)
(* an error and no retries left the promise gets request_error.            *)
OnResponse(a, o) ==
    \/ /\ o = "reply"
       /\ promise' = [promise EXCEPT ![a.req] = "value"]
       /\ sets' = [sets EXCEPT ![a.req] = @ + 1]
       /\ UNCHANGED timers
    \/ /\ o # "reply"
       /\ a.retries > 0
       /\ timers' = timers \cup {[req |-> a.req, retries |-> a.retries]}
       /\ UNCHANGED <<promise, sets>>
    \/ /\ o # "reply"
       /\ a.retries = 0
       /\ promise' = [promise EXCEPT ![a.req] = "request_error"]
       /\ sets' = [sets EXCEPT ![a.req] = @ + 1]
       /\ UNCHANGED timers

(* step1 completes: the callback runs and the guard is released.          *)
Respond ==
    /\ inflight # NoAttempt
    /\ \E o \in Outcomes(inflight) : OnResponse(inflight, o)
    /\ inflight' = NoAttempt
    /\ UNCHANGED <<submitted, queue, attempts, ready>>

(* Fault: the timer handler's test inverted, so an expired timer does    *)
(* nothing.                                                                 *)
TimerFireDropsRetry(t) ==
    /\ t \in timers
    /\ timers' = timers \ {t}
    /\ UNCHANGED <<submitted, queue, inflight, promise, sets, attempts, ready>>

(* The retry timer expires without having been cancelled: do_request     *)
(* again with one retry fewer.                                             *)
TimerFire(t) ==
    /\ t \in timers
    /\ timers' = timers \ {t}
    /\ DoRequest(t.req, t.retries - 1)
    /\ UNCHANGED <<submitted, inflight, promise, sets, attempts, ready>>

(* The heartbeat changes the client's quorum view: a leader is found or   *)
(* lost.                                                                   *)
QuorumChange ==
    /\ ready' = ~ready
    /\ UNCHANGED <<submitted, queue, inflight, timers, promise, sets, attempts>>

Next ==
    \/ Send
    \/ Admit
    \/ Respond
    \/ \E t \in timers : TimerFire(t)
    \/ QuorumChange

(* The io_service thread runs every posted handler: the queue admits, the *)
(* leader's round ends (each phase has a deadline) and timers expire.     *)
(* The user's calls to send and the quorum's changes are not forced.       *)
Fairness ==
    /\ WF_vars(Admit)
    /\ WF_vars(Respond)
    /\ \A t \in Entry : WF_vars(TimerFire(t))

Spec == Init /\ [][Next]_vars /\ Fairness

-----------------------------------------------------------------------------
(***************************************************************************)
(* Properties.                                                             *)
(***************************************************************************)

\* Requests that are somewhere in the pipeline other than the promise.
ReqsOf(s) == {s[i].req : i \in DOMAIN s}
QueuedReqs == ReqsOf(queue)
DistinctReqs(s) == \A i, j \in DOMAIN s : i # j => s[i].req # s[j].req
TimerReqs == {t.req : t \in timers}

(* Each request has at most one live attempt, and its promise is set at   *)
(* most once (a second set_value/set_exception on a std::promise throws). *)
(* Violated if a failed attempt both re-queued the request and answered   *)
(* it, or a retry timer re-queued a request still queued or answered.     *)
OneLiveAttempt ==
    /\ DistinctReqs(queue)
    /\ \A t1, t2 \in timers : t1.req = t2.req => t1 = t2
    /\ inflight.req \notin QueuedReqs \cup TimerReqs
    /\ QueuedReqs \cap TimerReqs = {}
    /\ \A r \in Req :
          /\ sets[r] = IF promise[r] = "pending" THEN 0 ELSE 1
          /\ promise[r] # "pending" =>
                r \notin QueuedReqs \cup TimerReqs \cup {inflight.req}

(* A request the user has not sent yet is nowhere in the pipeline and its *)
(* promise is untouched.  Together with TypeOK and OneLiveAttempt this is *)
(* the inductive invariant from which OneLiveAttempt is proved.            *)
NotYetSent ==
    \A r \in Req : r > submitted =>
       /\ r \notin QueuedReqs \cup TimerReqs \cup {inflight.req}
       /\ promise[r] = "pending"

IInv == TypeOK /\ OneLiveAttempt /\ NotYetSent

(* The retry budget of do_request: a request makes at most Retries + 1    *)
(* attempts, and it is failed with request_error only after all of them   *)
(* failed.                                                                 *)
RetryBudget ==
    \A r \in Req :
       /\ attempts[r] <= Retries + 1
       /\ promise[r] = "request_error" => attempts[r] = Retries + 1

(* The attempts a request has made, read off its one live place: a      *)
(* queued entry with k retries left has made Retries - k attempts, an      *)
(* admitted one or one waiting on its timer Retries - k + 1.  With IInv   *)
(* this is the inductive invariant from which RetryBudget is proved.      *)
AttemptsMatchRetries ==
    /\ \A r \in Req :
          /\ attempts[r] <= Retries + 1
          /\ r > submitted => attempts[r] = 0
          /\ promise[r] = "request_error" => attempts[r] = Retries + 1
    /\ \A i \in DOMAIN queue : attempts[queue[i].req] + queue[i].retries = Retries
    /\ \A t \in timers : attempts[t.req] + t.retries = Retries + 1
    /\ inflight # NoAttempt =>
          attempts[inflight.req] + inflight.retries = Retries + 1

(* Every request the user sends is eventually answered, with a value or  *)
(* an error, whatever the quorum does meanwhile.                           *)
AllAnswered == \A r \in Req : (submitted >= r) ~> (promise[r] # "pending")

(* The client implements what send promises its caller (ClientPromises): *)
(* a future is fulfilled only after its send, exactly once, and           *)
(* eventually; the retry machinery stays invisible to the caller.         *)
Abstract == INSTANCE ClientPromises
ImplementsClientPromises == Abstract!Spec

(* Spec 4.5, 5(b), 8.5: one client's requests complete in the order they *)
(* were submitted.                                                         *)
CompletesInSubmissionOrder ==
    \A r1, r2 \in Req :
       r1 < r2 /\ promise[r2] # "pending" => promise[r1] # "pending"

(* Spec 4.6: if the quorum is not ready the request is failed at once     *)
(* with not_ready and is not retried.                                      *)
NotReadyFailsFast ==
    [][ inflight # NoAttempt /\ ~inflight.ready /\ inflight' = NoAttempt
        => promise'[inflight.req] = "not_ready" ]_vars

=============================================================================
