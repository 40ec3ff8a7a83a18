------------------------- MODULE PaxosClientProofs -------------------------
(***************************************************************************)
(* Proofs about PaxosClient for every NumRequests and Retries: the type   *)
(* invariant, and OneLiveAttempt (a request has at most one live attempt  *)
(* and its promise is set at most once) through the inductive invariant   *)
(* IInv == TypeOK /\ OneLiveAttempt /\ NotYetSent.                          *)
(***************************************************************************)
EXTENDS PaxosClient, TLAPS

USE NumRequestsAssumption, RetriesAssumption

-----------------------------------------------------------------------------
(* Lemmas about the requests held in a queue.                              *)

LEMMA ReqsOfAppend ==
    ASSUME NEW s \in Seq(Entry), NEW e \in Entry
    PROVE  ReqsOf(Append(s, e)) = ReqsOf(s) \cup {e.req}
BY DEF ReqsOf

LEMMA ReqsOfTail ==
    ASSUME NEW s \in Seq(Entry), s # <<>>, DistinctReqs(s)
    PROVE  /\ Head(s).req \in ReqsOf(s)
           /\ ReqsOf(Tail(s)) = ReqsOf(s) \ {Head(s).req}
<1>1. /\ Len(s) \in Nat \ {0}
      /\ Head(s) = s[1]
      /\ DOMAIN Tail(s) = 1..(Len(s) - 1)
      /\ \A i \in 1..(Len(s) - 1) : Tail(s)[i] = s[i + 1]
  OBVIOUS
<1>2. Head(s).req \in ReqsOf(s)
  BY <1>1 DEF ReqsOf
<1>3. ReqsOf(Tail(s)) \subseteq ReqsOf(s) \ {Head(s).req}
  BY <1>1 DEF ReqsOf, DistinctReqs
<1>4. ReqsOf(s) \ {Head(s).req} \subseteq ReqsOf(Tail(s))
  <2> SUFFICES ASSUME NEW i \in DOMAIN s, s[i].req # Head(s).req
               PROVE  s[i].req \in ReqsOf(Tail(s))
    BY DEF ReqsOf
  <2>1. i # 1 /\ i - 1 \in DOMAIN Tail(s)
    BY <1>1
  <2> QED
    BY <1>1, <2>1 DEF ReqsOf
<1> QED
  BY <1>2, <1>3, <1>4

LEMMA DistinctAppend ==
    ASSUME NEW s \in Seq(Entry), NEW e \in Entry, DistinctReqs(s),
           e.req \notin ReqsOf(s)
    PROVE  DistinctReqs(Append(s, e))
BY DEF ReqsOf, DistinctReqs

LEMMA DistinctTail ==
    ASSUME NEW s \in Seq(Entry), s # <<>>, DistinctReqs(s)
    PROVE  DistinctReqs(Tail(s))
BY DEF DistinctReqs

LEMMA ReqsInReq ==
    ASSUME NEW q \in Seq(Entry), NEW T \in SUBSET [req : Req, retries : 1..Retries]
    PROVE  ReqsOf(q) \subseteq Req /\ {t.req : t \in T} \subseteq Req
<1>1. \A i \in DOMAIN q : q[i] \in Entry
  OBVIOUS
<1>2. ReqsOf(q) \subseteq Req
  BY <1>1 DEF ReqsOf, Entry
<1>3. {t.req : t \in T} \subseteq Req
  OBVIOUS
<1> QED
  BY <1>2, <1>3

-----------------------------------------------------------------------------
(* Type correctness.  TypeOK is inductive: the only subtle step is        *)
(* TimerFire, whose re-queued retries t.retries - 1 stay in 0..Retries     *)
(* because a timer is only armed when retries > 0.                          *)

LEMMA TypeOKInit == Init => TypeOK
BY NumRequestsAssumption, RetriesAssumption DEF Init, TypeOK, PromiseState

LEMMA TypeOKStep == TypeOK /\ [Next]_vars => TypeOK'
<1> SUFFICES ASSUME TypeOK, [Next]_vars PROVE TypeOK'
  OBVIOUS
<1> USE RetriesAssumption, NumRequestsAssumption
<1>1. CASE Send
  <2>1. [req |-> submitted + 1, retries |-> Retries] \in Entry
    BY <1>1 DEF Send, TypeOK, Entry, Req
  <2> QED
    BY <1>1, <2>1 DEF Send, DoRequest, TypeOK
<1>2. CASE Admit
  <2>1. Head(queue) \in Entry /\ Tail(queue) \in Seq(Entry)
    BY <1>2 DEF Admit, TypeOK
  <2>2. inflight' \in Attempt
    BY <1>2, <2>1 DEF Admit, TypeOK, Entry, Attempt
  <2> QED
    BY <1>2, <2>1, <2>2 DEF Admit, TypeOK, Entry
<1>3. CASE Respond
  <2>0. PICK o \in Outcomes(inflight) : OnResponse(inflight, o)
    BY <1>3 DEF Respond
  <2>1. inflight \in Attempt
    BY <1>3 DEF Respond, TypeOK
  <2>2. inflight.req \in Req /\ inflight.retries \in 0..Retries
    BY <2>1 DEF Attempt
  <2>3. CASE o = "reply"
    <3>1. /\ promise' = [promise EXCEPT ![inflight.req] = "value"]
          /\ sets' = [sets EXCEPT ![inflight.req] = @ + 1]
          /\ timers' = timers
      BY <2>0, <2>3 DEF OnResponse
    <3> QED
      BY <1>3, <2>2, <3>1 DEF Respond, TypeOK, PromiseState
  <2>4. CASE o # "reply" /\ inflight.retries > 0
    <3>1. /\ timers' = timers \cup {[req |-> inflight.req,
                                      retries |-> inflight.retries]}
          /\ UNCHANGED <<promise, sets>>
      BY <2>0, <2>4 DEF OnResponse
    <3> QED
      BY <1>3, <2>2, <2>4, <3>1 DEF Respond, TypeOK
  <2>5. CASE o # "reply" /\ inflight.retries = 0
    <3>1. /\ promise' = [promise EXCEPT ![inflight.req] = "request_error"]
          /\ sets' = [sets EXCEPT ![inflight.req] = @ + 1]
          /\ timers' = timers
      BY <2>0, <2>5 DEF OnResponse
    <3> QED
      BY <1>3, <2>2, <3>1 DEF Respond, TypeOK, PromiseState
  <2> QED
    BY <2>2, <2>3, <2>4, <2>5
<1>4. CASE \E t \in timers : TimerFire(t)
  <2>0. PICK t \in timers : TimerFire(t)
    BY <1>4
  <2>1. [req |-> t.req, retries |-> t.retries - 1] \in Entry
    BY DEF TypeOK, Entry
  <2> QED
    BY <2>0, <2>1 DEF TimerFire, DoRequest, TypeOK
<1>5. CASE QuorumChange
  BY <1>5 DEF QuorumChange, TypeOK
<1>6. CASE UNCHANGED vars
  BY <1>6 DEF vars, TypeOK
<1> QED
  BY <1>1, <1>2, <1>3, <1>4, <1>5, <1>6 DEF Next

(* The type invariant holds in every reachable state of the client.      *)
THEOREM TypeCorrect == Spec => []TypeOK
BY TypeOKInit, TypeOKStep, PTL DEF Spec

-----------------------------------------------------------------------------
(* OneLiveAttempt.  It is not inductive alone: Send would break it if the *)
(* request it creates could already be queued, waiting on a timer, in     *)
(* flight or answered, which NotYetSent excludes.  Each action moves one  *)
(* request from one place to the next (send -> queue -> in flight ->      *)
(* timer -> queue ... -> promise), so the places stay disjoint.            *)

LEMMA NoAttemptNotReq == NoAttempt.req \notin Req
BY DEF NoAttempt, Req

LEMMA IInvInit == Init => IInv
<1> SUFFICES ASSUME Init PROVE IInv
  OBVIOUS
<1>1. TypeOK
  BY TypeOKInit
<1>2. QueuedReqs = {} /\ TimerReqs = {}
  BY DEF Init, QueuedReqs, ReqsOf, TimerReqs
<1> QED
  BY <1>1, <1>2, NoAttemptNotReq
     DEF Init, IInv, OneLiveAttempt, NotYetSent, DistinctReqs

LEMMA IInvSend == IInv /\ Send => IInv'
<1> SUFFICES ASSUME IInv, Send PROVE IInv'
  OBVIOUS
<1> DEFINE n == submitted + 1
           e == [req |-> n, retries |-> Retries]
<1> USE DEF n, e
<1>1. TypeOK /\ OneLiveAttempt /\ NotYetSent
  BY DEF IInv
<1>2. TypeOK'
  BY <1>1, TypeOKStep DEF Next
<1>3. /\ n \in Req /\ e \in Entry
      /\ queue' = Append(queue, e)
      /\ UNCHANGED <<inflight, timers, promise, sets>>
  <2>1. n \in Req
    BY <1>1 DEF Send, TypeOK, Req
  <2>2. e \in Entry
    BY <2>1, RetriesAssumption DEF Entry
  <2> QED
    BY <2>1, <2>2 DEF Send, DoRequest
<1>4. n \notin QueuedReqs \cup TimerReqs \cup {inflight.req}
      /\ promise[n] = "pending"
  BY <1>1, <1>3 DEF NotYetSent, TypeOK
<1>5. QueuedReqs' = QueuedReqs \cup {n}
  BY <1>1, <1>3, ReqsOfAppend DEF TypeOK, QueuedReqs
<1>6. DistinctReqs(queue')
  BY <1>1, <1>3, <1>4, DistinctAppend DEF TypeOK, OneLiveAttempt, QueuedReqs
<1>7. TimerReqs' = TimerReqs
  BY <1>3 DEF TimerReqs
<1>8. OneLiveAttempt'
  BY <1>1, <1>3, <1>4, <1>5, <1>6, <1>7 DEF OneLiveAttempt
<1>9. NotYetSent'
  BY <1>1, <1>3, <1>5, <1>7 DEF NotYetSent, Send, TypeOK, Req
<1> QED
  BY <1>2, <1>8, <1>9 DEF IInv

LEMMA IInvAdmit == IInv /\ Admit => IInv'
<1> SUFFICES ASSUME IInv, Admit PROVE IInv'
  OBVIOUS
<1> DEFINE h == Head(queue)
<1> USE DEF h
<1>1. TypeOK /\ OneLiveAttempt /\ NotYetSent
  BY DEF IInv
<1>2. TypeOK'
  BY <1>1, TypeOKStep DEF Next
<1>3. /\ queue \in Seq(Entry) /\ queue # <<>> /\ DistinctReqs(queue)
      /\ queue' = Tail(queue) /\ inflight'.req = h.req
      /\ UNCHANGED <<submitted, timers, promise, sets>>
  BY <1>1 DEF Admit, TypeOK, OneLiveAttempt
<1>4. h.req \in QueuedReqs /\ QueuedReqs' = QueuedReqs \ {h.req}
  BY <1>3, ReqsOfTail DEF QueuedReqs
<1>5. DistinctReqs(queue')
  BY <1>3, DistinctTail
<1>6. TimerReqs' = TimerReqs
  BY <1>3 DEF TimerReqs
<1>7. inflight.req \notin Req
  BY NoAttemptNotReq DEF Admit
<1>8. OneLiveAttempt'
  BY <1>1, <1>3, <1>4, <1>5, <1>6, <1>7 DEF OneLiveAttempt
<1>9. NotYetSent'
  BY <1>1, <1>3, <1>4, <1>6 DEF NotYetSent
<1> QED
  BY <1>2, <1>8, <1>9 DEF IInv

LEMMA IInvRespond == IInv /\ Respond => IInv'
<1> SUFFICES ASSUME IInv, Respond PROVE IInv'
  OBVIOUS
<1> DEFINE a == inflight
<1> USE DEF a
<1>1. TypeOK /\ OneLiveAttempt /\ NotYetSent
  BY DEF IInv
<1>2. TypeOK'
  BY <1>1, TypeOKStep DEF Next
<1>3. /\ a \in Attempt /\ a.req \in Req /\ a.retries \in Nat
      /\ inflight'.req \notin Req
      /\ UNCHANGED <<submitted, queue>>
  BY <1>1, NoAttemptNotReq DEF Respond, TypeOK, Attempt
<1>10. QueuedReqs' \cup TimerReqs' \subseteq Req
  BY <1>2, ReqsInReq DEF TypeOK, QueuedReqs, TimerReqs
<1>4. /\ a.req \notin QueuedReqs \cup TimerReqs
      /\ promise[a.req] = "pending" /\ sets[a.req] = 0
      /\ a.req <= submitted
  BY <1>1, <1>3 DEF OneLiveAttempt, NotYetSent, TypeOK, Req
<1>5. QueuedReqs' = QueuedReqs
  BY <1>3 DEF QueuedReqs
<1>0. PICK o \in Outcomes(a) : OnResponse(a, o)
  BY DEF Respond
<1>6. CASE o # "reply" /\ a.retries > 0
  <2>1. /\ timers' = timers \cup {[req |-> a.req, retries |-> a.retries]}
        /\ UNCHANGED <<promise, sets>>
    BY <1>0, <1>6 DEF OnResponse
  <2>2. TimerReqs' = TimerReqs \cup {a.req}
    <3>1. TimerReqs' \subseteq TimerReqs \cup {a.req}
      BY <2>1 DEF TimerReqs
    <3>2. TimerReqs \cup {a.req} \subseteq TimerReqs'
      <4>1. /\ [req |-> a.req, retries |-> a.retries] \in timers'
            /\ timers \subseteq timers'
        BY <2>1
      <4>2. a.req \in TimerReqs'
        <5>1. [req |-> a.req, retries |-> a.retries].req = a.req
          OBVIOUS
        <5> QED
          BY <4>1, <5>1 DEF TimerReqs
      <4> QED
        BY <4>1, <4>2 DEF TimerReqs
    <3> QED
      BY <3>1, <3>2
  <2>3. OneLiveAttempt'
    <3>1. \A t1, t2 \in timers' : t1.req = t2.req => t1 = t2
      BY <1>1, <1>4, <2>1 DEF OneLiveAttempt, TimerReqs
    <3>2. QueuedReqs' \cap TimerReqs' = {}
      BY <1>1, <1>4, <1>5, <2>2 DEF OneLiveAttempt
    <3>3. \A r \in Req : promise'[r] # "pending" =>
                r \notin QueuedReqs' \cup TimerReqs' \cup {inflight'.req}
      BY <1>1, <1>3, <1>5, <2>1, <2>2 DEF OneLiveAttempt
    <3> QED
      BY <1>1, <1>3, <1>5, <1>10, <2>1, <3>1, <3>2, <3>3 DEF OneLiveAttempt
  <2>4. NotYetSent'
    BY <1>1, <1>3, <1>4, <1>5, <2>1, <2>2 DEF NotYetSent
  <2> QED
    BY <1>2, <2>3, <2>4 DEF IInv
<1>7. CASE o = "reply" \/ a.retries = 0
  <2>1. /\ promise' = [promise EXCEPT ![a.req] = IF o = "reply" THEN "value"
                                                   ELSE "request_error"]
        /\ sets' = [sets EXCEPT ![a.req] = @ + 1]
        /\ timers' = timers
    BY <1>0, <1>7 DEF OnResponse
  <2>2. TimerReqs' = TimerReqs
    BY <2>1 DEF TimerReqs
  <2>3. OneLiveAttempt'
    <3>1. \A r \in Req : sets'[r] = IF promise'[r] = "pending" THEN 0 ELSE 1
      BY <1>1, <1>4, <2>1 DEF OneLiveAttempt, TypeOK
    <3>2. \A r \in Req : promise'[r] # "pending" =>
                r \notin QueuedReqs' \cup TimerReqs' \cup {inflight'.req}
      BY <1>1, <1>3, <1>4, <1>5, <2>1, <2>2 DEF OneLiveAttempt, TypeOK
    <3> QED
      BY <1>1, <1>3, <1>5, <1>10, <2>1, <2>2, <3>1, <3>2 DEF OneLiveAttempt
  <2>4. NotYetSent'
    BY <1>1, <1>3, <1>4, <1>5, <2>1, <2>2 DEF NotYetSent, TypeOK
  <2> QED
    BY <1>2, <2>3, <2>4 DEF IInv
<1> QED
  BY <1>3, <1>6, <1>7

LEMMA IInvTimerFire == ASSUME IInv, NEW t \in timers, TimerFire(t)
                       PROVE  IInv'
<1>1. TypeOK /\ OneLiveAttempt /\ NotYetSent
  BY DEF IInv
<1>2. TypeOK'
  BY <1>1, TypeOKStep DEF Next
<1> DEFINE e == [req |-> t.req, retries |-> t.retries - 1]
<1> USE DEF e
<1>3. /\ e \in Entry /\ queue \in Seq(Entry)
      /\ queue' = Append(queue, e) /\ timers' = timers \ {t}
      /\ UNCHANGED <<submitted, inflight, promise, sets>>
  <2>1. e \in Entry
    BY <1>1 DEF TypeOK, Entry
  <2> QED
    BY <1>1, <2>1 DEF TimerFire, DoRequest, TypeOK
<1>4. /\ t.req \in TimerReqs /\ t.req \notin QueuedReqs
      /\ t.req # inflight.req /\ promise[t.req] = "pending"
      /\ t.req <= submitted
  BY <1>1 DEF OneLiveAttempt, NotYetSent, TimerReqs, TypeOK, Req
<1>5. QueuedReqs' = QueuedReqs \cup {t.req}
  BY <1>1, <1>3, ReqsOfAppend DEF QueuedReqs
<1>6. TimerReqs' = TimerReqs \ {t.req}
  BY <1>1, <1>3 DEF OneLiveAttempt, TimerReqs
<1>7. DistinctReqs(queue')
  BY <1>1, <1>3, <1>4, DistinctAppend DEF OneLiveAttempt, QueuedReqs
<1>8. OneLiveAttempt'
  BY <1>1, <1>3, <1>4, <1>5, <1>6, <1>7 DEF OneLiveAttempt
<1>9. NotYetSent'
  BY <1>1, <1>3, <1>4, <1>5, <1>6 DEF NotYetSent
<1> QED
  BY <1>2, <1>8, <1>9 DEF IInv

LEMMA IInvStep == IInv /\ [Next]_vars => IInv'
<1> SUFFICES ASSUME IInv, [Next]_vars PROVE IInv'
  OBVIOUS
<1>1. CASE Send
  BY <1>1, IInvSend
<1>2. CASE Admit
  BY <1>2, IInvAdmit
<1>3. CASE Respond
  BY <1>3, IInvRespond
<1>4. CASE \E t \in timers : TimerFire(t)
  BY <1>4, IInvTimerFire
<1>5. CASE QuorumChange \/ UNCHANGED vars
  <2>1. TypeOK'
    BY TypeOKStep DEF IInv
  <2> QED
    BY <1>5, <2>1 DEF QuorumChange, vars, IInv, OneLiveAttempt, NotYetSent,
                      QueuedReqs, TimerReqs, ReqsOf, DistinctReqs
<1> QED
  BY <1>1, <1>2, <1>3, <1>4, <1>5 DEF Next

(* Every reachable state of the client gives each request at most one    *)
(* live attempt, and sets each promise at most once: a failed attempt     *)
(* either re-arms a retry timer or answers the promise, never both, and a *)
(* retry re-queues only a request that is nowhere else.                    *)
THEOREM OneLiveAttemptHolds == Spec => []OneLiveAttempt
<1>1. Init => IInv
  BY IInvInit
<1>2. IInv /\ [Next]_vars => IInv'
  BY IInvStep
<1>3. IInv => OneLiveAttempt
  BY DEF IInv
<1> QED
  BY <1>1, <1>2, <1>3, PTL DEF Spec

-----------------------------------------------------------------------------
(* The retry budget.  AttemptsMatchRetries ties the attempts counter of   *)
(* each request to the retries left in its one live place, which is what *)
(* IInv provides; together they are inductive.                             *)

BInv == IInv /\ AttemptsMatchRetries

LEMMA BudgetInit == Init => AttemptsMatchRetries
BY DEF Init, AttemptsMatchRetries, NoAttempt

LEMMA BudgetSend == ASSUME IInv, AttemptsMatchRetries, Send
                    PROVE  AttemptsMatchRetries'
<1> DEFINE n == submitted + 1
           e == [req |-> n, retries |-> Retries]
<1> USE DEF n, e
<1>1. /\ TypeOK /\ NotYetSent
      /\ submitted' = n
      /\ queue' = Append(queue, e)
      /\ UNCHANGED <<inflight, timers, promise, attempts>>
  BY DEF IInv, Send, DoRequest
<1>2. /\ n \in Req /\ e \in Entry /\ queue \in Seq(Entry)
  <2>1. submitted \in 0..NumRequests /\ submitted < NumRequests
    BY <1>1 DEF Send, TypeOK
  <2>2. n \in Req
    BY <2>1 DEF Req
  <2>3. e \in Entry
    BY <2>2 DEF Entry
  <2> QED
    BY <1>1, <2>2, <2>3 DEF TypeOK
<1>3. attempts[n] = 0
  BY <1>1, <1>2 DEF AttemptsMatchRetries, TypeOK, Req
<1>4. \A i \in DOMAIN queue' :
         attempts'[queue'[i].req] + queue'[i].retries = Retries
  <2> SUFFICES ASSUME NEW i \in DOMAIN queue'
               PROVE  attempts[queue'[i].req] + queue'[i].retries = Retries
    BY <1>1
  <2>1. CASE i \in DOMAIN queue
    BY <1>1, <1>2, <2>1 DEF AttemptsMatchRetries
  <2>2. CASE i = Len(queue) + 1
    BY <1>1, <1>2, <1>3, <2>2
  <2> QED
    BY <1>1, <1>2, <2>1, <2>2
<1>5. \A r \in Req :
         /\ attempts'[r] <= Retries + 1
         /\ r > submitted' => attempts'[r] = 0
         /\ promise'[r] = "request_error" => attempts'[r] = Retries + 1
  BY <1>1, <1>2 DEF AttemptsMatchRetries, TypeOK, Req
<1>6. /\ \A t \in timers' : attempts'[t.req] + t.retries = Retries + 1
      /\ inflight' # NoAttempt =>
            attempts'[inflight'.req] + inflight'.retries = Retries + 1
  BY <1>1 DEF AttemptsMatchRetries
<1> QED
  BY <1>4, <1>5, <1>6 DEF AttemptsMatchRetries

LEMMA BudgetAdmit == ASSUME IInv, AttemptsMatchRetries, Admit
                     PROVE  AttemptsMatchRetries'
<1> DEFINE h == Head(queue)
<1> USE DEF h
<1>1. /\ TypeOK /\ OneLiveAttempt /\ NotYetSent
      /\ queue \in Seq(Entry) /\ queue # <<>>
  BY DEF IInv, Admit, TypeOK
<1>2. /\ h \in Entry /\ h = queue[1] /\ 1 \in DOMAIN queue
      /\ h.req \in QueuedReqs
  BY <1>1 DEF QueuedReqs, ReqsOf
<1>3. /\ h.req \in Req /\ h.retries \in 0..Retries
      /\ attempts[h.req] \in Nat
      /\ h.req <= submitted
      /\ promise[h.req] = "pending"
      /\ h.req \notin TimerReqs
      /\ attempts[h.req] + h.retries = Retries
  <2>1. h.req \in Req /\ h.retries \in 0..Retries /\ submitted \in Nat
    BY <1>1, <1>2 DEF Entry, TypeOK
  <2>5. attempts[h.req] \in Nat
    BY <1>1, <2>1 DEF TypeOK
  <2>2. h.req <= submitted
    BY <1>1, <1>2, <2>1 DEF NotYetSent, Req
  <2>3. promise[h.req] = "pending" /\ h.req \notin TimerReqs
    BY <1>1, <1>2, <2>1 DEF OneLiveAttempt
  <2>4. attempts[h.req] + h.retries = Retries
    BY <1>2 DEF AttemptsMatchRetries
  <2> QED
    BY <2>1, <2>2, <2>3, <2>4, <2>5
<1>4. /\ attempts' = [attempts EXCEPT ![h.req] = @ + 1]
      /\ inflight' = [req |-> h.req, retries |-> h.retries, ready |-> ready]
      /\ queue' = Tail(queue)
      /\ UNCHANGED <<submitted, timers, promise>>
  BY DEF Admit
<1>5. \A i \in DOMAIN queue' : queue'[i].req # h.req /\ queue'[i] = queue[i + 1]
                               /\ i + 1 \in DOMAIN queue
  BY <1>1, <1>4 DEF OneLiveAttempt, DistinctReqs
<1>6. \A i \in DOMAIN queue' :
         attempts'[queue'[i].req] + queue'[i].retries = Retries
  BY <1>1, <1>4, <1>5 DEF AttemptsMatchRetries, TypeOK, ReqsOf, QueuedReqs
<1>7. \A t \in timers' : attempts'[t.req] + t.retries = Retries + 1
  <2> SUFFICES ASSUME NEW t \in timers
               PROVE  attempts'[t.req] + t.retries = Retries + 1
    BY <1>4
  <2>1. t.req # h.req /\ t.req \in Req
    BY <1>1, <1>3 DEF TimerReqs, TypeOK
  <2>2. attempts'[t.req] = attempts[t.req]
    BY <1>1, <1>4, <2>1 DEF TypeOK
  <2> QED
    BY <2>2 DEF AttemptsMatchRetries
<1>8. attempts'[inflight'.req] + inflight'.retries = Retries + 1
  <2>1. attempts'[h.req] = attempts[h.req] + 1
    BY <1>1, <1>3, <1>4 DEF TypeOK
  <2>2. inflight'.req = h.req /\ inflight'.retries = h.retries
    BY <1>4
  <2> QED
    BY <1>3, <2>1, <2>2
<1>9. \A r \in Req :
         /\ attempts'[r] <= Retries + 1
         /\ r > submitted' => attempts'[r] = 0
         /\ promise'[r] = "request_error" => attempts'[r] = Retries + 1
  <2> SUFFICES ASSUME NEW r \in Req
               PROVE  /\ attempts'[r] <= Retries + 1
                      /\ r > submitted' => attempts'[r] = 0
                      /\ promise'[r] = "request_error" => attempts'[r] = Retries + 1
    OBVIOUS
  <2>1. CASE r = h.req
    <3>1. attempts'[r] = attempts[r] + 1
      BY <1>1, <1>3, <1>4, <2>1 DEF TypeOK
    <3>2. /\ submitted' = submitted /\ promise'[r] = "pending"
      BY <1>3, <1>4, <2>1
    <3>3. submitted \in Nat
      BY <1>1 DEF TypeOK
    <3> QED
      BY <1>3, <2>1, <3>1, <3>2, <3>3 DEF Req
  <2>2. CASE r # h.req
    BY <1>1, <1>4, <2>2 DEF AttemptsMatchRetries, TypeOK
  <2> QED
    BY <2>1, <2>2
<1> QED
  BY <1>6, <1>7, <1>8, <1>9 DEF AttemptsMatchRetries

LEMMA BudgetRespond == ASSUME IInv, AttemptsMatchRetries, Respond
                       PROVE  AttemptsMatchRetries'
<1> DEFINE a == inflight
<1> USE DEF a
<1>1. /\ TypeOK /\ a \in Attempt /\ a # NoAttempt
      /\ attempts[a.req] + a.retries = Retries + 1
      /\ inflight' = NoAttempt
      /\ UNCHANGED <<submitted, queue, attempts>>
  BY DEF IInv, Respond, TypeOK, AttemptsMatchRetries
<1>2. PICK o \in Outcomes(a) : OnResponse(a, o)
  BY DEF Respond
<1>3. /\ \A i \in DOMAIN queue' :
            attempts'[queue'[i].req] + queue'[i].retries = Retries
      /\ inflight' # NoAttempt =>
            attempts'[inflight'.req] + inflight'.retries = Retries + 1
  BY <1>1 DEF AttemptsMatchRetries
<1>4. CASE o # "reply" /\ a.retries > 0
  <2>1. /\ timers' = timers \cup {[req |-> a.req, retries |-> a.retries]}
        /\ UNCHANGED promise
    BY <1>2, <1>4 DEF OnResponse
  <2> QED
    BY <1>1, <1>3, <2>1 DEF AttemptsMatchRetries
<1>5. CASE o = "reply"
  <2>1. /\ promise' = [promise EXCEPT ![a.req] = "value"]
        /\ UNCHANGED timers
    BY <1>2, <1>5 DEF OnResponse
  <2> QED
    BY <1>1, <1>3, <2>1 DEF AttemptsMatchRetries, TypeOK
<1>6. CASE o # "reply" /\ a.retries = 0
  <2>1. /\ promise' = [promise EXCEPT ![a.req] = "request_error"]
        /\ UNCHANGED timers
    BY <1>2, <1>6 DEF OnResponse
  <2> QED
    BY <1>1, <1>3, <1>6, <2>1 DEF AttemptsMatchRetries, TypeOK, Attempt
<1> QED
  BY <1>1, <1>4, <1>5, <1>6 DEF TypeOK, Attempt

LEMMA BudgetTimerFire == ASSUME IInv, AttemptsMatchRetries,
                                NEW t \in timers, TimerFire(t)
                         PROVE  AttemptsMatchRetries'
<1> DEFINE e == [req |-> t.req, retries |-> t.retries - 1]
<1> USE DEF e
<1>1. /\ TypeOK /\ queue \in Seq(Entry)
      /\ t.req \in Req /\ t.retries \in 1..Retries
      /\ attempts[t.req] + t.retries = Retries + 1
      /\ queue' = Append(queue, e) /\ timers' = timers \ {t}
      /\ UNCHANGED <<submitted, inflight, promise, attempts>>
  BY DEF IInv, TimerFire, DoRequest, TypeOK, AttemptsMatchRetries
<1>2. \A i \in DOMAIN queue' :
         attempts'[queue'[i].req] + queue'[i].retries = Retries
  <2> SUFFICES ASSUME NEW i \in DOMAIN queue'
               PROVE  attempts[queue'[i].req] + queue'[i].retries = Retries
    BY <1>1
  <2>1. CASE i \in DOMAIN queue
    BY <1>1, <2>1 DEF AttemptsMatchRetries
  <2>2. CASE i = Len(queue) + 1
    <3>1. attempts[t.req] \in Nat
      BY <1>1 DEF TypeOK
    <3>2. queue'[i].req = t.req /\ queue'[i].retries = t.retries - 1
      BY <1>1, <2>2
    <3>3. attempts[t.req] + t.retries = Retries + 1 /\ t.retries \in Nat
      BY <1>1
    <3> QED
      BY <3>1, <3>2, <3>3
  <2> QED
    BY <1>1, <2>1, <2>2
<1> QED
  BY <1>1, <1>2 DEF AttemptsMatchRetries

LEMMA BInvStep == BInv /\ [Next]_vars => BInv'
<1> SUFFICES ASSUME BInv, [Next]_vars PROVE BInv'
  OBVIOUS
<1>1. IInv /\ AttemptsMatchRetries /\ IInv'
  BY IInvStep DEF BInv
<1>2. CASE Send
  BY <1>1, <1>2, BudgetSend DEF BInv
<1>3. CASE Admit
  BY <1>1, <1>3, BudgetAdmit DEF BInv
<1>4. CASE Respond
  BY <1>1, <1>4, BudgetRespond DEF BInv
<1>5. CASE \E t \in timers : TimerFire(t)
  BY <1>1, <1>5, BudgetTimerFire DEF BInv
<1>6. CASE QuorumChange \/ UNCHANGED vars
  BY <1>1, <1>6 DEF BInv, QuorumChange, vars, AttemptsMatchRetries
<1> QED
  BY <1>2, <1>3, <1>4, <1>5, <1>6 DEF Next

(* However the quorum comes and goes, no request is attempted more than  *)
(* Retries + 1 times, and request_error reaches the caller only after     *)
(* exactly that many attempts failed: the retries countdown of do_request *)
(* and its retry timer is never off by one.                                *)
THEOREM RetryBudgetHolds == Spec => []RetryBudget
<1>1. Init => BInv
  BY IInvInit, BudgetInit DEF BInv
<1>2. BInv => RetryBudget
  BY DEF BInv, AttemptsMatchRetries, RetryBudget
<1> QED
  BY <1>1, <1>2, BInvStep, PTL DEF Spec

-----------------------------------------------------------------------------
(* Refinement.  Under the identity mapping on submitted and promise, a   *)
(* step of the client is a Submit (send), an Answer (the callback setting *)
(* the promise of the admitted request) or a stutter (queueing, retries,  *)
(* timers, quorum changes).                                                *)

LEMMA AbstractInit == Init => Abstract!Init
BY DEF Init, Abstract!Init, Req

LEMMA AbstractStep == IInv /\ [Next]_vars => [Abstract!Next]_Abstract!avars
<1> SUFFICES ASSUME IInv, [Next]_vars
             PROVE  [Abstract!Next]_Abstract!avars
  OBVIOUS
<1>1. CASE Send
  BY <1>1 DEF Send, Abstract!Next, Abstract!Submit, Abstract!avars
<1>2. CASE Respond
  <2> DEFINE a == inflight
  <2> USE DEF a
  <2>1. /\ a \in Attempt /\ a # NoAttempt
        /\ a.req \in Req /\ a.req <= submitted /\ promise[a.req] = "pending"
        /\ UNCHANGED submitted
    <3>1. TypeOK /\ OneLiveAttempt /\ NotYetSent /\ a # NoAttempt
      BY <1>2 DEF IInv, Respond
    <3>2. a \in Attempt /\ a.req \in Req /\ submitted \in Nat
      BY <3>1, NoAttemptNotReq DEF TypeOK, Attempt
    <3>3. a.req <= submitted
      BY <3>1, <3>2 DEF NotYetSent, Req
    <3>4. promise[a.req] = "pending"
      BY <3>1, <3>2 DEF OneLiveAttempt
    <3> QED
      BY <1>2, <3>1, <3>2, <3>3, <3>4 DEF Respond
  <2>2. PICK o \in Outcomes(a) : OnResponse(a, o)
    BY <1>2 DEF Respond
  <2>3. CASE o # "reply" /\ a.retries > 0
    BY <2>1, <2>2, <2>3 DEF OnResponse, Abstract!avars
  <2>4. CASE o = "reply" \/ a.retries = 0
    <3>1. \E v \in {"value", "request_error"} : promise' = [promise EXCEPT ![a.req] = v]
      BY <2>2, <2>4 DEF OnResponse
    <3>2. Abstract!Answer(a.req)
      BY <2>1, <3>1 DEF Abstract!Answer
    <3> QED
      BY <2>1, <3>2 DEF Abstract!Next, Req
  <2> QED
    BY <2>1, <2>3, <2>4 DEF Attempt
<1>3. CASE Admit \/ (\E t \in timers : TimerFire(t)) \/ QuorumChange \/ UNCHANGED vars
  BY <1>3 DEF Admit, TimerFire, QuorumChange, vars, Abstract!avars
<1> QED
  BY <1>1, <1>2, <1>3 DEF Next

(* The client's retry machinery is invisible to its caller: every         *)
(* behaviour of client::send/do_request with its queue and retry timers   *)
(* is, seen through submitted and promise, a behaviour of ClientPromises: *)
(* a future is fulfilled only after its send, and only once.              *)
THEOREM RefinesClientPromises == Spec => Abstract!SafeSpec
<1>1. Spec => []IInv
  BY IInvInit, IInvStep, PTL DEF Spec
<1> QED
  BY <1>1, AbstractInit, AbstractStep, PTL DEF Spec, Abstract!SafeSpec

=============================================================================
