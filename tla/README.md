# Verification of libpaxos-cpp: TLA+ models, TLC runs, TLAPS proofs

This directory holds the formal models of the client and transport layers of
libpaxos-cpp, the TLC configurations that check them, and TLAPS proofs about
the client and the write queue. `PROJECT.json` is the machine-readable index. It lists the
components, the runs, the mutants, the map from definitions to source lines,
the findings, the hazards and the theorems.

## 1. The system (inventory)

| Part | Source | What it does |
|---|---|---|
| Client API and retry logic | `src/paxos++/client.cpp` | `client::send` creates a promise and calls `do_request`. `do_request` pushes `{bytes, quorum, callback}` on `request_queue_`. The callback sets the promise on success. On an error with `retries > 0` it arms a 500 ms `deadline_timer` whose handler calls `do_request(..., retries - 1)`. Otherwise it sets `request_error`. |
| Client request queue | `client.cpp:29-38` (handler); the queue class is not under `src/` | The queue admits one request at a time and hands it to `initiate_request::step1` with a guard. The next request is admitted once the guard is released. |
| Connection write path | `src/paxos++/detail/tcp_connection.cpp` | `write` copies into `write_buffer_`. It either calls `start_write` (if the buffer was empty) or appends. `start_write` runs `async_write` on a view of the buffer. `handle_write` drops `bytes_transferred` bytes and restarts if data remains. |
| Framing and read loop | `src/unnamed/part_001` (protocol.cpp) | `write_command` prepends a 4-byte length. `read_command` -> `parse_size` -> `parse_command` -> `handle_command`, which re-arms `read_command`. A read error logs and stops the loop. An unknown command throws `protocol_error`. |
| Heartbeat and election driver | `part_001:46-85` | `bootstrap` and `heartbeat`: start handshakes, ask `needs_new_leader`, reset and elect, announce if leader, re-arm the timer. |
| Quorum view, Paxos round, connection pool | not under `src/` | These are specified in `spec.md` only. |
| Failure-injection test | `src/test/connection_close1.cpp` | A follower closes the leader's socket on `prepare`. The client expects errors. |
| Tutorial | `src/unnamed/part_000` | Documentation. |

The client and the server share one design. Every handler runs on a Boost.Asio
`io_service` thread. Handlers run to completion, one at a time. State is
carried from one handler to the next in captured variables (promise, retries,
timer) and in member buffers (`write_buffer_`). Concurrency is therefore an
interleaving of handlers, which is exactly TLA+'s model of a step.

## 2. Modules and their correspondence to the code

### `PaxosClient` (client.cpp)

Constants:
- `NumRequests`: the number of `send` calls.
- `Retries`: the `retries` argument.

Variables:
- `submitted`: the `send` calls made so far.
- `queue`: `request_queue_`.
- `inflight`: the admitted request whose guard is held.
- `timers`: armed retry timers, each carrying its `retries` capture.
- `promise`: the state of each `std::promise`.
- `sets`: the number of `set_value`/`set_exception` calls per promise.
- `attempts`: history of how many times `step1` ran per request.
- `ready`: the client's quorum view, abstracted to a boolean.

Actions:
- `Send` models `client::send`, and `DoRequest` models `do_request`.
- `Admit` models the queue handler: the guard is free, so the head goes to `step1`.
- `Respond` models the end of `step1`: the callback `OnResponse` runs (its three branches are lines 106-168), then the guard is released.
- `TimerFire` models the timer handler at lines 140-150.
- `QuorumChange` models the environment: the heartbeat finds or loses a leader.

The leader's side of an attempt is abstracted to its outcome (`Outcomes`):
- `not_ready` when the view had no leader;
- otherwise a reply or an error.

### `TcpConnection` (tcp_connection.cpp, protocol.cpp framing and read loop)

This module models one direction of one connection, with constant `MaxWrites`.
A frame is two units: its length prefix and its body. Each unit carries `ok`,
which is false when its bytes were read from freed memory.

The sender side is `written`, `wbuf` (`write_buffer_`), `ops` (outstanding
`async_write`s), `inLen`/`sent` (the view given to `async_write` and how much of
it has gone), and `stale` (whether the view dangles). The wire is `wire`. The
reader side is `rpos` (units read), `rstate`, `aligned`, `hdr` (the parsed
length and, when it is a real prefix, the frame it belongs to) and `received`
(what `handle_command` was given: a frame number, or 0 for garbage).

The reader trusts the length prefix (`part_001:225-232`), and the model keeps
that. A prefix read on a frame boundary (`aligned`) with its bytes intact
sizes exactly its own body. Any other prefix gives an arbitrary length from
`GarbageLens`, up to more than the wire can ever hold (a read that never
completes). The body read then takes that many units. A garbage body either
decodes to some command (delivered as 0, loop re-armed), or reaches a type
`handle_command` throws on, or makes `command::from_string` throw before any
delivery. After a garbage read the reader is on a frame boundary again only if
it stopped at an even unit, and even then it may have landed mid-frame in
byte terms, so `aligned` is chosen. Lengths are counted in whole units, which
is coarser than bytes: the byte-level offsets are abstracted to this choice.

Actions:
- `Write`: `tcp_connection::write` with its two branches and the `start_write` call.
- `WriteSome`: one partial transfer of the running `async_write`.
- `HandleWrite`: `handle_write`, which ignores the error.
- `Close`: `tcp_connection::close`, or the peer resetting.
- `ReadSize`: `read_command` followed by `parse_size`.
- `ReadBody`: `parse_command` followed by `handle_command`'s re-arm.
- `ParseSizeError`, `ParseCommandError`: the error branch of `parse_size`
  (lines 216-219) and of `parse_command` (lines 249-259) on a closed socket.

**Undefined behaviour.** `write_buffer_ += message` (line 68) may reallocate
while `async_write` holds `boost::asio::buffer(write_buffer_)` (lines 77-78).
The model makes this a choice. An append may mark the view stale. Units later
sent through a stale view may be correct (the old storage still holds the
bytes) or corrupt (the storage was reused).

### `ClientPromises` (the client's contract, spec 4.5)

This is the abstract specification of what `client::send` promises. It has
two variables: `submitted` (how many requests were sent) and `promise` (each
request's promise: pending, value or `request_error`). `Submit` sends the next
request. `Answer(r)` sets a pending promise once. `Spec` adds weak fairness on
every `Answer(r)`, so every submitted request is eventually answered.

`PaxosClient` defines `Abstract == INSTANCE ClientPromises`. The refinement
mapping is the identity on `submitted` and `promise`: queues, timers, attempts
and the quorum view are forgotten. `ImplementsClientPromises == Abstract!Spec`
is checked as a property.

### `FrameChannel` (what one direction of a connection promises)

This is the abstract specification of a connection as the protocol layer
sees it. It has two variables: `sent` (frames written) and `delivered` (what
`handle_command` was given: a frame number, or 0 for a corrupt frame).
`Send` writes the next frame. `Deliver` hands over a written frame later
than every delivered one, or garbage (0). A frame follows the last delivery
directly, unless that delivery was garbage: after garbage the reader may have
lost the frame boundaries, so the next real frame may be any later one. So
frames arrive in the order written, none is repeated or invented, and one is
skipped only after a corrupt delivery. The code does not promise intact or
complete delivery (see `tcp_dangling_buffer`).

`TcpConnection` defines `Channel == INSTANCE FrameChannel WITH sent <-
written, delivered <- received`. `ImplementsFrameChannel == Channel!Spec` is
checked in `tcp_write_queue` and proved in `TcpConnectionProofs`.

### `Protocol` (part_001: heartbeat, handle_command, read loop)

Constants:
- `Self`: this node's endpoint.
- `Peers`: the other nodes' endpoints.
- `Types`: the command types peers send.
- `Sizes`: the length prefixes peers send, abstracted to `"fits"` and `"oversized"`.
- `MaxFrames`: the bound on frames per peer.

Variables:
- Quorum view (`detail::quorum`, modelled from the spec): `live` (unknown/alive/dead per peer), `leader`, `electing`, `hs` (handshakes in flight).
- Environment: `up` (peer process running), `conn` (the connection from each peer), `inbox` (frames on it), `sentCount`.
- This node: `io` (the `io_service` running or stopped by an exception), and per connection `reads` (outstanding `async_read`s), `stage` (size, body or stopped) and `hdr` (the length just parsed).

Actions:
- `Heartbeat` models `protocol::heartbeat` (lines 56-85). It starts the handshake sweep. On the liveness view *as it is now* (before any handshake of this sweep answers) it asks `needs_new_leader`, and if so it runs `reset_state` and starts an election. The timer re-arm is the fairness of `Heartbeat`.
- `HandshakeDone(p)` and `Elect` model the handshake and election handlers, from spec 4.3, because their code is not under `src/`. The candidate is the alive node highest in endpoint order, and it needs a strict majority.
- `ReadSize(p)` models `read_command` and `parse_size`. The length is decoded and the body read is armed, whatever the length.
- `ReadBody(p)` models `parse_command`, which completes only once the body bytes are on the connection, followed by `Dispatch(p, f)` (`handle_command`, lines 118-152). A handled type goes to its handler and `read_command` is re-armed. A `leader_announce` makes its sender the leader. Any other type reaches `PAXOS_THROW`, which stops the `io_service`, and the finished read is never replaced.
- `ParseSizeError(p)` and `ParseCommandError(p)` model the error branch of `parse_size` (lines 216-219) and of `parse_command` (lines 249-259): log, return, and the loop ends (`EndReadLoop`). `ReadError(p)` is their disjunction.
- `Init` runs the constructor and `NewConnection` (`new_connection`, lines 86-98) for each peer: one read armed for a length prefix.
- `PeerSend`, `PeerCrash` and `ConnDrop` are the environment. `ConnDrop` is the connection pool closing a connection under its read loop (the warning at line 182).

### `PaxosClientProofs`, `TcpConnectionProofs`, `ProtocolProofs`

These modules hold the TLAPS proofs (section 5).

### MC modules

- `MCPaxosClient` fixes `NumRequests = 3` and `Retries = 2`.
- `MCTcpConnection` fixes `MaxWrites = 3`.
- `MCProtocol` is a three-node quorum seen from endpoint 2, with peers 1 and 3. So both "this node is the candidate" and "a peer is" happen. It also defines the type and size sets of the runs.

## 3. Runs

| Run (cfg) | Expect | Properties | What it shows |
|---|---|---|---|
| `MCPaxosClient.cfg` | pass (3968 states) | `TypeOK`, `OneLiveAttempt`, `RetryBudget`, `AllAnswered` | See the notes below. |
| `MCPaxosClient_CompletesInSubmissionOrder.cfg` | violation | `CompletesInSubmissionOrder` | Request 1 fails and waits on its 500 ms timer. The guard is released, so request 2 is admitted and answered first. The spec (4.5, 5(b), 8.5) promises submission order. |
| `MCPaxosClient_NotReadyFailsFast.cfg` | violation | `NotReadyFailsFast` | A not-ready attempt is retried like any error (line 106). `not_ready` is never set, yet the spec (4.6) and `connection_close1.cpp:126` expect it. |
| `MCTcpConnection.cfg` | pass (37,451 states) | `TypeOK`, `SingleWriter`, `StreamInOrder`, `FramesDelivered`, `ImplementsFrameChannel` | See the notes below. |
| `MCTcpConnection_FramesDeliveredIntact.cfg` | violation | `FramesDeliveredIntact` | A second `write` during a running `async_write` reallocates the buffer. The peer parses a corrupt frame. This is a code bug (use after free). |
| `MCTcpConnection_WriteLoopStops.cfg` | violation | `WriteLoopStops` | After the socket fails, `handle_write` ignores the error and restarts the write forever. The spec (4.1) says a failed connection is not reused. |
| `MCPaxosClient_Refinement.cfg` | pass (3968 states) | `ImplementsClientPromises` | The client model implements `ClientPromises`, fairness included. |
| `MCProtocol.cfg` | pass (243,853 states) | `TypeOK`, `SingleRead`, `FramesServed`, `ReadLoopEndsOnClose`, `LostLeaderReplaced` | See the notes below. |
| `MCProtocol_ErrorPaths.cfg` | pass (161,103 states) | `SingleRead` | With `request_initiate` frames and oversized lengths on the wire, the throw out of `handle_command` still leaves no connection with two reads, or with a read counted after its loop ended. |
| `MCProtocol_FramesServed.cfg` | violation | `FramesServed` | Peer 1 sends a `request_initiate`. `handle_command` throws and the `io_service` stops, so peer 3's frames are never served. Spec 7 says a protocol error closes that one connection and never crashes the node. |
| `MCProtocol_OversizedFrameRejected.cfg` | violation | `OversizedFrameRejected` | `parse_size` allocates `new char[bytes]` and reads a body of any announced length (line 227). Spec 4.4/7 says the connection is closed instead. |
| `MCProtocol_ReadErrorMarksPeerDead.cfg` | violation | `ReadErrorMarksPeerDead` | A read error only logs and returns (lines 216-219, 256-259). Spec 3 says the peer is marked dead. |

Notes on the two passing runs:
- `MCPaxosClient.cfg`:
  - No request ever has two live attempts, and no promise is set twice (`OneLiveAttempt`).
  - At most `Retries + 1` attempts are made, and `request_error` comes only after all of them (`RetryBudget`).
  - Every sent request is answered, whatever the quorum does (`AllAnswered`).
- `MCTcpConnection.cfg`:
  - At most one `async_write` runs, and one always runs while data is queued (`SingleWriter`).
  - The wire followed by the unsent buffer is exactly frames 1..written (`StreamInOrder`).
  - Every frame written is delivered unless the socket fails or a corrupt unit reached the wire (`FramesDelivered`). A corrupt prefix can make the reader skip frames or wait for ever, so the condition is needed. The bug that corrupts units is the `tcp_dangling_buffer` finding.
  - Through `written` and `received`, the connection is a `FrameChannel` (`ImplementsFrameChannel`).
- `MCProtocol.cfg` (peers send only handled types):
  - Each connection has exactly one `async_read` until its loop ends, and none after (`SingleRead`). `handle_command` re-arms exactly the read that finished.
  - Every frame a peer sends is served unless that peer's connection closes (`FramesServed`).
  - A read loop whose connection is closed under it ends (`ReadLoopEndsOnClose`).
  - A crashed leader is eventually no longer the leader (`LostLeaderReplaced`). This holds although `heartbeat` decides on last sweep's liveness (line 65). The next heartbeat sees the handshake's verdict.

`MCProtocol_ErrorPaths.cfg` and `MCProtocol_FramesServed.cfg` run with
`CHECK_DEADLOCK FALSE`. Both put `request_initiate` frames on the wire. Once
the throw has stopped the `io_service`, the node really does hang, and no
action is enabled. The runs without that type have no deadlock. The ErrorPaths
run has one frame per peer and no `handshake_start`. This keeps it at 161,103
states. Both branches of `Dispatch` and the oversized length are still reached.

`MCTcpConnection` runs with `CHECK_DEADLOCK FALSE`. Once the bounded writes are
done and the buffer has drained, a connection really does sit idle.

**Bounds.** Three requests with two retries each is enough for the cases that
matter:
- a request failing while another waits behind it;
- a retry timer racing a later request;
- a request exhausting its budget.

With `Retries = 2`, an off-by-one in the countdown is visible. Three writes
let a second and a third frame be appended while the first `async_write` is
partly done, which is needed for the reallocation and the restart in
`handle_write`.

For `Protocol`, two peers are the smallest quorum in which a majority, a
crashed leader and a candidate other than this node all occur. Two frames per
peer let a second frame wait behind one being read, so `FramesServed` is about
a queue and not a single frame. Two command types are enough to reach both
branches that keep the loop: one that changes the view (`leader_announce`) and
one that does not (`handshake_start`).

**Mutants.** Each property of a passing run is broken by a plausible bug in the
definition it guards (`PROJECT.json` lists them):
- the `retries > 0` test dropped;
- a failed attempt both retried and answered;
- the retry test off by one;
- a timer handler that does not re-queue;
- the frame number off by one;
- `start_write` called on a non-empty buffer;
- the whole view dropped instead of `bytes_transferred`;
- no restart after a partial write;
- a handler re-arming a second read, `handle_command` not re-arming, and the throw leaving its read counted;
- a body-read error callback that runs after its loop ended, and a length-read error callback that re-arms the read on the closed socket instead of returning;
- `heartbeat` starting an election without `reset_state`;
- a failed attempt that is both answered and retried (for the refinement).

## 4. Fairness

Weak fairness is assumed only for handlers the `io_service` thread has posted
and will run:
- queue admission;
- the end of a `step1` round, which the leader bounds with timeouts;
- timer expiry;
- the write and read completions.

In `Protocol`, `Heartbeat` is weakly fair because its handler re-arms its
own timer on every tick (lines 81-84). A handshake and an election are weakly
fair because they end by their deadlines (spec 4.3).

Fairness is not assumed for user calls (`send`, `write`), for quorum changes,
for a peer's sends, crashes or dropped connections, or for socket failure.
Those come from the environment.

## 5. What is proved (TLAPS)

`PaxosClientProofs.tla` holds four theorems. They hold for every
`NumRequests \in Nat \ {0}` and `Retries \in Nat`:
- `TypeCorrect`: `Spec => []TypeOK`. In particular, an armed timer always has `retries >= 1`. This rests on the `retries > 0` guard of the callback, and on that guard only. So `retries - 1` in the timer handler never wraps the `uint16_t`.
- `OneLiveAttemptHolds`: `Spec => []OneLiveAttempt`.
- `RetryBudgetHolds`: `Spec => []RetryBudget`.
- `RefinesClientPromises`: `Spec => Abstract!SafeSpec`. The safety part of `ClientPromises` holds under the refinement mapping.

`OneLiveAttempt` is not inductive alone. A `Send` of request `r` must know
that `r` is not already somewhere in the pipeline. The inductive invariant is
therefore `IInv == TypeOK /\ OneLiveAttempt /\ NotYetSent`, where `NotYetSent`
says that a request not yet sent is nowhere and its promise is pending. TLC
checked `IInv` as an invariant first. The proof has one lemma per action
(`IInvSend`, `IInvAdmit`, `IInvRespond`, `IInvTimerFire`), plus lemmas about
the request set of a sequence under `Append`/`Tail` and about distinctness.

`RetryBudget` needs more. Its strengthening `AttemptsMatchRetries` says that
for every request in the queue, attempts made plus retries left equals
`Retries`. For an in-flight request or a timer, the sum is `Retries + 1`.
Without it, the `retries` captured in a timer would not be tied to the
`attempts` history. `BInv == IInv /\ AttemptsMatchRetries` is proved
inductive, action by action (`BudgetSend`, `BudgetAdmit`, `BudgetRespond`,
`BudgetTimerFire`).

The refinement proof maps the initial state to `Abstract!Init`
(`AbstractInit`). Under `IInv`, every step maps to an abstract step or a
stutter (`AbstractStep`):
- `Send` is `Submit`;
- a `Respond` that sets a promise is `Answer(r)`, and `OneLiveAttempt` guarantees that promise was pending;
- every other action leaves `submitted` and `promise` alone.

`TcpConnectionProofs.tla` holds four theorems. They hold for every
`MaxWrites \in Nat \ {0}`:
- `TcpTypeCorrect`: `Spec => []TypeOK`.
- `SingleWriterHolds`: `Spec => []SingleWriter`.
- `StreamInOrderHolds`: `Spec => []StreamInOrder`.
- `ImplementsFrameChannelHolds`: `Spec => ImplementsFrameChannel`. `FrameChannel` has no fairness, so this is the whole abstract specification.

Neither is inductive alone, so both come from `WInv == TypeOK /\ SingleWriter`.
`WriteSome` indexes `wbuf[sent + 1]`, which is a unit only because
`SingleWriter` bounds `sent` by `inLen` and `inLen` by `Len(wbuf)`. The lemmas
`FrameType` and `RestOfBuffer` state what `write_command` produces and what
`handle_write`'s `substr` leaves. The latter rests on `SubSeqProperties` of
the library.

`StreamInOrder` is inductive with `SInv == WInv /\ Clean /\ StreamInOrder`.
`Clean` says every unit still in `write_buffer_` has `ok = TRUE`: only the
copy put on the wire through a stale view is corrupt, never the buffer.
Without `Clean`, a unit sent later could differ from the frame it stands for.
The steps are:
- `Write` appends `Frame(written + 1)` to the unsent part. `FramesUpToNext`
  shows that frames 1..n+1 are frames 1..n followed by frame n+1 (no
  induction is needed: `FramesUpTo` is a function of the unit index), and
  `RestOfAppended` moves the append through the unsent suffix.
- `WriteSome` moves the first unsent unit to the wire (`StripAllAppend`,
  `SubSeqRecursiveFirst`, associativity of `\o`).
- `HandleWrite` drops exactly the `sent` prefix, so the unsent part is
  unchanged, whether it restarts `async_write` or not.

The refinement of `FrameChannel` rests on
`RInv == SInv /\ ReaderOnWire /\ DeliveredBehind /\ AtBoundary /\ BodyOfFrame`:
- `ReaderOnWire`: the reader is never past the wire, and past its first unit
  while a body read is armed.
- `DeliveredBehind`: every frame delivered lies wholly behind the reader
  (`2 * received[i] <= rpos`). So a frame the reader reaches later is later
  than every delivery, and nothing is delivered twice.
- `AtBoundary`: when the reader is aligned and waits for a length, it is on a
  frame boundary, and the frame starting there follows the last delivery
  (directly, or after garbage).
- `BodyOfFrame`: a body read sized by a real prefix is aligned, one unit long,
  right after that frame's prefix, and for a frame that follows the last
  delivery.

`AtBoundary` and `BodyOfFrame` are what the code's trust in the prefix needs:
only an intact prefix read on a boundary sizes the body it belongs to. Every
other read delivers 0 or nothing (`ReadBodyOutcomes`). `WireFrames` derives
from `StreamInOrder` that unit k of the wire belongs to frame `(k + 1) \div 2`
and that the wire holds at most `2 * written` units. So `parse_command` hands
over a frame that was written, later than every delivery and next after the
last intact one, or garbage (`ReadBodyDelivers`). `Write` is `Send`, and every
other step leaves `written` and `received` alone (`RefineStep`). TLC checked
`SInv` and `RInv` as invariants of the `tcp_write_queue` instance before the
proofs.

`ProtocolProofs.tla` holds two theorems. They hold for every `Self`, `Peers`,
`Types`, `Sizes` and `MaxFrames` satisfying `ProtocolAssumption`:
- `ProtocolTypeCorrect`: `Spec => []TypeOK`.
- `SingleReadHolds`: `Spec => []SingleRead`.

Both come from `PInv == TypeOK /\ SingleRead /\ BodyPending`. `TypeOK` is
not inductive alone, for two reasons:
- The throw in `handle_command` decrements the finished read. The result is
  in `Nat` only because `SingleRead` says the count was 1.
- `parse_command` takes `Head` of the peer's stream. That is a frame only
  because of `BodyPending`: a body read is armed only while the frame whose
  length was read is still on the connection.

TLC checked `PInv` on the `protocol_error_paths` instance first. There is one
lemma per action (`PInvReadSize`, `PInvReadBody`, `PInvReadError` for both
error callbacks,
`PInvPeerSend`), plus one for the actions that leave the read loops alone
(`PInvView`).

**Left to TLC:**
- the liveness properties (`AllAnswered`, `FramesDelivered`, `FramesServed`, `ReadLoopEndsOnClose`, `LostLeaderReplaced`) and the fairness part of `ImplementsClientPromises`, because TLAPS cannot prove liveness under fairness or reason about ENABLED;
- the statements about what a recursive computation returns for every input: none is needed so far, because `FramesUpTo` is written as a function of the unit index.

## 6. Not modelled yet, and the plan

Planned modules:
1. **Protocol over TcpConnection**: the per-peer read loop of `Protocol` fed by the write queue of `TcpConnection`, instead of an abstract inbox.

The Paxos round state machine (C4) is not modelled. Of its code, only the
`basic_paxos::factory` header is in this repository. A model of it would
model spec 4.4 and not this program. The client therefore keeps the round
abstracted to its outcomes (`Outcomes`).

Not modelled at all:
- the messages exchanged by the handshake, election and announce handlers, because those handlers are not under `src/`. Only their outcomes are modelled (`HandshakeDone`, `Elect`, `leader_announce`);
- `announce_leadership_.start()` at line 74, which only writes to peers and changes no state of this node;
- byte-level contents and exact lengths: a length prefix is only "fits" or "oversized";
- logging and configuration;
- the thread-safety of `request_queue::queue::push` from the user's thread, because that class is not in this repository.
