# TLA+ verification of TinyIMX

TinyIMX is an instant-messaging backend in C++20: Gateways hold the client
connections, gRPC services own the data, MySQL is the source of truth, a SQL
Outbox feeds RocketMQ, Redis holds routes and unread counters. A deployment may
keep private messages in a native store (RocksDB) instead. This directory models
the protocols on which the reliability of messages rests, checks them with TLC
and proves the most important safety properties with TLAPS. Every definition is
translated from the C++ source; `PROJECT.json` maps each one to its lines.

## 1. The system and its parts

The life of a private message, and the part responsible for each step:

1. A client logs in. `SessionManager` binds the connection to its user, the
   Gateway records in Redis where the user is, and owes the user a replay of what
   is still pending (`PrivateReplayAdmission`, `DurablePrivateRecovery`).
2. A client sends `kChatMessage`. The Gateway (`gateway/GatewayServer.cpp`) runs
   it as a coroutine in the ordered lane of its user pair
   (`gateway/business/BusinessExecutor`).
3. The coroutine calls `PersistPrivateMessage`. The Message service admits the
   call to a ready batch (`MessageReadyBatchService` over `common/runtime`). The
   repository adapter writes the row and its Outbox event in one transaction, or
   the native store writes both in one engine batch.
4. The Gateway answers the sender and delivers to the receiver's connection, or
   forwards to the Gateway that the route names (`GatewayPeerTransport`). Every
   packet is an attempt, a delivery sequence D, registered with the receiver
   delivery tracker before it is sent.
5. The receiver acknowledges D. The Gateway confirms the tracker entry and then
   makes it durable with `ConfirmReceiver`. An ACK timer retries.
6. The Outbox relay, or the native event relay, publishes committed events. The
   unread projector consumes them and overwrites the counters in Redis.

Group messages have one durable row per recipient. A coordinator on every
Gateway leases and dispatches the pending rows; a login replays the deferred ones.

## 2. Modules

| Module | Models | State and actions |
|---|---|---|
| `ReceiverDeliveryTracker` | `gateway/ReceiverDeliveryTracker.cpp` | the maps and counters of the class; one action per public method, which all hold its mutex |
| `PrivateMessageContract` | abstract specification | durable status, held by the receiver, told to the sender |
| `PrivateDelivery` | the private lane of `GatewayServer.cpp` | one message over several Gateways; a coroutine is cut at each `co_await`; timers, sessions and connections are steps of their own |
| `PrivatePersistence` | `MessageRepositoryAdapter.cpp`, `MySqlConnectionPool.cpp` | requests as transactions over rows, events and pooled connections; one action per statement |
| `OutboxRelay` | `services/outbox` | relay processes (poll, renew, worker, shutdown threads) over the shared table |
| `LocalPrivateStore`, `LocalEventRelay` | `services/message/local` | calls under user mutexes over an engine with a write-ahead log; the relay's poller, workers and progress writer, stop, crash and restart |
| `UnreadProjector` | `services/projection/unread` | workers over a broker that repeats, stripe mutexes, durable reads and counter writes |
| `SessionManager` | `gateway/SessionManager.cpp` | the two maps and the epoch |
| `GatewayPresence` | login, disconnect and heartbeat handlers, `OnlineStatusMaintenance.h`, `OnlineStatusCache` | extends `SessionManager`; the executor lane of a user and the record in Redis |
| `OfflineReplay` | `PrivateReplayAdmission`, `DurablePrivateRecovery` and the replay task | extends `GatewayPresence`; what a Gateway owes a session |
| `GatewayRegistryLease` | `services/registry/GatewayRegistry*.cpp` | two processes with one gateway id over the leased record and the index |
| `GatewayPeerTransport` | `GatewayPeerTransport*.cpp`, `TcpClient`, `Connector` | the peer loop as one record; a handler maps a value of it to the next |
| `GroupFanout` | `GroupFanoutCoordinator.cpp` and the group handlers of `GatewayServer.cpp` | rows with lease tokens, iterations in progress, forwards, ACKs, replays and probes |
| `BusinessExecutor` | `gateway/business/BusinessExecutor.cpp`, `ThreadPool` | lanes, four counters, workers, coroutines, completions, shutdown |
| `BoundedCallerBatch`, `BoundedReadyBatch`, `BoundedKeyedReadyBatch` | `common/runtime` headers of the same names | callers that lead each other's batches; sharded and keyed bounded queues |
| `MessageReadyBatchService` | the service of the same name | composes the two ready batches over shared state |
| `*Proofs` | | theorems and proofs (section 4) |
| `MC*` | | model values, deployments and scenes of the runs |

Abstractions that hold everywhere: a payload is a model value, or the equality
class the code compares; a clock is the event that a deadline passes; an RPC
takes effect and answers, fails before, or takes effect and its answer is lost.
Statistics, logs and text are left out. A definition under the comment "Mutant
of X" is a plausible bug in X, used by no specification.

**ReceiverDeliveryTracker.** `entries_` is a total function with an absent
state. The status that a method returns is an operator; statuses that change
nothing are stuttering. The recovery cooldown is one bit per entry.

**PrivateDelivery.** `stage` is where the coroutine of a Gateway's lane waits;
`reqs` and `fwds` are queued behind it. `tstate`, `tseqs`, `tcur` and `cooling`
are the tracker entry of the message; a full window appears as a refused
submission. `down` and `up` are the packets and ACKs in flight. `Restart`
empties a Gateway's memory, and the RPC it had in flight may still take effect.
An ACK whose task the executor refuses, or that finds no MessageService client,
is dropped (`GatewayServer.cpp:4596`, `:4627`): `LoseAck`, at the price of a fault.
The route of a message is any Gateway, so stale routes are included.

**PrivatePersistence.** `own` and `ownEvents` are the uncommitted rows of a
transaction, `View` is InnoDB's consistent read. The insert waits for an
uncommitted rival, fails on a committed one and may lose a deadlock. COMMIT may
fail after it took effect; the adapter then reads the keys again on another
connection and never repeats the write.

**OutboxRelay.** A row has a status, an owner token, and two facts about time:
whether its lease is live and whether its retry is due. `Fenced` is the
`locked_by` and `status` condition of every owned update. A restarted relay
issues the same tokens again, because a container's relay has the same process
id. `claims` is a history variable that counts the claims of a row.

**Native store.** `db` is what a read sees, `wal` the states a crash may leave.
Counters are written as values that were read, so the user mutexes carry their
correctness. Locking by hashed stripes, which the runtime does not use, is left
out. The relay's mutex appears as a state of the poller.

**Sessions, presence, replay.** A record in Redis is a connection. Generations
and attempt numbers are only compared with those that leases in flight carry,
so a number no lease carries stands for the next one. Pages hold one message,
delays are left out, `max_session_states` is not a limit here and epochs do not
wrap. A login that binds after the disconnect callback of its connection leaves
a session and a record until the next login or the record's expiry: the model
has this behaviour, and the liveness properties are stated for sessions whose
connection is open. `heartbeat_timeout_sec` is enforced nowhere in the code.

**Registry.** Register and UnregisterIfMatch are a script followed by a second
Redis call, two steps here. A failing SADD deletes the record whatever its token,
and a deletion that fails too goes unnoticed (`GatewayRegistry.cpp:275`), and the SREM of UnregisterIfMatch is unconditional
(`:563`); both are modelled, and `LeaseSettles` shows that heartbeats repair them.

**Peer transport.** Delays and the wrap of the 32-bit sequence are left out.
`PeerInit` is the state after `Manager::Start` has set `running_`; its validation
of the options is not modelled. Neither is a `TcpClient::Connect` that returns
false (`GatewayPeerTransport.cpp:343`: `running_` is cleared and no callback
runs), which takes an invalid loop or address. The model keeps that a retry timer after `Stop` drops its callback, that a group forward does not test
`IsRunning`, and that a forward with an older route record replaces the
transport and ends the forwards in flight.

**Group fan-out.** One recipient; rows of different recipients never meet. A
transaction is one step. Completion compares the token and not `lease_until`, as
the code does. After a failed `ConfirmGroupMessageDelivery` the tracker entry is
confirmed while the row waits to be repaired. Windows, attempt caps and the
resend cooldown are the tracker module's; here they are a refused submission.
A replay may fail in each of the ways the code lets it: its task is refused
(`GatewayServer.cpp:12565`), its claim fails, before or after it was committed
(`:12649`), its deadline passes (`:12633`, `:12661`), or a submission is refused
(`:12710`). The code retries none of them; what has been claimed stays leased.
`missed` records what such a replay owed, until another replay of the session
claims it. Where a scene is `timely`, the replay that a login queues claims within
the 250 ms by which the login's probe outlasts a lease, so the probe comes after
the lease of a replay that failed.

**Executor and batches.** The four counters of a drain are read one after the
other. A completion posted to a loop that has already left `Loop()` (the single
reactor at shutdown, `gateway_demo.cpp:1659`) and the lifetime of the executor
object are left out. The `std::terminate` branches of the keyed batch are states
that `SchedulerExact` excludes.

## 3. Runs

State counts are distinct states. Each run takes less than three minutes with
two workers.

| Run | Checks | Instance | States |
|---|---|---|---|
| `tracker_window` | `BooksExact`, `WindowBounded`, `AttemptEvidence`, `EvidenceMonotonic` | 2 message ids in both domains, 2 recipients, 3 attempt numbers, sizes 1 and 2, window of 3 entries and 4 bytes, of 2 entries and 3 bytes per recipient, 1 retained confirmation, 4 attempts on record together; message ids, recipients and attempt numbers are symmetric | 72,449 |
| `delivery_retry` | `WireAttemptsKnown`, `OwnershipHeldByLane`, `ImplementsContract` | 2 symmetric Gateways, either two sends with a fault or a second login (below) | 879,326 |
| `delivery_converges` | `AcceptedConverges` | 1 Gateway with durable recovery, caps of 1, 2 logins, 1 fault | 386,839 |
| `delivered_early` | violated: `DeliveredMeansDurablyConfirmed` | 1 Gateway, no fault | 172 |
| `persist` | `OneEventPerMessage`, `AnswersTrue`, `EveryRequestAnswered` | 2 requests of up to 2 messages, 2 client ids, 2 bodies, pool of 2, 2 faults | 234,853 |
| `relay` | `NothingLost`, `CleanStopReleasesAll`, `LiveClaimFenced`, `EventsSettle` | two relays over one row, or one relay over two rows of which one is invalid; 1 fault, 1 lost lease, 1 stop, at most 2 of these together | 152,573 |
| `relay_inflight` | violated: `ClaimsWithinMaxInflight` | 1 relay, 2 workers, 3 rows | 23,089 |
| `runtime` | `KeyOrder`, `StopIsQuiet`, `SchedulerExact`, `SenderOrder`, `OwnResult`, `AcceptedTasksEnd`, `EveryCallReturns` | executor workloads, or 4 requests to the ready batches, or 4 callers of a caller-led batch of 2 with 3 queued | 190,986 |
| `native_store` | `AnsweredDurable`, `CountersExact`, `EventNeverLost`, `EventsSettle` | 10 deployments of up to 2 calls, id ranges of 2, 2 workers, a stop or a crash | 73,456 |
| `sessions` | `SessionsMatch`, `ReplayOwed`, `OfflineSparesServed`, `PresenceConverges`, `PendingDelivered` | 10 deployments over 2 Gateways, 3 connections, 2 users | 123,462 |
| `services` | `ProjectionExact`, `ForwardHeldOnce`, `PeerKept`, `GroupDeliveredTrue`, `LeaseHeld`, `ProjectionSettles`, `LeaseSettles`, `ForwardsEnd`, `GroupReceived` | one of projector, registry, peer transport and group fan-out at work | 295,811 |
| `group_movement` | violated: `GroupReceived` | the scene of a deferred row and a half-open old session | 116,861 |

What the properties say, in short (the comment above each definition states it
in full):

- *Tracker.* Counters, byte sums and indexes are exactly what the entries imply,
  and the window stays within its four limits. A live entry keeps every attempt
  number it was sent with, so a late ACK still confirms, and a confirmation is
  never taken back.
- *Private delivery.* While a tracker entry lives, every attempt on the wire is
  known to it. Ownership of a delivery lives exactly as long as the coroutine
  that took it. The lane implements `PrivateMessageContract`: nothing is shown
  before it is durable, nothing is confirmed that the receiver does not have, and
  the sender hears only what is true. An accepted message is in the end confirmed
  if its receiver is in the end connected for good.
- *Persistence.* A message is durable exactly when its event is, and has one
  event. Answers are true of the committed rows, after a lost COMMIT answer too,
  and a message is created for one request only. Every request is answered.
- *Outbox.* A row is marked PUBLISHED only when the broker has its event. A clean
  stop leaves no undelivered row locked. Under a live lease only the holder of
  the latest claim settles or releases a row. Every event settles.
- *Runtime.* Tasks of one key neither overlap nor overtake, and after the stop
  nothing accepted is unfinished. The ready batches' books are exact, the calls
  of one sender finish in order and once, and a caller gets the result of its own
  input, which is executed once. Accepted tasks and calls end.
- *Native store.* What was answered survives a crash, counters equal what the
  rows say, and an event leaves the store only when the broker has it or it is
  quarantined. Unless the relay stops, every event settles.
- *Sessions.* The two maps are inverse. A connected session's replay has started
  or somebody is responsible for it. The cleanup of an old connection never
  removes the record of one that is served. In the end one connection at most
  serves a user and Redis names it, and pending messages are delivered to it.
- *Services.* Whenever all committed events of a receiver are acknowledged, Redis
  holds the durable counts. A forward is in one place, ends once and
  with its own answer, and a peer is never forgotten. A group row says DELIVERED
  only when the recipient has the message, and a live lease is taken from its
  holder by nobody. Projections, leases and forwards settle. A recipient who stays
  logged in has every group message in the end, except one that a failed replay
  of the session owed and no later one has claimed. The probe of a login thus
  makes up for a login replay that failed; when the probe's replay fails too, the
  message waits for the next login.

### Bounds and why they are enough

Each bound allows the case that its properties are about. Two Gateways make a
stale route and a re-login elsewhere possible. Two attempts and three attempt
numbers make a late ACK for a superseded attempt possible. Two requests with two
client ids meet in every order of locks, including the deadlock. Two relays over
one row meet in a lapsed lease, and one relay over two rows meets in a batch with
an invalid row. The tracker has more identities than its window has entries, a
recipient has more than it may have waiting, and each byte limit is less than
what the entries it covers may hold: each of the four limits refuses a
registration that the other three would admit, and an entry leaves the window
while another of the same recipient stays. The fan-out has a login with two
failures, its replay's and its probe's.

Four bounds are joint, because their product is out of reach. `tracker_window`
has the state constraint `Within` of four attempts on record. `delivery_retry`
has the state constraint `Within`: a behaviour with a second login has one send,
no fault and at most three attempts. `runtime` and `services` put one side to
work per behaviour; the sides share no variable, so no interleaving is lost.
`relay` limits the sum of faults, lost leases and stops to `MaxTrouble`. The
properties proved in section 4 do not depend on these bounds.

### Violations

Three runs show where the code and a statement about it differ. Each is recorded
under `findings` in `PROJECT.json`.

- `delivered_early`: the Gateway tells the sender "delivered" when the receiver's
  ACK is in the tracker, before `ConfirmReceiver` is durable
  (`GatewayServer.cpp:7147`; M12 acceptance document, line 56).
- `relay_inflight`: `FinishRecord` erases the in-flight entry by row id without
  comparing the token. Finishing a record whose lease was lost untracks the newer
  claim of the row, and the relay locks one row more than `max_inflight`
  (`OutboxRelay.cpp:639`; `tests/outbox/outbox_relay_unit_test.cpp:340`).
- `group_movement`: a user moves to another Gateway while the old session is half
  open. The old session may claim the deferred row again just before the new
  Gateway's only probe, and then nobody replays the row until the next login
  (`GatewayServer.cpp:5269`).

### Fairness

A safety run needs none. Liveness runs assume only what the scheduling of the
code gives:

- `delivery_converges`: weak fairness of loops, timers, completions of RPCs and
  delivery by TCP, of each Gateway. `AcceptedConverges` also asks that the
  receiver stays connected, and relies on the durable recovery.
- `persist`: weak fairness of a request's next statement; a lock is released when
  its holder ends, and faults are bounded.
- `relay`: weak fairness of the poll, worker, start and shutdown steps, and of a
  lease or a retry delay running out.
- `runtime`: weak fairness of the joint step of the side at work. Its queues are
  finite, so this is enough.
- `native_store`: weak fairness of the engine, the calls, the poller, the final
  sync and a restart once it is due. Strong fairness of what takes the relay's
  mutex (its threads, the collection of completed events and retries), because
  the mutex is free again and again. Whether a stopped relay restarts is not
  assumed: `EventsSettle` excepts it.
- `sessions`: weak fairness of lanes, heartbeats, replays, admission pumps and
  discovery.
- `services`: weak fairness of the projector's loops, of redelivery and of the
  lease threads; strong fairness of the broker's dead-letter step, which is its
  bounded retry. Peer transport and fan-out state theirs as "again and again at
  rest, or again and again a step", which is weak fairness written without
  ENABLED.

Nothing is assumed of clients, faults, crashes, logins or peers. Deadlock
checking is off where the system may stop: clients may fall silent, and a
finished workload has no next step. The tracker run checks it.

## 4. Proofs

TLAPS checks every theorem below for all values of the constants that satisfy
the named assumptions: any number of Gateways, relays, workers, rows and callers
and any limits and fault budgets. The assumptions say that limits are natural
numbers, positive where the code validates it, that marks such as `NoToken` or
`NoConn` are not among the values they stand apart from, and that the deployments
to choose from are well formed. TLC evaluates each of them in a run.

| Module | Theorems | Property |
|---|---|---|
| `ReceiverDeliveryTrackerProofs` | `TrackerTypes`, `CountersExact`, `WindowStaysBounded`, `PrivateIndex`, `Evidence`, `History`, `EvidenceKept` | types; entry counters; the window; private index; evidence; confirmation history; evidence never lost |
| `PrivateDeliveryProofs` | `TypeCorrect`, `OwnershipHeld`, `WireKnown`, `Implementation` | types; `OwnershipHeldByLane`; `WireAttemptsKnown`; `ImplementsContract`, the refinement |
| `PrivatePersistenceProofs` | `MessageHasOneEvent`, `AnswersAreTrue` | `OneEventPerMessage`, `AnswersTrue` |
| `OutboxRelayProofs` | `NothingIsLost`, `LiveClaimsAreFenced` | `NothingLost`; `LiveClaimFenced`, an action property |
| `OutboxStopProofs` | `StopReleasesAll` | `CleanStopReleasesAll` |
| `GroupFanoutProofs` | `DeliveredIsReceived`, `LeasesAreHeld` | `GroupDeliveredTrue`; `LeaseHeld`, an action property |
| `UnreadProjectorProofs` | `ProjectionIsExact` | `ProjectionExact` |
| `RuntimeProofs` | `SessionMapsInverse`, `CallerGetsOwnResult` | `SessionsMatch`, `OwnResult` |

None of these properties is inductive as it stands. The strengthening and the
idea behind each proof:

- **Tracker** (`TrackerInv`). The counters are cardinalities, so the sets they
  count must be known to be finite. Every method is one of five shapes of step
  (create, retry, resend, confirm, cool down), and each property is kept by each
  shape. A confirmation may evict an old one, which is the long case.
- **Ownership and attempts** (`WireInv`). Types suffice for ownership. For the
  wire, each attempt on it is below `nextD`, so a fresh number collides with none.
- **Contract** (`ContractInv`). `DurableFirst` lists everything that can speak of
  a message and says that none of it exists before the row. `SeenFirst` does the
  same for a confirmation and the receiver. With both, each step of the lane is a
  step of the contract or a stutter.
- **One event per message** (`Locks`). `Exclusive`: the keys of a transaction's
  rows are free in the table and held by no other transaction, which is what the
  unique key gives. `Books`: the events of a transaction are those of its rows,
  except between the two inserts.
- **True answers** (`Truth`). `Meaning` says what a result that is already
  recorded means while its transaction is open: `Replies` (reused and conflict
  agree with the snapshot or with an own row), `CreatesOnce` and `InsertsNew`
  (created names an own row, once). `Honest` and `Single` say it of finished
  requests. The step is made by the commit, which turns own rows into table rows,
  and by the recovery after an uncertain commit, which reads them again.
- **Nothing lost** (`LostInv`). What a worker will mark as published is a
  sequence of records that the broker has. This holds across retries, crashes
  and the fallback from the batch update to single updates.
- **Fenced claims** (`FenceInv`). A restarted relay issues its tokens again, so a
  row may be locked by a token of an earlier process. A process never has a
  record with a token it has not issued itself, and its next generation is above
  every one it has used. So a record whose token is on the row belongs to the
  row's latest claim.
- **Clean stop** (`StopInv`). While no call failed and no relay crashed, a row that
  a relay has locked, whose event the broker does not have, is somebody's duty
  (`Dutiful`): a record with the row's token is about to be admitted, is queued, is
  ahead of a worker or waits to be released. `Orderly` is the order of the
  shutdown: the poll thread has ended before the queue is taken back, and what was
  taken back is released before the workers end. So a process ends without duties.
  It rests on `FenceInv`.
- **Group rows** (`FanoutInv`). `HolderInv`: a claim has one holder, an iteration
  or a late completion. `AckInv`: an ACK in flight, a confirmed tracker entry or
  a repair is for a message the recipient has. `RowInv`: a delivered row has no
  token and no lease. The theorems are about `FanoutSafety`, the specification
  without fairness.
- **Unread projection** (`UnreadInv`). An event is owed from its commit until a
  worker has written for it. `Fresh`: counters that no owed event concerns are
  those of the table. `Snaps` and `Rebuilt`: a snapshot that is read and not yet
  written may be older than the table only if an event outside its unit is owed.
  `Fenced`: whoever holds a snapshot holds the stripe of its receiver, so nobody
  else writes, and settles, in between. The counters start as the sum of an
  empty table; the theorem is about `UnreadSafety`, without fairness.
- **Session maps** (`SessionInv`). Inductive with the types; `BindOrReplace`
  removes both the user's old connection and the connection's old user.
- **Caller-led batch** (`BatchInv`). One leader at a time, what is queued is not
  executed yet (`NotYet`), where each caller stands (`Stages`), and what each
  result slot holds (`Results`). A queue without repetition stays so when the
  leader takes a batch from its front.

The parts of these invariants that were hard to find (`Locks`, `RowInv`,
`HolderInv`, `StopInv`, `UnreadInv`) were checked by TLC before they were proved. The order of
the rows that a relay claims is chosen by an existential over sorted
enumerations rather than CHOOSE, which states the same SQL `ORDER BY` and lets the
claim be reasoned about.

### Only model-checked

- Liveness (`AcceptedConverges`, `EveryRequestAnswered`, `EventsSettle`,
  `AcceptedTasksEnd`, `EveryCallReturns`, `PresenceConverges`, `PendingDelivered`,
  `ProjectionSettles`, `LeaseSettles`, `ForwardsEnd`, `GroupReceived`): fairness
  and ENABLED are beyond the prover.
- The byte sums in `BooksExact`, and what the peer transport's flush computes
  with a fold: both need induction over data.
- `AnsweredDurable`, `CountersExact`, `EventNeverLost`,
  `KeyOrder`, `StopIsQuiet`, `SchedulerExact`, `SenderOrder`,
  `ReplayOwed`, `OfflineSparesServed`, `ForwardHeldOnce`, `PeerKept`: within
  reach in principle and not proved yet. They need larger inductive invariants
  (a committer and its callers, a lane's queue and its drainer, a transport's queue).

## 5. What is not modelled

Left out because they have no protocol of their own: the wire format, the Redis
driver and pool, configuration, logging, metrics, tracing, the user service's
single-row statements, password and token helpers, the AI and MCP adapters, the
Qt client, benchmarks and tools.

Left out of modelled parts:

- persistence: the grouped-packet batch, group persistence and read marks,
  `ReadyPhysicalWriteGroup`, the readiness probe and `RunFailed`;
- private delivery: the file, social and query handlers, and the deduplicator's
  retention of old identities. `receiver_delivery_max_attempts` is compared only
  by the ACK timer, as in the code;
- group fan-out: the creation of the rows, the coordinator's wake-up and its
  shutdown. The run allows no lapse of the presence record of a connected user,
  which defers a row that nobody replays until the next login. An ACK timer that
  cannot be scheduled is left out. Where calls are not `timely`, `GroupReceived`
  says nothing;
- peer transport: `Manager::Start` and a `Connect` that fails at once;
- presence: admission limits, deadlines and shutdown of the batches, and cluster
  queries;
- projector: shadow mode, per-dialog fallback reads of the native store, Redis
  writes that arrive late, and a command-line rebuild beside a running projector
  (the stripe mutex is local to a process);
- Outbox tokens: the process id; registry: the discovery cache and ZooKeeper;
  native runtime: the SQL of actor references and the identity cache;
- network runtime: loops, buffers, timers and sockets below a connection.

### Plan

1. Proofs: `EventNeverLost` and `KeyOrder`.
2. Components not modelled yet: the Group service (roles, invitations and join
   requests under concurrent transactions), the Social service (crossing friend
   requests), the File service (resumable uploads).
3. Group persistence with the creation of the fan-out rows, composed with
   `GroupFanout`.
