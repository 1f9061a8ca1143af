------------------------ MODULE GatewayPeerTransport ------------------------
(***************************************************************************)
(* GatewayPeerTransportManager, GatewayPeerTransport and the TcpClient and *)
(* Connector below them: how one Gateway forwards messages to another one. *)
(*                                                                         *)
(* Everything in `loop` belongs to the peer EventLoop's thread, which runs *)
(* one functor, timer or socket event at a time; other threads only read   *)
(* the manager's running flag and append functors.  A step of the loop     *)
(* calls deep into the other objects (a failed connect fails the queue,    *)
(* whose callbacks schedule retries), so the handlers are written as       *)
(* functions from one value of `loop` to the next.                         *)
(*                                                                         *)
(* Delays, reconnect_attempt (it only sets a delay) and pending_count_ are *)
(* left out, and so is the wrap of the 32-bit sequence, which needs 2^32   *)
(* requests while one answer is under way.  The callbacks given by the     *)
(* GatewayServer only log.  There is one remote Gateway; its address       *)
(* changes when it restarts elsewhere.  A transport that is taken out of   *)
(* the map is destroyed on the way, so there is never more than one, and   *)
(* the weak pointers in the callbacks of the old one find nothing.         *)
(***************************************************************************)
EXTENDS Naturals, FiniteSets, Sequences, SequencesExt, Functions

CONSTANTS
    Forwards,       \* calls of ForwardChat and ForwardGroupMessage
    GroupForwards,  \* the latter
    Oversized,      \* forwards whose packet the codec refuses
    Addresses,      \* where the remote Gateway may listen
    MaxRetries,     \* max_request_retries
    MaxMoves,       \* bound: how often discovery's record changes
    Traffics,       \* scenes: the sets of forwards that are made
    None

VARIABLES
    manager_running,  \* GatewayPeerTransportManager::running_
    call,             \* how far the thread of each forward is
    discovery,        \* the record FindById returns: an address or None
    moves,            \* how often it has changed
    loop              \* what only the peer EventLoop touches

peerVars == <<manager_running, call, discovery, moves, loop>>

\* A transport before its Start, and what is left of one that is destroyed.
\* `sent` is what the remote Gateway has yet to answer on the current connection.
IdleTransport ==
    [running |-> FALSE, connected |-> FALSE, client |-> "idle",
     next_sequence |-> 1, pending |-> <<>>, queued |-> <<>>, sent |-> {}]

\* calls counts the invocations of the caller's callback, drops its
\* destruction without one, timers the retry timers that hold the context.
NewContext == [address |-> None, retries |-> 0, timers |-> 0, calls |-> 0,
               drops |-> 0, answer |-> None]

Post(s, functor) == [s EXCEPT !.functors = Append(@, functor)]

-----------------------------------------------------------------------------
(* The manager: results, retries and the reconnect timer.                  *)

\* ClassifyForwardChatRetry.
Retryable(result) ==
    result \in {"timeout", "disconnected", "not_connected", "in_progress"}

\* HandleForwardChatAttemptResultInLoop and CompleteForwardChatInLoop for a
\* chat; a group forward's callback is the caller's own.
AfterResult(f, c, result, answer) ==
    IF f \notin GroupForwards /\ c.calls > 0 THEN c
    ELSE IF f \notin GroupForwards /\ Retryable(result) /\ c.retries < MaxRetries
    THEN [c EXCEPT !.retries = @ + 1, !.timers = @ + 1]
    ELSE [c EXCEPT !.calls = @ + 1, !.answer = answer]

Results(s, F, result) ==
    [s EXCEPT !.context = [f \in Forwards |->
        IF f \in F THEN AfterResult(f, s.context[f], result, None) ELSE s.context[f]]]

ScheduleReconnect(s) ==
    IF ~manager_running \/ s.entry = None THEN s
    ELSE IF s.transport.connected \/ s.entry.reconnect_timer THEN s
    ELSE [s EXCEPT !.entry.reconnect_timer = TRUE]

\* HandleTransportConnectionState.
ConnectionState(s, connected) ==
    IF s.entry = None THEN s
    ELSE IF connected THEN [s EXCEPT !.entry.reconnect_timer = FALSE]
    ELSE ScheduleReconnect(s)

-----------------------------------------------------------------------------
(* The transport.                                                          *)

\* Mutant of FailPending: the requests stay in the table.
FailPendingKeeps(s, status) == Results(s, Range(s.transport.pending), status)

\* FailAllPending and FailAllPendingGroup: the timers are cancelled.
FailPending(s, status) ==
    Results([s EXCEPT !.transport.pending = <<>>],
            Range(s.transport.pending), status)

FailQueued(s, status) ==
    Results([s EXCEPT !.transport.queued = <<>>],
            Range(s.transport.queued), status)

\* The next sequence that no pending request has.
NextSequence(tr) ==
    Min((tr.next_sequence .. tr.next_sequence + Cardinality(DOMAIN tr.pending))
            \ DOMAIN tr.pending)

\* ForwardChatInLoop and ForwardGroupMessageInLoop of a running transport.
SendForward(s, f) ==
    LET tr == s.transport
        seq == NextSequence(tr)
    IN  IF ~tr.connected \/ tr.client # "connected"
        THEN [s EXCEPT !.transport.queued = Append(@, f)]
        ELSE IF f \in Oversized
        THEN Results([s EXCEPT !.transport.next_sequence = seq + 1], {f}, "encode_error")
        ELSE [s EXCEPT !.transport.next_sequence = seq + 1,
                       !.transport.pending =
                           [n \in DOMAIN @ \cup {seq} |-> IF n = seq THEN f ELSE @[n]],
                       !.transport.sent = @ \cup {<<seq, f>>}]

\* Mutant of FlushQueued: FlushQueuedGroupForwards is not called.
FlushQueuedChats(s) ==
    LET queued == s.transport.queued
    IN  FoldLeft(LAMBDA acc, f : SendForward(acc, f),
                 [s EXCEPT !.transport.queued = SelectSeq(queued, LAMBDA f : f \in GroupForwards)],
                 SelectSeq(queued, LAMBDA f : f \notin GroupForwards))

\* FlushQueuedForwards, then FlushQueuedGroupForwards.
FlushQueued(s) ==
    LET queued == s.transport.queued
        order == SelectSeq(queued, LAMBDA f : f \notin GroupForwards)
                     \o SelectSeq(queued, LAMBDA f : f \in GroupForwards)
    IN  FoldLeft(LAMBDA acc, f : SendForward(acc, f),
                 [s EXCEPT !.transport.queued = <<>>], order)

\* TcpClient::NewConnection and HandleConnection of a connection that is up.
Connected(s) ==
    FlushQueued(ConnectionState([s EXCEPT !.transport.client = "connected",
                                          !.transport.connected = TRUE], TRUE))

\* Mutant of ConnectError: the manager is not told.
ConnectErrorSilent(s) ==
    FailQueued([s EXCEPT !.transport.client = "idle",
                         !.transport.connected = FALSE,
                         !.transport.running = FALSE], "not_connected")

\* HandleConnectError.
ConnectError(s) ==
    ConnectionState(
        FailQueued([s EXCEPT !.transport.client = "idle",
                             !.transport.connected = FALSE,
                             !.transport.running = FALSE], "not_connected"),
        FALSE)

\* HandleConnection of a connection that is gone.
Disconnected(s) ==
    ConnectionState(
        FailQueued(
            FailPending([s EXCEPT !.transport.client = "idle",
                                  !.transport.connected = FALSE,
                                  !.transport.running = FALSE], "disconnected"),
            "disconnected"),
        FALSE)

\* TcpConnection::HandleClose and TcpClient::RemoveConnection: the transport
\* hears of it when the queued ConnectDestroyed runs.
CloseConnection(s) ==
    Post([s EXCEPT !.transport.client = "closing", !.transport.sent = {}],
         [kind |-> "destroyed"])

\* Start and StartInLoop.  connect() is in progress, or it has failed or
\* succeeded before it returns.
StartTransport(s, connect) ==
    LET started == [s EXCEPT !.transport.running = TRUE]
    IN  IF s.transport.running THEN s
        ELSE IF s.transport.client \in {"connecting", "connected"} THEN started
        ELSE CASE connect = "in_progress" ->
                      [started EXCEPT !.transport.client = "connecting"]
               [] connect = "failed" -> ConnectError(started)
               [] connect = "connected" -> Connected(started)

\* Stop and StopInLoop with TcpClient::Stop.
StopTransport(s) ==
    LET failed == FailQueued(FailPending([s EXCEPT !.transport.running = FALSE],
                                         "stopped"), "stopped")
        off == [failed EXCEPT !.transport.connected = FALSE]
    IN  IF ~s.transport.running THEN s
        ELSE CASE s.transport.client = "connected" -> CloseConnection(off)
               [] s.transport.client = "connecting" ->
                      [off EXCEPT !.transport.client = "idle"]
               [] OTHER -> off

-----------------------------------------------------------------------------
(* The manager: transports and attempts.                                   *)

\* The peer is taken out of the map, its transport stopped and destroyed.
RemoveEntry(s) ==
    LET stopped == StopTransport([s EXCEPT !.entry = None])
    IN  [stopped EXCEPT !.transport = IdleTransport,
                        !.functors = SelectSeq(@, LAMBDA fn : fn.kind # "destroyed")]

CreateTransport(s, address, connect) ==
    StartTransport([s EXCEPT !.entry = [address |-> address, reconnect_timer |-> FALSE]],
                   connect)

\* GetOrCreateTransport: the transport it returns is the entry's.
GetOrCreateTransport(s, address, connect) ==
    IF s.entry = None THEN CreateTransport(s, address, connect)
    ELSE IF s.entry.address = address THEN StartTransport(s, connect)
    ELSE CreateTransport(RemoveEntry(s), address, connect)

\* SubmitForwardChatAttemptInLoop.
SubmitChat(s, f, connect) ==
    LET got == GetOrCreateTransport(s, s.context[f].address, connect)
    IN  IF s.context[f].calls > 0 THEN s
        ELSE IF ~manager_running THEN Results(s, {f}, "stopped")
        ELSE IF got.transport.running THEN SendForward(got, f)
        ELSE Results(got, {f}, "not_connected")

\* ForwardGroupMessageInLoop: a refused submission drops the callback, and
\* the durable delivery row is what brings the message back.
SubmitGroup(s, f, connect) ==
    LET got == GetOrCreateTransport(s, s.context[f].address, connect)
    IN  IF got.transport.running THEN SendForward(got, f)
        ELSE [got EXCEPT !.context[f].drops = @ + 1]

Submit(s, f, connect) ==
    IF f \in GroupForwards THEN SubmitGroup(s, f, connect) ELSE SubmitChat(s, f, connect)

\* StopInLoop of the manager.
StopAll(s) == IF s.entry = None THEN s ELSE RemoveEntry(s)

-----------------------------------------------------------------------------
(* Other threads.                                                          *)

\* ForwardChat and ForwardGroupMessage: the flag is read, then the functor is
\* queued, with the record that the route resolver has just found.
CheckRunning(f) ==
    /\ call[f] = "new" /\ manager_running /\ discovery # None
    /\ call' = [call EXCEPT ![f] = "checked"]
    /\ loop' = [loop EXCEPT !.context[f].address = discovery]
    /\ UNCHANGED <<manager_running, discovery, moves>>

PostForward(f) ==
    /\ call[f] = "checked"
    /\ call' = [call EXCEPT ![f] = "posted"]
    /\ loop' = Post(loop, [kind |-> "forward", forward |-> f])
    /\ UNCHANGED <<manager_running, discovery, moves>>

\* Stop.  The fan-out thread, the only caller of ForwardGroupMessage, has been
\* joined by then.
StopManager ==
    /\ manager_running
    /\ \A f \in GroupForwards : call[f] # "checked"
    /\ manager_running' = FALSE
    /\ loop' = Post(loop, [kind |-> "stop"])
    /\ UNCHANGED <<call, discovery, moves>>

\* The remote Gateway registers elsewhere, or its registration is gone.
Discover ==
    /\ moves < MaxMoves
    /\ discovery' \in (Addresses \cup {None}) \ {discovery}
    /\ moves' = moves + 1
    /\ UNCHANGED <<manager_running, call, loop>>

-----------------------------------------------------------------------------
(* Steps of the peer EventLoop.                                            *)

LoopOnly == UNCHANGED <<manager_running, call, discovery, moves>>

Outcomes == {"in_progress", "failed", "connected"}

RunFunctor ==
    /\ loop.functors # <<>>
    /\ LET functor == Head(loop.functors)
           rest == [loop EXCEPT !.functors = Tail(@)]
       IN  \/ /\ functor.kind = "forward"
              /\ \E connect \in Outcomes : loop' = Submit(rest, functor.forward, connect)
           \/ /\ functor.kind = "destroyed"
              /\ loop' = Disconnected(rest)
           \/ functor.kind = "stop" /\ loop' = StopAll(rest)
    /\ LoopOnly

\* The Connector's socket becomes writable without or with an error, or its
\* timer ends the attempt.
ConnectDone ==
    /\ loop.transport.client = "connecting"
    /\ loop' = Connected(loop) \/ loop' = ConnectError(loop)
    /\ LoopOnly

\* The connection breaks.
PeerCloses ==
    /\ loop.transport.client = "connected"
    /\ loop' = CloseConnection(loop)
    /\ LoopOnly

\* HandleForwardChatResponse and HandleForwardGroupMessageResponse: the remote
\* Gateway's answer to the request <<seq, f>>.
Response(request, result) ==
    LET seq == request[1]
        tr == loop.transport
        known == seq \in DOMAIN tr.pending
        rest == [loop EXCEPT !.transport.sent = @ \ {request},
                             !.transport.pending = Restrict(@, DOMAIN @ \ {seq})]
    IN  /\ tr.client = "connected"
        /\ loop' = IF ~known THEN rest
                   ELSE LET g == tr.pending[seq]
                        IN  [rest EXCEPT !.context[g] =
                                AfterResult(g, @, result,
                                            IF result = "malformed" THEN None ELSE request[2])]
        /\ LoopOnly

\* HandleMessage on bytes that cannot be decoded.
ProtocolError ==
    /\ loop.transport.client = "connected" /\ loop.transport.sent # {}
    /\ loop' = CloseConnection(FailPending(loop, "protocol_error"))
    /\ LoopOnly

\* HandleRequestTimeout and HandleGroupRequestTimeout.
RequestTimeout(seq) ==
    /\ seq \in DOMAIN loop.transport.pending
    /\ loop' = Results([loop EXCEPT !.transport.pending = Restrict(@, DOMAIN @ \ {seq})],
                       {loop.transport.pending[seq]}, "timeout")
    /\ LoopOnly

\* The retry timer: once the manager has stopped it returns at once, and the
\* context dies with it.
RetryTimer(f) ==
    /\ loop.context[f].timers > 0
    /\ LET fired == [loop EXCEPT !.context[f].timers = @ - 1]
           fresh == [fired EXCEPT !.context[f].address =
                         IF discovery = None THEN @ ELSE discovery]
       IN  IF ~manager_running \/ loop.context[f].calls > 0
           THEN loop' = [fired EXCEPT !.context[f].drops = @ + 1]
           ELSE \E connect \in Outcomes : loop' = SubmitChat(fresh, f, connect)
    /\ LoopOnly

\* AttemptReconnectInLoop.
ReconnectTimer ==
    /\ manager_running /\ loop.entry # None /\ loop.entry.reconnect_timer
    /\ LET fired == [loop EXCEPT !.entry.reconnect_timer = FALSE]
       IN  IF loop.transport.connected THEN loop' = fired
           ELSE IF discovery = None THEN loop' = RemoveEntry(fired)
           ELSE \E connect \in Outcomes :
                    loop' = GetOrCreateTransport(fired, discovery, connect)
    /\ LoopOnly

-----------------------------------------------------------------------------
PeerInit ==
    /\ manager_running = TRUE
    /\ \E F \in Traffics : call = [f \in Forwards |-> IF f \in F THEN "new" ELSE "never"]
    /\ discovery = CHOOSE a \in Addresses : TRUE
    /\ moves = 0
    /\ loop = [functors |-> <<>>, entry |-> None,
               transport |-> IdleTransport,
               context |-> [f \in Forwards |-> NewContext]]

PeerTimer ==
    \/ \E seq \in DOMAIN loop.transport.pending : RequestTimeout(seq)
    \/ \E f \in Forwards : RetryTimer(f)

PeerNext ==
    \/ \E f \in Forwards : CheckRunning(f) \/ PostForward(f)
    \/ StopManager \/ Discover \/ RunFunctor \/ PeerTimer \/ ReconnectTimer
    \/ ConnectDone \/ PeerCloses \/ ProtocolError
    \/ \E request \in loop.transport.sent :
          \E result \in {"delivered", "in_progress", "refused", "malformed"} :
              Response(request, result)

\* The loop runs what is queued, and its timers and the Connector's fire.
\* Nothing is assumed of the peer.
PeerFair ==
    /\ []<>(loop.functors = <<>>) \/ []<><<RunFunctor>>_peerVars
    /\ \/ []<>(loop.transport.pending = <<>> /\ \A f \in Forwards : loop.context[f].timers = 0)
       \/ []<><<PeerTimer>>_peerVars
    /\ []<>(loop.transport.client # "connecting") \/ []<><<ConnectDone>>_peerVars

-----------------------------------------------------------------------------
(* Properties.                                                             *)

\* The places that hold a forward's callback: the calling thread, a functor,
\* a transport's queue, a pending request, a retry timer.
Holders(f) ==
    LET functors == {i \in DOMAIN loop.functors :
                        loop.functors[i].kind = "forward" /\ loop.functors[i].forward = f}
        queue == {i \in DOMAIN loop.transport.queued : loop.transport.queued[i] = f}
        requests == {n \in DOMAIN loop.transport.pending : loop.transport.pending[n] = f}
    IN  (IF call[f] = "checked" THEN 1 ELSE 0) + Cardinality(functors)
        + Cardinality(queue) + Cardinality(requests)
        + loop.context[f].timers

\* An accepted forward is in one place at any time and its callback runs at
\* most once, whatever timeouts, late answers, disconnects, address changes
\* and the stop do in between; it is dropped only by the manager's stop, or
\* when a group submission is refused.  What completes it is the answer to one
\* of its own requests, never a late answer to somebody else's.
ForwardHeldOnce ==
    \A f \in Forwards :
        /\ Holders(f) + loop.context[f].calls + loop.context[f].drops =
               (IF call[f] \in {"checked", "posted"} THEN 1 ELSE 0)
        /\ loop.context[f].drops > 0 => f \in GroupForwards \/ ~manager_running
        /\ loop.context[f].answer \in {None, f}

\* A peer is never forgotten: while the manager runs, the transport in its map
\* is connecting, connected or about to hear of its end, or a reconnect timer
\* is set; requests are pending only where an answer or a disconnect can still
\* come; and once StopInLoop has run no connection is left or opened.
PeerKept ==
    /\ loop.entry # None /\ manager_running =>
           IF loop.transport.running THEN loop.transport.client # "idle"
           ELSE loop.entry.reconnect_timer
    /\ loop.transport.pending # <<>> => loop.transport.client \in {"connected", "closing"}
    /\ ~manager_running /\ (\A i \in DOMAIN loop.functors : loop.functors[i].kind # "stop") =>
           loop.transport.client = "idle"

\* Every accepted forward ends, although nothing times a queued one: the
\* Connector's own timer ends the attempt it waits for.
ForwardsEnd ==
    <>[](\A f \in Forwards : call[f] = "posted" =>
             loop.context[f].calls + loop.context[f].drops = 1)
=============================================================================
