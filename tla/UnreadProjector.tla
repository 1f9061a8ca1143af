--------------------------- MODULE UnreadProjector ---------------------------
(***************************************************************************)
(* services/projection/unread/UnreadProjector.cpp in writer mode: worker   *)
(* threads take message and read events from RocketMQ, read the durable    *)
(* unread counts of the affected dialog and overwrite the receiver's       *)
(* counters in Redis with them.  An event is acknowledged only after that  *)
(* write.  The counters are overwritten, not incremented, so a repeated    *)
(* event is harmless; what orders an older against a newer read of one     *)
(* receiver is the stripe mutex held from the durable read to the write.   *)
(*                                                                         *)
(* An event is an element of Events; its deployment says whom it affects.  *)
(* Order inside a received batch does not matter to the code, so a batch   *)
(* is a set.  One projector process; RebuildUser runs inside it.           *)
(***************************************************************************)
EXTENDS Naturals, FiniteSets, FiniteSetsExt, Functions

CONSTANTS
    Events,              \* identities of broker events
    Receivers,           \* user ids that receive private messages
    Peers,               \* user ids that send them
    Workers,             \* options_.worker_threads
    MutexCount,          \* receiver_mutexes_.size()
    Projections,         \* the deployments of this component
    Nobody               \* a mutex nobody holds

VARIABLES
    projection,          \* the deployment chosen at start
    durable,             \* unread rows of im_private_messages per dialog
    cached,              \* Redis: private counters and total of a receiver
    event,               \* where RocketMQ keeps each event
    worker,              \* the local state of RunLoop in each thread
    rebuild,             \* the local state of RebuildUser
    receiver_mutexes,    \* holder of each stripe
    running,             \* running_
    mishaps              \* bound: failures that may still happen

unreadVars == <<projection, durable, cached, event, worker, rebuild,
                receiver_mutexes, running, mishaps>>

Rebuilder == "rebuilder"

ASSUME ProjectionsAssumption ==
    \A d \in Projections :
        /\ DOMAIN d.events \subseteq Events
        /\ \A e \in DOMAIN d.events :
              d.events[e].receiver \in Receivers /\ d.events[e].peer \in Peers
ASSUME StripesAssumption == MutexCount \in Nat \ {0} /\ Receivers \subseteq Nat
ASSUME HoldersAssumption ==
    Nobody \notin Workers /\ Rebuilder \notin Workers /\ Nobody # Rebuilder

Idle == [pc |-> "receive", todo |-> {}, unit |-> {}, snaps |-> <<>>, ackable |-> {}]

Resting == [pc |-> "idle", receiver |-> Nobody, snap |-> <<>>]

\* The unread counts of one receiver, one per peer, and their sum.
Unmessaged == [p \in Peers |-> 0]
Total(counts) == MapThenSumSet(LAMBDA p : counts[p], Peers)

UnreadInit ==
    /\ projection \in Projections
    /\ durable = [r \in Receivers |-> Unmessaged]
    /\ cached = [r \in Receivers |-> [peer |-> Unmessaged, total |-> Total(Unmessaged)]]
    /\ event = [e \in Events |->
                  IF e \in DOMAIN projection.events THEN "future" ELSE "none"]
    /\ worker = [w \in Workers |-> Idle]
    /\ rebuild = Resting
    /\ receiver_mutexes = [s \in 0..MutexCount - 1 |-> Nobody]
    /\ running = TRUE
    /\ mishaps = projection.mishaps

Mishap == mishaps > 0 /\ mishaps' = mishaps - 1
NoMishap == UNCHANGED mishaps

(***************************************************************************)
(* The durable store and the broker, outside this component.               *)
(***************************************************************************)
\* A committed message raises the sender's count of the receiver, a read
\* position clears it, and the outbox makes the event appear in the topic.
Commit(e) ==
    /\ event[e] = "future"
    /\ LET d == projection.events[e]
       IN durable' = [durable EXCEPT ![d.receiver][d.peer] =
                         IF d.kind = "read" THEN 0 ELSE @ + 1]
    /\ event' = [event EXCEPT ![e] = "queued"]
    /\ UNCHANGED <<projection, cached, worker, rebuild, receiver_mutexes, running, mishaps>>

Handled(e) ==
    \E w \in Workers : e \in worker[w].todo \cup worker[w].unit \cup worker[w].ackable

\* invisible_duration_ms passed without an ACK: the event can be received
\* again, also while a slow worker still has it.
Redeliver(e) ==
    /\ event[e] = "held"
    /\ IF Handled(e) THEN Mishap ELSE NoMishap
    /\ event' = [event EXCEPT ![e] = "queued"]
    /\ UNCHANGED <<projection, durable, cached, worker, rebuild, receiver_mutexes, running>>

\* The consumer group's bounded retry moves an unreadable event aside.
DeadLetter(e) ==
    /\ event[e] = "queued"
    /\ projection.events[e].poison
    /\ event' = [event EXCEPT ![e] = "dead"]
    /\ UNCHANGED <<projection, durable, cached, worker, rebuild, receiver_mutexes,
                   running, mishaps>>

(***************************************************************************)
(* The fence: stripes of the receivers a unit of work affects.             *)
(***************************************************************************)
\* Mutant: the stripe is picked by the dialog and not by its receiver.
FenceByDialog(receiver, peer) == (receiver + peer) % MutexCount

StripeOf(receiver, peer) == receiver % MutexCount

Fence(unit) == {StripeOf(projection.events[e].receiver, projection.events[e].peer) : e \in unit}

Free(holder) == [s \in DOMAIN receiver_mutexes |->
                   IF receiver_mutexes[s] = holder THEN Nobody ELSE receiver_mutexes[s]]

Missing(w) == {s \in Fence(worker[w].unit) : receiver_mutexes[s] # w}

\* Mutant: the stripes are locked in the order the events came in.
LockAnyOrder(w) == Missing(w)

\* std::sort and std::unique, then one lock after the other.
LockNext(w) == {Min(Missing(w))}

(***************************************************************************)
(* RunLoop                                                                 *)
(***************************************************************************)
Keeping(w, local) == worker' = [worker EXCEPT ![w] = local]

\* A failed receive only waits and asks again.
Receive(w) ==
    /\ running
    /\ worker[w].pc = "receive"
    /\ \E batch \in SUBSET {e \in Events : event[e] = "queued"} :
          /\ Cardinality(batch) \in 1..projection.batch_size
          /\ event' = [e \in Events |-> IF e \in batch THEN "held" ELSE event[e]]
          /\ Keeping(w, [worker[w] EXCEPT !.pc = "loop", !.todo = batch])
    /\ UNCHANGED <<projection, durable, cached, rebuild, receiver_mutexes, running, mishaps>>

\* ExtractAffectedDialog
Extracts(e) == ~projection.events[e].poison

\* The next unit under one fence: all readable events of the batch when
\* snapshots are read together, one event otherwise.  After Shutdown nothing
\* more is begun.
Begin(w) ==
    /\ worker[w].pc = "loop"
    /\ worker[w].todo # {}
    /\ LET local == worker[w]
           take(unit, rest) == Keeping(w, [local EXCEPT
                !.unit = unit, !.todo = rest, !.pc = IF unit = {} THEN "loop" ELSE "lock"])
       IN \/ ~running /\ take({}, {})
          \/ /\ running /\ projection.batch_snapshot_reads
             /\ take({e \in local.todo : Extracts(e)}, {})
          \/ /\ running /\ ~projection.batch_snapshot_reads
             /\ \E e \in local.todo :
                   take(IF Extracts(e) THEN {e} ELSE {}, local.todo \ {e})
    /\ UNCHANGED <<projection, durable, cached, event, rebuild, receiver_mutexes,
                   running, mishaps>>

Lock(w) ==
    /\ worker[w].pc = "lock"
    /\ \E s \in LockNext(w) :
          /\ receiver_mutexes[s] = Nobody
          /\ receiver_mutexes' = [receiver_mutexes EXCEPT ![s] = w]
          /\ Keeping(w, [worker[w] EXCEPT
                           !.pc = IF Missing(w) = {s} THEN "load" ELSE "lock"])
    /\ UNCHANGED <<projection, durable, cached, event, rebuild, running, mishaps>>

\* After the fence, single ACKs follow at once; a batch of ACKs waits for the
\* end of the received batch.
AfterUnit(local) ==
    IF local.ackable # {} /\ (local.todo = {} \/ ~projection.parallel_batch_ack)
    THEN "ack" ELSE "loop"

Snapshot(e) ==
    LET d == projection.events[e]
    IN [peer |-> durable[d.receiver][d.peer], total |-> Total(durable[d.receiver])]

\* LoadDialogSnapshot(s): one statement, one read view.  A failed read leaves
\* every event of the unit unacknowledged.
Load(w) ==
    /\ worker[w].pc = "load"
    /\ \/ /\ NoMishap
          /\ Keeping(w, [worker[w] EXCEPT !.pc = "apply",
                           !.snaps = [e \in worker[w].unit |-> Snapshot(e)]])
          /\ UNCHANGED receiver_mutexes
       \/ /\ Mishap
          /\ LET local == [worker[w] EXCEPT !.unit = {}]
             IN Keeping(w, [local EXCEPT !.pc = AfterUnit(local)])
          /\ receiver_mutexes' = Free(w)
    /\ UNCHANGED <<projection, durable, cached, event, rebuild, running>>

\* SetUnreadSnapshot: both keys in one script.
SetUnreadSnapshot(e, snap) ==
    LET d == projection.events[e]
    IN cached' = [cached EXCEPT ![d.receiver] =
                    [peer |-> [@.peer EXCEPT ![d.peer] = snap.peer], total |-> snap.total]]

Ackable(applied, e) == IF applied THEN {e} ELSE {}

\* ApplyDurableSnapshot for the next event of the unit.  A failed call may
\* have reached Redis.  The fence falls with the last event.
Apply(w) ==
    /\ worker[w].pc = "apply"
    /\ \E e \in worker[w].unit, applied \in BOOLEAN :
          /\ \/ /\ applied /\ NoMishap
                /\ SetUnreadSnapshot(e, worker[w].snaps[e])
             \/ /\ ~applied /\ Mishap
                /\ \/ SetUnreadSnapshot(e, worker[w].snaps[e])
                   \/ UNCHANGED cached
          /\ LET rest == worker[w].unit \ {e}
                 local == [worker[w] EXCEPT !.unit = rest,
                             !.ackable = @ \cup Ackable(applied, e)]
             IN IF rest = {}
                THEN /\ Keeping(w, [local EXCEPT !.pc = AfterUnit(local), !.snaps = <<>>])
                     /\ receiver_mutexes' = Free(w)
                ELSE Keeping(w, local) /\ UNCHANGED receiver_mutexes
    /\ UNCHANGED <<projection, durable, event, rebuild, running>>

\* Ack or one callback of AckBatch.  A failed ACK may have reached the broker.
Ack(w) ==
    /\ worker[w].pc = "ack"
    /\ \E e \in worker[w].ackable, succeeded \in BOOLEAN :
          /\ IF succeeded THEN NoMishap ELSE Mishap
          /\ \/ event' = [event EXCEPT ![e] = "acked"]
             \/ ~succeeded /\ UNCHANGED event
          /\ Keeping(w, [worker[w] EXCEPT !.ackable = @ \ {e},
                           !.pc = IF worker[w].ackable = {e} THEN "loop" ELSE "ack"])
    /\ UNCHANGED <<projection, durable, cached, rebuild, receiver_mutexes, running>>

\* The received batch is finished; the loop tests running_ again.
Finish(w) ==
    /\ \/ worker[w].pc = "loop" /\ worker[w].todo = {}
       \/ worker[w].pc = "receive" /\ ~running
    /\ Keeping(w, [worker[w] EXCEPT
          !.pc = IF worker[w].ackable # {} THEN "ack"
                 ELSE IF running THEN "receive" ELSE "joined"])
    /\ UNCHANGED <<projection, durable, cached, event, rebuild, receiver_mutexes,
                   running, mishaps>>

(***************************************************************************)
(* RebuildUser, Shutdown and a crash                                       *)
(***************************************************************************)
RebuildLock(r) ==
    /\ projection.rebuilds
    /\ rebuild.pc = "idle"
    /\ receiver_mutexes[StripeOf(r, r)] = Nobody
    /\ receiver_mutexes' = [receiver_mutexes EXCEPT ![StripeOf(r, r)] = Rebuilder]
    /\ rebuild' = [rebuild EXCEPT !.pc = "load", !.receiver = r]
    /\ UNCHANGED <<projection, durable, cached, event, worker, running, mishaps>>

RebuildLoad ==
    /\ rebuild.pc = "load"
    /\ \/ /\ NoMishap
          /\ rebuild' = [rebuild EXCEPT !.pc = "replace", !.snap = durable[rebuild.receiver]]
          /\ UNCHANGED receiver_mutexes
       \/ /\ Mishap
          /\ rebuild' = [Resting EXCEPT !.pc = "done"]
          /\ receiver_mutexes' = Free(Rebuilder)
    /\ UNCHANGED <<projection, durable, cached, event, worker, running>>

\* ReplaceUserUnreadProjection: all keys in one script, which a failed call may
\* have run.
RebuildReplace ==
    /\ rebuild.pc = "replace"
    /\ \/ /\ NoMishap \/ Mishap
          /\ cached' = [cached EXCEPT ![rebuild.receiver] =
                          [peer |-> rebuild.snap, total |-> Total(rebuild.snap)]]
       \/ Mishap /\ UNCHANGED cached
    /\ rebuild' = [Resting EXCEPT !.pc = "done"]
    /\ receiver_mutexes' = Free(Rebuilder)
    /\ UNCHANGED <<projection, durable, event, worker, running>>

\* Shutdown: the workers see running_ and are joined.
Shutdown ==
    /\ projection.stops
    /\ running /\ Mishap
    /\ running' = FALSE
    /\ UNCHANGED <<projection, durable, cached, event, worker, rebuild, receiver_mutexes>>

\* The service comes up again once every thread was joined.
Start ==
    /\ ~running
    /\ \A w \in Workers : worker[w].pc = "joined"
    /\ running' = TRUE
    /\ worker' = [w \in Workers |-> Idle]
    /\ UNCHANGED <<projection, durable, cached, event, rebuild, receiver_mutexes, mishaps>>

\* The process dies between two steps and is started again.
Crash ==
    /\ projection.stops
    /\ Mishap
    /\ running' = TRUE
    /\ worker' = [w \in Workers |-> Idle]
    /\ rebuild' = IF rebuild.pc = "idle" THEN rebuild ELSE [Resting EXCEPT !.pc = "done"]
    /\ receiver_mutexes' = [s \in DOMAIN receiver_mutexes |-> Nobody]
    /\ UNCHANGED <<projection, durable, cached, event>>

RunLoop(w) ==
    Receive(w) \/ Begin(w) \/ Lock(w) \/ Load(w) \/ Apply(w) \/ Ack(w) \/ Finish(w)

Broker(e) == Redeliver(e) \/ DeadLetter(e)

RebuildUser == RebuildLoad \/ RebuildReplace

UnreadNext ==
    \/ \E e \in Events : Commit(e) \/ Broker(e)
    \/ \E w \in Workers : RunLoop(w)
    \/ \E r \in Receivers : RebuildLock(r)
    \/ RebuildUser \/ Shutdown \/ Start \/ Crash

UnreadSafety == UnreadInit /\ [][UnreadNext]_unreadVars

(***************************************************************************)
(* Properties                                                              *)
(***************************************************************************)
\* Whatever the order of two workers, of a duplicate delivery, of a rebuild or
\* of a crash: whenever every event of a receiver committed so far has been
\* acknowledged, Redis holds exactly the durable private counts and total of
\* that receiver, also while a repeated event is inside its fence.
\* Acknowledging after the write and fencing the read together with the write
\* are what this rests on (UnreadProjector.cpp, RunLoop and ProcessEvent).
ProjectionExact ==
    \A r \in Receivers :
        (\A e \in DOMAIN projection.events :
            projection.events[e].receiver = r => event[e] \in {"future", "acked"})
        => cached[r] = [peer |-> durable[r], total |-> Total(durable[r])]

\* Every readable event that was committed is in the end acknowledged, through failed reads,
\* writes and ACKs, crashes and restarts, and no two workers wait for each
\* other's stripe for ever (RunLoop, ProcessBatch).
ProjectionSettles ==
    <>[](\A e \in DOMAIN projection.events :
            projection.events[e].poison \/ event[e] \in {"future", "acked"})
=============================================================================
