---------------------- MODULE MessageReadyBatchService ----------------------
(***************************************************************************)
(* services/message/service/MessageReadyBatchService: a PersistPrivate-    *)
(* Message call is submitted under its sender to the scheduler the service *)
(* is configured with, the sharded or the keyed ready batch, and finished  *)
(* by its completion; a call that is not admitted is finished at once. The *)
(* two schedulers share the bookkeeping variables of this module; a sender *)
(* is a key of the keyed one and selects the shard of the other.           *)
(***************************************************************************)
EXTENDS Integers, Sequences, FiniteSets

CONSTANTS
    Requests, Keys, KeyOf(_), ShardOf(_), Workers, Capacity, Batch

\* What the configuration guarantees: a sender has one shard.
OptionsValid ==
    /\ \A q \in Requests : KeyOf(q) \in Keys /\ ShardOf(q) \in Workers
    /\ \A p, q \in Requests : KeyOf(p) = KeyOf(q) => ShardOf(p) = ShardOf(q)
    /\ Capacity \in Nat \ {0} /\ Batch \in Nat \ {0}

VARIABLES
    scheduler,
    queue,          \* the sharded scheduler
    lanes, ready,   \* the keyed scheduler
    pending, accepting, stopping, work, phase, valid,
    answered,       \* history: the finished calls with their status
    accepted,       \* history: the admitted calls
    refused         \* history: the calls that were not admitted

Sharded == INSTANCE BoundedReadyBatch
Keyed == INSTANCE BoundedKeyedReadyBatch

vars == <<scheduler, queue, lanes, ready, pending, accepting, stopping, work,
          phase, valid, answered, accepted, refused>>

Elements(s) == {s[i] : i \in 1 .. Len(s)}

Init ==
    /\ scheduler \in {"keyed", "sharded"}
    /\ Sharded!Init /\ Keyed!Init
    /\ refused = {}

\* The caller finishes the call itself: the queue is full or drained, or the
\* admission threw.
Reject(q) ==
    /\ refused' = refused \cup {q}
    /\ answered' = Append(answered, <<q, "exhausted">>)
    /\ UNCHANGED <<scheduler, queue, lanes, ready, pending, accepting, stopping,
                   work, phase, valid, accepted>>

PersistPrivateMessage(q) ==
    /\ q \notin refused \cup Elements(accepted)
    /\ \/ /\ scheduler = "keyed" /\ Keyed!Submit(q)
          /\ UNCHANGED <<scheduler, queue, refused>>
       \/ /\ scheduler = "sharded" /\ Sharded!Submit(q)
          /\ UNCHANGED <<scheduler, lanes, ready, refused>>
       \/ Reject(q)

Drain ==
    \/ scheduler = "keyed" /\ Keyed!Drain /\ UNCHANGED <<scheduler, queue, refused>>
    \/ /\ scheduler = "sharded" /\ Sharded!Drain
       /\ UNCHANGED <<scheduler, lanes, ready, refused>>

Step(w) ==
    \/ scheduler = "keyed" /\ Keyed!Step(w) /\ UNCHANGED <<scheduler, queue, refused>>
    \/ /\ scheduler = "sharded" /\ Sharded!Step(w)
       /\ UNCHANGED <<scheduler, lanes, ready, refused>>

Next ==
    \/ \E q \in Requests : PersistPrivateMessage(q)
    \/ Drain
    \/ \E w \in Workers : Step(w)

Spec == Init /\ [][Next]_vars

----------------------------------------------------------------------------
(* Properties.                                                             *)

Out == UNION {Elements(work[w]) : w \in Workers}
Waiting ==
    UNION {Elements(queue[w]) : w \in Workers}
       \cup UNION {Elements(lanes[k].queue) : k \in Keys}
Finished(q) == {i \in 1 .. Len(answered) : answered[i][1] = q}
OfKey(s, k) == SelectSeq(s, LAMBDA q : KeyOf(q) = k)

\* No std::terminate in the schedulers. The global capacity covers the calls
\* that wait, execute and complete: the counter is exact and within the limit.
\* In the keyed scheduler the ring fits, holds a key at most once, and exactly
\* the keys of lanes that are inactive and have a request; a completing request
\* finds its lane active.
SchedulerExact ==
    /\ pending = Cardinality(Out \cup Waiting) /\ pending <= Capacity
    /\ scheduler = "keyed" =>
        /\ Len(ready) <= Capacity
        /\ \A i, j \in 1 .. Len(ready) : ready[i] = ready[j] => i = j
        /\ \A k \in Keys :
              /\ k \in Elements(ready) <=>
                    ~lanes[k].active /\ lanes[k].queue # <<>>
              /\ lanes[k].active <=> \E q \in Out : KeyOf(q) = k
              /\ lanes[k].exists <=> lanes[k].active \/ lanes[k].queue # <<>>

\* "Both schedulers preserve sender CID order": admitted calls of one sender
\* finish in the order of their admission, and no call is finished twice, by its
\* completion and the rejection or by two workers (gRPC forbids it).
SenderOrder ==
    LET completed == SelectSeq([i \in 1 .. Len(answered) |-> answered[i][1]],
                               LAMBDA q : q \in Elements(accepted))
    IN  /\ \A q \in Requests : Cardinality(Finished(q)) <= 1
        /\ \A k \in Keys : OfKey(completed, k) =
              SubSeq(OfKey(accepted, k), 1, Len(OfKey(completed, k)))

\* Every call that arrives is finished.
EveryCallFinishes ==
    <>[](\A q \in refused \cup Elements(accepted) : Finished(q) # {})
=============================================================================
