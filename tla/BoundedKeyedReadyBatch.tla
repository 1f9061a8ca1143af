----------------------- MODULE BoundedKeyedReadyBatch -----------------------
(***************************************************************************)
(* common/runtime/BoundedKeyedReadyBatch: a bounded queue whose workers    *)
(* take the keys that are ready, one request per key, execute them as one  *)
(* batch and complete every request. Requests of one key stay in order.    *)
(* The std::terminate branches of the code are states that the module      *)
(* MessageReadyBatchService shows unreachable (SchedulerExact).            *)
(***************************************************************************)
EXTENDS Integers, Sequences, FiniteSets

CONSTANTS
    Requests, Keys,
    KeyOf(_),        \* the key a request is submitted under
    Workers,         \* options.shards threads
    Capacity, Batch

VARIABLES
    lanes,      \* per key: its queue, and whether one of its requests is out
    ready,      \* the ring of ready keys
    pending, accepting, stopping,
    work,       \* the nodes a worker has taken and not yet completed
    phase,      \* where a worker is
    valid,      \* whether its execute returned a result for each node
    answered,   \* history: the requests completed, in order, with their result
    accepted    \* history: the requests accepted, in order

vars == <<lanes, ready, pending, accepting, stopping, work, phase, valid,
          answered, accepted>>

Least(a, b) == IF a < b THEN a ELSE b
NoLane == [exists |-> FALSE, queue |-> <<>>, active |-> FALSE]

Init ==
    /\ lanes = [k \in Keys |-> NoLane]
    /\ ready = <<>> /\ pending = 0
    /\ accepting = TRUE /\ stopping = FALSE
    /\ work = [w \in Workers |-> <<>>]
    /\ phase = [w \in Workers |-> "take"]
    /\ valid = [w \in Workers |-> FALSE]
    /\ answered = <<>> /\ accepted = <<>>

\* Work that executes or completes still counts against the capacity.
Admits == accepting /\ pending < Capacity

\* Mutant of Submit: the key is announced with every request.
SubmitAnnouncing(q) ==
    LET k == KeyOf(q)
    IN  /\ Admits
        /\ lanes' = [lanes EXCEPT ![k] =
              [@ EXCEPT !.exists = TRUE, !.queue = Append(@, q)]]
        /\ ready' = Append(ready, k)
        /\ pending' = pending + 1
        /\ accepted' = Append(accepted, q)
        /\ UNCHANGED <<accepting, stopping, work, phase, valid, answered>>

\* Mutant of Submit: the lane is not a FIFO.
SubmitNewestFirst(q) ==
    LET k == KeyOf(q)
    IN  /\ Admits
        /\ lanes' = [lanes EXCEPT ![k] =
              [@ EXCEPT !.exists = TRUE, !.queue = <<q>> \o @]]
        /\ ready' = IF lanes[k].exists THEN ready ELSE Append(ready, k)
        /\ pending' = pending + 1
        /\ accepted' = Append(accepted, q)
        /\ UNCHANGED <<accepting, stopping, work, phase, valid, answered>>

\* An accepted submission. A new lane puts its key into the ring; an existing
\* one has it there already or gets it when its active request completes.
Submit(q) ==
    LET k == KeyOf(q)
    IN  /\ Admits
        /\ lanes' = [lanes EXCEPT ![k] =
              [@ EXCEPT !.exists = TRUE, !.queue = Append(@, q)]]
        /\ ready' = IF lanes[k].exists THEN ready ELSE Append(ready, k)
        /\ pending' = pending + 1
        /\ accepted' = Append(accepted, q)
        /\ UNCHANGED <<accepting, stopping, work, phase, valid, answered>>

Drain ==
    /\ accepting
    /\ accepting' = FALSE /\ stopping' = TRUE
    /\ UNCHANGED <<lanes, ready, pending, work, phase, valid, answered, accepted>>

\* PopReady for the first count keys of the ring: each lane becomes active and
\* gives its oldest request.
Take(w) ==
    LET count == Least(Batch, Len(ready))
        keys == {ready[i] : i \in 1 .. count}
    IN  /\ phase[w] = "take" /\ ready # <<>>
        /\ work' = [work EXCEPT ![w] =
              [i \in 1 .. count |-> Head(lanes[ready[i]].queue)]]
        /\ lanes' = [k \in Keys |->
              IF k \in keys
              THEN [lanes[k] EXCEPT !.active = TRUE, !.queue = Tail(@)]
              ELSE lanes[k]]
        /\ ready' = SubSeq(ready, count + 1, Len(ready))
        /\ phase' = [phase EXCEPT ![w] = "execute"]
        /\ UNCHANGED <<pending, accepting, stopping, valid, answered, accepted>>

\* A stopping worker ends when nothing is pending anywhere.
Exit(w) ==
    /\ phase[w] = "take" /\ ready = <<>> /\ stopping /\ pending = 0
    /\ phase' = [phase EXCEPT ![w] = "ended"]
    /\ UNCHANGED <<lanes, ready, pending, accepting, stopping, work, valid,
                   answered, accepted>>

\* execute_ answers every node, or throws or answers a wrong number.
Execute(w) ==
    /\ phase[w] = "execute"
    /\ \E ok \in BOOLEAN : valid' = [valid EXCEPT ![w] = ok]
    /\ phase' = [phase EXCEPT ![w] = "complete"]
    /\ UNCHANGED <<lanes, ready, pending, accepting, stopping, work, answered,
                   accepted>>

\* The completion of the worker's next node, called without the mutex.
Answer(w) ==
    /\ phase[w] = "complete"
    /\ answered' = Append(answered,
          <<Head(work[w]), IF valid[w] THEN "result" ELSE "failure">>)
    /\ phase' = [phase EXCEPT ![w] = "release"]
    /\ UNCHANGED <<lanes, ready, pending, accepting, stopping, work, valid,
                   accepted>>

\* Complete, after the callback: the lane is erased, or its key is ready again.
ReleaseLane(w) ==
    LET k == KeyOf(Head(work[w]))
        empty == lanes[k].queue = <<>>
    IN  /\ phase[w] = "release"
        /\ lanes' = [lanes EXCEPT ![k] =
              IF empty THEN NoLane ELSE [@ EXCEPT !.active = FALSE]]
        /\ ready' = IF empty THEN ready ELSE Append(ready, k)
        /\ pending' = pending - 1
        /\ work' = [work EXCEPT ![w] = Tail(@)]
        /\ phase' = [phase EXCEPT ![w] =
              IF Len(work[w]) = 1 THEN "take" ELSE "complete"]
        /\ UNCHANGED <<accepting, stopping, valid, answered, accepted>>

Step(w) == Take(w) \/ Exit(w) \/ Execute(w) \/ Answer(w) \/ ReleaseLane(w)
=============================================================================
