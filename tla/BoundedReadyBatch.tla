------------------------- MODULE BoundedReadyBatch -------------------------
(***************************************************************************)
(* common/runtime/BoundedReadyBatch: a bounded queue cut into shards by    *)
(* the key of a request. Each shard has one worker that takes what is      *)
(* there, executes it as one batch and completes every request. A shard    *)
(* is named by its worker.                                                 *)
(***************************************************************************)
EXTENDS Integers, Sequences

CONSTANTS
    Requests, Workers, Capacity, Batch,
    ShardOf(_)       \* the shard of a request, by its key

VARIABLES
    queue,      \* per shard
    pending, accepting, stopping,
    work, phase, valid,
    answered, accepted

vars == <<queue, pending, accepting, stopping, work, phase, valid, answered,
          accepted>>

Init ==
    /\ queue = [s \in Workers |-> <<>>]
    /\ pending = 0 /\ accepting = TRUE /\ stopping = FALSE
    /\ work = [s \in Workers |-> <<>>]
    /\ phase = [s \in Workers |-> "take"]
    /\ valid = [s \in Workers |-> FALSE]
    /\ answered = <<>> /\ accepted = <<>>

\* Work that executes or completes still counts against the capacity.
Admits == accepting /\ pending < Capacity

\* An accepted submission.
Submit(q) ==
    /\ Admits
    /\ queue' = [queue EXCEPT ![ShardOf(q)] = Append(@, q)]
    /\ pending' = pending + 1
    /\ accepted' = Append(accepted, q)
    /\ UNCHANGED <<accepting, stopping, work, phase, valid, answered>>

\* Admission ends and every worker is told to stop.
Drain ==
    /\ accepting
    /\ accepting' = FALSE /\ stopping' = TRUE
    /\ UNCHANGED <<queue, pending, work, phase, valid, answered, accepted>>

\* Mutant of Take: the worker waits for a full batch.
TakeFullBatch(s) ==
    /\ phase[s] = "take" /\ Len(queue[s]) >= Batch
    /\ work' = [work EXCEPT ![s] = SubSeq(queue[s], 1, Batch)]
    /\ queue' = [queue EXCEPT ![s] = SubSeq(@, Batch + 1, Len(@))]
    /\ phase' = [phase EXCEPT ![s] = "execute"]
    /\ UNCHANGED <<pending, accepting, stopping, valid, answered, accepted>>

\* What is there, up to a batch; a worker never waits to fill one.
Take(s) ==
    LET count == IF Batch < Len(queue[s]) THEN Batch ELSE Len(queue[s])
    IN  /\ phase[s] = "take" /\ queue[s] # <<>>
        /\ work' = [work EXCEPT ![s] = SubSeq(queue[s], 1, count)]
        /\ queue' = [queue EXCEPT ![s] = SubSeq(@, count + 1, Len(@))]
        /\ phase' = [phase EXCEPT ![s] = "execute"]
        /\ UNCHANGED <<pending, accepting, stopping, valid, answered, accepted>>

Exit(s) ==
    /\ phase[s] = "take" /\ queue[s] = <<>> /\ stopping
    /\ phase' = [phase EXCEPT ![s] = "ended"]
    /\ UNCHANGED <<queue, pending, accepting, stopping, work, valid, answered,
                   accepted>>

\* execute_ answers every node, or throws or answers a wrong number.
Execute(s) ==
    /\ phase[s] = "execute"
    /\ \E ok \in BOOLEAN : valid' = [valid EXCEPT ![s] = ok]
    /\ phase' = [phase EXCEPT ![s] = "complete"]
    /\ UNCHANGED <<queue, pending, accepting, stopping, work, answered, accepted>>

\* The completion of the next node, with its result or the failure.
Answer(s) ==
    /\ phase[s] = "complete"
    /\ answered' = Append(answered,
          <<Head(work[s]), IF valid[s] THEN "result" ELSE "failure">>)
    /\ phase' = [phase EXCEPT ![s] = "release"]
    /\ UNCHANGED <<queue, pending, accepting, stopping, work, valid, accepted>>

\* After the callback the node no longer counts.
Release(s) ==
    /\ phase[s] = "release"
    /\ pending' = pending - 1
    /\ work' = [work EXCEPT ![s] = Tail(@)]
    /\ phase' = [phase EXCEPT ![s] =
          IF Len(work[s]) = 1 THEN "take" ELSE "complete"]
    /\ UNCHANGED <<queue, accepting, stopping, valid, answered, accepted>>

Step(s) == Take(s) \/ Exit(s) \/ Execute(s) \/ Answer(s) \/ Release(s)
=============================================================================
