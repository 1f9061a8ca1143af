------------------------- MODULE BoundedCallerBatch -------------------------
(***************************************************************************)
(* common/runtime/BoundedCallerBatch: callers that block in Run until one  *)
(* of them, the leader, has executed a batch with their input. Everything  *)
(* happens under one mutex except the call of execute. An input is named   *)
(* by its caller, and the right result of an input by the caller, too.     *)
(***************************************************************************)
EXTENDS Integers, Sequences, FiniteSets

CONSTANTS
    Callers,
    Batch, Queued,   \* limits_.batch and limits_.queued, both positive
    Failure          \* the failure result a caller passes, of no caller

\* The constructor refuses other limits.
ASSUME LimitsAssumption == Batch \in Nat \ {0} /\ Queued \in Nat \ {0}

VARIABLES
    pc, queue, running,
    done, result,    \* of each caller's node
    batch, results,  \* the leader's batch and what execute returned
    executed         \* history: how often each input was executed

callerVars == <<pc, queue, running, done, result, batch, results, executed>>

Least(a, b) == IF a < b THEN a ELSE b

CallerInit ==
    /\ pc = [c \in Callers |-> "idle"]
    /\ queue = <<>> /\ running = FALSE
    /\ done = {} /\ result = [c \in Callers |-> Failure]
    /\ batch = <<>> /\ results = <<>>
    /\ executed = [c \in Callers |-> 0]

\* A full queue answers the failure at once.
Call(c) ==
    /\ pc[c] = "idle"
    /\ IF Len(queue) >= Queued
       THEN pc' = [pc EXCEPT ![c] = "returned"] /\ UNCHANGED queue
       ELSE pc' = [pc EXCEPT ![c] = "waiting"] /\ queue' = Append(queue, c)
    /\ UNCHANGED <<running, done, result, batch, results, executed>>

ReturnResult(c) ==
    /\ pc[c] = "waiting" /\ c \in done
    /\ pc' = [pc EXCEPT ![c] = "returned"]
    /\ UNCHANGED <<queue, running, done, result, batch, results, executed>>

\* A caller without a result leads as soon as nobody does, and waits for more
\* callers with the mutex released.
Lead(c) ==
    /\ pc[c] = "waiting" /\ c \notin done /\ ~running
    /\ running' = TRUE
    /\ pc' = [pc EXCEPT ![c] = "collecting"]
    /\ UNCHANGED <<queue, done, result, batch, results, executed>>

\* The batch is full or the collection time is over: the leader takes the
\* oldest nodes and unlocks.
Close(c) ==
    LET count == Least(Len(queue), Batch)
    IN  /\ pc[c] = "collecting"
        /\ batch' = SubSeq(queue, 1, count)
        /\ queue' = SubSeq(queue, count + 1, Len(queue))
        /\ pc' = [pc EXCEPT ![c] = "executing"]
        /\ UNCHANGED <<running, done, result, results, executed>>

\* The allocation of the batch fails: everyone queued is done with the failure.
CloseFails(c) ==
    /\ pc[c] = "collecting"
    /\ running' = FALSE
    /\ done' = done \cup {queue[i] : i \in 1 .. Len(queue)}
    /\ queue' = <<>>
    /\ pc' = [pc EXCEPT ![c] = "returned"]
    /\ UNCHANGED <<result, batch, results, executed>>

\* execute runs outside the mutex. It may throw or return a result of the
\* wrong size, before or after its side effects.
Execute(c) ==
    /\ pc[c] = "executing"
    /\ \/ results' = batch
       \/ results' = <<>>
    /\ \/ executed' = [x \in Callers |->
              executed[x] + Cardinality({i \in 1 .. Len(batch) : batch[i] = x})]
       \/ results' # batch /\ executed' = executed
    /\ pc' = [pc EXCEPT ![c] = "completing"]
    /\ UNCHANGED <<queue, running, done, result, batch>>

\* Mutant of Complete: the results are handed out in reverse.
CompleteReversed(c) ==
    /\ pc[c] = "completing"
    /\ running' = FALSE
    /\ done' = done \cup {batch[i] : i \in 1 .. Len(batch)}
    /\ result' = [x \in Callers |->
          IF Len(results) = Len(batch) /\ \E i \in 1 .. Len(batch) : batch[i] = x
          THEN results[Len(batch) + 1 - CHOOSE i \in 1 .. Len(batch) : batch[i] = x]
          ELSE result[x]]
    /\ batch' = <<>> /\ results' = <<>>
    /\ pc' = [pc EXCEPT ![c] = "waiting"]
    /\ UNCHANGED <<queue, executed>>

\* The results, if there is one for each node, are handed out in order;
\* otherwise the nodes keep their failure. The lead is free again.
Complete(c) ==
    /\ pc[c] = "completing"
    /\ running' = FALSE
    /\ done' = done \cup {batch[i] : i \in 1 .. Len(batch)}
    /\ result' = [x \in Callers |->
          IF Len(results) = Len(batch) /\ \E i \in 1 .. Len(batch) : batch[i] = x
          THEN results[CHOOSE i \in 1 .. Len(batch) : batch[i] = x] ELSE result[x]]
    /\ batch' = <<>> /\ results' = <<>>
    /\ pc' = [pc EXCEPT ![c] = "waiting"]
    /\ UNCHANGED <<queue, executed>>

CallerStep(c) ==
    \/ ReturnResult(c) \/ Lead(c) \/ Close(c) \/ CloseFails(c) \/ Execute(c)
    \/ Complete(c)

CallerNext == \E c \in Callers : Call(c) \/ CallerStep(c)

CallerSpec == CallerInit /\ [][CallerNext]_callerVars

----------------------------------------------------------------------------
(* Properties.                                                             *)

\* A caller that returns a result returns its own, and its input was executed.
\* No input is executed twice, whichever callers lead and however execute ends:
\* an uncertain side effect is reported, never repeated.
OwnResult ==
    \A c \in Callers :
        /\ executed[c] <= 1
        /\ pc[c] = "returned" /\ result[c] # Failure =>
              result[c] = c /\ executed[c] = 1

\* Every caller that was admitted returns.
EveryCallerReturns == <>[](\A c \in Callers : pc[c] \in {"idle", "returned"})
=============================================================================
