----------------------------- MODULE MCRuntime -----------------------------
(***************************************************************************)
(* The schedulers that run business work, checked together: a behaviour is *)
(* one of the Gateway's BusinessExecutor, of one of the ready batches      *)
(* behind the message service or of the batch of blocked callers.          *)
(*                                                                         *)
(* The executor has two workers, two keys of one stripe, at most two       *)
(* pending tasks, and workloads of three tasks with and without isolated   *)
(* keys.  Of the calls of the message service, 1 and 3 are of one sender,  *)
(* 2 and 4 of another; both fall into different shards of two.             *)
(***************************************************************************)
EXTENDS BusinessExecutor, BoundedCallerBatch

CONSTANTS a, b, s, Requests, Senders, Shards, Capacity

VARIABLES
    side,
    scheduler, ready_queue, key_lanes, ready, batch_pending, batch_accepting, stopping,
    work, phase, valid, answered, accepted, refused

Sender(q) == q % 2
Shard(q) == 1 + (q % 2)

Ready == INSTANCE MessageReadyBatchService
             WITH Keys <- Senders, KeyOf <- Sender, ShardOf <- Shard, Workers <- Shards,
                  queue <- ready_queue, lanes <- key_lanes,
                  pending <- batch_pending, accepting <- batch_accepting

ASSUME BatchOptionsAssumption == Ready!OptionsValid

readyVars == <<scheduler, ready_queue, key_lanes, ready, batch_pending, batch_accepting,
               stopping, work, phase, valid, answered, accepted, refused>>
runtimeVars == <<side, vars, readyVars, callerVars>>

OneStripe == [k \in {a, b} |-> s]

T(k, as, mu) == [key |-> k, async |-> as, must |-> mu]

MCWorkloads ==
    { [isolate |-> i, tasks |-> ts] : i \in BOOLEAN, ts \in {
        <<T(a, TRUE, TRUE), T(NoKey, FALSE, FALSE), T(NoKey, TRUE, FALSE)>>,
        <<T(a, TRUE, FALSE), T(b, FALSE, TRUE), T(a, TRUE, TRUE)>> } }

RuntimeInit ==
    /\ side \in {"executor", "ready", "callers"}
    /\ Init /\ Ready!Init /\ CallerInit
    /\ side # "executor" => load = CHOOSE w \in Workloads : TRUE
    /\ side # "ready" => scheduler = "keyed"

\* The two senders, the calls of a sender and the blocked callers differ only in
\* their number: they are numbered in the order in which they come.
Arrived(q) == q \in refused \cup Range(accepted)
InOrder ==
    /\ \A p, q \in Requests :
          p < q /\ Sender(p) = Sender(q) /\ Arrived(q) => Arrived(p)
    /\ (\E q \in Requests : Arrived(q)) => Arrived(1)
    /\ \A x, y \in Callers : x < y /\ pc[y] # "idle" => pc[x] # "idle"

RuntimeNext ==
    \/ side = "executor" /\ Next /\ UNCHANGED <<side, readyVars, callerVars>>
    \/ side = "ready" /\ Ready!Next /\ UNCHANGED <<side, vars, callerVars>> /\ InOrder'
    \/ side = "callers" /\ CallerNext /\ UNCHANGED <<side, vars, readyVars>> /\ InOrder'

\* The threads go on while one of them can, in whichever order; the execution
\* of a batch, callbacks and RPCs return.
RuntimeProgress ==
    \/ side = "executor" /\ Progress /\ UNCHANGED <<side, readyVars, callerVars>>
    \/ /\ side = "ready" /\ \E w \in Shards : Ready!Step(w)
       /\ UNCHANGED <<side, vars, callerVars>>
    \/ /\ side = "callers" /\ \E c \in Callers : CallerStep(c)
       /\ UNCHANGED <<side, vars, readyVars>>

RuntimeSpec == RuntimeInit /\ [][RuntimeNext]_runtimeVars /\ WF_runtimeVars(RuntimeProgress)

\* The ready batches' counters, ring and lanes are exact and no terminate
\* branch of theirs is reachable.
SchedulerExact == Ready!SchedulerExact

\* The calls of one sender finish in order, and each of them once.
SenderOrder == Ready!SenderOrder

\* Every call that the message service takes is finished, and every caller
\* admitted by BoundedCallerBatch::Run returns.
EveryCallReturns == Ready!EveryCallFinishes /\ EveryCallerReturns
=============================================================================
