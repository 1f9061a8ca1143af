-------------------------- MODULE BusinessExecutor --------------------------
(***************************************************************************)
(* The Gateway's bounded executor of business tasks                        *)
(* (gateway/business/BusinessExecutor.cpp) over its fixed thread pool.     *)
(*                                                                         *)
(* A task has an optional ordering key and is synchronous or a coroutine   *)
(* that gives its thread back while an RPC is outstanding.  Tasks of one   *)
(* key run one after another: either all keys of a stripe share one queue, *)
(* or every key has a lane of its own (isolate_ordering_keys).  What the   *)
(* task answers runs later on the EventLoop of its connection.  Shutdown   *)
(* closes admission, waits until four atomic counters, which it reads one  *)
(* after the other, are zero, and only then stops the pool.                *)
(***************************************************************************)
EXTENDS Naturals, Sequences, FiniteSets, SequencesExt

CONSTANTS
    Workers,      \* threads of the pool (worker_threads)
    Keys,         \* ordering keys
    Stripes,      \* indices of stripes_
    StripeOf,     \* [Keys -> Stripes]: key % stripe_count
    NoKey,        \* a task without ordering key
    MaxPending,   \* max_pending_tasks
    PerStripe,    \* per_stripe_queue_capacity
    Workloads     \* the configurations and task sequences Init chooses from:
                  \* [isolate, tasks: Seq([key, async, must])]

ASSUME ExecutorAssumption ==
    /\ IsFiniteSet(Workers) /\ Workers # {}
    /\ StripeOf \in [Keys -> Stripes] /\ IsFiniteSet(Stripes) /\ Keys \cap Stripes = {}
    /\ NoKey \notin Keys \cup Stripes
    /\ MaxPending \in Nat \ {0} /\ PerStripe \in 1 .. MaxPending
    /\ \A w \in Workloads :
         /\ w.isolate \in BOOLEAN
         /\ w.tasks \in Seq([key : Keys \cup {NoKey}, async : BOOLEAN, must : BOOLEAN])

VARIABLES
    load,        \* the workload of this behaviour
    st,          \* [task -> where the task is]
    accepting,   \* accepting_
    pending,     \* current_pending_tasks_
    completions, \* pending_completions_
    asyncs,      \* pending_async_tasks_
    internals,   \* pending_internal_jobs_
    lane,        \* [lane -> [open, queue]]: Stripe::running and ::queue, or a
                 \* key's entry of Stripe::lanes
    isolated,    \* [stripe -> isolated_pending]
    pool,        \* the pool's FIFO of jobs
    wk,          \* [worker -> what it does]
    loop,        \* completions queued on the EventLoop
    shut,        \* where ShutdownGraceful is
    zeros,       \* how many counters drained() has read as zero
    wake,        \* a notify_all on drain_cv_ that the waiter has not consumed
    late,        \* shutdown_timeout has passed
    broken       \* a std::logic_error of the executor was thrown

counters == <<pending, completions, asyncs, internals>>
lanes == <<lane, isolated>>
stop == <<accepting, shut, zeros, late>>
vars == <<load, st, counters, lanes, pool, wk, loop, stop, wake, broken>>

Tasks == DOMAIN load.tasks
Key(t) == load.tasks[t].key
Async(t) == load.tasks[t].async
Must(t) == load.tasks[t].must

\* The lane a key is drained by, and the stripe that accounts for it.
LaneOf(t) == IF load.isolate \/ Key(t) = NoKey THEN Key(t) ELSE StripeOf[Key(t)]

\* A job of the pool: ExecuteTask of an unordered task, a drainer of a lane or
\* the resumption of a coroutine.  PostInternal wraps a job so that it is
\* counted by pending_internal_jobs_ until it has returned.
Exec(t) == [do |-> "exec", task |-> t, lane |-> NoKey, internal |-> FALSE]
Drain(l, i) == [do |-> "drain", task |-> 0, lane |-> l, internal |-> i]
Resume(t) == [do |-> "resume", task |-> t, lane |-> LaneOf(t), internal |-> TRUE]
Idle == [do |-> "idle", task |-> 0, lane |-> NoKey, internal |-> FALSE]

\* Start: the slots of the pool's queue, with the reserve for internal jobs.
QueueCapacity == MaxPending * 2 + Cardinality(Stripes) + Cardinality(Workers)

PoolOpen == shut \notin {"joining", "stopped"}
PoolTakes == PoolOpen /\ Len(pool) < QueueCapacity

Init ==
    /\ load \in Workloads
    /\ st = [t \in Tasks |-> "new"]
    /\ accepting = TRUE
    /\ pending = 0 /\ completions = 0 /\ asyncs = 0 /\ internals = 0
    /\ lane = [l \in Keys \cup Stripes |-> [open |-> FALSE, queue |-> <<>>]]
    /\ isolated = [s \in Stripes |-> 0]
    /\ pool = <<>>
    /\ wk = [w \in Workers |-> Idle]
    /\ loop = <<>>
    /\ shut = "no" /\ zeros = 0 /\ wake = FALSE /\ late = FALSE /\ broken = FALSE

-----------------------------------------------------------------------------
(* Admission: one critical section of admission_mutex_, tasks in order.    *)

\* The next task of the workload that nobody has submitted yet.
Next1(t) == st[t] = "new" /\ \A u \in Tasks : u < t => st[u] # "new"

HotKey(t) ==
    /\ Key(t) # NoKey
    /\ IF load.isolate
       THEN isolated[StripeOf[Key(t)]] >= PerStripe
       ELSE Len(lane[LaneOf(t)].queue) + (IF lane[LaneOf(t)].open THEN 1 ELSE 0) >= PerStripe

\* Mutant: a submit starts a drainer although the lane has one.
NeedsJobAlways(t) == TRUE

\* A task that needs a new job: an unordered one, or the first of its lane.
NeedsJob(t) == Key(t) = NoKey \/ ~lane[LaneOf(t)].open

Admits(t) == accepting /\ pending < MaxPending /\ ~HotKey(t) /\ (NeedsJob(t) => PoolTakes)

Accept(t) ==
    /\ Next1(t) /\ Admits(t)
    /\ st' = [st EXCEPT ![t] = "queued"]
    /\ pending' = pending + 1
    /\ pool' = IF ~NeedsJob(t) THEN pool
               ELSE Append(pool, IF Key(t) = NoKey THEN Exec(t) ELSE Drain(LaneOf(t), FALSE))
    /\ IF Key(t) = NoKey
       THEN UNCHANGED lanes
       ELSE /\ lane' = [lane EXCEPT ![LaneOf(t)] =
                          [open |-> TRUE, queue |-> Append(@.queue, t)]]
            /\ isolated' = IF load.isolate THEN [isolated EXCEPT ![StripeOf[Key(t)]] = @ + 1]
                                           ELSE isolated
    /\ UNCHANGED <<load, completions, asyncs, internals, wk, loop, stop, wake, broken>>

\* Refused: expired on arrival, shutting down, or one of the three limits; the
\* reservation of current_pending_tasks_ and of the lane is undone.
Refuse(t) ==
    /\ Next1(t)
    /\ st' = [st EXCEPT ![t] = "rejected"]
    /\ UNCHANGED <<load, counters, lanes, pool, wk, loop, stop, wake, broken>>

-----------------------------------------------------------------------------
(* The atomic counters.  Every decrement is followed by a notify_all under *)
(* drain_mutex_.                                                           *)

\* Nobody waits on drain_cv_ before BeginDrain and after the last drained().
NotifyDrainProgress == wake' = (shut \in {"loading", "waiting"})

ReleasePending == pending' = pending - 1 /\ NotifyDrainProgress

\* DispatchCompletion and DispatchDeadlineTerminal: the answer is queued on the
\* connection's loop, or dropped because the connection's or session's fence no
\* longer holds, there is no dispatcher, or the dispatcher throws.
Dispatch(t) ==
    \/ /\ st' = [st EXCEPT ![t] = "completing"]
       /\ completions' = completions + 1
       /\ loop' = Append(loop, t)
       /\ UNCHANGED <<pending, wake>>
    \/ /\ st' = [st EXCEPT ![t] = "done"]
       /\ ReleasePending
       /\ UNCHANGED <<completions, loop>>

\* The task's work threw, or succeeded without an answer to send.
Silent(t) ==
    /\ st' = [st EXCEPT ![t] = "done"]
    /\ ReleasePending
    /\ UNCHANGED <<completions, loop>>

\* PostInternal: the continuation of an accepted task is never refused.
PostInternal(job) ==
    /\ internals' = internals + 1
    /\ pool' = IF PoolTakes THEN Append(pool, job) ELSE pool
    /\ broken' = (broken \/ ~PoolTakes)

-----------------------------------------------------------------------------
(* A worker: take a job, run it to its end.                                *)

At(w, do) == wk[w].do = do
Goto(w, do) == wk' = [wk EXCEPT ![w].do = do]

\* The end of a job; PostInternal's wrapper still has to count it out.
Return(w) == wk' = [wk EXCEPT ![w] = IF @.internal THEN [@ EXCEPT !.do = "return"] ELSE Idle]

Take(w) ==
    /\ At(w, "idle") /\ pool # <<>>
    /\ wk' = [wk EXCEPT ![w] = Head(pool)]
    /\ pool' = Tail(pool)
    /\ st' = IF Head(pool).do = "resume" THEN [st EXCEPT ![Head(pool).task] = "resumed"] ELSE st
    /\ UNCHANGED <<load, counters, lanes, loop, stop, wake, broken>>

EndInternal(w) ==
    /\ At(w, "return")
    /\ internals' = internals - 1
    /\ NotifyDrainProgress
    /\ wk' = [wk EXCEPT ![w] = Idle]
    /\ UNCHANGED <<load, st, pending, completions, asyncs, lanes, pool, loop, stop, broken>>

\* DrainStripe and DrainKey: close the empty lane in the critical section that
\* found it empty, or take its oldest task.
DrainNext(w) ==
    LET l == wk[w].lane IN
    /\ At(w, "drain")
    /\ IF lane[l].queue = <<>>
       THEN /\ lane' = [lane EXCEPT ![l].open = FALSE]
            /\ Return(w)
       ELSE /\ lane' = [lane EXCEPT ![l].queue = Tail(@)]
            /\ wk' = [wk EXCEPT ![w].do = "exec", ![w].task = Head(lane[l].queue)]
    /\ UNCHANGED <<load, st, counters, isolated, pool, loop, stop, wake, broken>>

\* What follows a task that ExecuteTask finished on this thread.
AfterExecute(w) ==
    IF wk[w].lane = NoKey THEN Return(w) ELSE Goto(w, IF load.isolate THEN "after" ELSE "drain")

\* ExecuteTask: a cancelable task may have expired or lost its session while it
\* was queued and is then ended without being run.
Cancel(w) ==
    LET t == wk[w].task IN
    /\ At(w, "exec") /\ ~Must(t)
    /\ \/ Dispatch(t) \/ Silent(t)
    /\ AfterExecute(w)
    /\ UNCHANGED <<load, asyncs, internals, lanes, pool, stop, broken>>

Begin(w) ==
    LET t == wk[w].task IN
    /\ At(w, "exec")
    /\ st' = [st EXCEPT ![t] = "running"]
    /\ asyncs' = IF Async(t) THEN asyncs + 1 ELSE asyncs
    /\ Goto(w, IF Async(t) THEN "resume" ELSE "work")
    /\ UNCHANGED <<load, pending, completions, internals, lanes, pool, loop, stop, wake, broken>>

Work(w) ==
    LET t == wk[w].task IN
    /\ At(w, "work")
    /\ \/ Dispatch(t) \/ Silent(t)
    /\ AfterExecute(w)
    /\ UNCHANGED <<load, asyncs, internals, lanes, pool, stop, broken>>

\* Mutant: the emptied lane keeps its entry.
CompleteKeyTaskKeepsLane(l) ==
    /\ isolated' = [isolated EXCEPT ![StripeOf[l]] = @ - 1]
    /\ lane' = lane

\* CompleteKeyTask: give back the key's slot; an empty lane is retired in the
\* same critical section.  TRUE: the lane still has tasks.
LaneGoesOn(l) == lane[l].queue # <<>>

\* The completed task held no lane: a std::logic_error.
LaneMissing(l) == ~lane[l].open \/ isolated[StripeOf[l]] = 0

CompleteKeyTask(l) ==
    /\ isolated' = [isolated EXCEPT ![StripeOf[l]] = @ - 1]
    /\ lane' = [lane EXCEPT ![l].open = LaneGoesOn(l)]

\* Back in the drainer of an isolated key after a synchronous task.
NextInLane(w) ==
    LET l == wk[w].lane IN
    /\ At(w, "after")
    /\ CompleteKeyTask(l)
    /\ broken' = (broken \/ LaneMissing(l))
    /\ IF LaneGoesOn(l) THEN Goto(w, "drain") ELSE Return(w)
    /\ UNCHANGED <<load, st, counters, pool, loop, stop, wake>>

\* A coroutine reaches an RPC that is not ready: its thread is given back, the
\* lane stays with the task.
Suspend(w) ==
    LET t == wk[w].task IN
    /\ At(w, "resume") /\ st[t] = "running"
    /\ st' = [st EXCEPT ![t] = "suspended"]
    /\ Return(w)
    /\ UNCHANGED <<load, counters, lanes, pool, loop, stop, wake, broken>>

\* The RPC completes on a gRPC thread.
RpcReturns(t) ==
    /\ st[t] = "suspended"
    /\ st' = [st EXCEPT ![t] = "resuming"]
    /\ PostInternal(Resume(t))
    /\ UNCHANGED <<load, pending, completions, asyncs, lanes, wk, loop, stop, wake>>

\* FinishAsync, up to the release or the dispatch of the answer.
FinishAsync(w) ==
    LET t == wk[w].task IN
    /\ At(w, "resume")
    /\ \/ Dispatch(t) \/ Silent(t)
    /\ Goto(w, "tail")
    /\ UNCHANGED <<load, asyncs, internals, lanes, pool, stop, broken>>

\* FinishAsync: pass the lane on to a new drainer.
PassLaneOn(w) ==
    LET l == wk[w].lane IN
    /\ At(w, "tail")
    /\ Goto(w, "ended")
    /\ IF l = NoKey
       THEN UNCHANGED <<lanes, internals, pool, broken>>
       ELSE IF load.isolate
       THEN /\ CompleteKeyTask(l)
            /\ IF LaneGoesOn(l)
               THEN PostInternal(Drain(l, TRUE))
               ELSE broken' = (broken \/ LaneMissing(l)) /\ UNCHANGED <<internals, pool>>
       ELSE PostInternal(Drain(l, TRUE)) /\ UNCHANGED lanes
    /\ UNCHANGED <<load, st, pending, completions, asyncs, loop, stop, wake>>

\* FinishAsync: only now is the task no longer counted as asynchronous work.
AsyncEnded(w) ==
    /\ At(w, "ended")
    /\ asyncs' = asyncs - 1
    /\ NotifyDrainProgress
    /\ Return(w)
    /\ UNCHANGED <<load, st, pending, completions, internals, lanes, pool, loop, stop, broken>>

\* The EventLoop runs the wrapped completion: the fence is probed again, the
\* answer is sent or dropped, and the task gives up its last reservation.
RunCompletion ==
    /\ loop # <<>>
    /\ loop' = Tail(loop)
    /\ st' = [st EXCEPT ![Head(loop)] = "done"]
    /\ completions' = completions - 1
    /\ ReleasePending
    /\ UNCHANGED <<load, asyncs, internals, lanes, pool, wk, stop, broken>>

-----------------------------------------------------------------------------
(* ShutdownGraceful.                                                       *)

\* Mutant: admission stays open while the counters are read.
BeginDrainStillAccepting ==
    /\ shut = "no"
    /\ shut' = "loading" /\ wake' = FALSE
    /\ UNCHANGED <<load, st, accepting, counters, lanes, pool, wk, loop, zeros, late, broken>>

BeginDrain ==
    /\ shut = "no"
    /\ accepting' = FALSE
    /\ shut' = "loading" /\ wake' = FALSE
    /\ UNCHANGED <<load, st, counters, lanes, pool, wk, loop, zeros, late, broken>>

\* drained(): four separate loads, in the order of `counters`, up to the first
\* that is not zero.
Drained ==
    /\ shut = "loading"
    /\ IF counters[zeros + 1] # 0
       THEN shut' = "waiting" /\ zeros' = 0
       ELSE IF zeros + 1 < Len(counters)
       THEN shut' = shut /\ zeros' = zeros + 1
       ELSE shut' = "joining" /\ zeros' = 0
    /\ UNCHANGED <<load, st, accepting, counters, lanes, pool, wk, loop, wake, late, broken>>

\* drain_cv_: a notification, or once the end of the budget, evaluates
\* drained() again.
Woken ==
    /\ shut = "waiting" /\ wake
    /\ shut' = "loading" /\ wake' = FALSE
    /\ UNCHANGED <<load, st, accepting, counters, lanes, pool, wk, loop, zeros, late, broken>>

BudgetPasses ==
    /\ shut = "waiting" /\ ~late
    /\ shut' = "loading" /\ late' = TRUE
    /\ UNCHANGED <<load, st, accepting, counters, lanes, pool, wk, loop, zeros, wake, broken>>

\* ThreadPool::Shutdown(kGraceful): the workers empty the queue and are joined.
Joined ==
    /\ shut = "joining" /\ pool = <<>> /\ \A w \in Workers : At(w, "idle")
    /\ shut' = "stopped"
    /\ UNCHANGED <<load, st, accepting, counters, lanes, pool, wk, loop, zeros, wake, late, broken>>

-----------------------------------------------------------------------------
WorkerStep(w) ==
    \/ Take(w) \/ EndInternal(w) \/ DrainNext(w) \/ Cancel(w) \/ Begin(w) \/ Work(w)
    \/ NextInLane(w) \/ Suspend(w) \/ FinishAsync(w) \/ PassLaneOn(w) \/ AsyncEnded(w)

ShutdownStep == Drained \/ Woken \/ BudgetPasses \/ Joined

Next ==
    \/ \E t \in Tasks : Accept(t) \/ Refuse(t) \/ RpcReturns(t)
    \/ \E w \in Workers : WorkerStep(w)
    \/ RunCompletion
    \/ BeginDrain
    \/ ShutdownStep

\* What keeps running: threads of the pool, the EventLoop and the thread in
\* ShutdownGraceful; every RPC has a deadline and therefore returns.  Whether a
\* task is submitted and whether the Gateway shuts down is up to others.
Progress ==
    \/ \E w \in Workers : WorkerStep(w)
    \/ RunCompletion \/ ShutdownStep
    \/ \E t \in Tasks : RpcReturns(t)

-----------------------------------------------------------------------------
(* Properties.                                                             *)

Accepted(t) == st[t] \notin {"new", "rejected"}
Started(t) == st[t] \in {"running", "suspended", "resuming", "resumed"}
Over(t) == st[t] \in {"completing", "done"}

\* Tasks of one ordering key never overlap and never overtake each other, also
\* while a coroutine is suspended and its thread serves others, and their
\* answers reach the EventLoop in the order of admission. A lane that goes on
\* finds its drainer and the pool takes it: no std::logic_error is thrown.
KeyOrder ==
  /\ ~broken
  /\ \A t, u \in Tasks :
      (t < u /\ Key(t) # NoKey /\ Key(t) = Key(u) /\ Accepted(t)) =>
        /\ Started(u) \/ Over(u) => Over(t)
        /\ \A i, j \in DOMAIN loop : loop[i] = u /\ loop[j] = t => j < i

\* When ShutdownGraceful lets go of the pool, nothing it accepted is unfinished:
\* no task, no answer on the EventLoop, no RPC that would resume a coroutine.
StopIsQuiet ==
    shut \in {"joining", "stopped"} =>
      /\ \A t \in Tasks : Accepted(t) => st[t] = "done"
      /\ loop = <<>>
      /\ \A l \in DOMAIN lane : lane[l].queue = <<>>

\* Every accepted task ends and ShutdownGraceful returns: no lane is left
\* without a drainer, no coroutine without its resumption, and the decrement
\* that is the last reaches the waiter.
AcceptedTasksEnd ==
    <>[]((\A t \in Tasks : Accepted(t) => st[t] = "done") /\ shut \in {"no", "stopped"})
=============================================================================
