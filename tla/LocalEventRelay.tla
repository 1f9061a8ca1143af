-------------------------- MODULE LocalEventRelay --------------------------
(***************************************************************************)
(* services/message/local/LocalEventRelay over LocalPrivateStore: a poller *)
(* pages the pending events of the store into a bounded queue, workers     *)
(* publish them and delete them with an asynchronous write, directly or    *)
(* through the progress writer. An event is held from the queue until its  *)
(* deletion, so that the poller does not take it again. The runtime stops  *)
(* the relay before the store; a crash may come at any moment.             *)
(*                                                                         *)
(* The relay's mutex is only seen as a state of the poller, which scans    *)
(* and queues under it; the other sections are single steps. The broker is *)
(* external: it accepts, refuses, or accepts without the answer arriving.  *)
(***************************************************************************)
EXTENDS LocalPrivateStore

CONSTANTS
    Workers,        \* the publishing threads
    Progress        \* the progress writer

ASSUME RelayAssumption == Threads = Workers \cup {Progress} /\ Progress \notin Workers

VARIABLES
    relay,          \* the members of Impl
    poll,           \* the poller
    work,           \* the workers and the progress writer
    sent            \* history: events the broker has accepted

vars == <<deploy, db, wal, write, store, locks, call, told, healthy, faults,
          relay, poll, work, sent>>

\* own: the events it took; todo: to publish; res: results to apply;
\* done: published, to be marked; bad: to be quarantined.
Idle == [pc |-> "wait", own |-> {}, todo |-> <<>>, res |-> <<>>, done |-> {}, bad |-> None]

Started ==
    [stopping |-> FALSE, failed |-> FALSE, queue |-> <<>>, completed |-> {},
     held |-> {}, retries |-> <<>>, cursor |-> 0, acked |-> {}]
IdlePoll == [pc |-> "scan", page |-> <<>>, gen |-> 0]

\* StartThreads; the progress writer exists when it is detached.
StartThreads ==
    [w \in Threads |-> IF IF w = Progress THEN deploy.detached ELSE w \in deploy.workers
                       THEN Idle ELSE [Idle EXCEPT !.pc = "ended"]]

Init ==
    /\ StoreInit /\ healthy = TRUE
    /\ relay = Started /\ poll = IdlePoll /\ work = StartThreads
    /\ sent = {x \in Messages(db) : x \notin Events(db) /\ <<"F", x>> \notin DOMAIN db}

MutexFree == poll.pc # "queue"
Keep == UNCHANGED <<deploy, locks, call, told>>
KeepStore == UNCHANGED <<deploy, locks, call, told, db, wal, write, store>>
Goes(w, rec) == work' = [work EXCEPT ![w] = rec]

\* Abort: what nobody works on is let go, and nothing is queued any more.
Aborted(r) ==
    [r EXCEPT !.failed = TRUE, !.stopping = TRUE, !.queue = <<>>, !.completed = {},
              !.held = @ \ (ToSet(r.queue) \cup r.completed)]

-----------------------------------------------------------------------------
(* The poller.                                                             *)

\* ListPendingEventPage, after the cursor. With the guard, a count of zero
\* answers without a scan; with the index, only committed events are seen.
Limit ==
    LET room == deploy.maxHeld - Cardinality(relay.held) IN
    IF deploy.demand /\ room < deploy.page THEN room ELSE deploy.page

Visible ==
    IF deploy.guard /\ store.events = 0 THEN {}
    ELSE {e \in Events(db) : e > relay.cursor
             /\ (store.indexed => e \in DOMAIN store.index /\ store.index[e])}

Page ==
    LET all == SetToSortSeq(Visible, LAMBDA a, b : a < b)
    IN  SubSeq(all, 1, IF Len(all) < Limit THEN Len(all) ELSE Limit)

PollScan ==
    /\ poll.pc = "scan" /\ IsOpen /\ ~relay.stopping
    /\ Cardinality(relay.held) < deploy.maxHeld
    /\ Page # <<>> \/ relay.cursor # 0
    /\ poll' = [poll EXCEPT !.pc = "queue", !.page = Page]
    /\ KeepStore /\ NoFault /\ UNCHANGED <<healthy, relay, work, sent>>

\* One event of the page: skipped when held or not due, else held and queued.
Eligible(r, e) == e \notin r.held /\ (e \in DOMAIN r.retries => r.retries[e].due)

Visit(r, e) ==
    IF Cardinality(r.held) >= deploy.maxHeld THEN r
    ELSE IF Eligible(r, e)
    THEN [r EXCEPT !.cursor = e, !.held = @ \cup {e}, !.queue = Append(@, e)]
    ELSE [r EXCEPT !.cursor = e]

PollQueue ==
    /\ poll.pc = "queue"
    /\ relay' = IF poll.page = <<>> THEN [relay EXCEPT !.cursor = 0]
                ELSE FoldLeft(Visit, relay, poll.page)
    /\ poll' = [poll EXCEPT !.pc = "scan", !.page = <<>>]
    /\ KeepStore /\ NoFault /\ UNCHANGED <<healthy, work, sent>>

\* The periodic sync; the dirty form does nothing when no progress was
\* written since the generation it saw before its last flush. A flush that
\* would change nothing is left out.
SyncNeeded == IF deploy.dirty THEN store.synced # store.marks ELSE Len(wal) > 1

PollSync ==
    /\ poll.pc = "scan" /\ ~relay.stopping /\ IsOpen /\ SyncNeeded
    /\ poll' = [poll EXCEPT !.pc = "flush", !.gen = store.marks]
    /\ KeepStore /\ NoFault /\ UNCHANGED <<healthy, relay, work, sent>>

PollFlush ==
    /\ poll.pc = "flush" /\ Keep /\ UNCHANGED <<db, write, work, sent>>
    /\ \/ /\ ~store.poisoned /\ NoFault
          /\ Flush /\ UNCHANGED store
          /\ poll' = [poll EXCEPT !.pc = "check"] /\ UNCHANGED <<relay, healthy>>
       \/ /\ (store.poisoned /\ NoFault) \/ (~store.poisoned /\ Fault)
          /\ store' = [store EXCEPT !.poisoned = TRUE]
          /\ poll' = [poll EXCEPT !.pc = "ended"]
          /\ relay' = Aborted(relay) /\ healthy' = FALSE /\ UNCHANGED wal

CheckPoint == poll.gen

PollCheck ==
    /\ poll.pc = "check"
    /\ store' = [store EXCEPT !.synced = IF deploy.dirty THEN CheckPoint ELSE @]
    /\ poll' = IdlePoll
    /\ Keep /\ NoFault /\ UNCHANGED <<db, wal, write, healthy, relay, work, sent>>

\* A call of a poisoned store fails, and the poller leaves its loop.
PollFails ==
    /\ poll.pc = "scan" /\ store.poisoned /\ ~relay.stopping
    /\ poll' = [poll EXCEPT !.pc = "ended"]
    /\ relay' = Aborted(relay) /\ healthy' = FALSE
    /\ KeepStore /\ NoFault /\ UNCHANGED <<work, sent>>

PollEnds ==
    /\ poll.pc = "scan" /\ relay.stopping
    /\ poll' = [poll EXCEPT !.pc = "ended"]
    /\ KeepStore /\ NoFault /\ UNCHANGED <<healthy, relay, work, sent>>

\* The delay of a retry passes.
RetryDue(e) ==
    /\ e \in DOMAIN relay.retries /\ ~relay.retries[e].due /\ ~relay.stopping /\ MutexFree
    /\ relay' = [relay EXCEPT !.retries[e].due = TRUE]
    /\ KeepStore /\ NoFault /\ UNCHANGED <<healthy, poll, work, sent>>

-----------------------------------------------------------------------------
(* The workers.                                                            *)

\* A worker takes what is queued, up to the size of a batch.
Take(w) ==
    LET n    == IF Len(relay.queue) < deploy.take THEN Len(relay.queue) ELSE deploy.take
        took == SubSeq(relay.queue, 1, n)
    IN
    /\ w # Progress /\ work[w].pc = "wait" /\ MutexFree
    /\ ~relay.stopping /\ relay.queue # <<>>
    /\ Goes(w, [Idle EXCEPT !.pc = "run", !.own = ToSet(took), !.todo = took])
    /\ relay' = [relay EXCEPT !.queue = SubSeq(@, n + 1, Len(@))]
    /\ KeepStore /\ NoFault /\ UNCHANGED <<healthy, poll, sent>>

\* Publish of the next event, or PublishBatch of all of them; nothing more is
\* submitted once the relay stops. A refused call, or a lost answer to an
\* accepted one, is a trouble.
Outcomes(es) ==
    {r \in [1 .. Len(es) -> {"ok", "retry", "permanent"}] :
        Cardinality({i \in DOMAIN r : r[i] # "ok"}) <= 1}

Publish(w) ==
    LET rec  == work[w]
        es   == IF deploy.batch THEN rec.todo ELSE <<Head(rec.todo)>>
        rest == IF deploy.batch THEN <<>> ELSE Tail(rec.todo)
    IN
    /\ rec.pc = "run" /\ rec.todo # <<>> /\ rec.res = <<>> /\ rec.bad = None
    /\ MutexFree /\ KeepStore /\ UNCHANGED <<healthy, poll>>
    /\ IF relay.stopping
       THEN /\ Goes(w, [rec EXCEPT !.todo = <<>>])
            /\ NoFault /\ UNCHANGED <<relay, sent>>
       ELSE \E r \in Outcomes(es) :
            LET good == {es[i] : i \in {j \in DOMAIN r : r[j] = "ok"}} IN
            /\ IF good = ToSet(es) THEN NoFault ELSE Fault
            /\ sent' \in {sent \cup good, sent \cup good \cup
                            {es[i] : i \in {j \in DOMAIN r : r[j] = "retry"}}}
            /\ relay' = [relay EXCEPT !.acked = @ \cup good]
            /\ Goes(w, [rec EXCEPT !.todo = rest,
                          !.res = [i \in DOMAIN r |-> <<es[i], r[i]>>]])

\* ApplyResult: published, refused for good, or counted towards the limit.
Attempts(e) == IF e \in DOMAIN relay.retries THEN relay.retries[e].n ELSE 0

ApplyResult(w) ==
    LET rec  == work[w]
        e    == Head(rec.res)[1]
        out  == Head(rec.res)[2]
        next == [rec EXCEPT !.res = Tail(@)]
        n    == Attempts(e) + 1
    IN
    /\ rec.pc = "run" /\ rec.res # <<>> /\ rec.bad = None /\ MutexFree
    /\ KeepStore /\ NoFault /\ UNCHANGED <<poll, sent>>
    /\ CASE out = "ok" ->
              Goes(w, [next EXCEPT !.done = @ \cup {e}]) /\ UNCHANGED <<relay, healthy>>
         [] out = "permanent" ->
              Goes(w, [next EXCEPT !.bad = e]) /\ UNCHANGED <<relay, healthy>>
         [] out = "retry" /\ n = 1 /\ Cardinality(DOMAIN relay.retries) >= deploy.maxRetries ->
              Goes(w, next) /\ relay' = Aborted(relay) /\ healthy' = FALSE
         [] OTHER ->
              /\ relay' = [relay EXCEPT !.retries = (e :> [n |-> n, due |-> FALSE]) @@ @]
              /\ Goes(w, [next EXCEPT !.bad = IF n >= deploy.maxAttempts THEN e ELSE None])
              /\ UNCHANGED healthy

Forget(r, ids) == [r EXCEPT !.retries = [e \in DOMAIN @ \ ids |-> @[e]]]

\* Quarantine through MarkEventFailed: a synchronous move from E to F under
\* the lock of the event state. A failure aborts the relay.
QuarantineStart(w) ==
    LET rec == work[w]
        e   == rec.bad
    IN
    /\ rec.pc = "run" /\ e # None /\ store.evlock = None /\ MutexFree
    /\ NoFault /\ Keep /\ UNCHANGED <<db, wal, poll, sent>>
    /\ IF IsOpen /\ e \in Events(db)
       THEN /\ Start(w, (<<"F", e>> :> TRUE) @@ (<<"E", e>> :> Deleted), TRUE)
            /\ store' = [store EXCEPT !.evlock = w]
            /\ Goes(w, [rec EXCEPT !.pc = "failing"]) /\ UNCHANGED <<relay, healthy>>
       ELSE /\ Goes(w, [rec EXCEPT !.bad = None])
            /\ relay' = Aborted(relay) /\ healthy' = FALSE
            /\ UNCHANGED <<write, store>>

QuarantineDone(w) ==
    LET rec == work[w]
        ok  == write[w].st = "ok"
    IN
    /\ rec.pc = "failing" /\ write[w].st \in {"ok", "failed"} /\ MutexFree
    /\ write' = [write EXCEPT ![w] = NoWrite]
    /\ store' = [store EXCEPT !.evlock = None,
           !.index = IF ok THEN Without({rec.bad}) ELSE @,
           !.events = IF ok THEN @ - 1 ELSE @]
    /\ relay' = IF ok THEN Forget(relay, {rec.bad}) ELSE Aborted(relay)
    /\ healthy' = (healthy /\ ok)
    /\ Goes(w, [rec EXCEPT !.pc = "run", !.bad = None])
    /\ NoFault /\ Keep /\ UNCHANGED <<db, wal, poll, sent>>

\* Mutant of Completed: all that the worker took counts as published.
CompletedAll(w) == work[w].own
Completed(w) == work[w].done

\* All results are applied: what was published goes to the progress writer,
\* which then owns it, or is marked by the worker itself.
Settled(w) ==
    LET rec  == work[w]
        done == Completed(w)
    IN
    /\ w # Progress /\ rec.pc = "run" /\ rec.todo = <<>> /\ rec.res = <<>>
    /\ rec.bad = None /\ MutexFree
    /\ IF done = {} \/ relay.failed
       THEN Goes(w, [rec EXCEPT !.pc = "release"]) /\ UNCHANGED relay
       ELSE IF deploy.detached
       THEN /\ relay' = [relay EXCEPT !.completed = @ \cup done]
            /\ Goes(w, [rec EXCEPT !.pc = "release", !.own = @ \ done])
       ELSE Goes(w, [rec EXCEPT !.pc = "mark", !.done = done]) /\ UNCHANGED relay
    /\ KeepStore /\ NoFault /\ UNCHANGED <<healthy, poll, sent>>

\* WriteProgress takes all that is completed.
TakeCompleted ==
    /\ work[Progress].pc = "wait" /\ MutexFree
    /\ ~relay.failed /\ relay.completed # {}
    /\ relay' = [relay EXCEPT !.completed = {}]
    /\ Goes(Progress, [Idle EXCEPT !.pc = "mark", !.own = relay.completed,
                                   !.done = relay.completed])
    /\ KeepStore /\ NoFault /\ UNCHANGED <<healthy, poll, sent>>

\* MarkEventsPublished: the rows that are there are deleted, not synced.
MarkStart(w) ==
    LET rec  == work[w]
        rows == rec.done \cap Events(db)
    IN
    /\ rec.pc = "mark" /\ store.evlock = None
    /\ NoFault /\ Keep /\ UNCHANGED <<db, wal, poll, sent>>
    /\ IF w = Progress /\ relay.failed
       THEN /\ Goes(w, [rec EXCEPT !.pc = "release"])
            /\ UNCHANGED <<write, store, relay, healthy>>
       ELSE IF ~IsOpen \/ rows = {}
       THEN /\ MutexFree /\ relay' = Aborted(relay) /\ healthy' = FALSE
            /\ Goes(w, [rec EXCEPT !.pc = "release"]) /\ UNCHANGED <<write, store>>
       ELSE /\ Start(w, [k \in {<<"E", e>> : e \in rows} |-> Deleted], FALSE)
            /\ store' = [store EXCEPT !.evlock = w]
            /\ Goes(w, [rec EXCEPT !.pc = "marking"]) /\ UNCHANGED <<relay, healthy>>

MarkDone(w) ==
    LET rec  == work[w]
        rows == {k[2] : k \in DOMAIN write[w].batch}
        ok   == write[w].st = "ok"
    IN
    /\ rec.pc = "marking" /\ write[w].st \in {"ok", "failed"} /\ MutexFree
    /\ write' = [write EXCEPT ![w] = NoWrite]
    /\ store' = [store EXCEPT !.evlock = None,
           !.index = IF ok THEN Without(rows) ELSE @,
           !.events = IF ok THEN @ - Cardinality(rows) ELSE @,
           !.marks = IF ok THEN @ + 1 ELSE @]
    /\ relay' = IF ok /\ rows = rec.done THEN Forget(relay, rec.done) ELSE Aborted(relay)
    /\ healthy' = (healthy /\ ok /\ rows = rec.done)
    /\ Goes(w, [rec EXCEPT !.pc = "release"])
    /\ NoFault /\ Keep /\ UNCHANGED <<db, wal, poll, sent>>

Released(w) == relay.held \ work[w].own

Release(w) ==
    /\ work[w].pc = "release" /\ MutexFree
    /\ relay' = [relay EXCEPT !.held = Released(w)]
    /\ Goes(w, Idle)
    /\ KeepStore /\ NoFault /\ UNCHANGED <<healthy, poll, sent>>

-----------------------------------------------------------------------------
(* Stop, crash and restart.                                                *)

\* StopThreads, ordered by the runtime.
Stop ==
    /\ MutexFree /\ healthy /\ ~relay.stopping /\ Fault
    /\ relay' = [relay EXCEPT !.stopping = TRUE, !.queue = <<>>,
                              !.held = @ \ ToSet(relay.queue)]
    /\ healthy' = FALSE
    /\ KeepStore /\ UNCHANGED <<poll, work, sent>>

WorkersJoined == poll.pc = "ended" /\ \A w \in Workers : work[w].pc = "ended"

\* The progress writer ends after the workers and with nothing left to write.
ThreadEnds(w) ==
    /\ work[w].pc = "wait" /\ relay.stopping /\ MutexFree
    /\ w = Progress => relay.failed \/ (WorkersJoined /\ relay.completed = {})
    /\ Goes(w, [Idle EXCEPT !.pc = "ended"])
    /\ KeepStore /\ NoFault /\ UNCHANGED <<healthy, relay, poll, sent>>

\* The last sync after the joins, and the store is closed.
FinalSync ==
    /\ WorkersJoined /\ work[Progress].pc = "ended" /\ ~store.closing
    /\ store' = [store EXCEPT !.closing = TRUE]
    /\ IF store.poisoned THEN UNCHANGED wal ELSE Flush
    /\ Keep /\ NoFault /\ UNCHANGED <<db, write, healthy, relay, poll, work, sent>>

NewProcess(d) ==
    /\ Reopen(d)
    /\ healthy' = TRUE /\ relay' = Started /\ poll' = IdlePoll /\ work' = StartThreads
    /\ UNCHANGED sent

\* Shutdown has waited for the calls; the process is started again.
Restart ==
    /\ store.closing /\ \A c \in Calls : call[c].pc \in {"idle", "done"}
    /\ NoFault /\ \E d \in ToSet(wal) : NewProcess(d)

Crash == Fault /\ \E d \in Survivors : NewProcess(d)

-----------------------------------------------------------------------------
Quiet == UNCHANGED <<healthy, relay, poll, work, sent>>
Grouped == IF deploy.group THEN SUBSET Ready ELSE {{w} : w \in Ready}
Engine == \E S \in Grouped : PhysicalWrite(S) /\ Quiet
Served(c) == c <= Len(deploy.calls) /\ CallStep(c) /\ Quiet

Poller ==
    \/ PollScan \/ PollQueue \/ PollSync \/ PollFlush \/ PollCheck
    \/ PollFails \/ PollEnds

Thread(w) ==
    \/ Take(w) \/ Publish(w) \/ ApplyResult(w) \/ QuarantineStart(w) \/ QuarantineDone(w)
    \/ Settled(w) \/ MarkStart(w) \/ MarkDone(w) \/ Release(w) \/ ThreadEnds(w)

Next ==
    \/ Engine
    \/ \E c \in Calls : Served(c)
    \/ Poller \/ TakeCompleted \/ \E e \in DOMAIN relay.retries : RetryDue(e)
    \/ \E w \in Threads : Thread(w)
    \/ Stop \/ FinalSync \/ Restart \/ Crash

Spec == Init /\ [][Next]_vars

\* Threads run, time passes and a write returns. The relay's mutex is free again
\* and again, as the poller waits between its pages, so its users are granted
\* strong fairness. Nothing is assumed of crashes, troubles, or a stop.
FairSpec ==
    /\ Spec
    /\ WF_vars(Engine) /\ \A c \in Calls : WF_vars(Served(c))
    /\ WF_vars(Poller) /\ SF_vars(TakeCompleted)
    /\ SF_vars(\E e \in DOMAIN relay.retries : RetryDue(e))
    /\ \A w \in Threads : SF_vars(Thread(w))
    /\ WF_vars(FinalSync) /\ WF_vars(Restart)

-----------------------------------------------------------------------------
\* An answer survives: what a persist, a confirmation or a read has answered
\* holds in every state that a crash at this moment could leave, under the
\* id that belongs to its client id and at least as far advanced.  And when the
\* dirty sync would skip its flush, no completed progress write is still
\* waiting to become durable.
AnsweredDurable ==
    /\ \A o \in told, i \in DOMAIN wal :
          /\ o.mid \in Messages(wal[i])
          /\ LET m == wal[i][<<"M", o.mid>>] IN
             /\ m.from = o.from /\ m.cid = o.cid /\ Rank[m.state] >= Promised[o.res]
             /\ wal[i][<<"I", o.from, o.cid>>] = o.mid
    /\ store.synced = store.marks /\ ~store.poisoned
           /\ (\A w \in Threads : work[w].pc # "marking") => Len(wal) = 1

\* The counters, which are written as values that were read, agree with the
\* records, in memory and in every state a crash could leave; no call has
\* found them contradicting each other.
CountsOf(d, u) ==
    LET mine(S) == {x \in Messages(d) : d[<<"M", x>>].to = u /\ d[<<"M", x>>].state \in S}
        from(v) == {x \in mine({"pending", "confirmed"}) : d[<<"M", x>>].from = v}
    IN
    /\ Count(d, <<"N", u>>) = Cardinality(mine({"pending", "confirmed"}))
    /\ Count(d, <<"Q", u>>) = Cardinality(mine({"pending"}))
    /\ {k[3] : k \in {x \in DOMAIN d : x[1] = "P" /\ x[2] = u}} = mine({"pending"})
    /\ \A v \in Users : Count(d, <<"D", u, v>>) = Cardinality(from(v))

CountersExact ==
    /\ \A d \in {db} \cup ToSet(wal), u \in Users : CountsOf(d, u)
    /\ \A c \in Calls : Invalid \notin ToSet(call[c].outs)

\* A message whose event has left the store was accepted by the broker or is
\* quarantined, also after a crash: the event is written with the message and
\* deleted only after the acknowledgement.  And within one process an
\* acknowledged event is not queued again: its hold ends only after its row is
\* deleted, and the page is read under the same mutex.
EventNeverLost ==
    /\ \A d \in ToSet(wal) : \A x \in Messages(d) :
          x \in Events(d) \cup sent \/ <<"F", x>> \in DOMAIN d
    /\ ToSet(relay.queue) \cap relay.acked = {}

\* Unless the relay has stopped, every call returns and every event is in the
\* end published or quarantined; no guard, index or cursor hides one for ever.
EventsSettle ==
    <>[](relay.stopping \/ (Events(db) = {} /\ \A c \in Calls : call[c].pc = "done"))

=============================================================================
