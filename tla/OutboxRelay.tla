---------------------------- MODULE OutboxRelay ----------------------------
(***************************************************************************)
(* services/outbox: OutboxRelay processes move the durable Outbox rows of  *)
(* im_event_outbox to the broker. A relay has one poll thread, one renew   *)
(* thread and several workers; OutboxRepository fences every mutation of a *)
(* row by the claim token that locked it. Several relays share the table.  *)
(*                                                                         *)
(* Time is abstracted to two facts of a row: whether its lease has not     *)
(* expired and whether its next attempt is due. A token is the instance    *)
(* and the generation: the process id in it may be the same after a        *)
(* restart (a container's relay is always process 1), so it is left out    *)
(* and a restarted relay issues the same tokens again.                     *)
(***************************************************************************)
EXTENDS Integers, FiniteSets, Sequences, Functions

CONSTANTS
    Relays, Workers,
    Events,         \* outbox ids
    Invalid,        \* events that ValidateRecord refuses
    BatchSize, PublishBatchSize,
    Deployments,    \* the relays that run, the events they see, max_inflight
    NoToken,        \* locked_by IS NULL
    MaxFaults,      \* bound: failed or ambiguous calls, refusals, crashes
    MaxLost,        \* bound: leases lost by a live holder
    MaxStops,       \* bound: planned stops
    MaxTrouble      \* bound: all of these together

ASSUME ConstantsAssumption ==
    /\ Events \subseteq Nat /\ Invalid \subseteq Events
    /\ BatchSize \in Nat \ {0} /\ PublishBatchSize \in Nat \ {0}
    /\ NoToken \notin Relays \X Nat
    /\ MaxFaults \in Nat /\ MaxLost \in Nat /\ MaxStops \in Nat
    /\ MaxTrouble \in Nat

ASSUME DeploymentsAssumption ==
    \A d \in Deployments :
        /\ d.relays \subseteq Relays /\ d.events \subseteq Events
        /\ d.maxInflight \in Nat /\ d.maxInflight >= BatchSize
        /\ d.maxInflight >= Cardinality(Workers)

VARIABLES
    rows,    \* im_event_outbox
    broker,  \* events the broker has accepted at least once (external)
    relay,   \* the state of each relay process
    claims,  \* history: how often each row has been claimed
    deploy,  \* the deployment, fixed
    faults, lost, stops

vars == <<rows, broker, relay, claims, deploy, faults, lost, stops>>

Active == {"pending", "retry"}               \* status IN (0, 2)
Idle == [pc |-> "idle", items |-> <<>>, pos |-> 1, ok |-> <<>>]

\* A process that is not running: nothing of a relay is persistent.
Down == [phase |-> "down", gen |-> 0, queue |-> <<>>, inflight |-> <<>>,
         owned |-> {}, polling |-> [pc |-> "read", limit |-> 0, recs |-> <<>>],
         abandoned |-> <<>>, work |-> [w \in Workers |-> Idle]]

Init ==
    /\ rows = [e \in Events |-> [status |-> "absent", owner |-> NoToken,
                                 lease |-> FALSE, due |-> TRUE]]
    /\ broker = {}
    /\ relay = [r \in Relays |-> Down]
    /\ claims = [e \in Events |-> 0]
    /\ deploy \in Deployments
    /\ faults = 0 /\ lost = 0 /\ stops = 0

Trouble == faults + lost + stops < MaxTrouble
Fault ==
    /\ faults < MaxFaults /\ Trouble /\ faults' = faults + 1
    /\ UNCHANGED <<deploy, lost, stops>>
NoFault == UNCHANGED <<deploy, faults, lost, stops>>

Up(r) == relay[r].phase # "down"
Becomes(r, process) == relay' = [relay EXCEPT ![r] = process]
Unlocked(row) == [row EXCEPT !.owner = NoToken, !.lease = FALSE]

\* Mutant of Fenced: the update is not fenced by the claim token.
FencedByStatus(recs, e) ==
    \E i \in 1 .. Len(recs) : recs[i].id = e /\ rows[e].status \in Active

\* An update of the claimed records recs changes a row only if it is still
\* active and locked by the record's own token.
Fenced(recs, e) ==
    \E i \in 1 .. Len(recs) : /\ recs[i].id = e /\ rows[e].owner = recs[i].token
                               /\ rows[e].status \in Active

\* The rows after the statements of the repository.
Renewed(recs) ==
    [e \in Events |-> IF Fenced(recs, e) THEN [rows[e] EXCEPT !.lease = TRUE]
                                         ELSE rows[e]]
Released(recs) ==
    [e \in Events |-> IF Fenced(recs, e) THEN Unlocked(rows[e]) ELSE rows[e]]
Published(recs) ==
    [e \in Events |->
        IF Fenced(recs, e)
        THEN [Unlocked(rows[e]) EXCEPT !.status = "published", !.due = TRUE]
        ELSE rows[e]]
Retried(recs) ==
    [e \in Events |->
        IF Fenced(recs, e)
        THEN [Unlocked(rows[e]) EXCEPT !.status = "retry", !.due = FALSE]
        ELSE rows[e]]
Quarantined(recs) ==
    [e \in Events |->
        IF Fenced(recs, e)
        THEN [Unlocked(rows[e]) EXCEPT !.status = "quarantined"]
        ELSE rows[e]]

----------------------------------------------------------------------------
(* The table.                                                              *)

\* A business transaction commits its event.
Produce(e) ==
    /\ rows[e].status = "absent" /\ e \in deploy.events
    /\ rows' = [rows EXCEPT ![e].status = "pending"]
    /\ NoFault /\ UNCHANGED <<broker, relay, claims>>

\* The process that locked the row still works on it or will.
Records(r) ==
    Range(relay[r].queue) \cup Range(relay[r].polling.recs)
       \cup Range(relay[r].abandoned)
       \cup UNION {Range(relay[r].work[w].items) : w \in Workers}
Held(e) == \E r \in Relays : \E i \in Records(r) :
              i.id = e /\ i.token = rows[e].owner

\* locked_until passes on a row nobody works on any more.
LeaseLapses(e) ==
    /\ rows[e].lease /\ ~Held(e)
    /\ rows' = [rows EXCEPT ![e].lease = FALSE]
    /\ NoFault /\ UNCHANGED <<broker, relay, claims>>

\* locked_until passes under a live holder, whose renewals stalled.
LeaseLost(e) ==
    /\ rows[e].lease /\ Held(e)
    /\ lost < MaxLost /\ Trouble /\ lost' = lost + 1
    /\ rows' = [rows EXCEPT ![e].lease = FALSE]
    /\ UNCHANGED <<broker, relay, claims, deploy, faults, stops>>

\* next_attempt_at passes.
RetryDue(e) ==
    /\ ~rows[e].due
    /\ rows' = [rows EXCEPT ![e].due = TRUE]
    /\ NoFault /\ UNCHANGED <<broker, relay, claims>>

----------------------------------------------------------------------------
(* The poll thread.                                                        *)

NextClaimToken(r) == <<r, relay[r].gen + 1>>

\* The capacity is read before the claim and used after it.
PollRead(r) ==
    LET n == Cardinality(DOMAIN relay[r].inflight)
    IN  /\ relay[r].phase = "running" /\ relay[r].polling.pc = "read"
        /\ n <= deploy.maxInflight - BatchSize
        /\ Becomes(r, [relay[r] EXCEPT !.polling = [pc |-> "claim", recs |-> <<>>,
              limit |-> IF BatchSize < deploy.maxInflight - n
                        THEN BatchSize ELSE deploy.maxInflight - n]])
        /\ NoFault /\ UNCHANGED <<rows, broker, claims>>

\* Mutant of Ready: only unlocked rows are claimed, never expired ones.
ReadyUnlocked(limit) ==
    LET ready == {e \in Events : /\ rows[e].status \in Active /\ rows[e].due
                                 /\ rows[e].owner = NoToken}
    IN  {e \in ready : Cardinality({x \in ready : x < e}) < limit}

\* The first rows, by id, that are active, due and not under a live lease.
Ready(limit) ==
    LET ready == {e \in Events : /\ rows[e].status \in Active /\ rows[e].due
                                 /\ ~rows[e].lease}
    IN  {e \in ready : Cardinality({x \in ready : x < e}) < limit}

Lock(ids, token) ==
    /\ rows' = [e \in Events |->
          IF e \in ids THEN [rows[e] EXCEPT !.owner = token, !.lease = TRUE]
                       ELSE rows[e]]
    /\ claims' = [e \in Events |-> claims[e] + (IF e \in ids THEN 1 ELSE 0)]

\* ClaimBatch: one transaction locks the ready rows for this token. A claim of
\* nothing is a new token nobody uses; only tokens in use count here.
ClaimBatch(r) ==
    LET ids == Ready(relay[r].polling.limit)
        token == NextClaimToken(r)
    IN  /\ relay[r].polling.pc = "claim"
        /\ Lock(ids, token)
        /\ \E n \in 0 .. BatchSize : \E sorted \in [1 .. n -> ids] :
              /\ Range(sorted) = ids
              /\ \A i, j \in 1 .. n : i < j => sorted[i] < sorted[j]
              /\ Becomes(r, [relay[r] EXCEPT
                    !.gen = IF ids = {} THEN @ ELSE @ + 1,
                    !.polling = [pc |-> IF ids = {} THEN "read" ELSE "admit",
                       limit |-> relay[r].polling.limit,
                       recs |-> [i \in 1 .. n |->
                          [id |-> sorted[i], token |-> token,
                           claim |-> claims[sorted[i]] + 1]]]])
        /\ NoFault /\ UNCHANGED broker

\* The claim fails, or its COMMIT is not acknowledged although it took effect.
ClaimFails(r) ==
    LET ids == Ready(relay[r].polling.limit)
    IN  /\ relay[r].polling.pc = "claim" /\ ids # {}
        /\ Fault
        /\ \/ UNCHANGED <<rows, claims>>
           \/ Lock(ids, NextClaimToken(r))
        /\ Becomes(r, [relay[r] EXCEPT !.gen = @ + 1, !.polling.pc = "read"])
        /\ UNCHANGED broker

\* The claimed records are tracked, for renewal and capacity, and queued.
Admit(r) ==
    LET recs == relay[r].polling.recs
        ids == {recs[i].id : i \in 1 .. Len(recs)}
    IN  /\ relay[r].polling.pc = "admit"
        /\ Becomes(r, [relay[r] EXCEPT
              !.inflight = [e \in DOMAIN @ \cup ids |->
                               IF e \in ids THEN recs[1].token ELSE @[e]],
              !.queue = @ \o recs,
              !.polling = [@ EXCEPT !.pc = "read", !.recs = <<>>]])
        /\ NoFault /\ UNCHANGED <<rows, broker, claims>>

\* CleanupPublished: a published row past its retention is deleted.
Cleanup(r, e) ==
    /\ relay[r].phase = "running" /\ relay[r].polling.pc = "read"
    /\ rows[e].status = "published"
    /\ rows' = [rows EXCEPT ![e].status = "deleted"]
    /\ NoFault /\ UNCHANGED <<broker, relay, claims>>

----------------------------------------------------------------------------
(* The renew thread.                                                       *)

RenewScan(r) ==
    /\ Up(r) /\ relay[r].owned = {} /\ relay[r].inflight # <<>>
    /\ Becomes(r, [relay[r] EXCEPT !.owned =
          {[id |-> e, token |-> relay[r].inflight[e]] :
              e \in DOMAIN relay[r].inflight}])
    /\ NoFault /\ UNCHANGED <<rows, broker, claims>>

\* One RenewClaim of the scanned list; a failed one changes no row.
Renew(r) ==
    \E o \in relay[r].owned :
        /\ rows' \in {rows, Renewed(<<o>>)}
        /\ Becomes(r, [relay[r] EXCEPT !.owned = @ \ {o}])
        /\ NoFault /\ UNCHANGED <<broker, claims>>

----------------------------------------------------------------------------
(* The workers.                                                            *)

Worker(r, w) == relay[r].work[w]
Item(r, w) == Worker(r, w).items[Worker(r, w).pos]

Take(r, w) ==
    LET n == IF Len(relay[r].queue) < PublishBatchSize
             THEN Len(relay[r].queue) ELSE PublishBatchSize
    IN  /\ Worker(r, w).pc = "idle" /\ n > 0
        /\ Becomes(r, [relay[r] EXCEPT
              !.queue = SubSeq(@, n + 1, Len(@)),
              !.work[w] = [pc |-> "item", pos |-> 1, ok |-> <<>>,
                           items |-> SubSeq(relay[r].queue, 1, n)]])
        /\ NoFault /\ UNCHANGED <<rows, broker, claims>>

\* The worker is through with its current record; ok are the published ones.
Through(r, w, ok) ==
    LET last == Worker(r, w).pos = Len(Worker(r, w).items)
    IN  Becomes(r, [relay[r] EXCEPT !.work[w] =
            [@ EXCEPT !.pc = IF last THEN "mark" ELSE "item",
                      !.pos = IF last THEN 1 ELSE Worker(r, w).pos + 1,
                      !.ok = ok]])

\* Mutant of Publish: a refusal the broker did not confirm counts as published.
PublishOptimistic(r, w) ==
    /\ Worker(r, w).pc = "item" /\ Item(r, w).id \notin Invalid
    /\ \/ /\ broker' = broker \cup {Item(r, w).id}
          /\ Through(r, w, Append(Worker(r, w).ok, Item(r, w)))
          /\ NoFault
       \/ /\ Fault
          /\ broker' = broker
          /\ Through(r, w, Append(Worker(r, w).ok, Item(r, w)))
    /\ UNCHANGED <<rows, claims>>

\* ProcessRecord of a valid record: the broker confirms it, refuses it for
\* good, or reports a retryable failure, after which it may have it or not.
Publish(r, w) ==
    /\ Worker(r, w).pc = "item" /\ Item(r, w).id \notin Invalid
    /\ \/ /\ broker' = broker \cup {Item(r, w).id}
          /\ Through(r, w, Append(Worker(r, w).ok, Item(r, w)))
          /\ NoFault
       \/ /\ Fault
          /\ broker' \in {broker, broker \cup {Item(r, w).id}}
          /\ Becomes(r, [relay[r] EXCEPT !.work[w].pc = "retry"])
       \/ /\ Fault
          /\ Becomes(r, [relay[r] EXCEPT !.work[w].pc = "quarantine"])
          /\ UNCHANGED broker
    /\ UNCHANGED <<rows, claims>>

\* The mutation that settles the current record without publishing it.
Settled(r, w) ==
    IF Worker(r, w).pc = "retry" THEN Retried(<<Item(r, w)>>)
                                 ELSE Quarantined(<<Item(r, w)>>)

\* MarkQuarantined of an invalid or refused record, MarkRetry of a failed one.
\* The call may fail, with or without having changed the row.
Settle(r, w) ==
    /\ \/ Worker(r, w).pc \in {"retry", "quarantine"}
       \/ Worker(r, w).pc = "item" /\ Item(r, w).id \in Invalid
    /\ \/ rows' = Settled(r, w) /\ NoFault
       \/ rows' \in {rows, Settled(r, w)} /\ Fault
    /\ Through(r, w, Worker(r, w).ok)
    /\ UNCHANGED <<broker, claims>>

\* MarkPublishedBatch refuses a batch that names a row twice.
BatchValid(ok) ==
    \A i, j \in 1 .. Len(ok) : ok[i].id = ok[j].id => i = j

\* One fenced statement marks the records the broker confirmed.
MarkPublished(r, w) ==
    LET ok == Worker(r, w).ok
    IN  /\ Worker(r, w).pc = "mark"
        /\ \/ /\ rows' = IF BatchValid(ok) THEN Published(ok) ELSE rows
              /\ NoFault
           \/ /\ ok # <<>> /\ BatchValid(ok)
              /\ rows' \in {rows, Published(ok)}
              /\ Fault
        /\ Becomes(r, [relay[r] EXCEPT !.work[w].pc = "finish"])
        /\ UNCHANGED <<broker, claims>>

\* inflight_.erase by the row's id alone.
Untrack(inflight, e) == [x \in DOMAIN inflight \ {e} |-> inflight[x]]

\* FinishRecord of the worker's next record.
FinishRecord(r, w) ==
    /\ Worker(r, w).pc = "finish"
    /\ Becomes(r, [relay[r] EXCEPT
          !.inflight = Untrack(@, Item(r, w).id),
          !.work[w] = IF @.pos = Len(@.items) THEN Idle
                      ELSE [@ EXCEPT !.pos = Worker(r, w).pos + 1]])
    /\ NoFault /\ UNCHANGED <<rows, broker, claims>>

----------------------------------------------------------------------------
(* Lifecycle.                                                              *)

Start(r) ==
    /\ relay[r].phase = "down" /\ r \in deploy.relays
    /\ Becomes(r, [Down EXCEPT !.phase = "running"])
    /\ NoFault /\ UNCHANGED <<rows, broker, claims>>

Crash(r) ==
    /\ Up(r) /\ Fault
    /\ Becomes(r, Down)
    /\ UNCHANGED <<rows, broker, claims>>

\* ShutdownGraceful begins: the poll thread ends after its current round.
Stop(r) ==
    /\ relay[r].phase = "running"
    /\ stops < MaxStops /\ Trouble /\ stops' = stops + 1
    /\ Becomes(r, [relay[r] EXCEPT !.phase = "draining"])
    /\ UNCHANGED <<rows, broker, claims, deploy, faults, lost>>

\* Mutant of DrainTimesOut: the queued records are dropped, not released.
DrainTimesOutDropping(r) ==
    /\ relay[r].phase = "draining" /\ relay[r].polling.pc = "read"
    /\ relay[r].inflight # <<>>
    /\ Becomes(r, [relay[r] EXCEPT !.phase = "stopping", !.queue = <<>>])
    /\ NoFault /\ UNCHANGED <<rows, broker, claims>>

\* The drain deadline passes: queued records are taken back from the workers.
DrainTimesOut(r) ==
    /\ relay[r].phase = "draining" /\ relay[r].polling.pc = "read"
    /\ relay[r].inflight # <<>>
    /\ Becomes(r, [relay[r] EXCEPT !.phase = "releasing",
                      !.abandoned = relay[r].queue, !.queue = <<>>])
    /\ NoFault /\ UNCHANGED <<rows, broker, claims>>

\* ReleaseClaim and FinishRecord of an abandoned record.
ReleaseClaim(r) ==
    LET i == Head(relay[r].abandoned)
    IN  /\ relay[r].phase = "releasing" /\ relay[r].abandoned # <<>>
        /\ \/ rows' = Released(<<i>>) /\ NoFault
           \/ rows' \in {rows, Released(<<i>>)} /\ Fault
        /\ Becomes(r, [relay[r] EXCEPT !.abandoned = Tail(@),
                                       !.inflight = Untrack(@, i.id)])
        /\ UNCHANGED <<broker, claims>>

\* Nothing left to wait for: the workers are told to end.
Drained(r) ==
    /\ \/ /\ relay[r].phase = "draining" /\ relay[r].polling.pc = "read"
          /\ relay[r].inflight = <<>>
       \/ relay[r].phase = "releasing" /\ relay[r].abandoned = <<>>
    /\ Becomes(r, [relay[r] EXCEPT !.phase = "stopping"])
    /\ NoFault /\ UNCHANGED <<rows, broker, claims>>

\* A worker ends only when the queue is empty; then the renew thread ends.
Stopped(r) ==
    /\ relay[r].phase = "stopping" /\ relay[r].queue = <<>>
    /\ \A w \in Workers : Worker(r, w).pc = "idle"
    /\ Becomes(r, Down)
    /\ NoFault /\ UNCHANGED <<rows, broker, claims>>

----------------------------------------------------------------------------
PollStep(r) == PollRead(r) \/ ClaimBatch(r) \/ ClaimFails(r) \/ Admit(r)
WorkerStep(r, w) ==
    \/ Take(r, w) \/ Publish(r, w) \/ Settle(r, w) \/ MarkPublished(r, w)
    \/ FinishRecord(r, w)
ShutdownStep(r) == DrainTimesOut(r) \/ ReleaseClaim(r) \/ Drained(r) \/ Stopped(r)

Next ==
    \/ \E e \in Events : \/ Produce(e) \/ LeaseLapses(e) \/ LeaseLost(e)
                        \/ RetryDue(e)
    \/ \E r \in Relays :
          \/ PollStep(r) \/ RenewScan(r) \/ Renew(r)
          \/ \E w \in Workers : WorkerStep(r, w)
          \/ \E e \in Events : Cleanup(r, e)
          \/ Start(r) \/ Crash(r) \/ Stop(r) \/ ShutdownStep(r)

Spec == Init /\ [][Next]_vars

\* The threads are never starved, deadlines pass, and a supervisor restarts a
\* relay that went down.
Fairness ==
    /\ \A e \in Events : WF_vars(LeaseLapses(e)) /\ WF_vars(RetryDue(e))
    /\ \A r \in Relays :
          /\ WF_vars(PollStep(r)) /\ WF_vars(Start(r)) /\ WF_vars(ShutdownStep(r))
          /\ \A w \in Workers : WF_vars(WorkerStep(r, w))

FairSpec == Spec /\ Fairness
----------------------------------------------------------------------------
(* Properties.                                                             *)

\* At least once: a row is marked published, and may then be deleted, only
\* after the broker has confirmed its event; a crash, an ambiguous call or a
\* lost lease anywhere in between never loses an event.
NothingLost ==
    \A e \in Events : rows[e].status \in {"published", "deleted"} => e \in broker

\* A graceful stop leaves no undelivered row locked by the relay, whether the
\* drain completed or timed out, as long as no call failed and none crashed.
\* The exception is an event the broker has: a relay that claimed a row twice
\* may publish both records in one batch, which MarkPublishedBatch refuses, and
\* the row waits for its lease.
CleanStopReleasesAll ==
    faults = 0 => \A r \in Relays, e \in Events \ broker :
        relay[r].phase = "down" /\ rows[e].status \in Active
        /\ rows[e].owner # NoToken => rows[e].owner[1] # r

Holds(i, e) == i.id = e /\ i.token = rows[e].owner /\ i.claim = claims[e]

\* Only the holder of its latest claim settles or releases a row under a live
\* lease: a worker whose claim was superseded, be it by its own relay or by one
\* that restarted and issues the same generations again, never disturbs the
\* claim that superseded it.
LiveClaimFenced ==
    [][\A e \in Events :
          rows[e].lease /\ rows'[e].owner # rows[e].owner =>
              \E r \in Relays :
                  /\ relay'[r] # relay[r]
                  /\ \/ \E w \in Workers :
                           /\ relay'[r].work[w] # relay[r].work[w]
                           /\ \E i \in Range(Worker(r, w).items) : Holds(i, e)
                     \/ /\ relay[r].abandoned # <<>>
                        /\ Holds(Head(relay[r].abandoned), e)
      ]_vars

\* Every committed event is eventually published or quarantined, whatever
\* finitely many faults, lost leases, crashes and restarts happen.
EventsSettle ==
    \A e \in Events : rows[e].status = "pending" ~>
        rows[e].status \in {"published", "quarantined", "deleted"}

\* "bounded refill never exceeds max_inflight": a relay works on at most
\* max_inflight rows it has locked.
ClaimsWithinMaxInflight ==
    \A r \in Relays :
        Cardinality({e \in Events : \E i \in Records(r) :
                        i.id = e /\ i.token = rows[e].owner})
            <= deploy.maxInflight
=============================================================================
