------------------------- MODULE OutboxStopProofs --------------------------
(***************************************************************************)
(* A graceful stop gives every claim back. As long as no call failed and   *)
(* no relay crashed, a row that a relay has locked, whose event the broker *)
(* does not have, is the duty of somebody in that relay: a record of it is *)
(* about to be admitted, is queued, is still ahead of a worker, or waits   *)
(* to be released. A process ends only when it has no duties.              *)
(***************************************************************************)
EXTENDS OutboxRelayProofs

\* The records that are still ahead of a worker, with its current one.
Ahead(u) ==
    IF u.pc \in {"item", "retry", "quarantine"}
    THEN {u.items[k] : k \in u.pos .. Len(u.items)} ELSE {}

DutiesOf(q, p, a, f) ==
    Range(q) \cup (IF p.pc = "admit" THEN Range(p.recs) ELSE {}) \cup Range(a)
             \cup UNION {Ahead(f[w]) : w \in Workers}
Duties(x) == DutiesOf(x.queue, x.polling, x.abandoned, x.work)

\* The order of the shutdown: the poll thread has ended before records are
\* taken back, and those are released before the workers are told to end.
Orderly(x) ==
    /\ x.phase # "releasing" => x.abandoned = <<>>
    /\ x.phase \notin {"running", "draining"} => x.polling.pc = "read"
    /\ x.phase = "down" => x = Down

Owns(r, e) ==
    /\ e \notin broker /\ rows[e].status \in Active
    /\ rows[e].owner # NoToken /\ rows[e].owner[1] = r
Served(r, e) == \E i \in Duties(relay[r]) : i.id = e /\ i.token = rows[e].owner

Dutiful ==
    \A r \in Relays : Orderly(relay[r]) /\ \A e \in Events : Owns(r, e) => Served(r, e)

Blank == \A e \in Events : rows[e].status = "absent" => rows[e].owner = NoToken

StopInv == FenceInv /\ faults \in Nat /\ (faults = 0 => Blank /\ Dutiful)

----------------------------------------------------------------------------
(* The table.                                                              *)

\* A table that locks no further row.
Steady(t) ==
    /\ \A e \in Events : t[e].owner \in {rows[e].owner, NoToken}
    /\ \A e \in Events : t[e].owner # NoToken =>
          t[e].status # "absent" /\ (t[e].status \in Active => rows[e].status \in Active)

LEMMA SteadyStatements ==
    ASSUME IsTable(rows), Blank, NEW recs
    PROVE  /\ Steady(rows) /\ Steady(Renewed(recs)) /\ Steady(Released(recs))
           /\ Steady(Published(recs)) /\ Steady(Retried(recs)) /\ Steady(Quarantined(recs))
<1>0. \A e \in Events : rows[e] \in Row  BY DEF IsTable
<1>1. Steady(rows)  BY DEF Steady, Blank
<1>2. Steady(Renewed(recs))
  <2>1. \A e \in Events : LET u == [rows[e] EXCEPT !.lease = TRUE]
                          IN  u.owner = rows[e].owner /\ u.status = rows[e].status
    BY <1>0, Zenon DEF Row
  <2> QED  BY <1>1, <2>1 DEF Steady, Renewed
<1>3. Steady(Released(recs))
  <2>1. \A e \in Events : Unlocked(rows[e]).owner = NoToken
    BY <1>0, Zenon DEF Row, Unlocked
  <2> QED  BY <1>1, <2>1 DEF Steady, Released
<1>4. Steady(Published(recs))
  <2>1. \A e \in Events :
            [Unlocked(rows[e]) EXCEPT !.status = "published", !.due = TRUE].owner = NoToken
    BY <1>0, Zenon DEF Row, Unlocked
  <2> QED  BY <1>1, <2>1 DEF Steady, Published
<1>5. Steady(Retried(recs))
  <2>1. \A e \in Events :
            [Unlocked(rows[e]) EXCEPT !.status = "retry", !.due = FALSE].owner = NoToken
    BY <1>0, Zenon DEF Row, Unlocked
  <2> QED  BY <1>1, <2>1 DEF Steady, Retried
<1>6. Steady(Quarantined(recs))
  <2>1. \A e \in Events : [Unlocked(rows[e]) EXCEPT !.status = "quarantined"].owner = NoToken
    BY <1>0, Zenon DEF Row, Unlocked
  <2> QED  BY <1>1, <2>1 DEF Steady, Quarantined
<1> QED  BY <1>1, <1>2, <1>3, <1>4, <1>5, <1>6

\* Nothing is left to do for the record i.
Done(i) == i.id \in broker' \/ ~(rows'[i.id].owner = i.token /\ rows'[i.id].status \in Active)

\* A record that is released, put off or quarantined does not lock its row.
LEMMA ClearedRow ==
    ASSUME IsTable(rows), NEW i \in Rec,
           rows' \in {Released(<<i>>), Retried(<<i>>), Quarantined(<<i>>)}
    PROVE  Done(i)
<1> DEFINE e == i.id
<1>0. e \in Events /\ i.token # NoToken /\ rows[e] \in Row
  BY ConstantsAssumption, Zenon DEF IsTable, Rec, Tokens
<1>1. rows[e].owner = i.token /\ rows[e].status \in Active => Fenced(<<i>>, e)
  <2>1. 1 \in 1 .. Len(<<i>>) /\ <<i>>[1] = i  OBVIOUS
  <2> QED  BY <2>1, Zenon DEF Fenced
<1>2. /\ Unlocked(rows[e]).owner = NoToken
      /\ [Unlocked(rows[e]) EXCEPT !.status = "retry", !.due = FALSE].owner = NoToken
      /\ [Unlocked(rows[e]) EXCEPT !.status = "quarantined"].owner = NoToken
  BY <1>0, Zenon DEF Row, Unlocked
<1>3. CASE Fenced(<<i>>, e)
  <2>1. rows'[e].owner = NoToken  BY <1>0, <1>2, <1>3, Zenon DEF Released, Retried, Quarantined
  <2> QED  BY <1>0, <2>1 DEF Done
<1>4. CASE ~Fenced(<<i>>, e)
  <2>1. rows'[e] = rows[e]  BY <1>0, <1>4, Zenon DEF Released, Retried, Quarantined
  <2> QED  BY <1>1, <1>4, <2>1 DEF Done
<1> QED  BY <1>3, <1>4

----------------------------------------------------------------------------
(* A step that locks nothing.                                              *)

LEMMA DutyStep ==
    ASSUME FenceInv, Dutiful, Steady(rows'), broker \subseteq broker', NEW r \in Relays,
           NEW y, Becomes(r, y), Orderly(y),
           \A i \in Duties(relay[r]) : i \in Duties(y) \/ Done(i)
    PROVE  Blank' /\ Dutiful'
<1>1. relay'[r] = y /\ \A q \in Relays : q # r => relay'[q] = relay[q]
  BY DEF FenceInv, Becomes
<1>2. Blank'  BY DEF Blank, Steady
<1>3. \A q \in Relays : Orderly(relay'[q])  BY <1>1 DEF Dutiful
<1>4. ASSUME NEW q \in Relays, NEW e \in Events, Owns(q, e)'
      PROVE  Served(q, e)'
  <2>1. rows'[e].owner = rows[e].owner /\ Owns(q, e)  BY <1>4 DEF Owns, Steady
  <2>2. PICK i \in Duties(relay[q]) : i.id = e /\ i.token = rows[e].owner
    BY <2>1 DEF Dutiful, Served
  <2>3. ~Done(i)  BY <1>4, <2>1, <2>2 DEF Done, Owns
  <2>4. i \in Duties(relay'[q])  BY <1>1, <2>2, <2>3
  <2> QED  BY <2>1, <2>2, <2>4 DEF Served
<1> QED  BY <1>2, <1>3, <1>4 DEF Dutiful

LEMMA TableDuty ==
    ASSUME FenceInv, Dutiful, Steady(rows'), UNCHANGED <<broker, relay>>
    PROVE  Blank' /\ Dutiful'
<1>1. Blank'  BY DEF Blank, Steady
<1>2. ASSUME NEW q \in Relays, NEW e \in Events, Owns(q, e)'
      PROVE  Served(q, e)'
  <2>1. rows'[e].owner = rows[e].owner /\ Owns(q, e)  BY <1>2 DEF Owns, Steady
  <2> QED  BY <2>1 DEF Dutiful, Served
<1> QED  BY <1>1, <1>2 DEF Dutiful

----------------------------------------------------------------------------
(* Sequences keep what they hold.                                          *)

\* The admitted records and the queue before them.
LEMMA ConcatHolds ==
    ASSUME NEW S, NEW s \in Seq(S), NEW t \in Seq(S)
    PROVE  Range(s) \cup Range(t) \subseteq Range(s \o t)
<1>1. /\ s \o t \in Seq(S) /\ Len(s \o t) = Len(s) + Len(t)
      /\ \A k \in 1 .. Len(s) + Len(t) :
            (s \o t)[k] = IF k <= Len(s) THEN s[k] ELSE t[k - Len(s)]
  OBVIOUS
<1>2. ASSUME NEW i \in Range(s) PROVE i \in Range(s \o t)
  <2>1. PICK k \in 1 .. Len(s) : i = s[k]  BY RangeOf
  <2>2. k \in 1 .. Len(s \o t) /\ i = (s \o t)[k]  BY <1>1, <2>1
  <2> QED  BY <1>1, <2>2, RangeOf, Zenon
<1>3. ASSUME NEW i \in Range(t) PROVE i \in Range(s \o t)
  <2>1. PICK k \in 1 .. Len(t) : i = t[k]  BY RangeOf
  <2> DEFINE m == k + Len(s)
  <2>2. m \in 1 .. Len(s \o t) /\ i = (s \o t)[m]  BY <1>1, <2>1
  <2> QED  BY <1>1, <2>2, RangeOf, Zenon
<1> QED  BY <1>2, <1>3

\* What a worker takes and what it leaves in the queue.
LEMMA SplitHolds ==
    ASSUME NEW S, NEW s \in Seq(S), NEW n \in 1 .. Len(s)
    PROVE  /\ Range(s) \subseteq Range(SubSeq(s, 1, n)) \cup Range(SubSeq(s, n + 1, Len(s)))
           /\ SubSeq(s, 1, n) \in Seq(S) /\ Len(SubSeq(s, 1, n)) = n
<1> DEFINE a == SubSeq(s, 1, n)
           b == SubSeq(s, n + 1, Len(s))
<1>1. a \in Seq(S) /\ Len(a) = n /\ \A k \in 1 .. n : a[k] = s[k]  OBVIOUS
<1>2. /\ b \in Seq(S) /\ Len(b) = Len(s) - n
      /\ \A k \in 1 .. Len(s) - n : b[k] = s[n + k]
  OBVIOUS
<1> HIDE DEF a, b
<1>3. ASSUME NEW i \in Range(s) PROVE i \in Range(a) \cup Range(b)
  <2>1. PICK k \in 1 .. Len(s) : i = s[k]  BY RangeOf
  <2>2. CASE k <= n
    <3>1. k \in 1 .. Len(a) /\ i = a[k]  BY <1>1, <2>1, <2>2
    <3> QED  BY <1>1, <3>1, RangeOf
  <2>3. CASE k > n
    <3> DEFINE m == k - n
    <3>1. m \in 1 .. Len(b) /\ i = b[m]  BY <1>2, <2>1, <2>3
    <3> QED  BY <1>2, <3>1, RangeOf
  <2> QED  BY <2>1, <2>2, <2>3
<1> QED  BY <1>1, <1>3 DEF a, b

\* The abandoned records without the one that is released.
LEMMA TailHolds ==
    ASSUME NEW S, NEW s \in Seq(S), s # <<>>
    PROVE  \A i \in Range(s) : i = Head(s) \/ i \in Range(Tail(s))
<1>1. Tail(s) \in Seq(S) /\ Len(Tail(s)) = Len(s) - 1 /\ Head(s) = s[1]  OBVIOUS
<1>2. \A k \in 1 .. Len(s) - 1 : Tail(s)[k] = s[k + 1]  OBVIOUS
<1> TAKE i \in Range(s)
<1>3. PICK k \in 1 .. Len(s) : i = s[k]  BY RangeOf
<1>4. CASE k = 1  BY <1>1, <1>3, <1>4
<1>5. CASE k # 1
  <2> DEFINE m == k - 1
  <2>1. m \in 1 .. Len(Tail(s)) /\ i = Tail(s)[m]  BY <1>1, <1>2, <1>3, <1>5
  <2> QED  BY <1>1, <2>1, RangeOf, Zenon
<1> QED  BY <1>4, <1>5

\* The records ahead of a worker that goes on to the next one.
LEMMA AheadThrough ==
    ASSUME NEW u, u.pos \in 1 .. Len(u.items), u.items \in Seq(Rec), NEW v, v.items = u.items,
           IF u.pos = Len(u.items) THEN v.pc = "mark"
                                   ELSE v.pc = "item" /\ v.pos = u.pos + 1
    PROVE  \A i \in Ahead(u) : i = u.items[u.pos] \/ i \in Ahead(v)
<1> SUFFICES ASSUME NEW i \in Ahead(u), i # u.items[u.pos] PROVE i \in Ahead(v)
  OBVIOUS
<1>1. PICK k \in u.pos .. Len(u.items) : i = u.items[k]  BY DEF Ahead
<1>2. u.pos # Len(u.items) /\ k \in u.pos + 1 .. Len(u.items)  BY <1>1
<1> QED  BY <1>1, <1>2 DEF Ahead

\* All of a fresh batch is ahead of the worker.
LEMMA AheadTake ==
    ASSUME NEW s \in Seq(Rec)
    PROVE  Range(s) \subseteq Ahead([pc |-> "item", items |-> s, pos |-> 1, ok |-> <<>>])
BY RangeOf DEF Ahead

----------------------------------------------------------------------------
(* Processes.                                                              *)

InPhase(y, h) == y.phase = h

\* The phase of a process after an update.
LEMMA PhaseFields ==
    ASSUME NEW x, IsProcess(x), NEW a, NEW b, NEW c
    PROVE  /\ InPhase([x EXCEPT !.polling = a], x.phase)
           /\ InPhase([x EXCEPT !.gen = b, !.polling = a], x.phase)
           /\ InPhase([x EXCEPT !.inflight = a, !.queue = b, !.polling = c], x.phase)
           /\ InPhase([x EXCEPT !.owned = a], x.phase)
           /\ InPhase([x EXCEPT !.phase = a], a)
           /\ InPhase([x EXCEPT !.phase = a, !.abandoned = b, !.queue = c], a)
           /\ InPhase([x EXCEPT !.abandoned = a, !.inflight = b], x.phase)
           /\ InPhase([x EXCEPT !.work = a], x.phase)
           /\ InPhase([x EXCEPT !.queue = b, !.work = a], x.phase)
           /\ InPhase([x EXCEPT !.inflight = b, !.work = a], x.phase)
<1>0. PICK F, Q, I, O, P, A, W :
          x \in [phase : F, gen : Nat, queue : Q, inflight : I, owned : O,
                 polling : P, abandoned : A, work : W]
  BY DEF IsProcess
<1> QED  BY <1>0, Zenon DEF InPhase

\* Nothing runs in a process that is down.
LEMMA DownIdle ==
    ASSUME NEW r \in Relays, relay[r] = Down
    PROVE  /\ ~PollStep(r) /\ ~RenewScan(r) /\ ~Renew(r) /\ ~Stop(r) /\ ~ShutdownStep(r)
           /\ \A w \in Workers : ~WorkerStep(r, w)
<1>1. /\ relay[r].phase = "down" /\ relay[r].queue = <<>> /\ relay[r].polling.pc = "read"
      /\ relay[r].owned = {} /\ \A w \in Workers : relay[r].work[w].pc = "idle"
  BY DEF Down, Idle
<1>2. ~PollStep(r)  BY <1>1 DEF PollStep, PollRead, ClaimBatch, ClaimFails, Admit
<1>3. ~RenewScan(r) /\ ~Renew(r) /\ ~Stop(r)  BY <1>1 DEF RenewScan, Renew, Stop, Up
<1>4. ~ShutdownStep(r)
  BY <1>1 DEF ShutdownStep, DrainTimesOut, ReleaseClaim, Drained, Stopped
<1>5. ASSUME NEW w \in Workers, WorkerStep(r, w) PROVE FALSE
  <2>1. ~Take(r, w)
    <3>1. Len(relay[r].queue) = 0  BY <1>1
    <3> QED  BY <3>1, ConstantsAssumption DEF Take
  <2>2. ~Publish(r, w) /\ ~Settle(r, w) /\ ~MarkPublished(r, w) /\ ~FinishRecord(r, w)
    BY <1>1 DEF Publish, Settle, MarkPublished, FinishRecord, Worker
  <2> QED  BY <1>5, <2>1, <2>2 DEF WorkerStep
<1> QED  BY <1>2, <1>3, <1>4, <1>5

\* A step of a process beside its workers.
LEMMA BesideDuty ==
    ASSUME FenceInv, Dutiful, Steady(rows'), broker' = broker, NEW r \in Relays,
           NEW y, Becomes(r, y), NEW q, NEW p, NEW a, NEW g,
           Is(y, g, q, p, a, relay[r].work), NEW h, InPhase(y, h), h # "down",
           h # "releasing" => a = <<>>,
           h \notin {"running", "draining"} => p.pc = "read",
           \A i \in Range(relay[r].queue) \cup Range(relay[r].abandoned) :
              i \in Range(q) \cup Range(a) \/ Done(i),
           relay[r].polling.pc = "admit" =>
              \A i \in Range(relay[r].polling.recs) :
                 i \in Range(q) \/ (p.pc = "admit" /\ i \in Range(p.recs))
    PROVE  Blank' /\ Dutiful'
<1>1. Orderly(y)  BY DEF Orderly, Is, InPhase
<1>2. Duties(y) = DutiesOf(q, p, a, relay[r].work)  BY DEF Duties, Is
<1>3. \A i \in Duties(relay[r]) : i \in Duties(y) \/ Done(i)
  BY <1>2 DEF Duties, DutiesOf
<1> QED  BY <1>1, <1>3, DutyStep

\* A worker's step.
LEMMA WorkDuty ==
    ASSUME FenceInv, Dutiful, Steady(rows'), broker \subseteq broker', NEW r \in Relays,
           relay[r].phase # "down", NEW w \in Workers, NEW u, NEW q, NEW y, Becomes(r, y),
           InPhase(y, relay[r].phase),
           Is(y, relay[r].gen, q, relay[r].polling, relay[r].abandoned,
              [relay[r].work EXCEPT ![w] = u]),
           \A i \in Range(relay[r].queue) \cup Ahead(relay[r].work[w]) :
              i \in Range(q) \cup Ahead(u) \/ Done(i)
    PROVE  Blank' /\ Dutiful'
<1> DEFINE x == relay[r]
           f == x.work
           v == [f EXCEPT ![w] = u]
<1>1. Orderly(y)  BY DEF Orderly, Is, InPhase, Dutiful
<1>2. Duties(y) = DutiesOf(q, x.polling, x.abandoned, v)  BY DEF Duties, Is
<1>3. AtWorks(f)  BY RelayTyped
<1> HIDE DEF f
<1>4. v[w] = u /\ \A i \in Workers : i # w => v[i] = f[i]  BY <1>3 DEF AtWorks
<1> HIDE DEF v
<1>5. \A i \in UNION {Ahead(f[k]) : k \in Workers} :
         i \in Ahead(f[w]) \/ i \in UNION {Ahead(v[k]) : k \in Workers}
  BY <1>4
<1>6. Ahead(u) \subseteq UNION {Ahead(v[k]) : k \in Workers}  BY <1>4
<1>7. \A i \in Duties(x) : i \in Duties(y) \/ Done(i)
  BY <1>2, <1>5, <1>6 DEF Duties, DutiesOf, f
<1> QED  BY <1>1, <1>7, DutyStep

----------------------------------------------------------------------------
(* Every step that is no fault leaves the rows in somebody's charge.       *)

Calm == FenceInv /\ Blank /\ Dutiful

LEMMA TableCalm ==
    ASSUME Calm, NEW e \in Events,
           \/ Produce(e) \/ LeaseLapses(e) \/ LeaseLost(e) \/ RetryDue(e)
           \/ \E r \in Relays : Cleanup(r, e)
    PROVE  Blank' /\ Dutiful'
<1>0. rows \in [Events -> Row]  BY DEF Calm, FenceInv, IsTable
<1>1. UNCHANGED <<relay, broker>>
  BY DEF Produce, LeaseLapses, LeaseLost, RetryDue, Cleanup
<1>2. CASE Produce(e)
  <2>1. rows' = [rows EXCEPT ![e].status = "pending"] /\ rows[e].owner = NoToken
    BY <1>2 DEF Produce, Calm, Blank
  <2>2. /\ \A x \in Events : rows'[x].owner = rows[x].owner
        /\ \A x \in Events : x # e => rows'[x] = rows[x]
    BY <1>0, <2>1, Zenon DEF Row
  <2>3. Steady(rows')  BY <2>1, <2>2 DEF Steady, Calm, Blank
  <2> QED  BY <1>1, <2>3, TableDuty DEF Calm
<1>3. CASE \E r \in Relays : Cleanup(r, e)
  <2>1. rows' = [rows EXCEPT ![e].status = "deleted"]  BY <1>3 DEF Cleanup
  <2>2. /\ \A x \in Events : rows'[x].owner = rows[x].owner
        /\ \A x \in Events : x # e => rows'[x] = rows[x]
        /\ rows'[e].status = "deleted"
    BY <1>0, <2>1, Zenon DEF Row
  <2>3. Steady(rows')  BY <2>2 DEF Steady, Calm, Blank, Active
  <2> QED  BY <1>1, <2>3, TableDuty DEF Calm
<1>4. CASE LeaseLapses(e) \/ LeaseLost(e) \/ RetryDue(e)
  <2>1. rows' = [rows EXCEPT ![e].lease = FALSE] \/ rows' = [rows EXCEPT ![e].due = TRUE]
    BY <1>4 DEF LeaseLapses, LeaseLost, RetryDue
  <2>2. \A x \in Events : rows'[x].owner = rows[x].owner /\ rows'[x].status = rows[x].status
    BY <1>0, <2>1 DEF Row
  <2>3. Steady(rows')  BY <2>2 DEF Steady, Calm, Blank
  <2> QED  BY <1>1, <2>3, TableDuty DEF Calm
<1> QED  BY <1>2, <1>3, <1>4

\* What is known of a relay at a step of it.
LEMMA CalmRelay ==
    ASSUME Calm, NEW r \in Relays
    PROVE  /\ IsTable(rows) /\ IsProcess(relay[r]) /\ relay[r].gen \in Nat
           /\ relay[r].queue \in Seq(Rec) /\ relay[r].abandoned \in Seq(Rec)
           /\ Polling(relay[r].polling) /\ AtWorks(relay[r].work)
           /\ Orderly(relay[r]) /\ FenceInv /\ Dutiful /\ Blank
           /\ (rows' = rows => Steady(rows'))
           /\ (relay[r].phase = "down" => relay[r] = Down)
<1>1. FenceInv /\ Dutiful /\ Blank  BY DEF Calm
<1>2. Orderly(relay[r])  BY <1>1 DEF Dutiful
<1>3. IsTable(rows)  BY <1>1, RelayTyped
<1>4. Steady(rows)  BY <1>1, <1>3, SteadyStatements
<1>5. rows' = rows => Steady(rows')  BY <1>4 DEF Steady
<1> QED  BY <1>1, <1>2, <1>5, RelayTyped DEF Orderly

\* The renew thread, and a shutdown that begins or goes on.
LEMMA AsideCalm ==
    ASSUME Calm, NEW r \in Relays,
           RenewScan(r) \/ Renew(r) \/ Stop(r) \/ Drained(r) \/ DrainTimesOut(r)
    PROVE  Blank' /\ Dutiful'
<1> DEFINE x == relay[r]
<1>0. /\ IsTable(rows) /\ IsProcess(x) /\ x.gen \in Nat /\ Orderly(x)
      /\ FenceInv /\ Dutiful /\ Blank
  BY CalmRelay
<1>1. x.phase # "down"
  BY CalmRelay, DownIdle DEF ShutdownStep
<1>2. broker' = broker  BY Zenon DEF RenewScan, Renew, Stop, Drained, DrainTimesOut
<1>e. Range(<<>>) = {}  BY DEF Range
<1>3. CASE RenewScan(r) \/ Renew(r)
  <2>1. PICK a : Becomes(r, [x EXCEPT !.owned = a])  BY <1>3, Zenon DEF RenewScan, Renew
  <2> DEFINE y == [x EXCEPT !.owned = a]
  <2>2. Becomes(r, y)  BY <2>1
  <2>3. InPhase(y, x.phase) /\ Is(y, x.gen, x.queue, x.polling, x.abandoned, x.work)
    BY <1>0, PhaseFields, BesideFields, Zenon
  <2> HIDE DEF y
  <2>4. Steady(rows')
    <3>1. rows' = rows \/ \E o : rows' = Renewed(<<o>>)  BY <1>3, Zenon DEF RenewScan, Renew
    <3>2. ASSUME NEW o, rows' = Renewed(<<o>>) PROVE Steady(rows')
      <4>1. Steady(Renewed(<<o>>))  BY <1>0, SteadyStatements
      <4> QED  BY <3>2, <4>1 DEF Steady
    <3> QED  BY <3>1, <3>2, CalmRelay, Zenon
  <2> QED  BY <1>0, <1>1, <1>2, <2>2, <2>3, <2>4, BesideDuty, Zenon DEF Orderly
<1>4. CASE Stop(r) \/ Drained(r)
  <2>1. PICK a \in {"draining", "stopping"} :
           /\ Becomes(r, [x EXCEPT !.phase = a])
           /\ a = "draining" => x.phase = "running"
           /\ a = "stopping" => \/ x.phase = "draining" /\ x.polling.pc = "read"
                                \/ x.phase = "releasing" /\ x.abandoned = <<>>
    BY <1>4 DEF Stop, Drained
  <2> DEFINE y == [x EXCEPT !.phase = a]
  <2>2. Becomes(r, y)  BY <2>1
  <2>3. InPhase(y, a) /\ Is(y, x.gen, x.queue, x.polling, x.abandoned, x.work)
    BY <1>0, PhaseFields, BesideFields, Zenon
  <2> HIDE DEF y
  <2>4. Steady(rows')  BY <1>4, CalmRelay DEF Stop, Drained
  <2>5. x.abandoned = <<>> /\ (a = "stopping" => x.polling.pc = "read")
    BY <1>0, <2>1 DEF Orderly
  <2> QED  BY <1>0, <1>2, <2>1, <2>2, <2>3, <2>4, <2>5, BesideDuty, Zenon
<1>5. CASE DrainTimesOut(r)
  <2> DEFINE y == [x EXCEPT !.phase = "releasing", !.abandoned = x.queue, !.queue = <<>>]
  <2>1. Becomes(r, y) /\ x.phase = "draining" /\ x.polling.pc = "read"
    BY <1>5 DEF DrainTimesOut
  <2>2. InPhase(y, "releasing") /\ Is(y, x.gen, <<>>, x.polling, x.queue, x.work)
    BY <1>0, PhaseFields, BesideFields, Zenon
  <2> HIDE DEF y
  <2>3. Steady(rows')  BY <1>5, CalmRelay DEF DrainTimesOut
  <2>4. x.abandoned = <<>>  BY <1>0, <2>1 DEF Orderly
  <2> QED  BY <1>0, <1>2, <1>e, <2>1, <2>2, <2>3, <2>4, BesideDuty, Zenon
<1> QED  BY <1>3, <1>4, <1>5

\* ReleaseClaim gives the row of an abandoned record back.
LEMMA ReleaseCalm ==
    ASSUME Calm, NEW r \in Relays, ReleaseClaim(r), faults' = faults, faults \in Nat
    PROVE  Blank' /\ Dutiful'
<1> DEFINE x == relay[r]
           i == Head(x.abandoned)
           a == Tail(x.abandoned)
           b == Untrack(x.inflight, i.id)
           y == [x EXCEPT !.abandoned = a, !.inflight = b]
<1>0. /\ IsTable(rows) /\ IsProcess(x) /\ x.gen \in Nat /\ x.abandoned \in Seq(Rec)
      /\ Orderly(x) /\ FenceInv /\ Dutiful /\ Blank
  BY CalmRelay
<1>1. rows' = Released(<<i>>)  BY DEF ReleaseClaim, Fault
<1>2. Becomes(r, y) /\ x.abandoned # <<>> /\ x.phase = "releasing" /\ broker' = broker
  BY DEF ReleaseClaim
<1>3. \A k \in Range(x.abandoned) : k = i \/ k \in Range(a)  BY <1>0, <1>2, TailHolds
<1>4. i \in Rec  BY <1>0, <1>2, RangeTail, RangeOf
<1>5. Done(i)  BY <1>0, <1>1, <1>4, ClearedRow
<1>6. Steady(rows')  BY <1>0, <1>1, SteadyStatements DEF Steady
<1> HIDE DEF a, b, i
<1>7. InPhase(y, x.phase) /\ Is(y, x.gen, x.queue, x.polling, a, x.work)
  BY <1>0, PhaseFields, BesideFields, Zenon
<1> HIDE DEF y
<1>8. x.polling.pc = "read"  BY <1>0, <1>2 DEF Orderly
<1>9. \A k \in Range(x.queue) \cup Range(x.abandoned) : k \in Range(x.queue) \cup Range(a) \/ Done(k)
  BY <1>3, <1>5
<1>10. x.phase # "down" /\ x.polling.pc # "admit"  BY <1>2, <1>8
<1> QED  BY <1>0, <1>2, <1>6, <1>7, <1>8, <1>9, <1>10, BesideDuty, Zenon

\* The poll reads its capacity, or admits the records of its claim.
LEMMA PollCalm ==
    ASSUME Calm, NEW r \in Relays, PollRead(r) \/ Admit(r)
    PROVE  Blank' /\ Dutiful'
<1> DEFINE x == relay[r]
<1>0. /\ IsTable(rows) /\ IsProcess(x) /\ x.gen \in Nat /\ x.queue \in Seq(Rec)
      /\ Polling(x.polling) /\ Orderly(x) /\ FenceInv /\ Dutiful /\ Blank
  BY CalmRelay
<1>1. x.phase # "down"  BY CalmRelay, DownIdle DEF PollStep
<1>2. broker' = broker /\ Steady(rows')  BY CalmRelay DEF PollRead, Admit
<1>3. CASE PollRead(r)
  <2>1. PICK n : Becomes(r, [x EXCEPT !.polling = [pc |-> "claim", limit |-> n, recs |-> <<>>]])
    BY <1>3, Zenon DEF PollRead
  <2> DEFINE p == [pc |-> "claim", limit |-> n, recs |-> <<>>]
             y == [x EXCEPT !.polling = p]
  <2>2. Becomes(r, y) /\ p.pc = "claim"  BY <2>1
  <2>3. x.phase = "running" /\ x.polling.pc = "read"  BY <1>3 DEF PollRead
  <2> HIDE DEF p
  <2>4. InPhase(y, x.phase) /\ Is(y, x.gen, x.queue, p, x.abandoned, x.work)
    BY <1>0, PhaseFields, BesideFields, Zenon
  <2> HIDE DEF y
  <2>5. \A i \in Range(x.queue) \cup Range(x.abandoned) : i \in Range(x.queue) \cup Range(x.abandoned)
    OBVIOUS
  <2>6. x.polling.pc = "admit" =>
           \A i \in Range(x.polling.recs) :
              i \in Range(x.queue) \/ (p.pc = "admit" /\ i \in Range(p.recs))
    BY <2>3
  <2>7. x.phase \notin {"running", "draining"} => p.pc = "read"  BY <2>3
  <2>8. x.phase # "releasing" => x.abandoned = <<>>  BY <1>0 DEF Orderly
  <2>9. FenceInv /\ Dutiful /\ Becomes(r, y)  BY <1>0, <2>2
  <2> QED  BY <1>1, <1>2, <2>4, <2>5, <2>6, <2>7, <2>8, <2>9, BesideDuty, Zenon
<1>4. CASE Admit(r)
  <2> DEFINE q == x.queue \o x.polling.recs
             p == [x.polling EXCEPT !.pc = "read", !.recs = <<>>]
  <2>1. PICK a : Becomes(r, [x EXCEPT !.inflight = a, !.queue = q, !.polling = p])
    BY <1>4, Zenon DEF Admit
  <2> DEFINE y == [x EXCEPT !.inflight = a, !.queue = q, !.polling = p]
  <2>2. x.polling.recs \in Seq(Rec)  BY <1>0, PollingEnds, Zenon
  <2>3. Range(x.queue) \cup Range(x.polling.recs) \subseteq Range(q)  BY <1>0, <2>2, ConcatHolds
  <2>4. p.pc = "read"
    <3>1. PICK P, L : x.polling \in [pc : P, limit : L, recs : Seq(Rec)]  BY <1>0, Zenon DEF Polling
    <3> QED  BY <3>1, Zenon
  <2>5. Becomes(r, y)  BY <2>1
  <2> HIDE DEF p, q
  <2>6. InPhase(y, x.phase) /\ Is(y, x.gen, q, p, x.abandoned, x.work)
    BY <1>0, PhaseFields, BesideFields, Zenon
  <2> HIDE DEF y
  <2>7. /\ \A i \in Range(x.queue) \cup Range(x.abandoned) : i \in Range(q) \cup Range(x.abandoned)
        /\ \A i \in Range(x.polling.recs) : i \in Range(q)
    BY <2>3
  <2>8. x.phase # "releasing" => x.abandoned = <<>>  BY <1>0 DEF Orderly
  <2> QED  BY <1>0, <1>1, <1>2, <2>4, <2>5, <2>6, <2>7, <2>8, BesideDuty, Zenon
<1> QED  BY <1>3, <1>4

\* The claim makes every row it locks the duty of the poll thread.
LEMMA ClaimCalm ==
    ASSUME Calm, NEW r \in Relays, ClaimBatch(r)
    PROVE  Blank' /\ Dutiful'
<1> DEFINE x == relay[r]
           ids == Ready(x.polling.limit)
           token == NextClaimToken(r)
           g == IF ids = {} THEN x.gen ELSE x.gen + 1
           c == IF ids = {} THEN "read" ELSE "admit"
<1>0. /\ IsTable(rows) /\ IsProcess(x) /\ x.gen \in Nat /\ Orderly(x)
      /\ FenceInv /\ Dutiful /\ Blank
  BY CalmRelay
<1>d. x.phase # "down"  BY CalmRelay, DownIdle DEF PollStep
<1>1. \A e \in ids : e \in Events /\ rows[e].status \in Active  BY DEF Ready
<1>2. token[1] = r  BY DEF NextClaimToken
<1>3. Lock(ids, token) /\ broker' = broker /\ x.polling.pc = "claim"  BY DEF ClaimBatch
<1>4. PICK n \in 0 .. BatchSize : \E s \in [1 .. n -> ids] :
          /\ Range(s) = ids
          /\ Becomes(r, [x EXCEPT !.gen = g,
             !.polling = [pc |-> c, limit |-> x.polling.limit,
                recs |-> [i \in 1 .. n |-> [id |-> s[i], token |-> token,
                                            claim |-> claims[s[i]] + 1]]]])
  BY Zenon DEF ClaimBatch
<1>s. PICK s \in [1 .. n -> ids] :
          /\ Range(s) = ids
          /\ Becomes(r, [x EXCEPT !.gen = g,
             !.polling = [pc |-> c, limit |-> x.polling.limit,
                recs |-> [i \in 1 .. n |-> [id |-> s[i], token |-> token,
                                            claim |-> claims[s[i]] + 1]]]])
  BY <1>4, Zenon
<1> DEFINE recs == [i \in 1 .. n |-> [id |-> s[i], token |-> token, claim |-> claims[s[i]] + 1]]
           p == [pc |-> c, limit |-> x.polling.limit, recs |-> recs]
           y == [x EXCEPT !.gen = g, !.polling = p]
<1>5. Becomes(r, y)  BY <1>s
<1>6. g \in Nat /\ (ids # {} => c = "admit") /\ c # "claim"  BY <1>0
<1>t. token # NoToken
  BY <1>0, ConstantsAssumption DEF NextClaimToken
<1>7. \A e \in Events : /\ e \in ids => rows'[e].owner = token /\ rows'[e].status = rows[e].status
                        /\ e \notin ids => rows'[e] = rows[e]
  <2>1. \A e \in Events : LET u == [rows[e] EXCEPT !.owner = token, !.lease = TRUE]
                          IN  u.owner = token /\ u.status = rows[e].status
    BY <1>0, Zenon DEF IsTable, Row
  <2> HIDE DEF token, ids
  <2> QED  BY <1>3, <2>1, Zenon DEF Lock
<1> HIDE DEF ids, token, g, c
<1>8. \A e \in ids : \E i \in Range(recs) : i.id = e /\ i.token = token
  <2> SUFFICES ASSUME NEW e \in ids
               PROVE  \E i \in Range(recs) : i.id = e /\ i.token = token
    BY Zenon
  <2>1. PICK k \in 1 .. n : s[k] = e  BY <1>s DEF Range
  <2>2. recs[k] \in Range(recs) /\ recs[k].id = e /\ recs[k].token = token
    BY <2>1 DEF Range
  <2> QED  BY <2>2, Zenon
<1> HIDE DEF recs
<1>9. p.pc = c /\ p.recs = recs  OBVIOUS
<1> HIDE DEF p
<1>10. InPhase(y, x.phase) /\ Is(y, g, x.queue, p, x.abandoned, x.work)
  BY <1>0, <1>6, PhaseFields, BesideFields, Zenon
<1> HIDE DEF y
<1>11. relay'[r] = y /\ \A q \in Relays : q # r => relay'[q] = relay[q]
  BY <1>0, <1>5 DEF FenceInv, Becomes
<1>12. Orderly(y)  BY <1>0, <1>3, <1>d, <1>10 DEF Orderly, Is, InPhase
<1>13. Duties(x) \subseteq Duties(y) /\ (c = "admit" => Range(recs) \subseteq Duties(y))
  BY <1>3, <1>9, <1>10 DEF Duties, DutiesOf, Is
<1>14. Blank'  BY <1>0, <1>1, <1>7 DEF Blank, Active
<1>15. ASSUME NEW q \in Relays, NEW e \in Events, Owns(q, e)'
       PROVE  Served(q, e)'
  <2>1. CASE e \in ids
    <3>1. q = r  BY <1>2, <1>7, <1>15, <2>1 DEF Owns
    <3>2. PICK i \in Range(recs) : i.id = e /\ i.token = token  BY <1>8, <2>1
    <3>3. i \in Duties(relay'[q])  BY <1>6, <1>11, <1>13, <2>1, <3>1, <3>2
    <3> QED  BY <1>7, <2>1, <3>2, <3>3 DEF Served
  <2>2. CASE e \notin ids
    <3>1. rows'[e] = rows[e] /\ Owns(q, e)  BY <1>3, <1>7, <1>15, <2>2 DEF Owns
    <3>2. PICK i \in Duties(relay[q]) : i.id = e /\ i.token = rows[e].owner
      BY <1>0, <3>1 DEF Dutiful, Served
    <3>3. i \in Duties(relay'[q])  BY <1>11, <1>13, <3>2
    <3> QED  BY <3>1, <3>2, <3>3 DEF Served
  <2> QED  BY <2>1, <2>2
<1>16. \A q \in Relays : Orderly(relay'[q])  BY <1>0, <1>11, <1>12 DEF Dutiful
<1> QED  BY <1>14, <1>15, <1>16 DEF Dutiful

\* A worker takes a batch from the queue.
LEMMA TakeCalm ==
    ASSUME Calm, NEW r \in Relays, NEW w \in Workers, Take(r, w)
    PROVE  Blank' /\ Dutiful'
<1> DEFINE x == relay[r]
           n == IF Len(x.queue) < PublishBatchSize THEN Len(x.queue) ELSE PublishBatchSize
           s == SubSeq(x.queue, 1, n)
           a == SubSeq(x.queue, n + 1, Len(x.queue))
           u == [pc |-> "item", items |-> s, pos |-> 1, ok |-> <<>>]
           v == [x.work EXCEPT ![w] = u]
           y == [x EXCEPT !.queue = a, !.work = v]
<1>0. /\ IsTable(rows) /\ IsProcess(x) /\ x.gen \in Nat /\ x.queue \in Seq(Rec)
      /\ FenceInv /\ Dutiful /\ Blank
  BY CalmRelay
<1>d. x.phase # "down"  BY CalmRelay, DownIdle DEF WorkerStep
<1>1. Steady(rows') /\ broker' = broker  BY CalmRelay DEF Take
<1>2. Becomes(r, y) /\ x.work[w].pc = "idle"  BY DEF Take, Worker
<1>3. n \in 1 .. Len(x.queue)  BY <1>0, ConstantsAssumption DEF Take
<1> HIDE DEF n
<1>4. Range(x.queue) \subseteq Range(s) \cup Range(a) /\ s \in Seq(Rec)
  BY <1>0, <1>3, SplitHolds
<1> HIDE DEF s, a
<1>5. Range(s) \subseteq Ahead(u)  BY <1>4, AheadTake
<1>6. Ahead(x.work[w]) = {}  BY <1>2 DEF Ahead
<1> HIDE DEF u
<1>7. InPhase(y, x.phase) /\ Is(y, x.gen, a, x.polling, x.abandoned, v)
  BY <1>0, PhaseFields, WorkFields, Zenon
<1> HIDE DEF y
<1>8. \A i \in Range(x.queue) \cup Ahead(x.work[w]) : i \in Range(a) \cup Ahead(u)
  BY <1>4, <1>5, <1>6
<1> QED  BY <1>0, <1>1, <1>2, <1>7, <1>8, <1>d, WorkDuty, Zenon

\* A worker is through with a record for which nothing is left to do.
LEMMA ThroughCalm ==
    ASSUME Calm, NEW r \in Relays, NEW w \in Workers, relay[r].phase # "down", NEW ok,
           Through(r, w, ok), relay[r].work[w].pc # "idle", Steady(rows'),
           broker \subseteq broker', Done(Item(r, w))
    PROVE  Blank' /\ Dutiful'
<1> DEFINE x == relay[r]
           o == x.work[w]
           last == o.pos = Len(o.items)
           c == IF last THEN "mark" ELSE "item"
           n == IF last THEN 1 ELSE o.pos + 1
           u == [o EXCEPT !.pc = c, !.pos = n, !.ok = ok]
           v == [x.work EXCEPT ![w] = u]
           y == [x EXCEPT !.work = v]
<1>0. IsProcess(x) /\ FenceInv /\ Dutiful  BY CalmRelay
<1>1. o.items \in Seq(Rec) /\ o.pos \in 1 .. Len(o.items) /\ AtWork(o)
  BY <1>0, WorkerAt
<1>2. Becomes(r, y)  BY Zenon DEF Through, Worker
<1>i. Item(r, w) = o.items[o.pos]  BY DEF Item, Worker
<1> HIDE DEF o
<1>3. PICK P : o \in [pc : P, items : Seq(Rec), pos : Nat, ok : Seq(Rec)]  BY <1>1 DEF AtWork
<1>4. IF last THEN c = "mark" ELSE c = "item" /\ n = o.pos + 1  OBVIOUS
<1> HIDE DEF c, n
<1>5. u.items = o.items /\ u.pc = c /\ u.pos = n  BY <1>3, Zenon
<1> HIDE DEF u
<1>6. \A i \in Ahead(o) : i = o.items[o.pos] \/ i \in Ahead(u)
  BY <1>1, <1>4, <1>5, AheadThrough
<1>7. InPhase(y, x.phase) /\ Is(y, x.gen, x.queue, x.polling, x.abandoned, v)
  BY <1>0, PhaseFields, WorkFields, Zenon
<1> HIDE DEF y
<1>8. \A i \in Range(x.queue) \cup Ahead(x.work[w]) : i \in Range(x.queue) \cup Ahead(u) \/ Done(i)
  BY <1>6, <1>i, Zenon DEF o
<1> QED  BY <1>0, <1>2, <1>7, <1>8, WorkDuty, Zenon

\* The broker's confirmation, and the refusal of an invalid record.
LEMMA RecordCalm ==
    ASSUME Calm, NEW r \in Relays, NEW w \in Workers, Publish(r, w) \/ Settle(r, w),
           faults' = faults, faults \in Nat
    PROVE  Blank' /\ Dutiful'
<1> DEFINE i == Item(r, w)
<1>0. IsTable(rows) /\ FenceInv /\ Blank  BY CalmRelay
<1>d. relay[r].phase # "down"  BY CalmRelay, DownIdle DEF WorkerStep
<1>1. CASE Publish(r, w)
  <2>1. /\ broker' = broker \cup {i.id} /\ rows' = rows /\ relay[r].work[w].pc = "item"
        /\ Through(r, w, Append(Worker(r, w).ok, i))
    BY <1>1 DEF Publish, Fault, Worker
  <2>2. Steady(rows')  BY <2>1, CalmRelay
  <2>3. Done(i)  BY <2>1 DEF Done
  <2>4. broker \subseteq broker' /\ relay[r].work[w].pc # "idle"  BY <2>1
  <2> QED  BY <1>d, <2>1, <2>2, <2>3, <2>4, ThroughCalm
<1>2. CASE Settle(r, w)
  <2>1. /\ broker' = broker /\ rows' = Settled(r, w) /\ Through(r, w, Worker(r, w).ok)
    BY <1>2 DEF Settle, Fault
  <2>2. relay[r].work[w].pc # "idle"  BY <1>2 DEF Settle, Worker
  <2>3. i \in Rec  BY <1>0, <2>2, WorkerAt
  <2>4. rows' = Retried(<<i>>) \/ rows' = Quarantined(<<i>>)  BY <2>1 DEF Settled
  <2> HIDE DEF i
  <2>5. Done(i)  BY <1>0, <2>3, <2>4, ClearedRow
  <2>6. Steady(rows')
    <3>1. Steady(Retried(<<i>>)) /\ Steady(Quarantined(<<i>>))  BY <1>0, SteadyStatements
    <3> QED  BY <2>4, <3>1 DEF Steady
  <2> QED  BY <1>d, <2>1, <2>2, <2>5, <2>6, ThroughCalm DEF i
<1> QED  BY <1>1, <1>2

\* A worker marks and finishes its batch, of which nothing is ahead.
LEMMA BatchCalm ==
    ASSUME Calm, NEW r \in Relays, NEW w \in Workers, MarkPublished(r, w) \/ FinishRecord(r, w)
    PROVE  Blank' /\ Dutiful'
<1> DEFINE x == relay[r]
           o == x.work[w]
<1>0. IsTable(rows) /\ IsProcess(x) /\ FenceInv /\ Dutiful /\ Blank  BY CalmRelay
<1>d. x.phase # "down"  BY CalmRelay, DownIdle DEF WorkerStep
<1>1. broker' = broker /\ o.pc \in {"mark", "finish"}
  BY DEF MarkPublished, FinishRecord, Worker
<1>2. Ahead(o) = {}  BY <1>1 DEF Ahead
<1>3. CASE MarkPublished(r, w)
  <2> DEFINE u == [o EXCEPT !.pc = "finish"]
             v == [x.work EXCEPT ![w] = u]
             y == [x EXCEPT !.work = v]
  <2>1. Becomes(r, y)  BY <1>3 DEF MarkPublished
  <2> HIDE DEF u
  <2>2. InPhase(y, x.phase) /\ Is(y, x.gen, x.queue, x.polling, x.abandoned, v)
    BY <1>0, PhaseFields, WorkFields, Zenon
  <2> HIDE DEF y
  <2>3. Steady(rows')
    <3>1. Steady(rows) /\ Steady(Published(o.ok))  BY <1>0, SteadyStatements
    <3>2. rows' = rows \/ rows' = Published(o.ok)  BY <1>3 DEF MarkPublished, Worker
    <3> QED  BY <3>1, <3>2, Zenon DEF Steady
  <2>4. \A i \in Range(x.queue) \cup Ahead(o) : i \in Range(x.queue) \cup Ahead(u)
    BY <1>2
  <2> QED  BY <1>0, <1>1, <1>d, <2>1, <2>2, <2>3, <2>4, WorkDuty
<1>4. CASE FinishRecord(r, w)
  <2> DEFINE a == Untrack(x.inflight, Item(r, w).id)
             u == IF o.pos = Len(o.items) THEN Idle ELSE [o EXCEPT !.pos = o.pos + 1]
             v == [x.work EXCEPT ![w] = u]
             y == [x EXCEPT !.inflight = a, !.work = v]
  <2>1. Becomes(r, y)  BY <1>4, Zenon DEF FinishRecord, Worker
  <2> HIDE DEF u, a
  <2>2. InPhase(y, x.phase) /\ Is(y, x.gen, x.queue, x.polling, x.abandoned, v)
    BY <1>0, PhaseFields, WorkFields, Zenon
  <2> HIDE DEF y
  <2>3. Steady(rows')  BY <1>4, CalmRelay DEF FinishRecord
  <2>4. \A i \in Range(x.queue) \cup Ahead(o) : i \in Range(x.queue) \cup Ahead(u)
    BY <1>2
  <2> QED  BY <1>0, <1>1, <1>d, <2>1, <2>2, <2>3, <2>4, WorkDuty
<1> QED  BY <1>3, <1>4

----------------------------------------------------------------------------
\* A process without duties.
LEMMA DownDuties == Duties(Down) = {} /\ Orderly(Down)
<1>1. /\ Down.queue = <<>> /\ Down.abandoned = <<>> /\ Down.polling.pc = "read"
      /\ Down.work = [w \in Workers |-> Idle]
  BY DEF Down
<1>2. Range(<<>>) = {}  BY DEF Range
<1>3. Ahead(Idle) = {}  BY DEF Ahead, Idle
<1>4. \A w \in Workers : Ahead(Down.work[w]) = {}  BY <1>1, <1>3
<1> QED  BY <1>1, <1>2, <1>4 DEF Duties, DutiesOf, Orderly

\* A process starts without duties and ends only without duties.
LEMMA LifecycleCalm ==
    ASSUME Calm, NEW r \in Relays, Start(r) \/ Stopped(r)
    PROVE  Blank' /\ Dutiful'
<1> DEFINE x == relay[r]
           p == [Down EXCEPT !.phase = "running"]
<1>0. FenceInv /\ Dutiful /\ Orderly(x)  BY CalmRelay
<1>1. Steady(rows') /\ broker' = broker  BY CalmRelay DEF Start, Stopped
<1>2. Duties(x) = {}
  <2>1. CASE Start(r)  BY <2>1, CalmRelay, DownDuties DEF Start
  <2>2. CASE Stopped(r)
    <3>1. /\ x.phase = "stopping" /\ x.queue = <<>>
          /\ \A w \in Workers : x.work[w].pc = "idle"
      BY <2>2 DEF Stopped, Worker
    <3>2. x.abandoned = <<>> /\ x.polling.pc = "read"  BY <1>0, <3>1 DEF Orderly
    <3>3. Range(<<>>) = {} /\ \A w \in Workers : Ahead(x.work[w]) = {}
      BY <3>1 DEF Range, Ahead
    <3> QED  BY <3>1, <3>2, <3>3, Zenon DEF Duties, DutiesOf
  <2> QED  BY <2>1, <2>2
<1>3. Becomes(r, p) \/ Becomes(r, Down)  BY DEF Start, Stopped
<1>4. Orderly(p)
  <2>1. p.phase = "running" /\ p.abandoned = <<>>  BY DEF Down
  <2> QED  BY <2>1 DEF Orderly
<1> HIDE DEF p
<1> QED  BY <1>0, <1>1, <1>2, <1>3, <1>4, DownDuties, DutyStep

LEMMA StopStep == StopInv /\ [Next]_vars => StopInv'
<1> SUFFICES ASSUME StopInv, [Next]_vars PROVE StopInv'
  OBVIOUS
<1>1. FenceInv'  BY FenceStep DEF StopInv
<1>2. faults \in Nat /\ faults' \in {faults, faults + 1}
  <2>1. ASSUME NEW e \in Events,
               \/ Produce(e) \/ LeaseLapses(e) \/ LeaseLost(e) \/ RetryDue(e)
               \/ \E r \in Relays : Cleanup(r, e)
        PROVE  faults' \in {faults, faults + 1}
    BY <2>1 DEF Produce, LeaseLapses, LeaseLost, RetryDue, Cleanup, NoFault, Fault
  <2>2. ASSUME NEW r \in Relays, PollStep(r) \/ RenewScan(r) \/ Renew(r)
        PROVE  faults' \in {faults, faults + 1}
    BY <2>2, Zenon DEF PollStep, PollRead, ClaimBatch, ClaimFails, Admit, RenewScan, Renew, NoFault, Fault
  <2>3. ASSUME NEW r \in Relays, NEW w \in Workers, WorkerStep(r, w)
        PROVE  faults' \in {faults, faults + 1}
    BY <2>3 DEF WorkerStep, Take, Publish, Settle, MarkPublished, FinishRecord, NoFault, Fault
  <2>4. ASSUME NEW r \in Relays, Start(r) \/ Crash(r) \/ Stop(r) \/ ShutdownStep(r)
        PROVE  faults' \in {faults, faults + 1}
    BY <2>4 DEF Start, Crash, Stop, ShutdownStep, DrainTimesOut, ReleaseClaim, Drained, Stopped,
       NoFault, Fault
  <2>5. Next => faults' \in {faults, faults + 1}
    BY <2>1, <2>2, <2>3, <2>4, Zenon DEF Next
  <2>6. UNCHANGED vars => faults' = faults  BY DEF vars
  <2> QED  BY <2>5, <2>6 DEF StopInv
<1>3. ASSUME faults' = 0 PROVE Blank' /\ Dutiful'
  <2>0. faults = 0 /\ faults' = faults /\ faults \in Nat  BY <1>2, <1>3
  <2>1. Calm  BY <2>0 DEF StopInv, Calm
  <2>2. CASE UNCHANGED vars
    <3>1. UNCHANGED <<rows, relay, broker>>  BY <2>2 DEF vars
    <3>2. IsTable(rows)  BY DEF StopInv, FenceInv
    <3>3. Steady(rows)  BY <2>1, <3>2, SteadyStatements DEF Calm
    <3>4. Steady(rows')  BY <3>1, <3>3 DEF Steady
    <3> QED  BY <2>1, <3>1, <3>4, TableDuty DEF Calm
  <2>3. ASSUME NEW e \in Events,
               \/ Produce(e) \/ LeaseLapses(e) \/ LeaseLost(e) \/ RetryDue(e)
               \/ \E r \in Relays : Cleanup(r, e)
        PROVE  Blank' /\ Dutiful'
    BY <2>1, <2>3, TableCalm
  <2>4. ASSUME NEW r \in Relays, PollStep(r) PROVE Blank' /\ Dutiful'
    <3>1. ~ClaimFails(r)  BY <2>0 DEF ClaimFails, Fault
    <3> QED  BY <2>1, <2>4, <3>1, PollCalm, ClaimCalm DEF PollStep
  <2>5. ASSUME NEW r \in Relays, NEW w \in Workers, WorkerStep(r, w) PROVE Blank' /\ Dutiful'
    BY <2>0, <2>1, <2>5, TakeCalm, RecordCalm, BatchCalm DEF WorkerStep
  <2>6. ASSUME NEW r \in Relays,
               \/ RenewScan(r) \/ Renew(r) \/ Start(r) \/ Crash(r) \/ Stop(r)
               \/ ShutdownStep(r)
        PROVE  Blank' /\ Dutiful'
    <3>1. ~Crash(r)  BY <2>0 DEF Crash, Fault
    <3> QED  BY <2>0, <2>1, <2>6, <3>1, AsideCalm, ReleaseCalm, LifecycleCalm DEF ShutdownStep
  <2> QED  BY <2>2, <2>3, <2>4, <2>5, <2>6, Zenon DEF Next
<1> QED  BY <1>1, <1>2, <1>3 DEF StopInv

LEMMA StopInit == Init => StopInv
<1> SUFFICES ASSUME Init PROVE StopInv  OBVIOUS
<1>1. FenceInv  BY InitFence
<1>2. relay = [r \in Relays |-> Down] /\ faults = 0  BY DEF Init
<1>3. \A e \in Events : rows[e].owner = NoToken  BY DEF Init
<1>4. Blank  BY <1>3 DEF Blank
<1>5. Dutiful  BY <1>2, <1>3, DownDuties DEF Dutiful, Owns
<1> QED  BY <1>1, <1>2, <1>4, <1>5 DEF StopInv

\* ShutdownGraceful, with or without a drain that times out: when no call
\* failed and no relay crashed, no row whose event the broker does not have
\* stays locked by a relay that is down.
THEOREM StopReleasesAll == Spec => []CleanStopReleasesAll
<1>1. StopInv => CleanStopReleasesAll
  <2> SUFFICES ASSUME StopInv, faults = 0, NEW r \in Relays, NEW e \in Events \ broker,
                      relay[r].phase = "down", Owns(r, e)
               PROVE  FALSE
    BY DEF CleanStopReleasesAll, Owns
  <2>1. Served(r, e) /\ relay[r] = Down  BY DEF StopInv, Dutiful, Orderly
  <2> QED  BY <2>1, DownDuties DEF Served
<1> QED  BY <1>1, StopInit, StopStep, PTL DEF Spec
=============================================================================
