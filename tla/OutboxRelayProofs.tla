------------------------- MODULE OutboxRelayProofs -------------------------
(***************************************************************************)
(* The SQL Outbox delivers at least once: for any relays, workers, events  *)
(* and batch sizes, and whatever crashes, lost leases and ambiguous calls  *)
(* happen, a row is marked published only after the broker confirmed it.   *)
(*                                                                         *)
(* The rows and processes are only known by the fields they have. What a   *)
(* worker will mark, its ok, is a sequence of records the broker has.      *)
(***************************************************************************)
EXTENDS OutboxRelay, TLAPS

Statuses == {"absent", "pending", "retry", "published", "quarantined", "deleted"}
Tokens == Relays \X Nat
Row == [status : Statuses, owner : Tokens \cup {NoToken}, lease : BOOLEAN, due : BOOLEAN]
IsTable(t) == t \in [Events -> Row]

\* The work of a worker that marks only what is in the broker's set b.
Confirmed(x, b) ==
    /\ \E P, I, N, S : x \in [pc : P, items : I, pos : N, ok : Seq(S)]
    /\ \A i \in 1 .. Len(x.ok) : x.ok[i].id \in b

IsProcess(x) ==
    \E F, Q, I, O, P, A, W :
        x \in [phase : F, gen : Nat, queue : Q, inflight : I, owned : O,
               polling : P, abandoned : A, work : W]

Works(f, b) ==
    f = [w \in Workers |-> f[w]] /\ \A w \in Workers : Confirmed(f[w], b)

Relaying(f, b) ==
    /\ f = [r \in Relays |-> f[r]]
    /\ \A r \in Relays : IsProcess(f[r]) /\ Works(f[r].work, b)

LostInv == IsTable(rows) /\ Relaying(relay, broker) /\ NothingLost

Final == {"published", "deleted"}

\* A table in which no further event is final.
Safe(t) ==
    IsTable(t) /\ \A e \in Events : t[e].status \in Final => rows[e].status \in Final

\* The fenced statements, except the one that publishes.
LEMMA SafeStatements ==
    ASSUME IsTable(rows), NEW recs
    PROVE  Safe(rows) /\ Safe(Renewed(recs)) /\ Safe(Released(recs))
           /\ Safe(Retried(recs)) /\ Safe(Quarantined(recs))
<1>0. \A e \in Events : rows[e] \in Row  BY DEF IsTable
<1>1. Safe(rows)  BY DEF Safe
<1>2. Safe(Renewed(recs))
  <2>1. \A e \in Events : LET u == [rows[e] EXCEPT !.lease = TRUE]
                          IN  u \in Row /\ u.status = rows[e].status
    BY <1>0, Zenon DEF Row
  <2> QED  BY <1>0, <2>1 DEF Safe, IsTable, Renewed
<1>3. Safe(Released(recs))
  <2>1. \A e \in Events : LET u == Unlocked(rows[e])
                          IN  u \in Row /\ u.status = rows[e].status
    BY <1>0, Zenon DEF Row, Unlocked
  <2> QED  BY <1>0, <2>1 DEF Safe, IsTable, Released
<1>4. Safe(Retried(recs))
  <2>1. \A e \in Events :
            LET u == [Unlocked(rows[e]) EXCEPT !.status = "retry", !.due = FALSE]
            IN  u \in Row /\ u.status = "retry"
    BY <1>0, Zenon DEF Row, Unlocked, Statuses
  <2> QED  BY <1>0, <2>1, Zenon DEF Safe, IsTable, Retried, Final
<1>5. Safe(Quarantined(recs))
  <2>1. \A e \in Events :
            LET u == [Unlocked(rows[e]) EXCEPT !.status = "quarantined"]
            IN  u \in Row /\ u.status = "quarantined"
    BY <1>0, Zenon DEF Row, Unlocked, Statuses
  <2> QED  BY <1>0, <2>1 DEF Safe, IsTable, Quarantined, Final
<1> QED  BY <1>1, <1>2, <1>3, <1>4, <1>5

\* A step that finalizes nothing and leaves the workers confirmed.
LEMMA SafeStep ==
    ASSUME LostInv, Safe(rows'), broker \subseteq broker', Relaying(relay', broker')
    PROVE  LostInv'
  BY DEF LostInv, Safe, NothingLost, Final

\* The broker never forgets, so what was confirmed stays so.
LEMMA ConfirmedGrows ==
    ASSUME NEW x, NEW b, NEW c, b \subseteq c, Confirmed(x, b)
    PROVE  Confirmed(x, c)
  BY DEF Confirmed

\* A step of one relay.
LEMMA OneRelay ==
    ASSUME Relaying(relay, broker), broker \subseteq broker', NEW r \in Relays, NEW p,
           Becomes(r, p), IsProcess(p), Works(p.work, broker')
    PROVE  Relaying(relay', broker')
<1>1. \A q \in Relays : Works(relay[q].work, broker')
  BY ConfirmedGrows DEF Relaying, Works
<1>2. /\ relay' = [q \in Relays |-> relay'[q]] /\ relay'[r] = p
      /\ \A q \in Relays : q # r => relay'[q] = relay[q]
  BY DEF Becomes, Relaying
<1> QED  BY <1>1, <1>2 DEF Relaying

\* A process y after a step that leaves the workers of x alone.
Aside(x, y) == IsProcess(y) /\ y.work = x.work

\* The updates of a process x outside its workers.
Beside(x, y) ==
    \/ \E a : y = [x EXCEPT !.polling = a]
    \/ \E a : \E g \in Nat : y = [x EXCEPT !.gen = g, !.polling = a]
    \/ \E a, b, c : y = [x EXCEPT !.inflight = a, !.queue = b, !.polling = c]
    \/ \E a : y = [x EXCEPT !.owned = a]
    \/ \E a : y = [x EXCEPT !.phase = a]
    \/ \E a, b, c : y = [x EXCEPT !.phase = a, !.abandoned = b, !.queue = c]
    \/ \E a, b : y = [x EXCEPT !.abandoned = a, !.inflight = b]

\* A process that goes on beside its workers stays a process, with its work.
LEMMA ProcessUpdates ==
    ASSUME NEW x, IsProcess(x), NEW y, Beside(x, y)
    PROVE  Aside(x, y)
<1> DEFINE Pr(F, Q, I, O, P, A, W) ==
              [phase : F, gen : Nat, queue : Q, inflight : I, owned : O,
               polling : P, abandoned : A, work : W]
<1>0. PICK F, Q, I, O, P, A, W : x \in Pr(F, Q, I, O, P, A, W)  BY DEF IsProcess
<1>p. \A F1, Q1, I1, O1, P1, A1, W1, z : z \in Pr(F1, Q1, I1, O1, P1, A1, W1) => IsProcess(z)
  BY DEF IsProcess
<1>1. ASSUME NEW a, y = [x EXCEPT !.polling = a]
      PROVE  Aside(x, y)
  <2>1. y \in Pr(F, Q, I, O, {a}, A, W) /\ y.work = x.work  BY <1>0, <1>1
  <2> HIDE DEF Pr
  <2> QED  BY <1>p, <2>1 DEF Aside
<1>2. ASSUME NEW a, NEW g \in Nat, y = [x EXCEPT !.gen = g, !.polling = a]
      PROVE  Aside(x, y)
  <2>1. y \in Pr(F, Q, I, O, {a}, A, W) /\ y.work = x.work  BY <1>0, <1>2, Zenon
  <2> HIDE DEF Pr
  <2> QED  BY <1>p, <2>1 DEF Aside
<1>3. ASSUME NEW a, NEW b, NEW c, y = [x EXCEPT !.inflight = a, !.queue = b, !.polling = c]
      PROVE  Aside(x, y)
  <2>1. y \in Pr(F, {b}, {a}, O, {c}, A, W) /\ y.work = x.work  BY <1>0, <1>3, Zenon
  <2> HIDE DEF Pr
  <2> QED  BY <1>p, <2>1 DEF Aside
<1>4. ASSUME NEW a, y = [x EXCEPT !.owned = a]
      PROVE  Aside(x, y)
  <2>1. y \in Pr(F, Q, I, {a}, P, A, W) /\ y.work = x.work  BY <1>0, <1>4
  <2> HIDE DEF Pr
  <2> QED  BY <1>p, <2>1 DEF Aside
<1>5. ASSUME NEW a, y = [x EXCEPT !.phase = a]
      PROVE  Aside(x, y)
  <2>1. y \in Pr({a}, Q, I, O, P, A, W) /\ y.work = x.work  BY <1>0, <1>5
  <2> HIDE DEF Pr
  <2> QED  BY <1>p, <2>1 DEF Aside
<1>6. ASSUME NEW a, NEW b, NEW c, y = [x EXCEPT !.phase = a, !.abandoned = b, !.queue = c]
      PROVE  Aside(x, y)
  <2>1. y \in Pr({a}, {c}, I, O, P, {b}, W) /\ y.work = x.work  BY <1>0, <1>6, Zenon
  <2> HIDE DEF Pr
  <2> QED  BY <1>p, <2>1 DEF Aside
<1>7. ASSUME NEW a, NEW b, y = [x EXCEPT !.abandoned = a, !.inflight = b]
      PROVE  Aside(x, y)
  <2>1. y \in Pr(F, Q, {b}, O, P, {a}, W) /\ y.work = x.work  BY <1>0, <1>7, Zenon
  <2> HIDE DEF Pr
  <2> QED  BY <1>p, <2>1 DEF Aside
<1> HIDE DEF Pr
<1> QED  BY <1>1, <1>2, <1>3, <1>4, <1>5, <1>6, <1>7, Zenon DEF Beside

\* A step of one relay that leaves the workers alone.
LEMMA AsideStep ==
    ASSUME LostInv, Safe(rows'), broker' = broker, NEW r \in Relays, NEW p,
           Becomes(r, p), Beside(relay[r], p)
    PROVE  LostInv'
<1>1. Relaying(relay, broker)  BY DEF LostInv
<1>2. IsProcess(relay[r]) /\ Works(relay[r].work, broker)  BY <1>1 DEF Relaying
<1>3. IsProcess(p) /\ p.work = relay[r].work  BY <1>2, ProcessUpdates DEF Aside
<1>4. Relaying(relay', broker')  BY <1>1, <1>2, <1>3, OneRelay
<1> QED  BY <1>4, SafeStep

\* The updates of a process x in a worker's step: its work becomes v.
Working(x, y, v) ==
    \/ y = [x EXCEPT !.work = v]
    \/ \E a : y = [x EXCEPT !.queue = a, !.work = v]
    \/ \E a : y = [x EXCEPT !.inflight = a, !.work = v]

\* A process whose workers go on stays a process.
LEMMA WorkUpdates ==
    ASSUME NEW x, IsProcess(x), NEW y, NEW v, Working(x, y, v)
    PROVE  IsProcess(y) /\ y.work = v
<1> DEFINE Pr(F, Q, I, O, P, A, W) ==
              [phase : F, gen : Nat, queue : Q, inflight : I, owned : O,
               polling : P, abandoned : A, work : W]
<1>0. PICK F, Q, I, O, P, A, W : x \in Pr(F, Q, I, O, P, A, W)  BY DEF IsProcess
<1>p. \A F1, Q1, I1, O1, P1, A1, W1, z : z \in Pr(F1, Q1, I1, O1, P1, A1, W1) => IsProcess(z)
  BY DEF IsProcess
<1>1. ASSUME y = [x EXCEPT !.work = v] PROVE IsProcess(y) /\ y.work = v
  <2>1. y \in Pr(F, Q, I, O, P, A, {v}) /\ y.work = v  BY <1>0, <1>1
  <2> HIDE DEF Pr
  <2> QED  BY <1>p, <2>1
<1>2. ASSUME NEW a, y = [x EXCEPT !.queue = a, !.work = v] PROVE IsProcess(y) /\ y.work = v
  <2>1. y \in Pr(F, {a}, I, O, P, A, {v}) /\ y.work = v  BY <1>0, <1>2, Zenon
  <2> HIDE DEF Pr
  <2> QED  BY <1>p, <2>1
<1>3. ASSUME NEW a, y = [x EXCEPT !.inflight = a, !.work = v] PROVE IsProcess(y) /\ y.work = v
  <2>1. y \in Pr(F, Q, {a}, O, P, A, {v}) /\ y.work = v  BY <1>0, <1>3, Zenon
  <2> HIDE DEF Pr
  <2> QED  BY <1>p, <2>1
<1> HIDE DEF Pr
<1> QED  BY <1>1, <1>2, <1>3, Zenon DEF Working

\* A worker's step that leaves it with confirmed work only.
LEMMA WorkerKept ==
    ASSUME Relaying(relay, broker), broker \subseteq broker',
           NEW r \in Relays, NEW w \in Workers, NEW p, NEW y, Confirmed(y, broker'),
           Becomes(r, p), Working(relay[r], p, [relay[r].work EXCEPT ![w] = y])
    PROVE  Relaying(relay', broker')
<1> DEFINE f == relay[r].work
           v == [f EXCEPT ![w] = y]
<1>1. IsProcess(relay[r]) /\ Works(f, broker)  BY DEF Relaying
<1>2. IsProcess(p) /\ p.work = v  BY <1>1, WorkUpdates
<1> HIDE DEF f
<1>3. \A u \in Workers : Confirmed(f[u], broker')  BY <1>1, ConfirmedGrows DEF Works
<1>4. v = [u \in Workers |-> v[u]] /\ \A u \in Workers : v[u] = IF u = w THEN y ELSE f[u]
  BY <1>1 DEF Works
<1> HIDE DEF v
<1>5. Works(v, broker')  BY <1>3, <1>4 DEF Works
<1> QED  BY <1>2, <1>5, OneRelay

\* The updates of a worker: it keeps its ok, gets an empty one, or adds a
\* record that the broker has.
LEMMA WorkConfirmed ==
    ASSUME NEW x, NEW b, Confirmed(x, b), NEW p, NEW n, NEW i, i.id \in b
    PROVE  Confirmed([x EXCEPT !.pc = p, !.pos = n, !.ok = Append(x.ok, i)], b)
<1> DEFINE Wk(P, I, N, S) == [pc : P, items : I, pos : N, ok : Seq(S)]
           y == [x EXCEPT !.pc = p, !.pos = n, !.ok = Append(x.ok, i)]
<1>0. PICK P, I, N, S : x \in Wk(P, I, N, S)  BY DEF Confirmed
<1>1. x.ok \in Seq(S)  BY <1>0
<1>2. /\ Append(x.ok, i) \in Seq(S \cup {i})
      /\ Len(Append(x.ok, i)) = Len(x.ok) + 1
      /\ \A k \in 1 .. Len(x.ok) + 1 :
            Append(x.ok, i)[k] = IF k = Len(x.ok) + 1 THEN i ELSE x.ok[k]
  BY <1>1
<1>3. y \in Wk({p}, I, {n}, S \cup {i}) /\ y.ok = Append(x.ok, i)  BY <1>0, <1>2, Zenon
<1> HIDE DEF y
<1>4. \A k \in 1 .. Len(y.ok) : y.ok[k].id \in b  BY <1>1, <1>2, <1>3 DEF Confirmed
<1>5. \E P1, I1, N1, S1 : y \in Wk(P1, I1, N1, S1)
  <2> HIDE DEF Wk
  <2> QED  BY <1>3
<1> QED  BY <1>4, <1>5 DEF Confirmed, y

\* A worker that moves on keeps what it has confirmed.
LEMMA WorkMoved ==
    ASSUME NEW x, NEW b, Confirmed(x, b), NEW p, NEW n
    PROVE  /\ Confirmed([x EXCEPT !.pc = p, !.pos = n, !.ok = x.ok], b)
           /\ Confirmed([x EXCEPT !.pc = p], b)
           /\ Confirmed([x EXCEPT !.pos = n], b)
<1> DEFINE Wk(P, I, N, S) == [pc : P, items : I, pos : N, ok : Seq(S)]
           y1 == [x EXCEPT !.pc = p, !.pos = n, !.ok = x.ok]
           y2 == [x EXCEPT !.pc = p]
           y3 == [x EXCEPT !.pos = n]
<1>0. PICK P, I, N, S : x \in Wk(P, I, N, S)  BY DEF Confirmed
<1>1. y1 \in Wk({p}, I, {n}, S) /\ y1.ok = x.ok  BY <1>0, Zenon
<1>2. y2 \in Wk({p}, I, N, S) /\ y2.ok = x.ok  BY <1>0
<1>3. y3 \in Wk(P, I, {n}, S) /\ y3.ok = x.ok  BY <1>0
<1>4. \A y, P1, I1, N1, S1 : y \in Wk(P1, I1, N1, S1) /\ y.ok = x.ok => Confirmed(y, b)
  BY DEF Confirmed
<1> HIDE DEF Wk, y1, y2, y3
<1>5. Confirmed(y1, b) /\ Confirmed(y2, b) /\ Confirmed(y3, b)
  BY <1>1, <1>2, <1>3, <1>4
<1> QED  BY <1>5 DEF y1, y2, y3

\* A worker that has nothing to mark.
LEMMA WorkFresh ==
    ASSUME NEW b, NEW p, NEW n, NEW s
    PROVE  Confirmed([pc |-> p, items |-> s, pos |-> n, ok |-> <<>>], b)
<1> DEFINE Wk(P, I, N, S) == [pc : P, items : I, pos : N, ok : Seq(S)]
           y == [pc |-> p, items |-> s, pos |-> n, ok |-> <<>>]
<1>1. y \in Wk({p}, {s}, {n}, {}) /\ y.ok = <<>>  OBVIOUS
<1>2. \A k \in 1 .. Len(y.ok) : y.ok[k].id \in b  OBVIOUS
<1> HIDE DEF y
<1>3. \E P1, I1, N1, S1 : y \in Wk(P1, I1, N1, S1)
  <2> HIDE DEF Wk
  <2> QED  BY <1>1
<1> QED  BY <1>2, <1>3 DEF Confirmed, y

----------------------------------------------------------------------------
(* Every step keeps the invariant.                                         *)

\* A process that is not running marks nothing.
LEMMA DownConfirmed == IsProcess(Down) /\ Works(Down.work, broker)
<1>1. IsProcess(Down)
  <2> DEFINE Pr(F, Q, I, O, P, A, W) ==
                [phase : F, gen : Nat, queue : Q, inflight : I, owned : O,
                 polling : P, abandoned : A, work : W]
  <2>1. \A F, Q, I, O, P, A, W, y : y \in Pr(F, Q, I, O, P, A, W) => IsProcess(y)
    BY DEF IsProcess
  <2>2. Down \in Pr({"down"}, {<<>>}, {<<>>}, {{}}, {Down.polling}, {<<>>}, {Down.work})
    BY DEF Down
  <2> HIDE DEF Pr
  <2> QED  BY <2>1, <2>2
<1>2. Confirmed(Idle, broker)
  <2> DEFINE Wk(P, I, N, S) == [pc : P, items : I, pos : N, ok : Seq(S)]
  <2>1. Idle \in Wk({"idle"}, {<<>>}, {1}, {})  BY DEF Idle
  <2>2. \A i \in 1 .. Len(Idle.ok) : Idle.ok[i].id \in broker  BY DEF Idle
  <2>3. \E P, I, N, S : Idle \in Wk(P, I, N, S)
    <3> HIDE DEF Wk
    <3> QED  BY <2>1
  <2> QED  BY <2>2, <2>3 DEF Confirmed
<1>3. Down.work = [w \in Workers |-> Idle]  BY DEF Down
<1> QED  BY <1>1, <1>2, <1>3 DEF Works

\* At first no row is published and no relay runs.
LEMMA InitLost == Init => LostInv
<1> SUFFICES ASSUME Init PROVE LostInv  OBVIOUS
<1>1. IsTable(rows) /\ NothingLost
  BY DEF Init, IsTable, Row, Statuses, NothingLost
<1>2. IsProcess(Down) /\ Works(Down.work, broker)  BY DownConfirmed
<1>3. relay = [r \in Relays |-> Down]  BY DEF Init
<1> QED  BY <1>1, <1>2, <1>3 DEF LostInv, Relaying

\* The steps of the table, and the cleanup of a published row.
LEMMA TableLost ==
    ASSUME LostInv, NEW e \in Events,
           \/ Produce(e) \/ LeaseLapses(e) \/ LeaseLost(e) \/ RetryDue(e)
           \/ \E r \in Relays : Cleanup(r, e)
    PROVE  LostInv'
<1>0. rows \in [Events -> Row]  BY DEF LostInv, IsTable
<1>1. UNCHANGED <<broker, relay>>
  BY DEF Produce, LeaseLapses, LeaseLost, RetryDue, Cleanup
<1>2. Relaying(relay', broker')  BY <1>1 DEF LostInv
<1>3. CASE Produce(e)
  <2>1. rows' \in [Events -> Row]  BY <1>0, <1>3 DEF Produce, Row, Statuses
  <2>2. \A x \in Events : rows'[x].status \in Final => rows[x].status \in Final
    BY <1>0, <1>3 DEF Produce, Row, Final
  <2> QED  BY <1>1, <1>2, <2>1, <2>2, SafeStep DEF Safe, IsTable
<1>4. CASE LeaseLapses(e) \/ LeaseLost(e)
  <2>1. rows' = [rows EXCEPT ![e].lease = FALSE]  BY <1>4 DEF LeaseLapses, LeaseLost
  <2>2. rows' \in [Events -> Row]  BY <1>0, <2>1, Zenon DEF Row
  <2>3. \A x \in Events : rows'[x].status = rows[x].status  BY <1>0, <2>1 DEF Row
  <2> QED  BY <1>1, <1>2, <2>2, <2>3, SafeStep DEF Safe, IsTable
<1>5. CASE RetryDue(e)
  <2>1. rows' = [rows EXCEPT ![e].due = TRUE]  BY <1>5 DEF RetryDue
  <2>2. rows' \in [Events -> Row]  BY <1>0, <2>1, Zenon DEF Row
  <2>3. \A x \in Events : rows'[x].status = rows[x].status  BY <1>0, <2>1 DEF Row
  <2> QED  BY <1>1, <1>2, <2>2, <2>3, SafeStep DEF Safe, IsTable
<1>6. CASE \E r \in Relays : Cleanup(r, e)
  <2>1. rows[e].status = "published" /\ rows' = [rows EXCEPT ![e].status = "deleted"]
    BY <1>6 DEF Cleanup
  <2>2. rows' \in [Events -> Row]  BY <1>0, <2>1 DEF Row, Statuses
  <2>3. \A x \in Events : rows'[x].status \in Final => rows[x].status \in Final
    BY <1>0, <2>1 DEF Row, Final
  <2> QED  BY <1>1, <1>2, <2>2, <2>3, SafeStep DEF Safe, IsTable
<1> QED  BY <1>3, <1>4, <1>5, <1>6

\* A claim changes no status.
LEMMA LockSafe ==
    ASSUME IsTable(rows), NEW ids, NEW token \in Tokens, Lock(ids, token)
    PROVE  Safe(rows')
<1>1. \A e \in Events : LET u == [rows[e] EXCEPT !.owner = token, !.lease = TRUE]
                        IN  u \in Row /\ u.status = rows[e].status
  BY Zenon DEF IsTable, Row
<1> QED  BY <1>1, Zenon DEF Lock, Safe, IsTable

\* A poll takes over rows and changes no status that matters.
LEMMA PollLost ==
    ASSUME LostInv, NEW r \in Relays, PollStep(r)
    PROVE  LostInv'
<1>0. IsTable(rows) /\ Relaying(relay, broker)  BY DEF LostInv
<1>1. relay[r].gen \in Nat  BY <1>0 DEF Relaying, IsProcess
<1>2. NextClaimToken(r) \in Tokens  BY <1>1 DEF NextClaimToken, Tokens
<1>3. Safe(rows)  BY <1>0 DEF Safe
<1>4. CASE PollRead(r)
  <2>1. PICK a : Becomes(r, [relay[r] EXCEPT !.polling = a])  BY <1>4, Zenon DEF PollRead
  <2>2. Beside(relay[r], [relay[r] EXCEPT !.polling = a])  BY Zenon DEF Beside
  <2>3. UNCHANGED <<rows, broker>>  BY <1>4 DEF PollRead
  <2> QED  BY <1>3, <2>1, <2>2, <2>3, AsideStep
<1>5. CASE ClaimBatch(r)
  <2> DEFINE g == IF Ready(relay[r].polling.limit) = {} THEN relay[r].gen
                                                        ELSE relay[r].gen + 1
  <2>1. PICK a : Becomes(r, [relay[r] EXCEPT !.gen = g, !.polling = a])
    BY <1>5, Zenon DEF ClaimBatch
  <2>2. g \in Nat  BY <1>1
  <2> HIDE DEF g
  <2>3. Beside(relay[r], [relay[r] EXCEPT !.gen = g, !.polling = a])  BY <2>2, Zenon DEF Beside
  <2>4. Safe(rows') /\ broker' = broker  BY <1>0, <1>2, <1>5, LockSafe DEF ClaimBatch
  <2> QED  BY <2>1, <2>3, <2>4, AsideStep
<1>6. CASE ClaimFails(r)
  <2> DEFINE g == relay[r].gen + 1
  <2>1. PICK a : Becomes(r, [relay[r] EXCEPT !.gen = g, !.polling = a])
    BY <1>6, Zenon DEF ClaimFails
  <2>2. g \in Nat  BY <1>1
  <2> HIDE DEF g
  <2>3. Beside(relay[r], [relay[r] EXCEPT !.gen = g, !.polling = a])  BY <2>2, Zenon DEF Beside
  <2>4. Safe(rows') /\ broker' = broker
    BY <1>0, <1>2, <1>3, <1>6, LockSafe DEF ClaimFails, Safe
  <2> QED  BY <2>1, <2>3, <2>4, AsideStep
<1>7. CASE Admit(r)
  <2>1. PICK a, b, c :
            Becomes(r, [relay[r] EXCEPT !.inflight = a, !.queue = b, !.polling = c])
    BY <1>7, Zenon DEF Admit
  <2>2. Beside(relay[r], [relay[r] EXCEPT !.inflight = a, !.queue = b, !.polling = c])
    BY Zenon DEF Beside
  <2>3. UNCHANGED <<rows, broker>>  BY <1>7 DEF Admit
  <2> QED  BY <1>3, <2>1, <2>2, <2>3, AsideStep
<1> QED  BY <1>4, <1>5, <1>6, <1>7 DEF PollStep

\* The renew thread, and the steps of a shutdown.
LEMMA RenewLost ==
    ASSUME LostInv, NEW r \in Relays,
           \/ RenewScan(r) \/ Renew(r) \/ Stop(r) \/ Drained(r)
           \/ DrainTimesOut(r) \/ ReleaseClaim(r)
    PROVE  LostInv'
<1>0. IsTable(rows)  BY DEF LostInv
<1>1. broker' = broker
  BY Zenon DEF RenewScan, Renew, Stop, Drained, DrainTimesOut, ReleaseClaim
<1>2. Safe(rows')
  BY <1>0, SafeStatements, Zenon
     DEF RenewScan, Renew, Stop, Drained, DrainTimesOut, ReleaseClaim, Safe
<1>3. CASE RenewScan(r) \/ Renew(r)
  <2>1. PICK a : Becomes(r, [relay[r] EXCEPT !.owned = a])  BY <1>3, Zenon DEF RenewScan, Renew
  <2>2. Beside(relay[r], [relay[r] EXCEPT !.owned = a])  BY Zenon DEF Beside
  <2> QED  BY <1>1, <1>2, <2>1, <2>2, AsideStep
<1>4. CASE Stop(r) \/ Drained(r)
  <2>1. PICK a : Becomes(r, [relay[r] EXCEPT !.phase = a])  BY <1>4, Zenon DEF Stop, Drained
  <2>2. Beside(relay[r], [relay[r] EXCEPT !.phase = a])  BY Zenon DEF Beside
  <2> QED  BY <1>1, <1>2, <2>1, <2>2, AsideStep
<1>5. CASE DrainTimesOut(r)
  <2>1. PICK a, b, c :
            Becomes(r, [relay[r] EXCEPT !.phase = a, !.abandoned = b, !.queue = c])
    BY <1>5, Zenon DEF DrainTimesOut
  <2>2. Beside(relay[r], [relay[r] EXCEPT !.phase = a, !.abandoned = b, !.queue = c])
    BY Zenon DEF Beside
  <2> QED  BY <1>1, <1>2, <2>1, <2>2, AsideStep
<1>6. CASE ReleaseClaim(r)
  <2>1. PICK a, b : Becomes(r, [relay[r] EXCEPT !.abandoned = a, !.inflight = b])
    BY <1>6, Zenon DEF ReleaseClaim
  <2>2. Beside(relay[r], [relay[r] EXCEPT !.abandoned = a, !.inflight = b])  BY Zenon DEF Beside
  <2> QED  BY <1>1, <1>2, <2>1, <2>2, AsideStep
<1> QED  BY <1>3, <1>4, <1>5, <1>6

\* A process that starts or ends: it has nothing.
LEMMA LifecycleLost ==
    ASSUME LostInv, NEW r \in Relays, Start(r) \/ Crash(r) \/ Stopped(r)
    PROVE  LostInv'
<1>0. IsTable(rows) /\ Relaying(relay, broker)  BY DEF LostInv
<1>1. UNCHANGED <<rows, broker>>  BY DEF Start, Crash, Stopped
<1> DEFINE p == [Down EXCEPT !.phase = "running"]
<1>2. IsProcess(Down) /\ Works(Down.work, broker)  BY DownConfirmed
<1>3. Beside(Down, p)  BY Zenon DEF Beside
<1>4. Becomes(r, p) \/ Becomes(r, Down)  BY DEF Start, Crash, Stopped
<1> HIDE DEF p
<1>5. IsProcess(p) /\ p.work = Down.work  BY <1>2, <1>3, ProcessUpdates DEF Aside
<1>6. Relaying(relay', broker')  BY <1>0, <1>1, <1>2, <1>4, <1>5, OneRelay
<1>7. Safe(rows')  BY <1>0, <1>1 DEF Safe
<1> QED  BY <1>1, <1>6, <1>7, SafeStep

\* The worker moves on, with what it may mark.
LEMMA ThroughConfirmed ==
    ASSUME Relaying(relay, broker), broker \subseteq broker', NEW r \in Relays,
           NEW w \in Workers, NEW ok, Through(r, w, ok),
           \A p, n : Confirmed([relay[r].work[w] EXCEPT !.pc = p, !.pos = n, !.ok = ok], broker')
    PROVE  Relaying(relay', broker')
<1> DEFINE x == relay[r].work[w]
           last == x.pos = Len(x.items)
           p == IF last THEN "mark" ELSE "item"
           n == IF last THEN 1 ELSE x.pos + 1
           y == [x EXCEPT !.pc = p, !.pos = n, !.ok = ok]
           q == [relay[r] EXCEPT !.work = [relay[r].work EXCEPT ![w] = y]]
<1>1. Becomes(r, q)  BY Zenon DEF Through, Worker
<1> HIDE DEF p, n
<1>2. Confirmed(y, broker')  BY Zenon
<1> HIDE DEF y
<1>3. Working(relay[r], q, [relay[r].work EXCEPT ![w] = y])  BY Zenon DEF Working
<1> HIDE DEF q
<1> QED  BY <1>1, <1>2, <1>3, WorkerKept, Zenon

\* The steps of a worker that publish nothing: it takes a batch, settles a
\* record, or finishes one.
LEMMA WorkerLost ==
    ASSUME LostInv, NEW r \in Relays, NEW w \in Workers,
           Take(r, w) \/ Settle(r, w) \/ FinishRecord(r, w)
    PROVE  LostInv'
<1>0. IsTable(rows) /\ Relaying(relay, broker)  BY DEF LostInv
<1>1. broker' = broker  BY DEF Take, Settle, FinishRecord
<1>2. Safe(rows')
  BY <1>0, SafeStatements DEF Take, Settle, Settled, FinishRecord, Safe
<1> DEFINE x == relay[r].work[w]
<1>3. Confirmed(x, broker)  BY <1>0, Zenon DEF Relaying, Works
<1>4. CASE Take(r, w)
  <2> DEFINE n == IF Len(relay[r].queue) < PublishBatchSize
                  THEN Len(relay[r].queue) ELSE PublishBatchSize
             s == SubSeq(relay[r].queue, 1, n)
             a == SubSeq(relay[r].queue, n + 1, Len(relay[r].queue))
             y == [pc |-> "item", items |-> s, pos |-> 1, ok |-> <<>>]
             q == [relay[r] EXCEPT !.queue = a, !.work = [relay[r].work EXCEPT ![w] = y]]
  <2>1. Becomes(r, q)  BY <1>4 DEF Take
  <2> HIDE DEF a, s
  <2>2. Confirmed(y, broker)  BY WorkFresh
  <2> HIDE DEF y
  <2>3. Working(relay[r], q, [relay[r].work EXCEPT ![w] = y])  BY Zenon DEF Working
  <2> HIDE DEF q
  <2>4. Relaying(relay', broker')  BY <1>0, <1>1, <2>1, <2>2, <2>3, WorkerKept
  <2> QED  BY <1>1, <1>2, <2>4, SafeStep
<1>5. CASE Settle(r, w)
  <2>1. Through(r, w, x.ok)  BY <1>5 DEF Settle, Worker
  <2>2. \A p, n : Confirmed([x EXCEPT !.pc = p, !.pos = n, !.ok = x.ok], broker')
    BY <1>1, <1>3, WorkMoved, Zenon
  <2>3. Relaying(relay', broker')  BY <1>0, <1>1, <2>1, <2>2, ThroughConfirmed, Zenon
  <2> QED  BY <1>1, <1>2, <2>3, SafeStep
<1>6. CASE FinishRecord(r, w)
  <2> DEFINE a == Untrack(relay[r].inflight, Item(r, w).id)
             n == x.pos + 1
             y == IF x.pos = Len(x.items) THEN Idle ELSE [x EXCEPT !.pos = n]
             q == [relay[r] EXCEPT !.inflight = a,
                                   !.work = [relay[r].work EXCEPT ![w] = y]]
  <2>1. Becomes(r, q)  BY <1>6 DEF FinishRecord, Worker
  <2> HIDE DEF a, n
  <2>2. Confirmed(y, broker)  BY <1>3, WorkMoved, WorkFresh, Zenon DEF Idle
  <2> HIDE DEF y
  <2>3. Working(relay[r], q, [relay[r].work EXCEPT ![w] = y])  BY Zenon DEF Working
  <2> HIDE DEF q
  <2>4. Relaying(relay', broker')  BY <1>0, <1>1, <2>1, <2>2, <2>3, WorkerKept
  <2> QED  BY <1>1, <1>2, <2>4, SafeStep
<1> QED  BY <1>4, <1>5, <1>6

\* A worker whose record failed, or that has marked its batch.
LEMMA PcOnly ==
    ASSUME Relaying(relay, broker), broker \subseteq broker', NEW r \in Relays,
           NEW w \in Workers, NEW p, Becomes(r, [relay[r] EXCEPT !.work[w].pc = p])
    PROVE  Relaying(relay', broker')
<1> DEFINE x == relay[r].work[w]
           y == [x EXCEPT !.pc = p]
           q == [relay[r] EXCEPT !.work = [relay[r].work EXCEPT ![w] = y]]
<1>1. Becomes(r, q)  OBVIOUS
<1>2. Confirmed(x, broker)  BY Zenon DEF Relaying, Works
<1>3. Confirmed(y, broker')  BY <1>2, ConfirmedGrows, WorkMoved, Zenon
<1> HIDE DEF y
<1>4. Working(relay[r], q, [relay[r].work EXCEPT ![w] = y])  BY DEF Working
<1> HIDE DEF q
<1> QED  BY <1>1, <1>3, <1>4, WorkerKept

\* The broker confirms a record, which the worker then may mark, or fails it.
LEMMA PublishLost ==
    ASSUME LostInv, NEW r \in Relays, NEW w \in Workers, Publish(r, w)
    PROVE  LostInv'
<1>0. IsTable(rows) /\ Relaying(relay, broker)  BY DEF LostInv
<1>1. broker \subseteq broker' /\ rows' = rows  BY DEF Publish
<1>2. Safe(rows')  BY <1>0, <1>1 DEF Safe
<1> DEFINE x == relay[r].work[w]
           i == Item(r, w)
<1>3. \/ i.id \in broker' /\ Through(r, w, Append(x.ok, i))
      \/ Becomes(r, [relay[r] EXCEPT !.work[w].pc = "retry"])
      \/ Becomes(r, [relay[r] EXCEPT !.work[w].pc = "quarantine"])
  BY DEF Publish, Worker
<1>4. ASSUME i.id \in broker', Through(r, w, Append(x.ok, i))
      PROVE  Relaying(relay', broker')
  <2>1. Confirmed(x, broker)  BY <1>0, Zenon DEF Relaying, Works
  <2>2. Confirmed(x, broker')
    <3> HIDE DEF x
    <3> QED  BY <1>1, <2>1, ConfirmedGrows
  <2>3. \A p, n : Confirmed([x EXCEPT !.pc = p, !.pos = n, !.ok = Append(x.ok, i)], broker')
    BY <1>4, <2>2, WorkConfirmed, Zenon
  <2> QED  BY <1>0, <1>1, <1>4, <2>3, ThroughConfirmed, Zenon
<1>5. Relaying(relay', broker')  BY <1>0, <1>1, <1>3, <1>4, PcOnly
<1> QED  BY <1>1, <1>2, <1>5, SafeStep

\* Only confirmed records are marked.
LEMMA MarkLost ==
    ASSUME LostInv, NEW r \in Relays, NEW w \in Workers, MarkPublished(r, w)
    PROVE  LostInv'
<1>0. IsTable(rows) /\ Relaying(relay, broker) /\ NothingLost  BY DEF LostInv
<1> DEFINE x == relay[r].work[w]
           t == Published(x.ok)
<1>1. /\ broker' = broker /\ rows' \in {rows, t}
      /\ Becomes(r, [relay[r] EXCEPT !.work[w].pc = "finish"])
  BY DEF MarkPublished, Worker
<1>2. Confirmed(x, broker)  BY <1>0, Zenon DEF Relaying, Works
<1>3. IsTable(t) /\ \A e \in Events : t[e].status \in Final => e \in broker
  <2>1. \A e \in Events :
            LET u == [Unlocked(rows[e]) EXCEPT !.status = "published", !.due = TRUE]
            IN  u \in Row
    BY <1>0, Zenon DEF IsTable, Row, Unlocked, Statuses
  <2>2. \A e \in Events : Fenced(x.ok, e) => e \in broker
    BY <1>2 DEF Fenced, Confirmed
  <2>3. \A e \in Events : rows[e] \in Row /\ (rows[e].status \in Final => e \in broker)
    BY <1>0 DEF IsTable, NothingLost, Final
  <2> HIDE DEF x
  <2> QED  BY <2>1, <2>2, <2>3, Zenon DEF Published, IsTable
<1>4. IsTable(rows') /\ NothingLost'
  <2> HIDE DEF t
  <2> QED  BY <1>0, <1>1, <1>3 DEF NothingLost, Final
<1>5. Relaying(relay', broker')  BY <1>0, <1>1, PcOnly
<1> QED  BY <1>4, <1>5 DEF LostInv

\* OutboxRelay, at least once: for any number of relays, workers, events and
\* deployments, and any number of faults, lost leases, crashes and stops, a row
\* is published or deleted only if the broker has its event.
THEOREM NothingIsLost == Spec => []NothingLost
<1>1. Init => LostInv  BY InitLost
<1>2. LostInv /\ [Next]_vars => LostInv'
  <2> SUFFICES ASSUME LostInv, [Next]_vars PROVE LostInv'  OBVIOUS
  <2>1. CASE UNCHANGED vars  BY <2>1 DEF vars, LostInv, NothingLost
  <2>2. ASSUME NEW e \in Events,
               \/ Produce(e) \/ LeaseLapses(e) \/ LeaseLost(e) \/ RetryDue(e)
               \/ \E r \in Relays : Cleanup(r, e)
        PROVE  LostInv'
    BY <2>2, TableLost
  <2>3. ASSUME NEW r \in Relays, NEW w \in Workers, WorkerStep(r, w) PROVE LostInv'
    BY <2>3, WorkerLost, PublishLost, MarkLost DEF WorkerStep
  <2>4. ASSUME NEW r \in Relays,
               \/ PollStep(r) \/ RenewScan(r) \/ Renew(r)
               \/ Start(r) \/ Crash(r) \/ Stop(r) \/ ShutdownStep(r)
        PROVE  LostInv'
    BY <2>4, PollLost, RenewLost, LifecycleLost DEF ShutdownStep
  <2> QED  BY <2>1, <2>2, <2>3, <2>4 DEF Next
<1>3. LostInv => NothingLost  BY DEF LostInv
<1> QED  BY <1>1, <1>2, <1>3, PTL DEF Spec

----------------------------------------------------------------------------
(***************************************************************************)
(* The claim token fences: a row under a live lease is settled or released *)
(* only by the worker, or the shutdown, that holds its latest claim.       *)
(*                                                                         *)
(* A token names a relay and a generation, and a restarted relay counts    *)
(* its generations again, so a row may be locked by a token that an        *)
(* earlier process of the relay got for it. The argument is that a process *)
(* never has a record with a token it has not issued itself: records die   *)
(* with their process, and the next claim is above every generation the    *)
(* process has used. Hence a record whose token is on its row is a record  *)
(* of the row's latest claim.                                              *)
(***************************************************************************)

Rec == [id : Events, token : Tokens, claim : Nat]

Polling(p) == \E P, L : p \in [pc : P, limit : L, recs : Seq(Rec)]

\* A worker is at one of its records, and marks only records of its batch.
AtWork(y) ==
    /\ \E P : y \in [pc : P, items : Seq(Rec), pos : Nat, ok : Seq(Rec)]
    /\ y.pc # "idle" => y.pos \in 1 .. Len(y.items)
    /\ \A k \in 1 .. Len(y.ok) : y.ok[k] \in Range(y.items)

AtWorks(f) == f = [w \in Workers |-> f[w]] /\ \A w \in Workers : AtWork(f[w])
Batches(f) == UNION {Range(f[w].items) : w \in Workers}

\* The records of a process with this queue, polling, abandoned and work.
RecsOf(q, p, a, f) == Range(q) \cup Range(p.recs) \cup Range(a) \cup Batches(f)
Recs(x) == RecsOf(x.queue, x.polling, x.abandoned, x.work)

Typed(x) ==
    /\ IsProcess(x) /\ x.queue \in Seq(Rec) /\ x.abandoned \in Seq(Rec)
    /\ Polling(x.polling) /\ AtWorks(x.work)

\* The token is one the process has issued; if the row carries it, the record
\* is of the row's latest claim.
Current(r, i) ==
    /\ i \in Rec /\ i.token[1] = r /\ i.token[2] <= relay[r].gen
    /\ rows[i.id].owner = i.token => i.claim = claims[i.id]

FenceInv ==
    /\ IsTable(rows) /\ claims \in [Events -> Nat]
    /\ relay = [r \in Relays |-> relay[r]]
    /\ \A r \in Relays : Typed(relay[r])
    /\ \A r \in Relays : \A i \in Recs(relay[r]) : Current(r, i)

----------------------------------------------------------------------------
(* Sequences, as the sets of what they hold.                               *)

\* What a sequence of records holds.
LEMMA RangeOf ==
    ASSUME NEW S, NEW s \in Seq(S)
    PROVE  /\ \A k \in 1 .. Len(s) : s[k] \in Range(s)
           /\ \A i \in Range(s) : i \in S /\ \E k \in 1 .. Len(s) : i = s[k]
  BY DEF Range

\* The poll thread appends the claimed records to the queue.
LEMMA RangeConcat ==
    ASSUME NEW S, NEW s \in Seq(S), NEW t \in Seq(S)
    PROVE  s \o t \in Seq(S) /\ Range(s \o t) \subseteq Range(s) \cup Range(t)
<1>1. /\ s \o t \in Seq(S) /\ Len(s \o t) = Len(s) + Len(t)
      /\ \A k \in 1 .. Len(s) + Len(t) :
            (s \o t)[k] = IF k <= Len(s) THEN s[k] ELSE t[k - Len(s)]
  OBVIOUS
<1>2. ASSUME NEW i \in Range(s \o t) PROVE i \in Range(s) \cup Range(t)
  <2>1. PICK k \in 1 .. Len(s) + Len(t) : i = (s \o t)[k]  BY <1>1, <1>2 DEF Range
  <2>2. CASE k <= Len(s)  BY <1>1, <2>1, <2>2, RangeOf
  <2>3. CASE k > Len(s)
    <3>1. k - Len(s) \in 1 .. Len(t)  BY <2>1, <2>3
    <3> QED  BY <1>1, <2>1, <2>3, <3>1, RangeOf
  <2> QED  BY <2>1, <2>2, <2>3
<1> QED  BY <1>1, <1>2

\* A worker takes a prefix of the queue.
LEMMA RangeSub ==
    ASSUME NEW S, NEW s \in Seq(S), NEW m \in 1 .. Len(s) + 1, NEW n \in 0 .. Len(s)
    PROVE  /\ SubSeq(s, m, n) \in Seq(S) /\ Range(SubSeq(s, m, n)) \subseteq Range(s)
           /\ m <= n => Len(SubSeq(s, m, n)) = n - m + 1
<1>a. m \in Nat /\ n \in Nat /\ \A k \in m .. n : k \in 1 .. Len(s)  OBVIOUS
<1>b. \A k \in m .. n : s[k] \in S  BY <1>a
<1>c. Len(SubSeq(s, m, n)) = IF m <= n THEN n - m + 1 ELSE 0  BY <1>a
<1>d. SubSeq(s, m, n) \in Seq(S)  BY <1>a, <1>b
<1>e. \A k \in 1 .. n - m + 1 : SubSeq(s, m, n)[k] = s[m + k - 1]  BY <1>a
<1>2. ASSUME NEW i \in Range(SubSeq(s, m, n)) PROVE i \in Range(s)
  <2>1. PICK k \in 1 .. Len(SubSeq(s, m, n)) : i = SubSeq(s, m, n)[k]
    <3>1. DOMAIN SubSeq(s, m, n) = 1 .. Len(SubSeq(s, m, n))
      BY <1>d
    <3> QED  BY <1>2, <3>1, Zenon DEF Range
  <2>2. k \in 1 .. n - m + 1 /\ m + k - 1 \in 1 .. Len(s)  BY <1>a, <1>c, <2>1
  <2> QED  BY <1>e, <2>1, <2>2, RangeOf
<1> QED  BY <1>c, <1>d, <1>2

\* The shutdown releases the abandoned records one by one.
LEMMA RangeTail ==
    ASSUME NEW S, NEW s \in Seq(S), s # <<>>
    PROVE  /\ Tail(s) \in Seq(S) /\ Range(Tail(s)) \subseteq Range(s)
           /\ Tail(s) # s /\ Head(s) \in Range(s)
<1>1. Len(s) \in Nat \ {0}  OBVIOUS
<1>2. Tail(s) \in Seq(S) /\ Len(Tail(s)) = Len(s) - 1 /\ Head(s) = s[1]  OBVIOUS
<1>3. \A k \in 1 .. Len(s) - 1 : Tail(s)[k] = s[k + 1]  OBVIOUS
<1>4. Tail(s) # s
  <2> SUFFICES ASSUME Tail(s) = s PROVE FALSE  BY Zenon
  <2>1. Len(s) = Len(s) - 1  BY <1>2, Zenon
  <2> QED  BY <1>1, <2>1
<1>5. ASSUME NEW i \in Range(Tail(s)) PROVE i \in Range(s)
  <2>1. PICK k \in 1 .. Len(Tail(s)) : i = Tail(s)[k]  BY <1>2, <1>5 DEF Range
  <2>2. k \in 1 .. Len(s) - 1 /\ k + 1 \in 1 .. Len(s)  BY <1>1, <1>2, <2>1
  <2> QED  BY <1>3, <2>1, <2>2, RangeOf
<1>6. Head(s) \in Range(s)
  <2>1. 1 \in 1 .. Len(s)  BY <1>1
  <2> QED  BY <1>2, <2>1, RangeOf
<1> QED  BY <1>2, <1>4, <1>5, <1>6, Zenon

----------------------------------------------------------------------------
(* What a step of a process leaves of it.                                  *)

\* A process with these fields.
Is(y, g, q, p, a, f) ==
    /\ IsProcess(y) /\ y.gen = g /\ y.queue = q /\ y.polling = p
    /\ y.abandoned = a /\ y.work = f

\* The updates of a process outside its workers, field by field.
LEMMA BesideFields ==
    ASSUME NEW x, IsProcess(x), NEW a, NEW b, NEW c, NEW g \in Nat
    PROVE  /\ Is([x EXCEPT !.polling = a], x.gen, x.queue, a, x.abandoned, x.work)
           /\ Is([x EXCEPT !.gen = g, !.polling = a], g, x.queue, a, x.abandoned, x.work)
           /\ Is([x EXCEPT !.inflight = a, !.queue = b, !.polling = c],
                 x.gen, b, c, x.abandoned, x.work)
           /\ Is([x EXCEPT !.owned = a], x.gen, x.queue, x.polling, x.abandoned, x.work)
           /\ Is([x EXCEPT !.phase = a], x.gen, x.queue, x.polling, x.abandoned, x.work)
           /\ Is([x EXCEPT !.phase = a, !.abandoned = b, !.queue = c],
                 x.gen, c, x.polling, b, x.work)
           /\ Is([x EXCEPT !.abandoned = a, !.inflight = b],
                 x.gen, x.queue, x.polling, a, x.work)
<1>0. PICK F, Q, I, O, P, A, W :
          x \in [phase : F, gen : Nat, queue : Q, inflight : I, owned : O,
                 polling : P, abandoned : A, work : W]
  BY DEF IsProcess
<1>1. Is([x EXCEPT !.polling = a], x.gen, x.queue, a, x.abandoned, x.work)
  <2> DEFINE y == [x EXCEPT !.polling = a]
  <2>1. y.gen = x.gen /\ y.queue = x.queue /\ y.polling = a /\ y.abandoned = x.abandoned
    BY <1>0, Zenon
  <2>2. Beside(x, y)  BY Zenon DEF Beside
  <2> QED  BY <2>1, <2>2, ProcessUpdates, Zenon DEF Aside, Is
<1>2. Is([x EXCEPT !.gen = g, !.polling = a], g, x.queue, a, x.abandoned, x.work)
  <2> DEFINE y == [x EXCEPT !.gen = g, !.polling = a]
  <2>1. y.gen = g /\ y.queue = x.queue /\ y.polling = a /\ y.abandoned = x.abandoned
    BY <1>0, Zenon
  <2>2. Beside(x, y)  BY Zenon DEF Beside
  <2> QED  BY <2>1, <2>2, ProcessUpdates, Zenon DEF Aside, Is
<1>3. Is([x EXCEPT !.inflight = a, !.queue = b, !.polling = c],
         x.gen, b, c, x.abandoned, x.work)
  <2> DEFINE y == [x EXCEPT !.inflight = a, !.queue = b, !.polling = c]
  <2>1. y.gen = x.gen /\ y.queue = b /\ y.polling = c /\ y.abandoned = x.abandoned
    BY <1>0, Zenon
  <2>2. Beside(x, y)  BY Zenon DEF Beside
  <2> QED  BY <2>1, <2>2, ProcessUpdates, Zenon DEF Aside, Is
<1>4. Is([x EXCEPT !.owned = a], x.gen, x.queue, x.polling, x.abandoned, x.work)
  <2> DEFINE y == [x EXCEPT !.owned = a]
  <2>1. y.gen = x.gen /\ y.queue = x.queue /\ y.polling = x.polling /\ y.abandoned = x.abandoned
    BY <1>0, Zenon
  <2>2. Beside(x, y)  BY Zenon DEF Beside
  <2> QED  BY <2>1, <2>2, ProcessUpdates, Zenon DEF Aside, Is
<1>5. Is([x EXCEPT !.phase = a], x.gen, x.queue, x.polling, x.abandoned, x.work)
  <2> DEFINE y == [x EXCEPT !.phase = a]
  <2>1. y.gen = x.gen /\ y.queue = x.queue /\ y.polling = x.polling /\ y.abandoned = x.abandoned
    BY <1>0, Zenon
  <2>2. Beside(x, y)  BY Zenon DEF Beside
  <2> QED  BY <2>1, <2>2, ProcessUpdates, Zenon DEF Aside, Is
<1>6. Is([x EXCEPT !.phase = a, !.abandoned = b, !.queue = c],
         x.gen, c, x.polling, b, x.work)
  <2> DEFINE y == [x EXCEPT !.phase = a, !.abandoned = b, !.queue = c]
  <2>1. y.gen = x.gen /\ y.queue = c /\ y.polling = x.polling /\ y.abandoned = b
    BY <1>0, Zenon
  <2>2. Beside(x, y)  BY Zenon DEF Beside
  <2> QED  BY <2>1, <2>2, ProcessUpdates, Zenon DEF Aside, Is
<1>7. Is([x EXCEPT !.abandoned = a, !.inflight = b], x.gen, x.queue, x.polling, a, x.work)
  <2> DEFINE y == [x EXCEPT !.abandoned = a, !.inflight = b]
  <2>1. y.gen = x.gen /\ y.queue = x.queue /\ y.polling = x.polling /\ y.abandoned = a
    BY <1>0, Zenon
  <2>2. Beside(x, y)  BY Zenon DEF Beside
  <2> QED  BY <2>1, <2>2, ProcessUpdates, Zenon DEF Aside, Is
<1> QED  BY <1>1, <1>2, <1>3, <1>4, <1>5, <1>6, <1>7, Zenon

\* The updates of a process in a worker's step, field by field.
LEMMA WorkFields ==
    ASSUME NEW x, IsProcess(x), NEW a, NEW v
    PROVE  /\ Is([x EXCEPT !.work = v], x.gen, x.queue, x.polling, x.abandoned, v)
           /\ Is([x EXCEPT !.queue = a, !.work = v], x.gen, a, x.polling, x.abandoned, v)
           /\ Is([x EXCEPT !.inflight = a, !.work = v],
                 x.gen, x.queue, x.polling, x.abandoned, v)
<1>0. PICK F, Q, I, O, P, A, W :
          x \in [phase : F, gen : Nat, queue : Q, inflight : I, owned : O,
                 polling : P, abandoned : A, work : W]
  BY DEF IsProcess
<1>1. Is([x EXCEPT !.work = v], x.gen, x.queue, x.polling, x.abandoned, v)
  <2> DEFINE y == [x EXCEPT !.work = v]
  <2>1. y.gen = x.gen /\ y.queue = x.queue /\ y.polling = x.polling /\ y.abandoned = x.abandoned
    BY <1>0, Zenon
  <2>2. Working(x, y, v)  BY Zenon DEF Working
  <2> QED  BY <2>1, <2>2, WorkUpdates, Zenon DEF Is
<1>2. Is([x EXCEPT !.queue = a, !.work = v], x.gen, a, x.polling, x.abandoned, v)
  <2> DEFINE y == [x EXCEPT !.queue = a, !.work = v]
  <2>1. y.gen = x.gen /\ y.queue = a /\ y.polling = x.polling /\ y.abandoned = x.abandoned
    BY <1>0, Zenon
  <2>2. Working(x, y, v)  BY Zenon DEF Working
  <2> QED  BY <2>1, <2>2, WorkUpdates, Zenon DEF Is
<1>3. Is([x EXCEPT !.inflight = a, !.work = v], x.gen, x.queue, x.polling, x.abandoned, v)
  <2> DEFINE y == [x EXCEPT !.inflight = a, !.work = v]
  <2>1. y.gen = x.gen /\ y.queue = x.queue /\ y.polling = x.polling /\ y.abandoned = x.abandoned
    BY <1>0, Zenon
  <2>2. Working(x, y, v)  BY Zenon DEF Working
  <2> QED  BY <2>1, <2>2, WorkUpdates, Zenon DEF Is
<1> QED  BY <1>1, <1>2, <1>3, Zenon

----------------------------------------------------------------------------
(* Steps that give no new claim.                                           *)

\* A table in which a row keeps its owner or is unlocked.
Loose(t) == IsTable(t) /\ \A e \in Events : t[e].owner \in {rows[e].owner, NoToken}

\* Only a fenced statement unlocks.
FencedBy(t, recs) == Loose(t) /\ \A e \in Events : t[e].owner # rows[e].owner => Fenced(recs, e)

\* The statements of the repository, other than the claim.
LEMMA LooseStatements ==
    ASSUME IsTable(rows), NEW recs
    PROVE  /\ Loose(rows) /\ FencedBy(rows, recs) /\ Loose(Renewed(recs))
           /\ \A e \in Events : Renewed(recs)[e].owner = rows[e].owner
           /\ FencedBy(Released(recs), recs) /\ FencedBy(Published(recs), recs)
           /\ FencedBy(Retried(recs), recs) /\ FencedBy(Quarantined(recs), recs)
<1>0. \A e \in Events : rows[e] \in Row  BY DEF IsTable
<1>1. Loose(rows) /\ FencedBy(rows, recs)  BY DEF Loose, FencedBy
<1>2. Loose(Renewed(recs)) /\ \A e \in Events : Renewed(recs)[e].owner = rows[e].owner
  <2>1. \A e \in Events : LET u == [rows[e] EXCEPT !.lease = TRUE]
                          IN  u \in Row /\ u.owner = rows[e].owner
    BY <1>0, Zenon DEF Row
  <2> QED  BY <1>0, <2>1 DEF Loose, IsTable, Renewed
<1>3. FencedBy(Released(recs), recs)
  <2>1. \A e \in Events : LET u == Unlocked(rows[e]) IN  u \in Row /\ u.owner = NoToken
    BY <1>0, Zenon DEF Row, Unlocked
  <2> QED  BY <1>0, <2>1 DEF FencedBy, Loose, IsTable, Released
<1>4. FencedBy(Published(recs), recs)
  <2>1. \A e \in Events :
            LET u == [Unlocked(rows[e]) EXCEPT !.status = "published", !.due = TRUE]
            IN  u \in Row /\ u.owner = NoToken
    BY <1>0, Zenon DEF Row, Unlocked, Statuses
  <2> QED  BY <1>0, <2>1, Zenon DEF FencedBy, Loose, IsTable, Published
<1>5. FencedBy(Retried(recs), recs)
  <2>1. \A e \in Events :
            LET u == [Unlocked(rows[e]) EXCEPT !.status = "retry", !.due = FALSE]
            IN  u \in Row /\ u.owner = NoToken
    BY <1>0, Zenon DEF Row, Unlocked, Statuses
  <2> QED  BY <1>0, <2>1, Zenon DEF FencedBy, Loose, IsTable, Retried
<1>6. FencedBy(Quarantined(recs), recs)
  <2>1. \A e \in Events :
            LET u == [Unlocked(rows[e]) EXCEPT !.status = "quarantined"]
            IN  u \in Row /\ u.owner = NoToken
    BY <1>0, Zenon DEF Row, Unlocked, Statuses
  <2> QED  BY <1>0, <2>1, Zenon DEF FencedBy, Loose, IsTable, Quarantined
<1> QED  BY <1>1, <1>2, <1>3, <1>4, <1>5, <1>6

\* A step of one relay, of which the others' records stay current.
LEMMA OneProcess ==
    ASSUME FenceInv, IsTable(rows'), claims' \in [Events -> Nat],
           NEW r \in Relays, NEW y, Becomes(r, y), Typed(y),
           \A q \in Relays \ {r} : \A i \in Recs(relay[q]) : Current(q, i)',
           \A i \in Recs(y) : Current(r, i)'
    PROVE  FenceInv'
<1>1. /\ relay' = [q \in Relays |-> relay'[q]] /\ relay'[r] = y
      /\ \A q \in Relays \ {r} : relay'[q] = relay[q]
  BY DEF FenceInv, Becomes
<1>2. \A q \in Relays : Typed(relay'[q])  BY <1>1 DEF FenceInv
<1>3. \A q \in Relays : \A i \in Recs(relay'[q]) : Current(q, i)'  BY <1>1
<1> QED  BY <1>1, <1>2, <1>3 DEF FenceInv

\* A step that locks nothing, and after which the process has no new record.
LEMMA LooseStep ==
    ASSUME FenceInv, Loose(rows'), claims' = claims, NEW r \in Relays, NEW y,
           Becomes(r, y), Typed(y), Recs(y) \subseteq Recs(relay[r]),
           y.gen >= relay[r].gen \/ Recs(y) = {}
    PROVE  FenceInv'
<1>1. /\ relay'[r] = y /\ \A q \in Relays \ {r} : relay'[q] = relay[q]
  BY DEF FenceInv, Becomes
<1>2. \A q \in Relays : relay[q].gen \in Nat  BY DEF FenceInv, Typed, IsProcess
<1>3. y.gen \in Nat  BY DEF Typed, IsProcess
<1>4. ASSUME NEW q \in Relays, NEW i \in Recs(relay[q]), relay'[q].gen >= relay[q].gen,
             relay'[q].gen \in Nat
      PROVE  Current(q, i)'
  <2>1. Current(q, i)  BY <1>4 DEF FenceInv
  <2>2. i.token \in Tokens /\ i.token # NoToken /\ i.id \in Events /\ i.token[2] \in Nat
    BY <2>1, ConstantsAssumption DEF Current, Rec, Tokens
  <2>3. rows'[i.id].owner = i.token => rows[i.id].owner = i.token  BY <2>2 DEF Loose
  <2>4. i.token[2] <= relay'[q].gen  BY <1>2, <1>4, <2>1, <2>2 DEF Current
  <2> QED  BY <2>1, <2>3, <2>4 DEF Current
<1>5. \A q \in Relays \ {r} : \A i \in Recs(relay[q]) : Current(q, i)'  BY <1>1, <1>2, <1>4
<1>6. \A i \in Recs(y) : Current(r, i)'  BY <1>1, <1>3, <1>4
<1>7. IsTable(rows') /\ claims' \in [Events -> Nat]  BY DEF Loose, FenceInv
<1> QED  BY <1>5, <1>6, <1>7, OneProcess

\* A step of the table alone.
LEMMA TableStep ==
    ASSUME FenceInv, Loose(rows'), UNCHANGED <<relay, claims>>
    PROVE  FenceInv'
<1>1. ASSUME NEW q \in Relays, NEW i \in Recs(relay[q]) PROVE Current(q, i)'
  <2>1. Current(q, i)  BY <1>1 DEF FenceInv
  <2>2. i.token \in Tokens /\ i.token # NoToken /\ i.id \in Events
    BY <2>1, ConstantsAssumption DEF Current, Rec, Tokens
  <2>3. rows'[i.id].owner = i.token => rows[i.id].owner = i.token  BY <2>2 DEF Loose
  <2> QED  BY <2>1, <2>3 DEF Current
<1> QED  BY <1>1 DEF FenceInv, Loose

----------------------------------------------------------------------------
(* A new claim.                                                            *)

\* A claim: the new token is above every token the process has used, so no
\* record it or another relay has is of a row the claim takes over.
LEMMA ClaimStep ==
    ASSUME FenceInv, NEW r \in Relays, NEW ids \in SUBSET Events,
           Lock(ids, NextClaimToken(r)), NEW y, Becomes(r, y), Typed(y),
           y.gen = relay[r].gen + 1,
           \A i \in Recs(y) :
              \/ i \in Recs(relay[r])
              \/ /\ i \in Rec /\ i.token = NextClaimToken(r) /\ i.id \in ids
                 /\ i.claim = claims[i.id] + 1
    PROVE  FenceInv'
<1> DEFINE token == NextClaimToken(r)
<1>1. /\ relay'[r] = y /\ \A q \in Relays \ {r} : relay'[q] = relay[q]
  BY DEF FenceInv, Becomes
<1>2. \A q \in Relays : relay[q].gen \in Nat  BY DEF FenceInv, Typed, IsProcess
<1>3. token \in Tokens /\ token[1] = r /\ token[2] = relay[r].gen + 1
  BY <1>2 DEF NextClaimToken, Tokens
<1>4. IsTable(rows')  BY <1>3, LockSafe DEF FenceInv, Safe
<1>5. claims' \in [Events -> Nat] /\ \A e \in Events :
          claims'[e] = IF e \in ids THEN claims[e] + 1 ELSE claims[e]
  <2>1. claims' = [e \in Events |-> claims[e] + (IF e \in ids THEN 1 ELSE 0)]  BY Zenon DEF Lock
  <2>2. \A e \in Events : claims[e] \in Nat  BY DEF FenceInv
  <2>3. \A e \in Events : claims'[e] = IF e \in ids THEN claims[e] + 1 ELSE claims[e]
    BY <2>1, <2>2
  <2>4. \A e \in Events : claims'[e] \in Nat  BY <2>2, <2>3
  <2> QED  BY <2>1, <2>3, <2>4, Zenon
<1>6. \A e \in Events : rows'[e].owner = IF e \in ids THEN token ELSE rows[e].owner
  <2>1. \A e \in Events : [rows[e] EXCEPT !.owner = token, !.lease = TRUE].owner = token
    BY Zenon DEF FenceInv, IsTable, Row
  <2> HIDE DEF token
  <2> QED  BY <2>1, Zenon DEF Lock, token
<1> HIDE DEF token
<1>7. ASSUME NEW q \in Relays, NEW i \in Recs(relay[q])
      PROVE  Current(q, i)'
  <2>1. Current(q, i)  BY <1>7 DEF FenceInv
  <2>2. i.id \in Events /\ i.token \in Tokens /\ i.token[2] \in Nat
    BY <2>1 DEF Current, Rec, Tokens
  <2>3. i.token # token  BY <1>2, <1>3, <2>1, <2>2 DEF Current
  <2>4. rows'[i.id].owner = i.token => rows[i.id].owner = i.token /\ claims'[i.id] = claims[i.id]
    BY <1>5, <1>6, <2>2, <2>3
  <2>5. i.token[2] <= relay'[q].gen  BY <1>1, <1>2, <2>1, <2>2 DEF Current
  <2> QED  BY <2>1, <2>4, <2>5 DEF Current
<1>8. ASSUME NEW i \in Rec, i.token = token, i.id \in ids, i.claim = claims[i.id] + 1
      PROVE  Current(r, i)'
  <2>1. i.token[1] = r /\ i.token[2] <= relay'[r].gen  BY <1>1, <1>2, <1>3, <1>8
  <2>2. i.claim = claims'[i.id]  BY <1>5, <1>8 DEF Rec
  <2> QED  BY <1>8, <2>1, <2>2 DEF Current
<1>9. \A i \in Recs(y) : Current(r, i)'  BY <1>7, <1>8 DEF token
<1> QED  BY <1>4, <1>5, <1>7, <1>9, OneProcess

\* A process by its fields.
LEMMA FieldsTyped ==
    ASSUME NEW y, NEW g, NEW q \in Seq(Rec), NEW p, NEW a \in Seq(Rec), NEW f,
           Is(y, g, q, p, a, f), Polling(p), AtWorks(f)
    PROVE  Typed(y) /\ y.gen = g /\ Recs(y) = RecsOf(q, p, a, f)
  BY DEF Is, Typed, Recs

\* The poll thread's records.
LEMMA PollingOf ==
    ASSUME NEW c, NEW n, NEW s \in Seq(Rec)
    PROVE  Polling([pc |-> c, limit |-> n, recs |-> s])
<1> DEFINE Pl(P, L) == [pc : P, limit : L, recs : Seq(Rec)]
           p == [pc |-> c, limit |-> n, recs |-> s]
<1>1. p \in Pl({c}, {n})  OBVIOUS
<1> HIDE DEF p
<1>2. \E P, L : p \in Pl(P, L)
  <2> HIDE DEF Pl
  <2> QED  BY <1>1
<1> QED  BY <1>2 DEF Polling, p

\* The poll thread ends its round, with or without its records.
LEMMA PollingEnds ==
    ASSUME NEW p, Polling(p), NEW c
    PROVE  /\ p.recs \in Seq(Rec)
           /\ Polling([p EXCEPT !.pc = c]) /\ [p EXCEPT !.pc = c].recs = p.recs
           /\ Polling([p EXCEPT !.pc = c, !.recs = <<>>])
           /\ [p EXCEPT !.pc = c, !.recs = <<>>].recs = <<>>
<1> DEFINE Pl(P, L) == [pc : P, limit : L, recs : Seq(Rec)]
           p1 == [p EXCEPT !.pc = c]
           p2 == [p EXCEPT !.pc = c, !.recs = <<>>]
<1>0. PICK P, L : p \in Pl(P, L)  BY DEF Polling
<1>e. <<>> \in Seq(Rec)  OBVIOUS
<1>1. p1 \in Pl({c}, L) /\ p1.recs = p.recs /\ p.recs \in Seq(Rec)  BY <1>0, Zenon
<1>2. p2 \in Pl({c}, L) /\ p2.recs = <<>>  BY <1>0, <1>e, Zenon
<1>3. \A x, P1, L1 : x \in Pl(P1, L1) => Polling(x)  BY DEF Polling
<1> HIDE DEF Pl, p1, p2
<1>4. Polling(p1) /\ Polling(p2)  BY <1>1, <1>2, <1>3
<1> QED  BY <1>1, <1>2, <1>4 DEF p1, p2

----------------------------------------------------------------------------
(* Every step keeps the records current.                                   *)

\* What the invariant says of one relay.
LEMMA RelayTyped ==
    ASSUME FenceInv, NEW r \in Relays
    PROVE  /\ IsTable(rows) /\ IsProcess(relay[r]) /\ relay[r].gen \in Nat
           /\ relay[r].queue \in Seq(Rec) /\ relay[r].abandoned \in Seq(Rec)
           /\ Polling(relay[r].polling) /\ AtWorks(relay[r].work)
  BY DEF FenceInv, Typed, IsProcess

\* The poll reads its capacity, or admits the records of its claim.
LEMMA PollFence ==
    ASSUME FenceInv, NEW r \in Relays, PollRead(r) \/ Admit(r)
    PROVE  FenceInv'
<1> DEFINE x == relay[r]
<1>0. /\ IsTable(rows) /\ IsProcess(x) /\ x.gen \in Nat /\ x.queue \in Seq(Rec)
      /\ x.abandoned \in Seq(Rec) /\ Polling(x.polling) /\ AtWorks(x.work)
  BY RelayTyped, Zenon
<1>1. Loose(rows') /\ claims' = claims  BY <1>0, LooseStatements DEF PollRead, Admit, Loose
<1>e. <<>> \in Seq(Rec) /\ Range(<<>>) = {}  BY DEF Range
<1>2. CASE PollRead(r)
  <2>1. PICK n : Becomes(r, [x EXCEPT !.polling = [pc |-> "claim", limit |-> n, recs |-> <<>>]])
    BY <1>2, Zenon DEF PollRead
  <2> DEFINE p == [pc |-> "claim", limit |-> n, recs |-> <<>>]
             y == [x EXCEPT !.polling = p]
  <2>2. Polling(p) /\ p.recs = <<>>  BY <1>e, PollingOf, Zenon
  <2>3. Becomes(r, y)  BY <2>1
  <2> HIDE DEF p
  <2>4. Is(y, x.gen, x.queue, p, x.abandoned, x.work)  BY <1>0, BesideFields, Zenon
  <2> HIDE DEF y
  <2>5. Typed(y) /\ y.gen = x.gen /\ Recs(y) = RecsOf(x.queue, p, x.abandoned, x.work)
    BY <1>0, <2>2, <2>4, FieldsTyped, Zenon
  <2>6. Recs(y) \subseteq Recs(x)  BY <1>e, <2>2, <2>5 DEF Recs, RecsOf
  <2>7. y.gen >= x.gen  BY <1>0, <2>5
  <2> QED  BY <1>1, <2>3, <2>5, <2>6, <2>7, LooseStep
<1>3. CASE Admit(r)
  <2> DEFINE q == x.queue \o x.polling.recs
             p == [x.polling EXCEPT !.pc = "read", !.recs = <<>>]
  <2>1. PICK a : Becomes(r, [x EXCEPT !.inflight = a, !.queue = q, !.polling = p])
    BY <1>3, Zenon DEF Admit
  <2> DEFINE y == [x EXCEPT !.inflight = a, !.queue = q, !.polling = p]
  <2>2. Polling(p) /\ p.recs = <<>> /\ x.polling.recs \in Seq(Rec)  BY <1>0, PollingEnds, Zenon
  <2>3. q \in Seq(Rec) /\ Range(q) \subseteq Range(x.queue) \cup Range(x.polling.recs)
    BY <1>0, <2>2, RangeConcat
  <2> HIDE DEF p, q
  <2>4. Is(y, x.gen, q, p, x.abandoned, x.work)  BY <1>0, BesideFields, Zenon
  <2>t. Becomes(r, y)  BY <2>1
  <2> HIDE DEF y
  <2>5. Typed(y) /\ y.gen = x.gen /\ Recs(y) = RecsOf(q, p, x.abandoned, x.work)
    BY <1>0, <2>2, <2>3, <2>4, FieldsTyped, Zenon
  <2>6. Recs(y) \subseteq Recs(x)  BY <1>e, <2>2, <2>3, <2>5 DEF Recs, RecsOf
  <2>7. y.gen >= x.gen  BY <1>0, <2>5
  <2> QED  BY <1>1, <2>t, <2>5, <2>6, <2>7, LooseStep
<1> QED  BY <1>2, <1>3

\* A claim of nothing locks nothing.
LEMMA LockNothing ==
    ASSUME FenceInv, NEW token, Lock({}, token)
    PROVE  rows' = rows /\ claims' = claims
<1>1. rows' = [e \in Events |-> rows[e]] /\ claims' = [e \in Events |-> claims[e] + 0]
  BY DEF Lock
<1>2. \A e \in Events : claims[e] + 0 = claims[e]  BY DEF FenceInv
<1> QED  BY <1>1, <1>2 DEF FenceInv, IsTable

\* The claim: its records are the only ones with the new token.
LEMMA ClaimFence ==
    ASSUME FenceInv, NEW r \in Relays, ClaimBatch(r)
    PROVE  FenceInv'
<1> DEFINE x == relay[r]
           ids == Ready(x.polling.limit)
           token == NextClaimToken(r)
           g == IF ids = {} THEN x.gen ELSE x.gen + 1
           c == IF ids = {} THEN "read" ELSE "admit"
<1>0. /\ IsTable(rows) /\ IsProcess(x) /\ x.gen \in Nat /\ x.queue \in Seq(Rec)
      /\ x.abandoned \in Seq(Rec) /\ Polling(x.polling) /\ AtWorks(x.work)
  BY RelayTyped
<1>1. ids \in SUBSET Events  BY DEF Ready
<1>2. token \in Tokens  BY <1>0 DEF NextClaimToken, Tokens
<1>3. Lock(ids, token)  BY DEF ClaimBatch
<1>4. PICK n \in 0 .. BatchSize : \E s \in [1 .. n -> ids] :
          Becomes(r, [x EXCEPT !.gen = g,
             !.polling = [pc |-> c, limit |-> x.polling.limit,
                recs |-> [i \in 1 .. n |-> [id |-> s[i], token |-> token,
                                            claim |-> claims[s[i]] + 1]]]])
  BY Zenon DEF ClaimBatch
<1>s. PICK s \in [1 .. n -> ids] :
          Becomes(r, [x EXCEPT !.gen = g,
             !.polling = [pc |-> c, limit |-> x.polling.limit,
                recs |-> [i \in 1 .. n |-> [id |-> s[i], token |-> token,
                                            claim |-> claims[s[i]] + 1]]]])
  BY <1>4, Zenon
<1>n. n \in Nat  BY <1>4, ConstantsAssumption
<1> DEFINE recs == [i \in 1 .. n |-> [id |-> s[i], token |-> token, claim |-> claims[s[i]] + 1]]
           p == [pc |-> c, limit |-> x.polling.limit, recs |-> recs]
           y == [x EXCEPT !.gen = g, !.polling = p]
<1>5. Becomes(r, y)  BY <1>s
<1>6. g \in Nat /\ (ids # {} => g = x.gen + 1) /\ (ids = {} => g = x.gen)  BY <1>0
<1> HIDE DEF ids, token, g, c
<1>7. \A i \in 1 .. n : s[i] \in ids /\ s[i] \in Events /\ claims[s[i]] \in Nat
  BY <1>1, <1>s DEF FenceInv
<1>8. \A i \in 1 .. n : /\ recs[i] \in Rec /\ recs[i].token = token /\ recs[i].id \in ids
                        /\ recs[i].claim = claims[recs[i].id] + 1
  BY <1>2, <1>7 DEF Rec
<1>9. recs \in Seq(Rec) /\ Len(recs) = n /\ DOMAIN recs = 1 .. n  BY <1>n, <1>8
<1> HIDE DEF recs
<1>10. \A i \in Range(recs) : /\ i \in Rec /\ i.token = token /\ i.id \in ids
                              /\ i.claim = claims[i.id] + 1
  BY <1>8, <1>9 DEF Range
<1>11. Polling(p) /\ p.recs = recs  BY <1>9, PollingOf
<1> HIDE DEF p
<1>12. Is(y, g, x.queue, p, x.abandoned, x.work)  BY <1>0, <1>6, BesideFields, Zenon
<1> HIDE DEF y
<1>13. Typed(y) /\ y.gen = g /\ Recs(y) = RecsOf(x.queue, p, x.abandoned, x.work)
  BY <1>0, <1>11, <1>12, FieldsTyped, Zenon
<1>14. \A i \in Recs(y) : i \in Recs(x) \/ i \in Range(recs)
  BY <1>11, <1>13 DEF Recs, RecsOf
<1>15. CASE ids = {}
  <2>1. rows' = rows /\ claims' = claims  BY <1>3, <1>15, LockNothing
  <2>2. Loose(rows')  BY <1>0, <2>1, LooseStatements DEF Loose
  <2>3. Recs(y) \subseteq Recs(x)  BY <1>10, <1>14, <1>15, Zenon
  <2>4. y.gen >= x.gen  BY <1>0, <1>6, <1>13, <1>15
  <2> QED  BY <1>5, <1>13, <2>1, <2>2, <2>3, <2>4, LooseStep
<1>16. CASE ids # {}
  <2>1. y.gen = relay[r].gen + 1  BY <1>6, <1>13, <1>16
  <2> QED  BY <1>1, <1>3, <1>5, <1>10, <1>13, <1>14, <2>1, ClaimStep DEF token
<1> QED  BY <1>15, <1>16

\* A failed claim, which may have locked rows nobody will work on.
LEMMA ClaimFailsFence ==
    ASSUME FenceInv, NEW r \in Relays, ClaimFails(r)
    PROVE  FenceInv'
<1> DEFINE x == relay[r]
           ids == Ready(x.polling.limit)
           p == [x.polling EXCEPT !.pc = "read"]
           g == x.gen + 1
           y == [x EXCEPT !.gen = g, !.polling = p]
<1>0. /\ IsTable(rows) /\ IsProcess(x) /\ x.gen \in Nat /\ x.queue \in Seq(Rec)
      /\ x.abandoned \in Seq(Rec) /\ Polling(x.polling) /\ AtWorks(x.work)
  BY RelayTyped
<1>1. ids \in SUBSET Events  BY DEF Ready
<1>2. Becomes(r, y)  BY Zenon DEF ClaimFails
<1>3. UNCHANGED <<rows, claims>> \/ Lock(ids, NextClaimToken(r))  BY Zenon DEF ClaimFails
<1>4. Polling(p) /\ p.recs = x.polling.recs  BY <1>0, PollingEnds, Zenon
<1>5. g \in Nat /\ g >= x.gen  BY <1>0
<1> HIDE DEF p, ids, g
<1>6. Is(y, g, x.queue, p, x.abandoned, x.work)  BY <1>0, <1>5, BesideFields, Zenon
<1> HIDE DEF y
<1>7. Typed(y) /\ y.gen = g /\ Recs(y) = RecsOf(x.queue, p, x.abandoned, x.work)
  BY <1>0, <1>4, <1>6 DEF Is, Typed, Recs
<1>8. Recs(y) = Recs(x)  BY <1>4, <1>7 DEF Recs, RecsOf
<1>9. CASE UNCHANGED <<rows, claims>>
  <2>1. Loose(rows')  BY <1>0, <1>9, LooseStatements DEF Loose
  <2> QED  BY <1>2, <1>5, <1>7, <1>8, <1>9, <2>1, LooseStep
<1>10. CASE Lock(ids, NextClaimToken(r))
  <2>1. y.gen = relay[r].gen + 1  BY <1>7 DEF g
  <2> QED  BY <1>1, <1>2, <1>7, <1>8, <1>10, <2>1, ClaimStep
<1> QED  BY <1>3, <1>9, <1>10

\* A worker that is at a record, and only changes its pc or its position.
LEMMA WorkOnAt ==
    ASSUME NEW x, AtWork(x), NEW n \in 1 .. Len(x.items), NEW c
    PROVE  /\ x.pc # "idle" => AtWork([x EXCEPT !.pc = c])
           /\ [x EXCEPT !.pc = c].items = x.items /\ [x EXCEPT !.pc = c].pc = c
           /\ AtWork([x EXCEPT !.pos = n]) /\ [x EXCEPT !.pos = n].items = x.items
<1> DEFINE Wk(P) == [pc : P, items : Seq(Rec), pos : Nat, ok : Seq(Rec)]
           y == [x EXCEPT !.pc = c]
           z == [x EXCEPT !.pos = n]
<1>0. PICK P : x \in Wk(P)  BY DEF AtWork
<1>1. n \in Nat  BY <1>0
<1>2. y \in Wk({c}) /\ y.items = x.items /\ y.pc = c /\ y.pos = x.pos /\ y.ok = x.ok
  BY <1>0, Zenon
<1>3. z \in Wk(P) /\ z.items = x.items /\ z.pos = n /\ z.ok = x.ok  BY <1>0, <1>1, Zenon
<1> HIDE DEF y, z
<1>4. (\E P1 : y \in Wk(P1)) /\ (\E P1 : z \in Wk(P1))
  <2> HIDE DEF Wk
  <2> QED  BY <1>2, <1>3
<1>5. AtWork(z)  BY <1>3, <1>4 DEF AtWork
<1>6. x.pc # "idle" => AtWork(y)  BY <1>2, <1>4 DEF AtWork
<1> QED  BY <1>2, <1>3, <1>5, <1>6 DEF y, z

\* A worker with a fresh batch, and one without any.
LEMMA WorkBegins ==
    ASSUME NEW s \in Seq(Rec)
    PROVE  /\ AtWork(Idle) /\ Range(Idle.items) = {}
           /\ Len(s) >= 1 => AtWork([pc |-> "item", items |-> s, pos |-> 1, ok |-> <<>>])
<1> DEFINE Wk(P) == [pc : P, items : Seq(Rec), pos : Nat, ok : Seq(Rec)]
           y == [pc |-> "item", items |-> s, pos |-> 1, ok |-> <<>>]
<1>1. y \in Wk({"item"}) /\ y.items = s /\ y.pos = 1 /\ y.ok = <<>>  OBVIOUS
<1>2. Idle \in Wk({"idle"}) /\ Idle.items = <<>> /\ Idle.ok = <<>> /\ Idle.pc = "idle"
  BY DEF Idle
<1> HIDE DEF y
<1>3. (\E P : y \in Wk(P)) /\ (\E P : Idle \in Wk(P))
  <2> HIDE DEF Wk
  <2> QED  BY <1>1, <1>2
<1>4. Range(<<>>) = {}  BY DEF Range
<1>5. AtWork(Idle)  BY <1>2, <1>3 DEF AtWork
<1>6. Len(s) >= 1 => AtWork(y)  BY <1>1, <1>3 DEF AtWork
<1> QED  BY <1>2, <1>4, <1>5, <1>6 DEF y

\* A worker's step: what it works on afterwards it had, or took from the queue.
LEMMA WorkFence ==
    ASSUME FenceInv, Loose(rows'), claims' = claims, NEW r \in Relays,
           NEW w \in Workers, NEW u, AtWork(u), NEW q \in Seq(Rec), NEW z,
           Becomes(r, z),
           Is(z, relay[r].gen, q, relay[r].polling, relay[r].abandoned,
              [relay[r].work EXCEPT ![w] = u]),
           Range(q) \subseteq Range(relay[r].queue),
           Range(u.items) \subseteq Range(relay[r].queue) \cup Range(relay[r].work[w].items)
    PROVE  FenceInv' /\ relay'[r] = z /\ relay'[r].work[w] = u
<1> DEFINE x == relay[r]
           f == x.work
           v == [f EXCEPT ![w] = u]
<1>0. /\ x.gen \in Nat /\ x.queue \in Seq(Rec) /\ x.abandoned \in Seq(Rec)
      /\ Polling(x.polling) /\ AtWorks(f)
  BY RelayTyped
<1>1. Is(z, x.gen, q, x.polling, x.abandoned, v)  OBVIOUS
<1> HIDE DEF f
<1>2. v = [i \in Workers |-> v[i]] /\ \A i \in Workers : v[i] = IF i = w THEN u ELSE f[i]
  BY <1>0 DEF AtWorks
<1> HIDE DEF v
<1>3. AtWorks(v)  BY <1>0, <1>2, Zenon DEF AtWorks
<1>4. Batches(v) \subseteq Batches(f) \cup Range(x.queue)
  <2> SUFFICES ASSUME NEW i \in Batches(v) PROVE i \in Batches(f) \cup Range(x.queue)
    OBVIOUS
  <2>1. PICK t \in Workers : i \in Range(v[t].items)  BY DEF Batches
  <2>2. CASE t = w
    <3>1. i \in Range(x.queue) \/ i \in Range(f[w].items)  BY <1>2, <2>1, <2>2 DEF f
    <3> QED  BY <3>1 DEF Batches
  <2>3. CASE t # w  BY <1>2, <2>1, <2>3, Zenon DEF Batches
  <2> QED  BY <2>2, <2>3
<1>5. Typed(z) /\ z.gen = x.gen /\ Recs(z) = RecsOf(q, x.polling, x.abandoned, v)
  <2> HIDE DEF x
  <2> QED  BY <1>0, <1>1, <1>3, FieldsTyped
<1>6. Recs(z) \subseteq Recs(x)  BY <1>4, <1>5, Zenon DEF Recs, RecsOf, f
<1>7. z.gen >= x.gen  BY <1>0, <1>5
<1>8. FenceInv'  BY <1>5, <1>6, <1>7, LooseStep
<1>9. relay'[r] = z  BY DEF Becomes, FenceInv
<1>10. z.work[w] = u  BY <1>1, <1>2, Zenon DEF Is
<1> QED  BY <1>8, <1>9, <1>10, Zenon

\* Where a worker is.
LEMMA WorkerAt ==
    ASSUME FenceInv, NEW r \in Relays, NEW w \in Workers
    PROVE  LET x == relay[r].work[w]
           IN  /\ AtWork(x) /\ x.items \in Seq(Rec) /\ x.ok \in Seq(Rec) /\ x.pos \in Nat
               /\ \A k \in 1 .. Len(x.ok) : x.ok[k] \in Range(x.items)
               /\ x.pc # "idle" => /\ x.pos \in 1 .. Len(x.items)
                                   /\ Item(r, w) \in Rec /\ Item(r, w) \in Range(x.items)
               /\ Range(x.items) \subseteq Recs(relay[r])
<1> DEFINE x == relay[r].work[w]
<1>1. AtWork(x)  BY RelayTyped, Zenon DEF AtWorks
<1>2. Item(r, w) = x.items[x.pos]  BY DEF Item, Worker
<1>3. Range(x.items) \subseteq Recs(relay[r])  BY DEF Recs, RecsOf, Batches
<1> HIDE DEF x
<1>4. /\ x.items \in Seq(Rec) /\ x.ok \in Seq(Rec) /\ x.pos \in Nat
      /\ x.pc # "idle" => x.pos \in 1 .. Len(x.items)
      /\ \A k \in 1 .. Len(x.ok) : x.ok[k] \in Range(x.items)
  BY <1>1 DEF AtWork
<1>5. x.pc # "idle" => Item(r, w) \in Rec /\ Item(r, w) \in Range(x.items)
  BY <1>2, <1>4, RangeOf
<1> QED  BY <1>1, <1>3, <1>4, <1>5 DEF x

\* A worker takes a batch from the queue.
LEMMA TakeFence ==
    ASSUME FenceInv, NEW r \in Relays, NEW w \in Workers, Take(r, w)
    PROVE  FenceInv'
<1> DEFINE x == relay[r]
           n == IF Len(x.queue) < PublishBatchSize THEN Len(x.queue) ELSE PublishBatchSize
           s == SubSeq(x.queue, 1, n)
           a == SubSeq(x.queue, n + 1, Len(x.queue))
           u == [pc |-> "item", items |-> s, pos |-> 1, ok |-> <<>>]
           v == [x.work EXCEPT ![w] = u]
           z == [x EXCEPT !.queue = a, !.work = v]
<1>0. IsTable(rows) /\ IsProcess(x) /\ x.queue \in Seq(Rec)  BY RelayTyped
<1>1. Loose(rows') /\ claims' = claims  BY <1>0, LooseStatements DEF Take, Loose
<1>2. Becomes(r, z)  BY DEF Take
<1>3. n \in 1 .. Len(x.queue)  BY <1>0, ConstantsAssumption DEF Take
<1> HIDE DEF n
<1>4. /\ s \in Seq(Rec) /\ Range(s) \subseteq Range(x.queue) /\ Len(s) >= 1
      /\ a \in Seq(Rec) /\ Range(a) \subseteq Range(x.queue)
  <2>1. /\ 1 \in 1 .. Len(x.queue) + 1 /\ n \in 0 .. Len(x.queue)
        /\ n + 1 \in 1 .. Len(x.queue) + 1 /\ Len(x.queue) \in 0 .. Len(x.queue)
        /\ 1 <= n /\ n - 1 + 1 >= 1
    BY <1>0, <1>3
  <2>2. s \in Seq(Rec) /\ Range(s) \subseteq Range(x.queue) /\ Len(s) = n - 1 + 1
    BY <1>0, <2>1, RangeSub
  <2>3. a \in Seq(Rec) /\ Range(a) \subseteq Range(x.queue)  BY <1>0, <2>1, RangeSub, Zenon
  <2> HIDE DEF s, a
  <2> QED  BY <2>1, <2>2, <2>3
<1> HIDE DEF s, a
<1>5. AtWork(u) /\ u.items = s  BY <1>4, WorkBegins
<1> HIDE DEF u
<1>6. Is(z, x.gen, a, x.polling, x.abandoned, v)  BY <1>0, WorkFields, Zenon
<1>7. Range(u.items) \subseteq Range(x.queue) \cup Range(x.work[w].items)  BY <1>4, <1>5
<1> HIDE DEF z
<1> QED  BY <1>1, <1>2, <1>4, <1>5, <1>6, <1>7, WorkFence, Zenon

\* A worker that is through with a record goes on or marks its batch.
LEMMA ThroughFence ==
    ASSUME FenceInv, Loose(rows'), claims' = claims, NEW r \in Relays,
           NEW w \in Workers, NEW ok \in Seq(Rec), Through(r, w, ok),
           \A k \in 1 .. Len(ok) : ok[k] \in Range(relay[r].work[w].items),
           relay[r].work[w].pc \in {"item", "retry", "quarantine"}
    PROVE  FenceInv' /\ relay'[r].work[w] # relay[r].work[w]
<1> DEFINE x == relay[r]
           o == x.work[w]
           last == o.pos = Len(o.items)
           c == IF last THEN "mark" ELSE "item"
           n == IF last THEN 1 ELSE o.pos + 1
           u == [o EXCEPT !.pc = c, !.pos = n, !.ok = ok]
           v == [x.work EXCEPT ![w] = u]
           z == [x EXCEPT !.work = v]
<1>0. IsProcess(x) /\ x.queue \in Seq(Rec)  BY RelayTyped, Zenon
<1>1. AtWork(o) /\ o.items \in Seq(Rec) /\ o.pos \in Nat /\ o.pos \in 1 .. Len(o.items)
  BY WorkerAt
<1>2. Becomes(r, z)  BY Zenon DEF Through, Worker
<1>o. \A k \in 1 .. Len(ok) : ok[k] \in Range(o.items)  OBVIOUS
<1>p. o.pc # "mark"  OBVIOUS
<1> HIDE DEF o
<1>3. n \in 1 .. Len(o.items) /\ (c # "mark" => n # o.pos)  BY <1>1
<1> HIDE DEF c, n
<1>4. AtWork(u) /\ u.items = o.items /\ u.pc = c /\ u.pos = n
  <2> DEFINE Wk(P) == [pc : P, items : Seq(Rec), pos : Nat, ok : Seq(Rec)]
  <2>0. PICK P : o \in Wk(P)  BY <1>1 DEF AtWork
  <2>1. n \in Nat  BY <1>1, <1>3
  <2>2. u \in Wk({c}) /\ u.items = o.items /\ u.pc = c /\ u.pos = n /\ u.ok = ok
    BY <2>0, <2>1, Zenon
  <2> HIDE DEF u
  <2>3. \E P1 : u \in Wk(P1)
    <3> HIDE DEF Wk
    <3> QED  BY <2>2
  <2>4. AtWork(u)  BY <1>o, <1>3, <2>2, <2>3, Zenon DEF AtWork
  <2> QED  BY <2>2, <2>4
<1> HIDE DEF u
<1>5. u # o  BY <1>p, <1>3, <1>4
<1>6. Is(z, x.gen, x.queue, x.polling, x.abandoned, v)  BY <1>0, WorkFields, Zenon
<1>7. Range(u.items) \subseteq Range(x.queue) \cup Range(x.work[w].items)  BY <1>4, Zenon DEF o
<1> HIDE DEF z
<1>8. AtWork(u) /\ Range(x.queue) \subseteq Range(x.queue)  BY <1>4
<1>9. FenceInv' /\ relay'[r].work[w] = u
  BY <1>0, <1>2, <1>6, <1>7, <1>8, WorkFence, Zenon
<1> QED  BY <1>5, <1>9 DEF o

\* A worker that changes its pc only.
LEMMA PcFence ==
    ASSUME FenceInv, Loose(rows'), claims' = claims, NEW r \in Relays,
           NEW w \in Workers, NEW c, relay[r].work[w].pc # "idle",
           Becomes(r, [relay[r] EXCEPT !.work[w].pc = c])
    PROVE  FenceInv' /\ relay'[r].work[w].pc = c
<1> DEFINE x == relay[r]
           o == x.work[w]
           u == [o EXCEPT !.pc = c]
           v == [x.work EXCEPT ![w] = u]
           z == [x EXCEPT !.work = v]
<1>0. IsProcess(x) /\ x.queue \in Seq(Rec)  BY RelayTyped, Zenon
<1>1. AtWork(o) /\ o.pos \in 1 .. Len(o.items) /\ o.pc # "idle"  BY WorkerAt
<1>2. Becomes(r, z)  OBVIOUS
<1> HIDE DEF o
<1>4. AtWork(u) /\ u.items = o.items /\ u.pc = c  BY <1>1, WorkOnAt, Zenon
<1> HIDE DEF u
<1>6. Is(z, x.gen, x.queue, x.polling, x.abandoned, v)  BY <1>0, WorkFields, Zenon
<1>7. Range(u.items) \subseteq Range(x.queue) \cup Range(x.work[w].items)  BY <1>4 DEF o
<1> HIDE DEF z
<1>8. FenceInv' /\ relay'[r].work[w] = u  BY <1>0, <1>2, <1>4, <1>6, <1>7, WorkFence
<1> QED  BY <1>4, <1>8

\* The broker's answer to a record.
LEMMA PublishFence ==
    ASSUME FenceInv, NEW r \in Relays, NEW w \in Workers, Publish(r, w)
    PROVE  FenceInv'
<1> DEFINE o == relay[r].work[w]
           i == Item(r, w)
           s == Append(o.ok, i)
<1>0. IsTable(rows)  BY RelayTyped
<1>1. Loose(rows') /\ claims' = claims  BY <1>0, LooseStatements DEF Publish, Loose
<1>2. o.pc = "item"  BY Zenon DEF Publish, Worker
<1>3. /\ o.ok \in Seq(Rec) /\ i \in Rec /\ i \in Range(o.items)
      /\ \A k \in 1 .. Len(o.ok) : o.ok[k] \in Range(o.items)
  BY <1>2, WorkerAt
<1>4. \/ Through(r, w, s)
      \/ \E c : Becomes(r, [relay[r] EXCEPT !.work[w].pc = c])
  BY Zenon DEF Publish, Worker
<1> HIDE DEF i
<1>5. s \in Seq(Rec) /\ \A k \in 1 .. Len(s) : s[k] \in Range(o.items)
  <2> HIDE DEF o
  <2>1. /\ s \in Seq(Rec) /\ Len(s) = Len(o.ok) + 1
        /\ \A k \in 1 .. Len(o.ok) + 1 : s[k] = IF k = Len(o.ok) + 1 THEN i ELSE o.ok[k]
    BY <1>3
  <2> QED  BY <1>3, <2>1
<1> HIDE DEF s
<1>6. CASE Through(r, w, s)  BY <1>1, <1>2, <1>5, <1>6, ThroughFence
<1>7. ASSUME NEW c, Becomes(r, [relay[r] EXCEPT !.work[w].pc = c]) PROVE FenceInv'
  BY <1>1, <1>2, <1>7, PcFence, Zenon
<1> QED  BY <1>4, <1>6, <1>7, Zenon

\* FinishRecord: the worker goes to its next record or is idle.
LEMMA FinishFence ==
    ASSUME FenceInv, NEW r \in Relays, NEW w \in Workers, FinishRecord(r, w)
    PROVE  FenceInv'
<1> DEFINE x == relay[r]
           o == x.work[w]
           a == Untrack(x.inflight, Item(r, w).id)
           n == o.pos + 1
           u == IF o.pos = Len(o.items) THEN Idle ELSE [o EXCEPT !.pos = n]
           v == [x.work EXCEPT ![w] = u]
           z == [x EXCEPT !.inflight = a, !.work = v]
<1>0. IsTable(rows) /\ IsProcess(x) /\ x.queue \in Seq(Rec)  BY RelayTyped
<1>1. Loose(rows') /\ claims' = claims  BY <1>0, LooseStatements DEF FinishRecord, Loose
<1>2. Becomes(r, z)  BY Zenon DEF FinishRecord, Worker
<1>3. /\ AtWork(o) /\ o.items \in Seq(Rec) /\ o.pos \in 1 .. Len(o.items)
  BY WorkerAt DEF FinishRecord, Worker
<1> HIDE DEF a, o
<1>4. AtWork(Idle) /\ Range(Idle.items) = {}  BY <1>3, WorkBegins, Zenon
<1>5. AtWork(u) /\ Range(u.items) \subseteq Range(o.items)
  <2>1. CASE o.pos = Len(o.items)  BY <1>4, <2>1
  <2>2. CASE o.pos # Len(o.items)
    <3>1. n \in 1 .. Len(o.items)  BY <1>3, <2>2
    <3> HIDE DEF n
    <3>2. AtWork([o EXCEPT !.pos = n]) /\ [o EXCEPT !.pos = n].items = o.items
      BY <1>3, <3>1, WorkOnAt, Zenon
    <3> QED  BY <2>2, <3>2
  <2> QED  BY <2>1, <2>2
<1> HIDE DEF u
<1>6. Is(z, x.gen, x.queue, x.polling, x.abandoned, v)  BY <1>0, WorkFields, Zenon
<1>7. Range(u.items) \subseteq Range(x.queue) \cup Range(x.work[w].items)  BY <1>5 DEF o
<1> HIDE DEF z
<1> QED  BY <1>0, <1>1, <1>2, <1>5, <1>6, <1>7, WorkFence, Zenon

----------------------------------------------------------------------------
(* What a step does to a row under a live lease.                           *)

\* The step property of LiveClaimFenced, for one row.
LiveRow(e) ==
    rows[e].lease /\ rows'[e].owner # rows[e].owner =>
        \E r \in Relays :
            /\ relay'[r] # relay[r]
            /\ \/ \E w \in Workers :
                     /\ relay'[r].work[w] # relay[r].work[w]
                     /\ \E i \in Range(Worker(r, w).items) : Holds(i, e)
               \/ /\ relay[r].abandoned # <<>>
                  /\ Holds(Head(relay[r].abandoned), e)

\* A record whose token is on its row holds the row's latest claim.
LEMMA TokenHolds ==
    ASSUME FenceInv, NEW r \in Relays, NEW i \in Recs(relay[r]), NEW e \in Events,
           i.id = e, rows[e].owner = i.token
    PROVE  Holds(i, e)
  BY DEF FenceInv, Current, Holds

\* MarkRetry and MarkQuarantined of the worker's record.
LEMMA SettleFence ==
    ASSUME FenceInv, NEW r \in Relays, NEW w \in Workers, Settle(r, w)
    PROVE  FenceInv' /\ \A e \in Events : LiveRow(e)
<1> DEFINE o == relay[r].work[w]
           i == Item(r, w)
<1>0. IsTable(rows)  BY RelayTyped
<1>1. FencedBy(rows', <<i>>) /\ claims' = claims
  BY <1>0, LooseStatements DEF Settle, Settled, FencedBy, Loose
<1>2. Loose(rows')  BY <1>1 DEF FencedBy
<1>3. o.pc \in {"item", "retry", "quarantine"}  BY Zenon DEF Settle, Worker
<1>4. /\ o.ok \in Seq(Rec) /\ \A k \in 1 .. Len(o.ok) : o.ok[k] \in Range(o.items)
      /\ i \in Range(o.items) /\ Range(o.items) \subseteq Recs(relay[r])
  BY <1>3, WorkerAt, Zenon
<1>5. Through(r, w, o.ok)  BY Zenon DEF Settle, Worker
<1>6. FenceInv' /\ relay'[r].work[w] # o  BY <1>1, <1>2, <1>3, <1>4, <1>5, ThroughFence, Zenon
<1>7. ASSUME NEW e \in Events, rows'[e].owner # rows[e].owner PROVE LiveRow(e)
  <2> HIDE DEF i
  <2>1. i.id = e /\ rows[e].owner = i.token  BY <1>1, <1>7 DEF FencedBy, Fenced
  <2>2. Holds(i, e)  BY <1>4, <2>1, TokenHolds, Zenon
  <2>3. \E k \in Range(Worker(r, w).items) : Holds(k, e)  BY <1>4, <2>2, Zenon DEF Worker
  <2> QED  BY <1>6, <2>3, Zenon DEF LiveRow
<1>8. \A e \in Events : LiveRow(e)  BY <1>7 DEF LiveRow
<1> QED  BY <1>6, <1>8, Zenon

\* MarkPublishedBatch of what the worker published.
LEMMA MarkFence ==
    ASSUME FenceInv, NEW r \in Relays, NEW w \in Workers, MarkPublished(r, w)
    PROVE  FenceInv' /\ \A e \in Events : LiveRow(e)
<1> DEFINE o == relay[r].work[w]
<1>0. IsTable(rows)  BY RelayTyped
<1>1. FencedBy(rows', o.ok) /\ claims' = claims
  BY <1>0, LooseStatements DEF MarkPublished, Worker, FencedBy, Loose
<1>2. Loose(rows')  BY <1>1 DEF FencedBy
<1>3. o.pc = "mark"  BY Zenon DEF MarkPublished, Worker
<1>4. /\ \A k \in 1 .. Len(o.ok) : o.ok[k] \in Range(o.items)
      /\ Range(o.items) \subseteq Recs(relay[r])
  BY <1>3, WorkerAt
<1>5. Becomes(r, [relay[r] EXCEPT !.work[w].pc = "finish"])  BY DEF MarkPublished
<1>6. FenceInv' /\ relay'[r].work[w].pc = "finish"  BY <1>1, <1>2, <1>3, <1>5, PcFence, Zenon
<1>7. ASSUME NEW e \in Events, rows'[e].owner # rows[e].owner PROVE LiveRow(e)
  <2>1. PICK k \in 1 .. Len(o.ok) : o.ok[k].id = e /\ rows[e].owner = o.ok[k].token
    BY <1>1, <1>7, Zenon DEF FencedBy, Fenced
  <2>2. Holds(o.ok[k], e)  BY <1>4, <2>1, TokenHolds, Zenon
  <2>3. \E i \in Range(Worker(r, w).items) : Holds(i, e)  BY <1>4, <2>1, <2>2, Zenon DEF Worker
  <2>4. relay'[r].work[w] # relay[r].work[w]  BY <1>3, <1>6
  <2> QED  BY <2>3, <2>4, Zenon DEF LiveRow
<1>8. \A e \in Events : LiveRow(e)  BY <1>7 DEF LiveRow
<1> QED  BY <1>6, <1>8, Zenon

\* ReleaseClaim of an abandoned record.
LEMMA ReleaseFence ==
    ASSUME FenceInv, NEW r \in Relays, ReleaseClaim(r)
    PROVE  FenceInv' /\ \A e \in Events : LiveRow(e)
<1> DEFINE x == relay[r]
           i == Head(x.abandoned)
           a == Tail(x.abandoned)
           b == Untrack(x.inflight, i.id)
           y == [x EXCEPT !.abandoned = a, !.inflight = b]
<1>0. /\ IsTable(rows) /\ IsProcess(x) /\ x.gen \in Nat /\ x.queue \in Seq(Rec)
      /\ x.abandoned \in Seq(Rec) /\ Polling(x.polling) /\ AtWorks(x.work)
  BY RelayTyped
<1>1. FencedBy(rows', <<i>>) /\ claims' = claims
  BY <1>0, LooseStatements DEF ReleaseClaim, FencedBy, Loose
<1>2. Loose(rows')  BY <1>1 DEF FencedBy
<1>3. Becomes(r, y) /\ x.abandoned # <<>>  BY DEF ReleaseClaim
<1>4. /\ a \in Seq(Rec) /\ Range(a) \subseteq Range(x.abandoned) /\ a # x.abandoned
      /\ i \in Range(x.abandoned)
  BY <1>0, <1>3, RangeTail, Zenon
<1>5. i \in Recs(x)  BY <1>4 DEF Recs, RecsOf
<1> HIDE DEF a, b
<1>6. Is(y, x.gen, x.queue, x.polling, a, x.work)  BY <1>0, BesideFields, Zenon
<1> HIDE DEF y
<1>7. Typed(y) /\ y.gen = x.gen /\ Recs(y) = RecsOf(x.queue, x.polling, a, x.work)
  BY <1>0, <1>4, <1>6, FieldsTyped, Zenon
<1>8. Recs(y) \subseteq Recs(x)  BY <1>4, <1>7, Zenon DEF Recs, RecsOf
<1>9. y.gen >= x.gen  BY <1>0, <1>7
<1>10. FenceInv'  BY <1>1, <1>2, <1>3, <1>7, <1>8, <1>9, LooseStep, Zenon
<1>11. relay'[r] = y /\ y # x  BY <1>3, <1>4, <1>6, Zenon DEF Becomes, FenceInv, Is
<1>12. ASSUME NEW e \in Events, rows'[e].owner # rows[e].owner PROVE LiveRow(e)
  <2>1. i.id = e /\ rows[e].owner = i.token
    <3> HIDE DEF i
    <3> QED  BY <1>1, <1>12 DEF FencedBy, Fenced
  <2>2. Holds(i, e)  BY <1>5, <2>1, TokenHolds, Zenon
  <2> QED  BY <1>3, <1>11, <2>2 DEF LiveRow
<1>13. \A e \in Events : LiveRow(e)  BY <1>12 DEF LiveRow
<1> QED  BY <1>10, <1>13, Zenon

\* The other steps leave the owner of a row under a live lease alone.
Kept == \A e \in Events : rows[e].lease => rows'[e].owner = rows[e].owner

\* The steps of the table, and the cleanup of a published row.
LEMMA TableFence ==
    ASSUME FenceInv, NEW e \in Events,
           \/ Produce(e) \/ LeaseLapses(e) \/ LeaseLost(e) \/ RetryDue(e)
           \/ \E r \in Relays : Cleanup(r, e)
    PROVE  FenceInv' /\ Kept
<1>0. rows \in [Events -> Row]  BY DEF FenceInv, IsTable
<1>1. UNCHANGED <<relay, claims>>
  BY DEF Produce, LeaseLapses, LeaseLost, RetryDue, Cleanup
<1>2. \/ \E s \in Statuses : rows' = [rows EXCEPT ![e].status = s]
      \/ rows' = [rows EXCEPT ![e].lease = FALSE]
      \/ rows' = [rows EXCEPT ![e].due = TRUE]
  BY Zenon DEF Produce, LeaseLapses, LeaseLost, RetryDue, Cleanup, Statuses
<1>3. ASSUME NEW s \in Statuses, rows' = [rows EXCEPT ![e].status = s]
      PROVE  rows' \in [Events -> Row] /\ \A x \in Events : rows'[x].owner = rows[x].owner
  BY <1>0, <1>3, Zenon DEF Row
<1>4. CASE rows' = [rows EXCEPT ![e].lease = FALSE]
  <2>1. rows' \in [Events -> Row]  BY <1>0, <1>4, Zenon DEF Row
  <2>2. \A x \in Events : rows'[x].owner = rows[x].owner  BY <1>0, <1>4 DEF Row
  <2> QED  BY <1>1, <2>1, <2>2, TableStep DEF Loose, IsTable, Kept
<1>5. CASE rows' = [rows EXCEPT ![e].due = TRUE]
  <2>1. rows' \in [Events -> Row]  BY <1>0, <1>5, Zenon DEF Row
  <2>2. \A x \in Events : rows'[x].owner = rows[x].owner  BY <1>0, <1>5 DEF Row
  <2> QED  BY <1>1, <2>1, <2>2, TableStep DEF Loose, IsTable, Kept
<1>6. CASE \E s \in Statuses : rows' = [rows EXCEPT ![e].status = s]
  BY <1>1, <1>3, <1>6, TableStep, Zenon DEF Loose, IsTable, Kept
<1> QED  BY <1>2, <1>4, <1>5, <1>6

\* The renew thread, and the steps of a shutdown that release nothing.
LEMMA AsideFence ==
    ASSUME FenceInv, NEW r \in Relays,
           RenewScan(r) \/ Renew(r) \/ Stop(r) \/ Drained(r) \/ DrainTimesOut(r)
    PROVE  FenceInv' /\ Kept
<1> DEFINE x == relay[r]
<1>0. /\ IsTable(rows) /\ IsProcess(x) /\ x.gen \in Nat /\ x.queue \in Seq(Rec)
      /\ x.abandoned \in Seq(Rec) /\ Polling(x.polling) /\ AtWorks(x.work)
  BY RelayTyped
<1>1. claims' = claims  BY Zenon DEF RenewScan, Renew, Stop, Drained, DrainTimesOut
<1>2. Loose(rows') /\ Kept
  <2>1. rows' = rows \/ \E o \in x.owned : rows' = Renewed(<<o>>)
    BY Zenon DEF RenewScan, Renew, Stop, Drained, DrainTimesOut
  <2> QED  BY <1>0, <2>1, LooseStatements, Zenon DEF Loose, Kept
<1>e. <<>> \in Seq(Rec) /\ Range(<<>>) = {}  BY DEF Range
<1>3. \E y : /\ Becomes(r, y)
             /\ \/ Is(y, x.gen, x.queue, x.polling, x.abandoned, x.work)
                \/ Is(y, x.gen, <<>>, x.polling, x.queue, x.work)
  <2>1. CASE RenewScan(r) \/ Renew(r)
    <3>1. PICK a : Becomes(r, [x EXCEPT !.owned = a])  BY <2>1, Zenon DEF RenewScan, Renew
    <3>2. Is([x EXCEPT !.owned = a], x.gen, x.queue, x.polling, x.abandoned, x.work)
      BY <1>0, BesideFields, Zenon
    <3> QED  BY <3>1, <3>2
  <2>2. CASE Stop(r) \/ Drained(r)
    <3>1. PICK a : Becomes(r, [x EXCEPT !.phase = a])  BY <2>2, Zenon DEF Stop, Drained
    <3>2. Is([x EXCEPT !.phase = a], x.gen, x.queue, x.polling, x.abandoned, x.work)
      BY <1>0, BesideFields, Zenon
    <3> QED  BY <3>1, <3>2
  <2>3. CASE DrainTimesOut(r)
    <3>1. Becomes(r, [x EXCEPT !.phase = "releasing", !.abandoned = x.queue, !.queue = <<>>])
      BY <2>3 DEF DrainTimesOut
    <3>2. Is([x EXCEPT !.phase = "releasing", !.abandoned = x.queue, !.queue = <<>>],
             x.gen, <<>>, x.polling, x.queue, x.work)
      BY <1>0, BesideFields, Zenon
    <3> QED  BY <3>1, <3>2
  <2> QED  BY <2>1, <2>2, <2>3, Zenon
<1>4. PICK y : /\ Becomes(r, y)
               /\ \/ Is(y, x.gen, x.queue, x.polling, x.abandoned, x.work)
                  \/ Is(y, x.gen, <<>>, x.polling, x.queue, x.work)
  BY <1>3, Zenon
<1>5. Typed(y) /\ y.gen = x.gen /\ Recs(y) \subseteq Recs(x)
  <2>1. CASE Is(y, x.gen, x.queue, x.polling, x.abandoned, x.work)
    <3>1. /\ Typed(y) /\ y.gen = x.gen
          /\ Recs(y) = RecsOf(x.queue, x.polling, x.abandoned, x.work)
      BY <1>0, <2>1, FieldsTyped, Zenon
    <3> QED  BY <3>1, Zenon DEF Recs
  <2>2. CASE Is(y, x.gen, <<>>, x.polling, x.queue, x.work)
    <3>1. /\ Typed(y) /\ y.gen = x.gen
          /\ Recs(y) = RecsOf(<<>>, x.polling, x.queue, x.work)
      BY <1>0, <1>e, <2>2, Zenon DEF Is, Typed, Recs
    <3> QED  BY <1>e, <3>1, Zenon DEF Recs, RecsOf
  <2> QED  BY <1>4, <2>1, <2>2, Zenon
<1>6. y.gen >= x.gen  BY <1>0, <1>5
<1> QED  BY <1>1, <1>2, <1>4, <1>5, <1>6, LooseStep, Zenon

\* A process that is not running has no records.
LEMMA DownTyped == Typed(Down) /\ Recs(Down) = {}
<1>1. IsProcess(Down)  BY DownConfirmed, Zenon
<1>2. /\ Down.queue = <<>> /\ Down.abandoned = <<>> /\ Down.polling.recs = <<>>
      /\ Down.polling = [pc |-> "read", limit |-> 0, recs |-> <<>>]
      /\ Down.work = [w \in Workers |-> Idle]
  BY DEF Down
<1>3. <<>> \in Seq(Rec) /\ Range(<<>>) = {}  BY DEF Range
<1>4. AtWork(Idle) /\ Range(Idle.items) = {}  BY <1>3, WorkBegins, Zenon
<1>5. AtWorks(Down.work) /\ Batches(Down.work) = {}  BY <1>2, <1>4 DEF AtWorks, Batches
<1>6. Polling(Down.polling)
  <2>1. Polling([pc |-> "read", limit |-> 0, recs |-> <<>>])  BY <1>3, PollingOf, Zenon
  <2> QED  BY <1>2, <2>1, Zenon
<1>7. Typed(Down)  BY <1>1, <1>2, <1>3, <1>5, <1>6, Zenon DEF Typed
<1>8. Recs(Down) = {}  BY <1>2, <1>3, <1>5 DEF Recs, RecsOf
<1> QED  BY <1>7, <1>8

\* A process that starts, crashes or ends.
LEMMA LifecycleFence ==
    ASSUME FenceInv, NEW r \in Relays, Start(r) \/ Crash(r) \/ Stopped(r)
    PROVE  FenceInv' /\ Kept
<1> DEFINE p == [Down EXCEPT !.phase = "running"]
<1>0. IsTable(rows)  BY RelayTyped
<1>1. rows' = rows /\ claims' = claims /\ Kept  BY DEF Start, Crash, Stopped, Kept
<1>2. Loose(rows')  BY <1>0, <1>1, LooseStatements DEF Loose
<1>3. Becomes(r, p) \/ Becomes(r, Down)  BY DEF Start, Crash, Stopped
<1>4. Typed(Down) /\ Recs(Down) = {}  BY DownTyped
<1>5. Is(p, Down.gen, Down.queue, Down.polling, Down.abandoned, Down.work)
  BY <1>4, BesideFields, Zenon DEF Typed
<1> HIDE DEF p
<1>6. Typed(p) /\ Recs(p) = {}
  <2>1. Typed(p) /\ Recs(p) = RecsOf(Down.queue, Down.polling, Down.abandoned, Down.work)
    BY <1>4, <1>5, FieldsTyped DEF Typed
  <2> QED  BY <1>4, <2>1 DEF Recs
<1>7. CASE Becomes(r, p)  BY <1>1, <1>2, <1>6, <1>7, LooseStep, Zenon
<1>8. CASE Becomes(r, Down)  BY <1>1, <1>2, <1>4, <1>8, LooseStep
<1> QED  BY <1>1, <1>3, <1>7, <1>8, Zenon

\* A claim leaves the rows under a live lease alone.
LEMMA ClaimKeeps ==
    ASSUME FenceInv, NEW r \in Relays, PollStep(r)
    PROVE  Kept
<1>1. ASSUME NEW n, NEW token, Lock(Ready(n), token) PROVE Kept
  <2>1. \A e \in Events : rows[e].lease => e \notin Ready(n)  BY DEF Ready
  <2>2. \A e \in Events : e \notin Ready(n) => rows'[e] = rows[e]  BY <1>1, Zenon DEF Lock
  <2> QED  BY <2>1, <2>2 DEF Kept
<1>2. CASE PollRead(r) \/ Admit(r)  BY <1>2 DEF PollRead, Admit, Kept
<1>3. CASE ClaimBatch(r)  BY <1>1, <1>3 DEF ClaimBatch
<1>4. CASE ClaimFails(r)  BY <1>1, <1>4 DEF ClaimFails, Kept
<1> QED  BY <1>2, <1>3, <1>4 DEF PollStep

\* At first there are no records.
LEMMA InitFence == Init => FenceInv
<1> SUFFICES ASSUME Init PROVE FenceInv  OBVIOUS
<1>1. IsTable(rows) /\ claims \in [Events -> Nat]  BY DEF Init, IsTable, Row, Statuses
<1>2. relay = [r \in Relays |-> Down]  BY DEF Init
<1>3. Typed(Down) /\ Recs(Down) = {}  BY DownTyped
<1> QED  BY <1>1, <1>2, <1>3 DEF FenceInv

\* Every step keeps the records current and disturbs no live claim.
LEMMA FenceStep ==
    ASSUME FenceInv, [Next]_vars
    PROVE  FenceInv' /\ \A e \in Events : LiveRow(e)
<1>k. Kept => \A e \in Events : LiveRow(e)  BY DEF Kept, LiveRow
<1>1. CASE UNCHANGED vars
  <2>1. UNCHANGED <<relay, claims, rows>>  BY <1>1 DEF vars
  <2>2. Loose(rows')  BY <2>1 DEF FenceInv, Loose
  <2>3. Kept  BY <2>1 DEF Kept
  <2> QED  BY <1>k, <2>1, <2>2, <2>3, TableStep
<1>2. ASSUME NEW e \in Events,
             \/ Produce(e) \/ LeaseLapses(e) \/ LeaseLost(e) \/ RetryDue(e)
             \/ \E r \in Relays : Cleanup(r, e)
      PROVE  FenceInv' /\ \A x \in Events : LiveRow(x)
  BY <1>k, <1>2, TableFence
<1>3. ASSUME NEW r \in Relays, PollStep(r)
      PROVE  FenceInv' /\ \A x \in Events : LiveRow(x)
  BY <1>k, <1>3, PollFence, ClaimFence, ClaimFailsFence, ClaimKeeps, Zenon DEF PollStep
<1>4. ASSUME NEW r \in Relays, NEW w \in Workers, WorkerStep(r, w)
      PROVE  FenceInv' /\ \A x \in Events : LiveRow(x)
  <2>1. CASE Take(r, w) \/ Publish(r, w) \/ FinishRecord(r, w)
    <3>1. Kept  BY <2>1 DEF Take, Publish, FinishRecord, Kept
    <3> QED  BY <1>k, <2>1, <3>1, TakeFence, PublishFence, FinishFence, Zenon
  <2>2. CASE Settle(r, w)  BY <2>2, SettleFence
  <2>3. CASE MarkPublished(r, w)  BY <2>3, MarkFence
  <2> QED  BY <1>4, <2>1, <2>2, <2>3 DEF WorkerStep
<1>5. ASSUME NEW r \in Relays,
             \/ RenewScan(r) \/ Renew(r) \/ Start(r) \/ Crash(r) \/ Stop(r)
             \/ ShutdownStep(r)
      PROVE  FenceInv' /\ \A x \in Events : LiveRow(x)
  BY <1>k, <1>5, AsideFence, LifecycleFence, ReleaseFence DEF ShutdownStep
<1> QED  BY <1>1, <1>2, <1>3, <1>4, <1>5, Zenon DEF Next

\* OutboxRepository's fence: for any relays, workers, events and batch sizes,
\* any number of lost leases, crashes and restarts that reuse a token, a row
\* under a live lease is unlocked only by the worker or the shutdown that holds
\* the latest claim of it.
THEOREM LiveClaimsAreFenced == Spec => LiveClaimFenced
<1>1. Init => FenceInv  BY InitFence
<1>2. FenceInv /\ [Next]_vars => FenceInv'  BY FenceStep
<1>3. FenceInv /\ [Next]_vars => [\A e \in Events : LiveRow(e)]_vars  BY FenceStep
<1>4. Spec => [][\A e \in Events : LiveRow(e)]_vars  BY <1>1, <1>2, <1>3, PTL DEF Spec
<1> QED  BY <1>4 DEF LiveClaimFenced, LiveRow
=============================================================================
