----------------------- MODULE UnreadProjectorProofs -----------------------
(***************************************************************************)
(* UnreadProjector for any events, receivers, workers and stripes: Redis   *)
(* is exact whenever nothing is owed to it. An event is owed from its      *)
(* commit until a worker has written for it. A snapshot that is not yet    *)
(* written may be older than the table only if an event outside the unit   *)
(* it was read for is owed, and that event cannot be served before the     *)
(* fence falls.                                                            *)
(***************************************************************************)
EXTENDS UnreadProjector, TLAPS

About == projection.events
Of(r) == {e \in DOMAIN About : About[e].receiver = r}
Between(r, p) == {e \in Of(r) : About[e].peer = p}

\* The record of a worker has its fields, and its events are events.
Is(x, a, t, u, s, k) ==
    x \in [pc : {a}, todo : {t}, unit : {u}, snaps : {s}, ackable : {k}]
IsLocal(x) ==
    /\ Is(x, x.pc, x.todo, x.unit, x.snaps, x.ackable)
    /\ x.todo \subseteq Events /\ x.unit \subseteq Events /\ x.ackable \subseteq Events

IsCount(x) == x = [peer |-> [p \in Peers |-> x.peer[p]], total |-> x.total]

Stores ==
    /\ projection \in Projections
    /\ durable \in [Receivers -> [Peers -> Nat]]
    /\ cached = [r \in Receivers |-> cached[r]]
    /\ \A r \in Receivers : IsCount(cached[r])
    /\ event = [e \in Events |-> event[e]]
    /\ \A e \in Events : event[e] = "none" <=> e \notin DOMAIN About

IsRebuild(x) ==
    /\ x \in [pc : {x.pc}, receiver : {x.receiver}, snap : {x.snap}]
    /\ x.pc \in {"load", "replace"} => x.receiver \in Receivers
    /\ x.pc = "replace" => x.snap = [p \in Peers |-> x.snap[p]]

Threads ==
    /\ worker = [w \in Workers |-> worker[w]]
    /\ \A w \in Workers : IsLocal(worker[w])
    /\ IsRebuild(rebuild)
    /\ receiver_mutexes = [s \in 0 .. MutexCount - 1 |-> receiver_mutexes[s]]

\* What a worker has in hand was committed.
Known(e) == e \in DOMAIN About /\ event[e] \notin {"future", "none"}
Committed ==
    \A w \in Workers : \A e \in worker[w].todo \cup worker[w].unit \cup worker[w].ackable : Known(e)

\* Whoever reads and writes counters of a receiver holds its stripe.
Stripe(e) == StripeOf(About[e].receiver, About[e].peer)
Fenced ==
    /\ \A w \in Workers : worker[w].pc \in {"load", "apply"} =>
          \A e \in worker[w].unit : receiver_mutexes[Stripe(e)] = w
    /\ rebuild.pc \in {"load", "replace"} =>
          receiver_mutexes[rebuild.receiver % MutexCount] = Rebuilder

Owed(e) ==
    event[e] \notin {"future", "acked"} /\ \A w \in Workers : e \notin worker[w].ackable

\* Only events of U are owed among those of X.
OwedIn(X, U) == \A e \in X : Owed(e) => e \in U

Fresh ==
    \A r \in Receivers :
        /\ \A p \in Peers :
              OwedIn(Between(r, p), {}) => cached[r].peer[p] = durable[r][p]
        /\ OwedIn(Of(r), {}) => cached[r].total = Total(durable[r])

\* The snapshots of a unit.
Current(x) ==
    \A e \in x.unit :
        LET r == About[e].receiver
            p == About[e].peer
        IN /\ OwedIn(Between(r, p), x.unit) => x.snaps[e].peer = durable[r][p]
           /\ OwedIn(Of(r), x.unit) => x.snaps[e].total = Total(durable[r])
Snaps == \A w \in Workers : worker[w].pc = "apply" => Current(worker[w])

Rebuilt ==
    rebuild.pc = "replace" =>
        \A p \in Peers : OwedIn(Between(rebuild.receiver, p), {}) =>
            rebuild.snap[p] = durable[rebuild.receiver][p]

UnreadInv == Stores /\ Threads /\ Committed /\ Fenced /\ Fresh /\ Snaps /\ Rebuilt

-----------------------------------------------------------------------------
\* A receiver has a stripe.
LEMMA StripeType ==
    ASSUME NEW r \in Receivers, NEW p
    PROVE  StripeOf(r, p) = r % MutexCount /\ r % MutexCount \in 0 .. MutexCount - 1
BY StripesAssumption DEF StripeOf

\* What the deployment says of an event.
LEMMA AboutType ==
    ASSUME Stores, NEW e \in DOMAIN About
    PROVE  e \in Events /\ About[e].receiver \in Receivers /\ About[e].peer \in Peers
BY ProjectionsAssumption DEF Stores, About

\* A step of one worker leaves the others alone.
LEMMA OneWorker ==
    ASSUME Threads, NEW w \in Workers, NEW x, Keeping(w, x), IsLocal(x)
    PROVE  /\ worker'[w] = x
           /\ \A v \in Workers : v # w => worker'[v] = worker[v]
           /\ worker' = [v \in Workers |-> worker'[v]]
           /\ \A v \in Workers : IsLocal(worker'[v])
<1>1. worker'[w] = x /\ \A v \in Workers : v # w => worker'[v] = worker[v]
  BY Zenon DEF Threads, Keeping
<1>2. worker' = [v \in Workers |-> worker'[v]]
  BY DEF Threads, Keeping
<1>3. \A v \in Workers : IsLocal(worker'[v])
  BY <1>1, Zenon DEF Threads
<1> QED  BY <1>1, <1>2, <1>3

\* The updates of a worker's record.
LEMMA LocalUpdates ==
    ASSUME NEW x, IsLocal(x), NEW a, NEW t, NEW u, NEW s, NEW k
    PROVE  /\ Is([x EXCEPT !.pc = a], a, x.todo, x.unit, x.snaps, x.ackable)
           /\ Is([x EXCEPT !.unit = u], x.pc, x.todo, u, x.snaps, x.ackable)
           /\ Is([x EXCEPT !.pc = a, !.todo = t], a, t, x.unit, x.snaps, x.ackable)
           /\ Is([x EXCEPT !.unit = u, !.todo = t, !.pc = a], a, t, u, x.snaps, x.ackable)
           /\ Is([x EXCEPT !.pc = a, !.snaps = s], a, x.todo, x.unit, s, x.ackable)
           /\ Is([x EXCEPT !.unit = u, !.ackable = k], x.pc, x.todo, u, x.snaps, k)
           /\ Is([x EXCEPT !.ackable = k, !.pc = a], a, x.todo, x.unit, x.snaps, k)
<1> DEFINE b == x.pc  tt == x.todo  uu == x.unit  ss == x.snaps  kk == x.ackable
<1>1. Is(x, b, tt, uu, ss, kk)
  BY Zenon DEF IsLocal
<1> HIDE DEF b, tt, uu, ss, kk
<1>2. Is([x EXCEPT !.pc = a], a, tt, uu, ss, kk)
  BY <1>1, Zenon DEF Is
<1>3. Is([x EXCEPT !.unit = u], b, tt, u, ss, kk)
  BY <1>1, Zenon DEF Is
<1>4. Is([x EXCEPT !.pc = a, !.todo = t], a, t, uu, ss, kk)
  BY <1>1, Zenon DEF Is
<1>5. Is([x EXCEPT !.unit = u, !.todo = t, !.pc = a], a, t, u, ss, kk)
  BY <1>1, Zenon DEF Is
<1>6. Is([x EXCEPT !.pc = a, !.snaps = s], a, tt, uu, s, kk)
  BY <1>1, Zenon DEF Is
<1>7. Is([x EXCEPT !.unit = u, !.ackable = k], b, tt, u, ss, k)
  BY <1>1, Zenon DEF Is
<1>8. Is([x EXCEPT !.ackable = k, !.pc = a], a, tt, uu, ss, k)
  BY <1>1, Zenon DEF Is
<1> QED  BY <1>2, <1>3, <1>4, <1>5, <1>6, <1>7, <1>8, Zenon DEF b, tt, uu, ss, kk

\* A record is what its fields are.
LEMMA Fields ==
    ASSUME NEW x, NEW a, NEW t, NEW u, NEW s, NEW k, Is(x, a, t, u, s, k)
    PROVE  /\ x.pc = a /\ x.todo = t /\ x.unit = u /\ x.snaps = s /\ x.ackable = k
           /\ t \in SUBSET Events /\ u \in SUBSET Events /\ k \in SUBSET Events => IsLocal(x)
<1>1. x.pc = a /\ x.todo = t /\ x.unit = u /\ x.snaps = s /\ x.ackable = k
  BY DEF Is
<1> QED  BY <1>1, Zenon DEF IsLocal
-----------------------------------------------------------------------------
\* A step of worker w that neither enters nor stays inside a fence: it keeps or
\* gives up what it has, takes queued events, acknowledges what it has written,
\* and may release its stripes.
Steps(w, y) ==
    /\ Keeping(w, y) /\ IsLocal(y)
    /\ UNCHANGED <<projection, durable, rebuild>>
Outside(w, y) ==
    /\ Steps(w, y) /\ UNCHANGED cached
    /\ y.pc \notin {"load", "apply"}
    /\ \A e \in y.todo \cup y.unit :
          e \in worker[w].todo \cup worker[w].unit \/ event[e] = "queued"
    /\ y.ackable \subseteq worker[w].ackable
    /\ event' = [e \in Events |-> event'[e]]
    /\ \A e \in Events : \/ event'[e] = event[e]
                         \/ event[e] = "queued" /\ event'[e] = "held"
                         \/ e \in worker[w].ackable /\ event'[e] = "acked"
    /\ receiver_mutexes' \in {receiver_mutexes, Free(w)}

\* Releasing stripes is nobody else's concern.
LEMMA FreeOthers ==
    ASSUME Threads, NEW h, receiver_mutexes' \in {receiver_mutexes, Free(h)}
    PROVE  /\ receiver_mutexes' = [s \in 0 .. MutexCount - 1 |-> receiver_mutexes'[s]]
           /\ \A s \in 0 .. MutexCount - 1 :
                 receiver_mutexes[s] # h => receiver_mutexes'[s] = receiver_mutexes[s]
<1>1. CASE receiver_mutexes' = receiver_mutexes
  BY <1>1 DEF Threads
<1>2. CASE receiver_mutexes' = Free(h)
  <2>1. DOMAIN receiver_mutexes = 0 .. MutexCount - 1
    BY DEF Threads
  <2> QED  BY <1>2, <2>1 DEF Free
<1> QED  BY <1>1, <1>2

LEMMA StripeOfEvent ==
    ASSUME Stores, NEW e \in DOMAIN About
    PROVE  Stripe(e) = About[e].receiver % MutexCount /\ Stripe(e) \in 0 .. MutexCount - 1
BY AboutType, StripeType DEF Stripe

\* What stays owed keeps Redis exact, and unwritten snapshots good, while
\* neither the table nor Redis changes.
StillOwed == \A e \in DOMAIN About : Owed(e) => Owed(e)'

LEMMA FreshKept ==
    ASSUME Fresh, StillOwed, UNCHANGED <<projection, durable, cached>>
    PROVE  Fresh'
<1>1. ASSUME NEW r
      PROVE  /\ OwedIn(Of(r), {})' => OwedIn(Of(r), {})
             /\ \A p : OwedIn(Between(r, p), {})' => OwedIn(Between(r, p), {})
  BY DEF StillOwed, OwedIn, Of, Between, About
<1> QED  BY <1>1 DEF Fresh

LEMMA CurrentKept ==
    ASSUME StillOwed, UNCHANGED <<projection, durable>>, NEW v, Current(worker[v]),
           worker'[v].unit = worker[v].unit, worker'[v].snaps = worker[v].snaps
    PROVE  Current(worker[v])'
<1>1. ASSUME NEW r
      PROVE  /\ OwedIn(Of(r), worker[v].unit)' => OwedIn(Of(r), worker[v].unit)
             /\ \A p : OwedIn(Between(r, p), worker[v].unit)' => OwedIn(Between(r, p), worker[v].unit)
  BY DEF StillOwed, OwedIn, Of, Between, About
<1> QED  BY <1>1 DEF Current, About

LEMMA RebuiltKept ==
    ASSUME Rebuilt, StillOwed, UNCHANGED <<projection, durable, rebuild>>
    PROVE  Rebuilt'
BY DEF Rebuilt, StillOwed, OwedIn, Of, Between, About

LEMMA OutsideKeeps ==
    ASSUME UnreadInv, NEW w \in Workers, NEW y, Outside(w, y)
    PROVE  UnreadInv'
<1> USE DEF UnreadInv
<1>1. /\ worker'[w] = y /\ worker' = [v \in Workers |-> worker'[v]]
      /\ \A v \in Workers : v # w => worker'[v] = worker[v]
      /\ \A v \in Workers : IsLocal(worker'[v])
  BY OneWorker DEF Outside, Steps
<1>2. UNCHANGED <<projection, durable, rebuild, cached>> /\ About' = About
  BY DEF Outside, Steps, About
<1>3. Committed'
  <2> SUFFICES ASSUME NEW v \in Workers,
                      NEW e \in worker'[v].todo \cup worker'[v].unit \cup worker'[v].ackable
               PROVE  Known(e)'
    BY DEF Committed
  <2>1. Known(e)
    <3>1. CASE v # w
      BY <3>1, <1>1 DEF Committed
    <3>2. CASE v = w /\ (e \in worker[w].todo \cup worker[w].unit \cup worker[w].ackable)
      BY <3>2 DEF Committed
    <3>3. CASE v = w /\ event[e] = "queued" /\ e \in Events
      BY <3>3 DEF Stores, Known
    <3>4. v = w => e \in Events
      BY <1>1 DEF IsLocal
    <3> QED  BY <3>1, <3>2, <3>3, <3>4, <1>1 DEF Outside
  <2>2. e \in Events
    BY <2>1, AboutType DEF Known
  <2> QED  BY <1>2, <2>1, <2>2 DEF Known, Outside
<1>4. Stores'
  <2>1. \A e \in Events : event'[e] = "none" <=> event[e] = "none"
    <3>1. \A e \in worker[w].ackable : event[e] # "none"
      BY DEF Committed, Known
    <3> QED  BY <3>1 DEF Outside
  <2>2. event' = [e \in Events |-> event'[e]]
    BY Zenon DEF Outside
  <2> QED  BY <1>2, <2>1, <2>2 DEF Stores
<1>5. Threads'
  <2>1. receiver_mutexes' \in {receiver_mutexes, Free(w)}
    BY DEF Outside
  <2>2. receiver_mutexes' = [s \in 0 .. MutexCount - 1 |-> receiver_mutexes'[s]]
    BY <2>1, FreeOthers
  <2> QED  BY <1>1, <1>2, <2>2 DEF Threads
<1>6. Fenced'
  <2>0. \A s \in 0 .. MutexCount - 1 :
           receiver_mutexes[s] # w => receiver_mutexes'[s] = receiver_mutexes[s]
    BY FreeOthers DEF Outside
  <2>1. ASSUME NEW v \in Workers, worker'[v].pc \in {"load", "apply"}, NEW e \in worker'[v].unit
        PROVE  receiver_mutexes'[Stripe(e)'] = v
    <3>1. v # w /\ worker'[v] = worker[v]
      BY <1>1, <2>1 DEF Outside
    <3>2. receiver_mutexes[Stripe(e)] = v /\ e \in DOMAIN About
      BY <2>1, <3>1 DEF Fenced, Committed, Known
    <3>3. Stripe(e)' = Stripe(e)
      BY <1>2 DEF Stripe
    <3> QED  BY <2>0, <3>1, <3>2, <3>3, StripeOfEvent
  <2>2. ASSUME rebuild.pc \in {"load", "replace"}
        PROVE  receiver_mutexes'[rebuild.receiver % MutexCount] = Rebuilder
    <3>1. rebuild.receiver \in Receivers
      BY <2>2 DEF Threads, IsRebuild
    <3>2. rebuild.receiver % MutexCount \in 0 .. MutexCount - 1
      BY <3>1, StripeType
    <3> QED  BY <2>0, <2>2, <3>2, HoldersAssumption DEF Fenced
  <2> QED  BY <1>2, <2>1, <2>2 DEF Fenced
<1>7. StillOwed
  <2> SUFFICES ASSUME NEW e \in DOMAIN About, Owed(e)
               PROVE  Owed(e)'
    BY DEF StillOwed
  <2>1. e \in Events
    BY AboutType
  <2>2. event'[e] \notin {"future", "acked"}
    BY <2>1 DEF Outside, Owed
  <2>3. \A v \in Workers : e \notin worker'[v].ackable
    BY <1>1 DEF Outside, Owed
  <2> QED  BY <2>2, <2>3 DEF Owed
<1>8. Snaps'
  <2> SUFFICES ASSUME NEW v \in Workers, worker'[v].pc = "apply"
               PROVE  Current(worker[v])'
    BY DEF Snaps
  <2>1. v # w /\ worker'[v] = worker[v]
    BY <1>1 DEF Outside
  <2> QED  BY <1>2, <1>7, <2>1, CurrentKept DEF Snaps
<1> QED  BY <1>2, <1>3, <1>4, <1>5, <1>6, <1>7, <1>8, FreshKept, RebuiltKept

LEMMA ReceiveIsOutside ==
    ASSUME UnreadInv, NEW w \in Workers, Receive(w)
    PROVE  UnreadInv'
<1> DEFINE x == worker[w]
<1>1. PICK batch \in SUBSET {e \in Events : event[e] = "queued"} :
         /\ event' = [e \in Events |-> IF e \in batch THEN "held" ELSE event[e]]
         /\ Keeping(w, [x EXCEPT !.pc = "loop", !.todo = batch])
  BY Zenon DEF Receive
<1>2. IsLocal(x)
  BY DEF UnreadInv, Threads
<1> DEFINE y == [x EXCEPT !.pc = "loop", !.todo = batch]
<1>3. Is(y, "loop", batch, x.unit, x.snaps, x.ackable)
  BY <1>2, LocalUpdates, Zenon
<1> HIDE DEF y
<1>4. x.unit \in SUBSET Events /\ x.ackable \in SUBSET Events /\ batch \in SUBSET Events
  BY <1>2 DEF IsLocal
<1>5. /\ y.pc = "loop" /\ y.todo = batch /\ y.unit = x.unit /\ y.ackable = x.ackable
      /\ IsLocal(y)
  BY <1>3, <1>4, Fields
<1>6. Keeping(w, y) /\ UNCHANGED <<projection, durable, cached, rebuild, receiver_mutexes>>
  BY <1>1 DEF Receive, y
<1>7. \A e \in Events : \/ event'[e] = event[e]
                        \/ event[e] = "queued" /\ event'[e] = "held"
  BY <1>1
<1>8. event' = [e \in Events |-> event'[e]]
  BY <1>1
<1>9. Outside(w, y)
  BY <1>5, <1>6, <1>7, <1>8 DEF Outside, Steps
<1> QED  BY <1>9, OutsideKeeps

LEMMA BeginIsOutside ==
    ASSUME UnreadInv, NEW w \in Workers, Begin(w)
    PROVE  UnreadInv'
<1> DEFINE x == worker[w]
<1>1. PICK unit \in SUBSET x.todo, rest \in SUBSET x.todo :
         Keeping(w, [x EXCEPT !.unit = unit, !.todo = rest,
                              !.pc = IF unit = {} THEN "loop" ELSE "lock"])
  <2> DEFINE take(u, r) == Keeping(w, [x EXCEPT !.unit = u, !.todo = r,
                                          !.pc = IF u = {} THEN "loop" ELSE "lock"])
  <2>1. \/ take({}, {})
        \/ take({e \in x.todo : Extracts(e)}, {})
        \/ \E e \in x.todo : take(IF Extracts(e) THEN {e} ELSE {}, x.todo \ {e})
    BY Zenon DEF Begin
  <2> HIDE DEF take, x
  <2>2. \E u \in SUBSET x.todo, r \in SUBSET x.todo : take(u, r)
    BY <2>1, Zenon
  <2> QED  BY <2>2, Zenon DEF take
<1>2. IsLocal(x)
  BY DEF UnreadInv, Threads
<1> DEFINE a == IF unit = {} THEN "loop" ELSE "lock"
           y == [x EXCEPT !.unit = unit, !.todo = rest, !.pc = a]
<1>3. Is(y, a, rest, unit, x.snaps, x.ackable)
  BY <1>2, LocalUpdates, Zenon
<1>a. a \in {"loop", "lock"}
  OBVIOUS
<1>k. Keeping(w, y)
  BY <1>1, Zenon
<1> HIDE DEF y, a
<1>4. x.ackable \in SUBSET Events /\ unit \in SUBSET Events /\ rest \in SUBSET Events
  BY <1>2 DEF IsLocal
<1>5. y.pc = a /\ y.todo = rest /\ y.unit = unit /\ y.ackable = x.ackable /\ IsLocal(y)
  BY <1>3, <1>4, Fields
<1>6. UNCHANGED <<projection, durable, cached, event, rebuild, receiver_mutexes>>
  BY Zenon DEF Begin
<1>8. event' = [e \in Events |-> event'[e]]
  BY <1>6 DEF UnreadInv, Stores
<1>9. Outside(w, y)
  BY <1>a, <1>k, <1>5, <1>6, <1>8 DEF Outside, Steps
<1> QED  BY <1>9, OutsideKeeps

LEMMA FinishIsOutside ==
    ASSUME UnreadInv, NEW w \in Workers, Finish(w)
    PROVE  UnreadInv'
<1> DEFINE x == worker[w]
           a == IF x.ackable # {} THEN "ack" ELSE IF running THEN "receive" ELSE "joined"
           y == [x EXCEPT !.pc = a]
<1>2. IsLocal(x)
  BY DEF UnreadInv, Threads
<1>3. Is(y, a, x.todo, x.unit, x.snaps, x.ackable)
  BY <1>2, LocalUpdates, Zenon
<1>a. a \in {"ack", "receive", "joined"}
  OBVIOUS
<1>k. Keeping(w, y)
  BY Zenon DEF Finish
<1> HIDE DEF y, a
<1>4. x.todo \in SUBSET Events /\ x.unit \in SUBSET Events /\ x.ackable \in SUBSET Events
  BY <1>2 DEF IsLocal
<1>5. y.pc = a /\ y.todo = x.todo /\ y.unit = x.unit /\ y.ackable = x.ackable /\ IsLocal(y)
  BY <1>3, <1>4, Fields
<1>6. UNCHANGED <<projection, durable, cached, event, rebuild, receiver_mutexes>>
  BY DEF Finish
<1>8. event' = [e \in Events |-> event'[e]]
  BY <1>6 DEF UnreadInv, Stores
<1>9. Outside(w, y)
  BY <1>a, <1>k, <1>5, <1>6, <1>8 DEF Outside, Steps
<1> QED  BY <1>9, OutsideKeeps

LEMMA AckIsOutside ==
    ASSUME UnreadInv, NEW w \in Workers, Ack(w)
    PROVE  UnreadInv'
<1> DEFINE x == worker[w]
<1>1. PICK e \in x.ackable :
         /\ event' = [event EXCEPT ![e] = "acked"] \/ event' = event
         /\ Keeping(w, [x EXCEPT !.ackable = x.ackable \ {e},
                           !.pc = IF x.ackable = {e} THEN "loop" ELSE "ack"])
  BY Zenon DEF Ack
<1>2. IsLocal(x)
  BY DEF UnreadInv, Threads
<1> DEFINE a == IF x.ackable = {e} THEN "loop" ELSE "ack"
           k == x.ackable \ {e}
           y == [x EXCEPT !.ackable = k, !.pc = a]
<1>3. Is(y, a, x.todo, x.unit, x.snaps, k)
  BY <1>2, LocalUpdates, Zenon
<1>a. a \in {"loop", "ack"} /\ k \subseteq x.ackable
  OBVIOUS
<1>k. Keeping(w, y)
  BY <1>1, Zenon
<1> HIDE DEF y, a, k
<1>4. x.todo \in SUBSET Events /\ x.unit \in SUBSET Events /\ k \in SUBSET Events
  BY <1>a, <1>2 DEF IsLocal
<1>5. y.pc = a /\ y.todo = x.todo /\ y.unit = x.unit /\ y.ackable = k /\ IsLocal(y)
  BY <1>3, <1>4, Fields
<1>6. UNCHANGED <<projection, durable, cached, rebuild, receiver_mutexes>>
  BY DEF Ack
<1>7. /\ event' = [d \in Events |-> event'[d]]
      /\ \A d \in Events : event'[d] = event[d] \/ (d = e /\ event'[d] = "acked")
  BY <1>1 DEF UnreadInv, Stores
<1>9. Outside(w, y)
  BY <1>1, <1>a, <1>k, <1>5, <1>6, <1>7 DEF Outside, Steps
<1> QED  BY <1>9, OutsideKeeps, Zenon

\* A step of w inside its fence that writes nothing.
LEMMA InsideKeeps ==
    ASSUME UnreadInv, NEW w \in Workers, NEW y, Steps(w, y), UNCHANGED <<cached, event>>,
           y.todo = worker[w].todo, y.unit = worker[w].unit, y.ackable = worker[w].ackable,
           receiver_mutexes' = [s \in 0 .. MutexCount - 1 |-> receiver_mutexes'[s]],
           Fenced', y.pc = "apply" => Current(worker[w])'
    PROVE  UnreadInv'
<1> USE DEF UnreadInv
<1>1. /\ worker'[w] = y /\ worker' = [v \in Workers |-> worker'[v]]
      /\ \A v \in Workers : v # w => worker'[v] = worker[v]
      /\ \A v \in Workers : IsLocal(worker'[v])
  BY OneWorker DEF Steps
<1>2. UNCHANGED <<projection, durable, rebuild>> /\ About' = About
  BY DEF Steps, About
<1>3. \A v \in Workers : /\ worker'[v].todo = worker[v].todo /\ worker'[v].unit = worker[v].unit
                         /\ worker'[v].ackable = worker[v].ackable
  BY <1>1
<1>4. Committed'
  BY <1>2, <1>3 DEF Committed, Known
<1>5. Stores'
  BY <1>2 DEF Stores
<1>6. Threads'
  BY <1>1, <1>2 DEF Threads
<1>7. StillOwed
  BY <1>3 DEF StillOwed, Owed
<1>8. Snaps'
  BY <1>1, <1>2, <1>7, CurrentKept DEF Snaps
<1> QED  BY <1>2, <1>4, <1>5, <1>6, <1>7, <1>8, FreshKept, RebuiltKept

LEMMA LockKeeps ==
    ASSUME UnreadInv, NEW w \in Workers, Lock(w)
    PROVE  UnreadInv'
<1> DEFINE x == worker[w]
<1>1. PICK s \in LockNext(w) :
         /\ receiver_mutexes[s] = Nobody
         /\ receiver_mutexes' = [receiver_mutexes EXCEPT ![s] = w]
         /\ Keeping(w, [x EXCEPT !.pc = IF Missing(w) = {s} THEN "load" ELSE "lock"])
  BY Zenon DEF Lock
<1>2. IsLocal(x)
  BY DEF UnreadInv, Threads
<1> DEFINE a == IF Missing(w) = {s} THEN "load" ELSE "lock"
           y == [x EXCEPT !.pc = a]
<1>3. Is(y, a, x.todo, x.unit, x.snaps, x.ackable)
  BY <1>2, LocalUpdates, Zenon
<1>a. a \in {"load", "lock"} /\ (a = "load" => Missing(w) = {s})
  OBVIOUS
<1>k. Keeping(w, y)
  BY <1>1, Zenon
<1> HIDE DEF y, a
<1>4. x.todo \in SUBSET Events /\ x.unit \in SUBSET Events /\ x.ackable \in SUBSET Events
  BY <1>2 DEF IsLocal
<1>5. y.pc = a /\ y.todo = x.todo /\ y.unit = x.unit /\ y.ackable = x.ackable /\ IsLocal(y)
  BY <1>3, <1>4, Fields
<1>6. UNCHANGED <<projection, durable, cached, event, rebuild>> /\ About' = About
  BY DEF Lock, About
<1>7. /\ receiver_mutexes' = [t \in 0 .. MutexCount - 1 |-> receiver_mutexes'[t]]
      /\ \A t \in 0 .. MutexCount - 1 :
            receiver_mutexes'[t] = IF t = s THEN w ELSE receiver_mutexes[t]
  BY <1>1, Zenon DEF UnreadInv, Threads
<1>8. /\ worker'[w] = y
      /\ \A v \in Workers : v # w => worker'[v] = worker[v]
  BY <1>5, <1>k, OneWorker DEF UnreadInv
<1>9. Fenced'
  <2>1. ASSUME NEW v \in Workers, worker'[v].pc \in {"load", "apply"}, NEW e \in worker'[v].unit
        PROVE  receiver_mutexes'[Stripe(e)'] = v
    <3>1. e \in worker[v].unit /\ e \in DOMAIN About
      BY <1>5, <1>8, <2>1 DEF UnreadInv, Committed, Known
    <3>2. Stripe(e)' = Stripe(e) /\ Stripe(e) \in 0 .. MutexCount - 1
      BY <1>6, <3>1, StripeOfEvent DEF Stripe, UnreadInv
    <3>3. CASE v # w
      <4>1. receiver_mutexes[Stripe(e)] = v
        BY <1>8, <2>1, <3>1, <3>3 DEF UnreadInv, Fenced
      <4> QED  BY <1>1, <1>7, <3>2, <4>1, HoldersAssumption
    <3>4. CASE v = w
      <4>1. Missing(w) = {s}
        BY <1>a, <1>5, <1>8, <2>1, <3>4
      <4>2. Stripe(e) \in Fence(x.unit)
        BY <3>1, <3>4 DEF Fence, Stripe, About
      <4>3. receiver_mutexes[Stripe(e)] = w \/ Stripe(e) = s
        BY <4>1, <4>2 DEF Missing
      <4> QED  BY <1>7, <3>2, <3>4, <4>3
    <3> QED  BY <3>3, <3>4
  <2>2. ASSUME rebuild.pc \in {"load", "replace"}
        PROVE  receiver_mutexes'[rebuild.receiver % MutexCount] = Rebuilder
    <3>1. rebuild.receiver \in Receivers
      BY <2>2 DEF UnreadInv, Threads, IsRebuild
    <3>2. rebuild.receiver % MutexCount \in 0 .. MutexCount - 1
      BY <3>1, StripeType, Zenon
    <3>3. receiver_mutexes[rebuild.receiver % MutexCount] = Rebuilder
      BY <2>2 DEF UnreadInv, Fenced
    <3> QED  BY <1>1, <1>7, <3>2, <3>3, HoldersAssumption
  <2> QED  BY <1>6, <2>1, <2>2 DEF Fenced
<1>10. Steps(w, y)
  BY <1>k, <1>5, <1>6 DEF Steps
<1> QED  BY <1>a, <1>5, <1>6, <1>7, <1>9, <1>10, InsideKeeps

LEMMA LoadKeeps ==
    ASSUME UnreadInv, NEW w \in Workers, Load(w)
    PROVE  UnreadInv'
<1> DEFINE x == worker[w]
<1>1. IsLocal(x)
  BY DEF UnreadInv, Threads
<1>2. x.todo \in SUBSET Events /\ x.unit \in SUBSET Events /\ x.ackable \in SUBSET Events
  BY <1>1 DEF IsLocal
<1>3. UNCHANGED <<projection, durable, cached, event, rebuild>> /\ About' = About
  BY DEF Load, About
<1>4. event' = [e \in Events |-> event'[e]]
  BY <1>3 DEF UnreadInv, Stores
<1>5. CASE /\ Keeping(w, [x EXCEPT !.pc = "apply", !.snaps = [e \in x.unit |-> Snapshot(e)]])
           /\ UNCHANGED receiver_mutexes
  <2> DEFINE sn == [e \in x.unit |-> Snapshot(e)]
             y == [x EXCEPT !.pc = "apply", !.snaps = sn]
  <2>1. Is(y, "apply", x.todo, x.unit, sn, x.ackable)
    BY <1>1, LocalUpdates, Zenon
  <2>2. \A e \in x.unit : sn[e] = Snapshot(e)
    OBVIOUS
  <2>k. Keeping(w, y)
    BY <1>5
  <2> HIDE DEF y, sn
  <2>3. /\ y.pc = "apply" /\ y.todo = x.todo /\ y.unit = x.unit /\ y.snaps = sn
        /\ y.ackable = x.ackable /\ IsLocal(y)
    BY <2>1, <1>2, Fields
  <2>4. /\ worker'[w] = y
        /\ \A v \in Workers : v # w => worker'[v] = worker[v]
    BY <2>3, <2>k, OneWorker DEF UnreadInv
  <2>5. Fenced'
    <3>1. \A v \in Workers : worker'[v].pc \in {"load", "apply"} =>
             worker'[v].unit = worker[v].unit /\ worker[v].pc \in {"load", "apply"}
      BY <2>3, <2>4 DEF Load
    <3> QED  BY <1>3, <1>5, <3>1 DEF UnreadInv, Fenced, Stripe
  <2>6. Current(worker[w])'
    <3>1. \A e \in x.unit : /\ sn[e].peer = durable[About[e].receiver][About[e].peer]
                            /\ sn[e].total = Total(durable[About[e].receiver])
      <4> SUFFICES ASSUME NEW e \in x.unit
                   PROVE  /\ sn[e].peer = durable[About[e].receiver][About[e].peer]
                          /\ sn[e].total = Total(durable[About[e].receiver])
        OBVIOUS
      <4> DEFINE n == durable[About[e].receiver][About[e].peer]
                 m == Total(durable[About[e].receiver])
      <4>1. sn[e] = [peer |-> n, total |-> m]
        BY <2>2, Zenon DEF Snapshot, About
      <4> HIDE DEF n, m
      <4>2. sn[e].peer = n /\ sn[e].total = m
        BY <4>1
      <4> QED  BY <4>2 DEF n, m
    <3> QED  BY <1>3, <2>3, <2>4, <3>1 DEF Current
  <2>7. receiver_mutexes' = [s \in 0 .. MutexCount - 1 |-> receiver_mutexes'[s]]
    BY <1>5 DEF UnreadInv, Threads
  <2>8. Steps(w, y)
    BY <2>k, <2>3, <1>3 DEF Steps
  <2> QED  BY <1>3, <2>3, <2>5, <2>6, <2>7, <2>8, InsideKeeps
<1>6. CASE /\ LET local == [x EXCEPT !.unit = {}]
              IN Keeping(w, [local EXCEPT !.pc = AfterUnit(local)])
           /\ receiver_mutexes' = Free(w)
  <2> DEFINE local == [x EXCEPT !.unit = {}]
             a == AfterUnit(local)
             y == [local EXCEPT !.pc = a]
  <2>1. Is(local, x.pc, x.todo, {}, x.snaps, x.ackable)
    BY <1>1, LocalUpdates, Zenon
  <2>a. a \in {"ack", "loop"}
    BY DEF AfterUnit
  <2>k. Keeping(w, y)
    BY <1>6
  <2> HIDE DEF local, a
  <2>2. /\ local.todo = x.todo /\ local.unit = {} /\ local.snaps = x.snaps
        /\ local.ackable = x.ackable /\ IsLocal(local)
    <3>1. x.todo \in SUBSET Events /\ {} \in SUBSET Events /\ x.ackable \in SUBSET Events
      BY <1>2
    <3> DEFINE b == x.pc  t == x.todo  u == {}  n == x.snaps  k == x.ackable
    <3>2. Is(local, b, t, u, n, k) /\ t \in SUBSET Events /\ u \in SUBSET Events /\ k \in SUBSET Events
      BY <2>1, <3>1
    <3> HIDE DEF b, t, u, n, k
    <3>3. local.todo = t /\ local.unit = u /\ local.snaps = n /\ local.ackable = k /\ IsLocal(local)
      BY <3>2, Fields
    <3> QED  BY <3>3 DEF t, u, n, k
  <2>3. Is(y, a, x.todo, {}, x.snaps, x.ackable)
    BY <2>2, LocalUpdates, Zenon
  <2> HIDE DEF y
  <2>4. y.pc = a /\ y.todo = x.todo /\ y.unit = {} /\ y.ackable = x.ackable /\ IsLocal(y)
    BY <2>3, <1>2, Fields
  <2>5. Outside(w, y)
    BY <1>3, <1>4, <1>6, <2>a, <2>k, <2>4 DEF Outside, Steps
  <2> QED  BY <2>5, OutsideKeeps
<1> QED  BY <1>5, <1>6, Zenon DEF Load

\* What ApplyDurableSnapshot for e leaves of the worker's state.
Applies(w, e, y, applied) ==
    /\ Steps(w, y) /\ UNCHANGED event
    /\ y.todo = worker[w].todo /\ y.unit = worker[w].unit \ {e}
    /\ y.ackable = worker[w].ackable \cup Ackable(applied, e)
    /\ y.pc \in {"apply", "ack", "loop"}
    /\ y.pc = "apply" => y.snaps = worker[w].snaps /\ UNCHANGED receiver_mutexes
    /\ receiver_mutexes' \in {receiver_mutexes, Free(w)}
    /\ SetUnreadSnapshot(e, worker[w].snaps[e]) \/ (~applied /\ UNCHANGED cached)

LEMMA ApplyShape ==
    ASSUME UnreadInv, NEW w \in Workers, Apply(w)
    PROVE  \E e \in worker[w].unit, applied \in BOOLEAN : \E y : Applies(w, e, y, applied)
<1> DEFINE x == worker[w]
<1>1. PICK e \in x.unit, applied \in BOOLEAN :
         /\ \/ applied /\ NoMishap /\ SetUnreadSnapshot(e, x.snaps[e])
            \/ ~applied /\ Mishap /\ (SetUnreadSnapshot(e, x.snaps[e]) \/ UNCHANGED cached)
         /\ LET rest == x.unit \ {e}
                local == [x EXCEPT !.unit = rest, !.ackable = x.ackable \cup Ackable(applied, e)]
            IN IF rest = {}
               THEN /\ Keeping(w, [local EXCEPT !.pc = AfterUnit(local), !.snaps = <<>>])
                    /\ receiver_mutexes' = Free(w)
               ELSE Keeping(w, local) /\ UNCHANGED receiver_mutexes
  BY Zenon DEF Apply
<1>2. IsLocal(x) /\ x.pc = "apply"
  BY DEF UnreadInv, Threads, Apply
<1>3. UNCHANGED <<projection, durable, event, rebuild>>
  BY DEF Apply
<1> DEFINE rest == x.unit \ {e}
           k == x.ackable \cup Ackable(applied, e)
           local == [x EXCEPT !.unit = rest, !.ackable = k]
           a == AfterUnit(local)
           y == [local EXCEPT !.pc = a, !.snaps = <<>>]
<1>4. Is(local, x.pc, x.todo, rest, x.snaps, k)
  BY <1>2, LocalUpdates, Zenon
<1>5. a \in {"ack", "loop"}
  BY DEF AfterUnit
<1>6. \/ Keeping(w, y) /\ receiver_mutexes' = Free(w)
      \/ Keeping(w, local) /\ UNCHANGED receiver_mutexes
  BY <1>1, Zenon
<1>7. SetUnreadSnapshot(e, x.snaps[e]) \/ (~applied /\ UNCHANGED cached)
  BY <1>1, Zenon
<1>8. x.todo \in SUBSET Events /\ rest \in SUBSET Events /\ k \in SUBSET Events
  BY <1>2 DEF IsLocal, Ackable
<1> HIDE DEF local, a
<1>9. /\ local.pc = "apply" /\ local.todo = x.todo /\ local.unit = rest
      /\ local.snaps = x.snaps /\ local.ackable = k /\ IsLocal(local)
  BY <1>2, <1>4, <1>8, Fields
<1>10. Is(y, a, x.todo, rest, <<>>, k)
  <2>1. Is(y, a, local.todo, local.unit, <<>>, local.ackable)
    BY <1>9, LocalUpdates, Zenon
  <2> HIDE DEF y, x, k, rest
  <2> QED  BY <1>9, <2>1, Zenon
<1> HIDE DEF y
<1>11. y.pc = a /\ y.todo = x.todo /\ y.unit = rest /\ y.ackable = k /\ IsLocal(y)
  BY <1>8, <1>10, Fields
<1>12. CASE Keeping(w, y) /\ receiver_mutexes' = Free(w)
  <2>1. Applies(w, e, y, applied)
    BY <1>3, <1>5, <1>7, <1>11, <1>12 DEF Applies, Steps
  <2> QED  BY <2>1
<1>13. CASE Keeping(w, local) /\ UNCHANGED receiver_mutexes
  <2>1. Applies(w, e, local, applied)
    BY <1>3, <1>7, <1>9, <1>13 DEF Applies, Steps
  <2> QED  BY <2>1
<1> QED  BY <1>6, <1>12, <1>13, Zenon

\* SetUnreadSnapshot writes one dialog and the total of its receiver.
LEMMA SetCounts ==
    ASSUME Stores, NEW e \in DOMAIN About, NEW n, SetUnreadSnapshot(e, n)
    PROVE  LET r == About[e].receiver
               p == About[e].peer
           IN  /\ cached' = [q \in Receivers |-> cached'[q]]
               /\ \A q \in Receivers : IsCount(cached'[q])
               /\ \A q \in Receivers : q # r => cached'[q] = cached[q]
               /\ cached'[r].total = n.total /\ cached'[r].peer[p] = n.peer
               /\ \A z \in Peers : z # p => cached'[r].peer[z] = cached[r].peer[z]
<1> DEFINE r == About[e].receiver
           p == About[e].peer
           c == [peer |-> [cached[r].peer EXCEPT ![p] = n.peer], total |-> n.total]
<1>1. r \in Receivers /\ p \in Peers
  BY AboutType
<1>2. cached' = [cached EXCEPT ![r] = c]
  BY DEF SetUnreadSnapshot, About
<1>3. c.peer = [cached[r].peer EXCEPT ![p] = n.peer] /\ c.total = n.total
  OBVIOUS
<1>4. cached[r].peer = [z \in Peers |-> cached[r].peer[z]]
  BY <1>1 DEF Stores, IsCount
<1>5. /\ c.peer[p] = n.peer /\ \A z \in Peers : z # p => c.peer[z] = cached[r].peer[z]
      /\ c.peer = [z \in Peers |-> c.peer[z]]
  BY <1>1, <1>3, <1>4
<1>6. IsCount(c)
  BY <1>5 DEF IsCount
<1> HIDE DEF c, r, p
<1>7. /\ cached'[r] = c /\ \A q \in Receivers : q # r => cached'[q] = cached[q]
      /\ cached' = [q \in Receivers |-> cached'[q]]
  BY <1>1, <1>2 DEF Stores
<1>8. \A q \in Receivers : IsCount(cached'[q])
  BY <1>6, <1>7, Zenon DEF Stores
<1> QED  BY <1>3, <1>5, <1>7, <1>8, Zenon DEF r, p

LEMMA ApplyKeeps ==
    ASSUME UnreadInv, NEW w \in Workers, Apply(w)
    PROVE  UnreadInv'
<1> DEFINE x == worker[w]
<1>0. PICK e \in x.unit, applied \in BOOLEAN : \E y : Applies(w, e, y, applied)
  BY ApplyShape
<1>1. PICK y : Applies(w, e, y, applied)
  BY <1>0
<1>2. /\ worker'[w] = y /\ worker' = [v \in Workers |-> worker'[v]]
      /\ \A v \in Workers : v # w => worker'[v] = worker[v]
      /\ \A v \in Workers : IsLocal(worker'[v])
  BY <1>1, OneWorker DEF UnreadInv, Applies, Steps
<1>3. UNCHANGED <<projection, durable, rebuild, event>> /\ About' = About
  BY <1>1 DEF Applies, Steps, About
<1>4. x.pc = "apply" /\ Known(e)
  BY DEF Apply, UnreadInv, Committed
<1> DEFINE r == About[e].receiver
           p == About[e].peer
<1>5. e \in DOMAIN About /\ r \in Receivers /\ p \in Peers
  BY <1>4, AboutType DEF Known, UnreadInv
<1>6. Stores'
  <2>1. cached' = [q \in Receivers |-> cached'[q]] /\ \A q \in Receivers : IsCount(cached'[q])
    BY <1>1, <1>5, SetCounts DEF Applies, UnreadInv, Stores
  <2> QED  BY <1>3, <2>1 DEF UnreadInv, Stores
<1>7. receiver_mutexes' \in {receiver_mutexes, Free(w)}
  BY <1>1 DEF Applies
<1>8. Threads'
  BY <1>2, <1>3, <1>7, FreeOthers DEF UnreadInv, Threads
<1>9. Committed'
  <2> SUFFICES ASSUME NEW v \in Workers,
                      NEW d \in worker'[v].todo \cup worker'[v].unit \cup worker'[v].ackable
               PROVE  Known(d)
    BY <1>3 DEF Committed, Known
  <2>1. CASE v # w
    BY <1>2, <2>1 DEF UnreadInv, Committed
  <2>2. CASE v = w
    BY <1>1, <1>2, <2>2 DEF UnreadInv, Committed, Applies, Ackable
  <2> QED  BY <2>1, <2>2
\* Everything but e stays owed, and e too unless it is written.
<1>10. \A d \in DOMAIN About : Owed(d) /\ ~(d = e /\ applied) => Owed(d)'
  <2> SUFFICES ASSUME NEW d \in DOMAIN About, Owed(d), ~(d = e /\ applied)
               PROVE  Owed(d)'
    BY Zenon
  <2>1. d \notin y.ackable
    BY <1>1 DEF Owed, Applies, Ackable
  <2>2. \A v \in Workers : d \notin worker'[v].ackable
    BY <1>2, <2>1 DEF Owed
  <2> QED  BY <1>3, <2>2 DEF Owed
\* Nobody else is inside the fence of r.
<1>11. /\ \A v \in Workers : worker[v].pc = "apply" /\ v # w =>
             \A d \in worker[v].unit : About[d].receiver # r
       /\ rebuild.pc = "replace" => rebuild.receiver # r
  <2>1. receiver_mutexes[r % MutexCount] = w
    BY <1>4, <1>5, StripeOfEvent DEF UnreadInv, Fenced
  <2>2. ASSUME NEW v \in Workers, worker[v].pc = "apply", v # w, NEW d \in worker[v].unit
        PROVE  About[d].receiver # r
    <3>1. receiver_mutexes[Stripe(d)] = v /\ d \in DOMAIN About
      BY <2>2 DEF UnreadInv, Fenced, Committed, Known
    <3> QED  BY <2>1, <2>2, <3>1, StripeOfEvent DEF UnreadInv
  <2>3. rebuild.pc = "replace" => rebuild.receiver # r
    BY <2>1, HoldersAssumption DEF UnreadInv, Fenced
  <2> QED  BY <2>2, <2>3
<1>12. Fenced'
  <2>0. \A s \in 0 .. MutexCount - 1 :
           receiver_mutexes[s] # w => receiver_mutexes'[s] = receiver_mutexes[s]
    BY <1>7, FreeOthers DEF UnreadInv
  <2>1. ASSUME NEW v \in Workers, worker'[v].pc \in {"load", "apply"}, NEW d \in worker'[v].unit
        PROVE  receiver_mutexes'[Stripe(d)'] = v
    <3>1. Stripe(d)' = Stripe(d)
      BY <1>3 DEF Stripe
    <3>2. d \in worker[v].unit /\ worker[v].pc \in {"load", "apply"}
      BY <1>1, <1>2, <1>4, <2>1 DEF Applies
    <3>3. receiver_mutexes[Stripe(d)] = v /\ Stripe(d) \in 0 .. MutexCount - 1
      BY <3>2, StripeOfEvent DEF UnreadInv, Fenced, Committed, Known
    <3>4. CASE v # w
      BY <2>0, <3>1, <3>3, <3>4
    <3>5. CASE v = w
      BY <1>1, <1>2, <2>1, <3>1, <3>3, <3>5 DEF Applies
    <3> QED  BY <3>4, <3>5
  <2>2. ASSUME rebuild.pc \in {"load", "replace"}
        PROVE  receiver_mutexes'[rebuild.receiver % MutexCount] = Rebuilder
    <3>1. rebuild.receiver \in Receivers
      BY <2>2 DEF UnreadInv, Threads, IsRebuild
    <3>2. rebuild.receiver % MutexCount \in 0 .. MutexCount - 1
      BY <3>1, StripeType
    <3> QED  BY <2>0, <2>2, <3>2, HoldersAssumption DEF UnreadInv, Fenced
  <2> QED  BY <1>3, <2>1, <2>2 DEF Fenced
<1>13. Rebuilt'
  <2> SUFFICES ASSUME rebuild.pc = "replace", NEW z \in Peers,
                      OwedIn(Between(rebuild.receiver, z), {})'
               PROVE  rebuild.snap[z] = durable[rebuild.receiver][z]
    BY <1>3 DEF Rebuilt
  <2>1. \A d \in Between(rebuild.receiver, z) : d # e
    BY <1>11 DEF Between, Of
  <2>2. OwedIn(Between(rebuild.receiver, z), {})
    BY <1>3, <1>10, <2>1 DEF OwedIn, Between, Of
  <2> QED  BY <2>2 DEF UnreadInv, Rebuilt
<1>14. Snaps'
  <2> SUFFICES ASSUME NEW v \in Workers, worker'[v].pc = "apply"
               PROVE  Current(worker[v])'
    BY DEF Snaps
  <2> DEFINE u == worker[v].unit
  <2>1. /\ worker[v].pc = "apply" /\ Current(worker[v])
        /\ worker'[v].snaps = worker[v].snaps /\ worker'[v].unit \subseteq u
    BY <1>1, <1>2, <1>4 DEF UnreadInv, Snaps, Applies
  \* Of a scope in which v has a snapshot, at most e is no longer owed.
  <2>2. ASSUME NEW X, X \subseteq DOMAIN About, e \in u \/ e \notin X,
               \A d \in X : Owed(d)' => d \in worker'[v].unit
        PROVE  OwedIn(X, u)
    <3>1. ASSUME NEW d \in X, Owed(d)  PROVE d \in u
      <4>1. CASE d = e
        BY <2>2, <3>1, <4>1
      <4>2. CASE d # e
        BY <1>10, <2>1, <2>2, <3>1, <4>2
      <4> QED  BY <4>1, <4>2
    <3> QED  BY <3>1 DEF OwedIn
  <2>3. ASSUME NEW d \in u
        PROVE  e \in u \/ e \notin Of(About[d].receiver)
    BY <1>11, <2>1, <2>3 DEF Of
  <2>4. ASSUME NEW d \in worker'[v].unit
        PROVE  /\ OwedIn(Of(About[d].receiver), worker[v].unit)' => OwedIn(Of(About[d].receiver), u)
               /\ OwedIn(Between(About[d].receiver, About[d].peer), worker[v].unit)'
                     => OwedIn(Between(About[d].receiver, About[d].peer), u)
    <3>1. d \in u
      BY <2>1, <2>4
    <3>2. e \in u \/ e \notin Of(About[d].receiver)
      BY <2>3, <3>1
    <3>3. /\ Of(About[d].receiver)' = Of(About[d].receiver)
          /\ Between(About[d].receiver, About[d].peer)' = Between(About[d].receiver, About[d].peer)
      BY <1>3 DEF Of, Between
    <3>4. /\ Of(About[d].receiver) \subseteq DOMAIN About
          /\ Between(About[d].receiver, About[d].peer) \subseteq Of(About[d].receiver)
      BY DEF Of, Between
    <3>5. OwedIn(Of(About[d].receiver), worker[v].unit)' => OwedIn(Of(About[d].receiver), u)
      BY <2>2, <3>2, <3>3, <3>4 DEF OwedIn
    <3>6. OwedIn(Between(About[d].receiver, About[d].peer), worker[v].unit)'
             => OwedIn(Between(About[d].receiver, About[d].peer), u)
      <4>1. /\ Between(About[d].receiver, About[d].peer) \subseteq DOMAIN About
            /\ e \in u \/ e \notin Between(About[d].receiver, About[d].peer)
        BY <3>2, <3>4
      <4> QED  BY <2>2, <3>3, <4>1 DEF OwedIn
    <3> QED  BY <3>5, <3>6
  <2> QED  BY <1>3, <2>1, <2>4 DEF Current
<1>15. Fresh'
  <2> SUFFICES ASSUME NEW q \in Receivers
               PROVE  /\ \A z \in Peers :
                            OwedIn(Between(q, z), {})' => cached'[q].peer[z] = durable[q][z]
                      /\ OwedIn(Of(q), {})' => cached'[q].total = Total(durable[q])
    BY <1>3 DEF Fresh
  <2>0. Of(q)' = Of(q) /\ \A z : Between(q, z)' = Between(q, z) /\ Between(q, z) \subseteq Of(q)
    BY <1>3 DEF Of, Between
  <2>d. Of(q) \subseteq DOMAIN About
    BY DEF Of
  \* Where e has no part, or was not written, nothing changes.
  <2>1. ASSUME NEW X, X \subseteq DOMAIN About, e \notin X \/ ~applied,
               \A d \in X : ~Owed(d)'
        PROVE  OwedIn(X, {})
    BY <1>10, <2>1 DEF OwedIn
  \* Where it has, what was written is the snapshot.
  <2>2. ASSUME NEW X, X \subseteq DOMAIN About, \A d \in X : ~Owed(d)'
        PROVE  OwedIn(X, x.unit)
    BY <1>10, <2>2 DEF OwedIn
  <2>3. CASE cached' = cached /\ ~applied
    <3>1. \A z \in Peers : OwedIn(Between(q, z), {})' => OwedIn(Between(q, z), {})
      BY <2>0, <2>1, <2>d, <2>3 DEF OwedIn
    <3>2. OwedIn(Of(q), {})' => OwedIn(Of(q), {})
      BY <2>0, <2>1, <2>d, <2>3 DEF OwedIn
    <3> QED  BY <2>3, <3>1, <3>2 DEF UnreadInv, Fresh
  <2>4. CASE SetUnreadSnapshot(e, x.snaps[e])
    <3>1. /\ \A c \in Receivers : c # r => cached'[c] = cached[c]
          /\ cached'[r].total = x.snaps[e].total /\ cached'[r].peer[p] = x.snaps[e].peer
          /\ \A z \in Peers : z # p => cached'[r].peer[z] = cached[r].peer[z]
      BY <1>5, <2>4, SetCounts DEF UnreadInv
    <3>2. Current(x)
      BY <1>4 DEF UnreadInv, Snaps
    <3>3. ASSUME NEW z \in Peers, OwedIn(Between(q, z), {})'
          PROVE  cached'[q].peer[z] = durable[q][z]
      <4>1. CASE q = r /\ z = p
        <5>1. OwedIn(Between(r, p), x.unit)
          BY <2>0, <2>2, <2>d, <3>3, <4>1 DEF OwedIn
        <5> QED  BY <3>1, <3>2, <4>1, <5>1 DEF Current
      <4>2. CASE ~(q = r /\ z = p)
        <5>1. e \notin Between(q, z)
          BY <4>2 DEF Between, Of
        <5>2. OwedIn(Between(q, z), {})
          BY <2>0, <2>1, <2>d, <3>3, <5>1 DEF OwedIn
        <5> QED  BY <3>1, <4>2, <5>2 DEF UnreadInv, Fresh
      <4> QED  BY <4>1, <4>2, Zenon
    <3>4. ASSUME OwedIn(Of(q), {})'
          PROVE  cached'[q].total = Total(durable[q])
      <4>1. CASE q = r
        <5>1. OwedIn(Of(r), x.unit)
          BY <2>0, <2>2, <2>d, <3>4, <4>1 DEF OwedIn
        <5> QED  BY <3>1, <3>2, <4>1, <5>1 DEF Current
      <4>2. CASE q # r
        <5>1. e \notin Of(q)
          BY <4>2 DEF Of
        <5>2. OwedIn(Of(q), {})
          BY <2>0, <2>1, <2>d, <3>4, <5>1 DEF OwedIn
        <5> QED  BY <3>1, <4>2, <5>2 DEF UnreadInv, Fresh
      <4> QED  BY <4>1, <4>2, Zenon
    <3> QED  BY <3>3, <3>4
  <2> QED  BY <1>1, <2>3, <2>4 DEF Applies
<1> QED  BY <1>6, <1>8, <1>9, <1>12, <1>13, <1>14, <1>15 DEF UnreadInv
-----------------------------------------------------------------------------
\* The broker hands out an event again or moves it aside: it stays owed.
LEMMA BrokerKeeps ==
    ASSUME UnreadInv, NEW e \in Events, Broker(e)
    PROVE  UnreadInv'
<1>1. /\ event[e] \in {"held", "queued"} /\ \E a \in {"queued", "dead"} : event' = [event EXCEPT ![e] = a]
      /\ UNCHANGED <<projection, durable, cached, worker, rebuild, receiver_mutexes>>
  BY DEF Broker, Redeliver, DeadLetter
<1>2. /\ event' = [d \in Events |-> event'[d]]
      /\ \A d \in Events : \/ event'[d] = event[d]
                           \/ event[d] \in {"held", "queued"} /\ event'[d] \in {"queued", "dead"}
  BY <1>1 DEF UnreadInv, Stores
<1>3. About' = About
  BY <1>1 DEF About
<1>4. Stores'
  BY <1>1, <1>2, <1>3 DEF UnreadInv, Stores
<1>5. Committed'
  <2>1. \A d \in DOMAIN About : d \in Events
    BY AboutType DEF UnreadInv
  <2> QED  BY <1>1, <1>2, <1>3, <2>1 DEF UnreadInv, Committed, Known
<1>6. StillOwed
  BY <1>1, <1>2, AboutType DEF StillOwed, Owed, UnreadInv
<1>7. Threads' /\ Fenced'
  BY <1>1, <1>3 DEF UnreadInv, Threads, Fenced, Stripe
<1>8. Snaps'
  BY <1>1, <1>6, CurrentKept DEF UnreadInv, Snaps
<1> QED  BY <1>1, <1>4, <1>5, <1>6, <1>7, <1>8, FreshKept, RebuiltKept DEF UnreadInv

\* A committed event is owed at once, to all that its dialog and receiver count.
LEMMA CommitKeeps ==
    ASSUME UnreadInv, NEW e \in Events, Commit(e)
    PROVE  UnreadInv'
<1> DEFINE r == About[e].receiver
           p == About[e].peer
<1>1. /\ event[e] = "future" /\ event' = [event EXCEPT ![e] = "queued"]
      /\ UNCHANGED <<projection, cached, worker, rebuild, receiver_mutexes>> /\ About' = About
  BY DEF Commit, About
<1>2. e \in DOMAIN About /\ r \in Receivers /\ p \in Peers
  BY <1>1, AboutType DEF UnreadInv, Stores
<1>3. /\ durable' \in [Receivers -> [Peers -> Nat]]
      /\ \A q \in Receivers : q # r => durable'[q] = durable[q]
      /\ \A z \in Peers : z # p => durable'[r][z] = durable[r][z]
  <2>1. PICK n \in Nat : durable' = [durable EXCEPT ![r][p] = n]
    <3> DEFINE k == IF About[e].kind = "read" THEN 0 ELSE durable[r][p] + 1
    <3>1. durable' = [durable EXCEPT ![r][p] = k]
      BY DEF Commit, About
    <3>2. durable[r][p] \in Nat
      BY <1>2 DEF UnreadInv, Stores
    <3>3. k \in Nat
      BY <3>2
    <3> HIDE DEF k
    <3> QED  BY <3>1, <3>3, Zenon
  <2> QED  BY <1>2, <2>1 DEF UnreadInv, Stores
<1>4. event' = [d \in Events |-> event'[d]] /\ \A d \in Events :
         IF d = e THEN event'[d] = "queued" ELSE event'[d] = event[d]
  BY <1>1 DEF UnreadInv, Stores
<1>5. Stores'
  BY <1>1, <1>2, <1>3, <1>4 DEF UnreadInv, Stores
<1>6. Committed'
  <2>1. \A d \in DOMAIN About : d \in Events
    BY AboutType DEF UnreadInv
  <2> QED  BY <1>1, <1>4, <2>1 DEF UnreadInv, Committed, Known
<1>7. Threads' /\ Fenced'
  BY <1>1 DEF UnreadInv, Threads, Fenced, Stripe
<1>8. \A v \in Workers : e \notin worker[v].unit /\ e \notin worker[v].ackable
  BY <1>1 DEF UnreadInv, Committed, Known
<1>9. Owed(e)' /\ StillOwed
  BY <1>1, <1>4, <1>8, AboutType DEF StillOwed, Owed, UnreadInv
<1>10. Fresh'
  <2> SUFFICES ASSUME NEW q \in Receivers
               PROVE  /\ \A z \in Peers :
                            OwedIn(Between(q, z), {})' => cached[q].peer[z] = durable'[q][z]
                      /\ OwedIn(Of(q), {})' => cached[q].total = Total(durable'[q])
    BY <1>1 DEF Fresh
  <2>1. ASSUME NEW z \in Peers, OwedIn(Between(q, z), {})'
        PROVE  cached[q].peer[z] = durable'[q][z]
    <3>1. ~(q = r /\ z = p)
      BY <1>1, <1>2, <1>9, <2>1 DEF OwedIn, Between, Of
    <3>2. OwedIn(Between(q, z), {})
      BY <1>1, <1>9, <2>1 DEF OwedIn, Between, Of, StillOwed
    <3>3. durable'[q][z] = durable[q][z]
      BY <1>3, <3>1
    <3> QED  BY <3>2, <3>3 DEF UnreadInv, Fresh
  <2>2. ASSUME OwedIn(Of(q), {})'
        PROVE  cached[q].total = Total(durable'[q])
    <3>1. q # r
      BY <1>1, <1>2, <1>9, <2>2 DEF OwedIn, Of
    <3>2. OwedIn(Of(q), {})
      BY <1>1, <1>9, <2>2 DEF OwedIn, Of, StillOwed
    <3>3. durable'[q] = durable[q]
      BY <1>3, <3>1
    <3>4. cached[q].total = Total(durable[q])
      BY <3>2 DEF UnreadInv, Fresh
    <3> QED  BY <3>3, <3>4
  <2> QED  BY <2>1, <2>2
<1>11. Snaps'
  <2> SUFFICES ASSUME NEW v \in Workers, worker[v].pc = "apply", NEW d \in worker[v].unit
               PROVE  LET q == About[d].receiver
                          z == About[d].peer
                      IN /\ OwedIn(Between(q, z), worker[v].unit)' => worker[v].snaps[d].peer = durable'[q][z]
                         /\ OwedIn(Of(q), worker[v].unit)' => worker[v].snaps[d].total = Total(durable'[q])
    BY <1>1 DEF Snaps, Current
  <2> DEFINE q == About[d].receiver
             z == About[d].peer
             u == worker[v].unit
  <2>1. q \in Receivers /\ z \in Peers
    BY AboutType DEF UnreadInv, Committed, Known
  <2>2. /\ OwedIn(Between(q, z), u) => worker[v].snaps[d].peer = durable[q][z]
        /\ OwedIn(Of(q), u) => worker[v].snaps[d].total = Total(durable[q])
    BY DEF UnreadInv, Snaps, Current
  <2>3. e \notin u /\ u' = u
    BY <1>1, <1>8
  <2> HIDE DEF q, z, u
  <2>4. ASSUME OwedIn(Between(q, z), u)'
        PROVE  worker[v].snaps[d].peer = durable'[q][z]
    <3>0. q' = q /\ z' = z
      BY <1>1 DEF q, z
    <3>1. ~(q = r /\ z = p)
      BY <1>1, <1>2, <1>9, <2>3, <2>4, <3>0 DEF OwedIn, Between, Of
    <3>2. OwedIn(Between(q, z), u)
      BY <1>1, <1>9, <2>3, <2>4, <3>0 DEF OwedIn, Between, Of, StillOwed
    <3>3. durable'[q][z] = durable[q][z]
      BY <1>3, <2>1, <3>1
    <3> QED  BY <2>2, <3>2, <3>3
  <2>5. ASSUME OwedIn(Of(q), u)'
        PROVE  worker[v].snaps[d].total = Total(durable'[q])
    <3>0. q' = q
      BY <1>1 DEF q
    <3>1. q # r
      BY <1>1, <1>2, <1>9, <2>3, <2>5, <3>0 DEF OwedIn, Of
    <3>2. OwedIn(Of(q), u)
      BY <1>1, <1>9, <2>3, <2>5, <3>0 DEF OwedIn, Of, StillOwed
    <3> QED  BY <1>3, <2>1, <2>2, <3>1, <3>2
  <2>6. /\ OwedIn(Between(q, z), worker[v].unit)' => OwedIn(Between(q, z), u)'
        /\ OwedIn(Of(q), worker[v].unit)' => OwedIn(Of(q), u)'
    BY DEF u
  <2> QED  BY <1>1, <2>4, <2>5, <2>6 DEF q, z, OwedIn
<1>12. Rebuilt'
  <2> SUFFICES ASSUME rebuild.pc = "replace", NEW z \in Peers,
                      OwedIn(Between(rebuild.receiver, z), {})'
               PROVE  rebuild.snap[z] = durable'[rebuild.receiver][z]
    BY <1>1 DEF Rebuilt
  <2>1. rebuild.receiver \in Receivers
    BY DEF UnreadInv, Threads, IsRebuild
  <2>2. ~(rebuild.receiver = r /\ z = p)
    BY <1>1, <1>2, <1>9 DEF OwedIn, Between, Of
  <2>3. OwedIn(Between(rebuild.receiver, z), {})
    BY <1>1, <1>9 DEF OwedIn, Between, Of, StillOwed
  <2>4. durable'[rebuild.receiver][z] = durable[rebuild.receiver][z]
    BY <1>3, <2>1, <2>2
  <2> QED  BY <2>3, <2>4 DEF UnreadInv, Rebuilt
<1> QED  BY <1>5, <1>6, <1>7, <1>10, <1>11, <1>12 DEF UnreadInv
-----------------------------------------------------------------------------
\* The updates of the record of RebuildUser.
LEMMA RebuildUpdates ==
    ASSUME NEW x, IsRebuild(x), NEW a, NEW b
    PROVE  /\ LET y == [x EXCEPT !.pc = a, !.receiver = b]
              IN y \in [pc : {a}, receiver : {b}, snap : {x.snap}]
           /\ LET y == [x EXCEPT !.pc = a, !.snap = b]
              IN y \in [pc : {a}, receiver : {x.receiver}, snap : {b}]
<1> DEFINE d == x.pc  r == x.receiver  n == x.snap
<1>1. x \in [pc : {d}, receiver : {r}, snap : {n}]
  BY Zenon DEF IsRebuild
<1> HIDE DEF d, r, n
<1>2. [x EXCEPT !.pc = a, !.receiver = b] \in [pc : {a}, receiver : {b}, snap : {n}]
  BY <1>1, Zenon
<1>3. [x EXCEPT !.pc = a, !.snap = b] \in [pc : {a}, receiver : {r}, snap : {b}]
  BY <1>1, Zenon
<1> QED  BY <1>2, <1>3, Zenon DEF r, n

\* A rebuild that is over, or has not begun, is outside every fence.
LEMMA RebuildOver ==
    LET y == [Resting EXCEPT !.pc = "done"]
    IN  IsRebuild(y) /\ y.pc = "done"
BY DEF Resting, IsRebuild

\* A step of RebuildUser leaves the events and the workers alone.
LEMMA RebuildKeeps ==
    ASSUME UnreadInv, UNCHANGED <<projection, durable, event, worker>>,
           IsRebuild(rebuild'), Fenced', Fresh', Rebuilt',
           cached' = [r \in Receivers |-> cached'[r]], \A r \in Receivers : IsCount(cached'[r]),
           receiver_mutexes' = [s \in 0 .. MutexCount - 1 |-> receiver_mutexes'[s]]
    PROVE  UnreadInv'
<1>1. About' = About
  BY DEF About
<1>2. Stores' /\ Threads' /\ Committed'
  BY <1>1, Zenon DEF UnreadInv, Stores, Threads, Committed, Known
<1>3. StillOwed
  BY DEF StillOwed, Owed
<1>4. Snaps'
  BY <1>3, CurrentKept DEF UnreadInv, Snaps
<1> QED  BY <1>2, <1>4 DEF UnreadInv

\* The workers' stripes, when only RebuildUser's change.
LEMMA WorkersFenced ==
    ASSUME UnreadInv, UNCHANGED <<projection, worker>>,
           \A s \in 0 .. MutexCount - 1 :
              receiver_mutexes[s] \in Workers => receiver_mutexes'[s] = receiver_mutexes[s]
    PROVE  \A w \in Workers : worker'[w].pc \in {"load", "apply"} =>
              \A e \in worker'[w].unit : receiver_mutexes'[Stripe(e)'] = w
<1> SUFFICES ASSUME NEW w \in Workers, worker[w].pc \in {"load", "apply"}, NEW e \in worker[w].unit
             PROVE  receiver_mutexes'[Stripe(e)'] = w
  OBVIOUS
<1>1. receiver_mutexes[Stripe(e)] = w /\ Stripe(e) \in 0 .. MutexCount - 1
  BY StripeOfEvent DEF UnreadInv, Fenced, Committed, Known
<1>2. Stripe(e)' = Stripe(e)
  BY DEF Stripe, About
<1> QED  BY <1>1, <1>2

LEMMA RebuildLockKeeps ==
    ASSUME UnreadInv, NEW r \in Receivers, RebuildLock(r)
    PROVE  UnreadInv'
<1> DEFINE y == [rebuild EXCEPT !.pc = "load", !.receiver = r]
<1>1. y \in [pc : {"load"}, receiver : {r}, snap : {rebuild.snap}]
  BY RebuildUpdates, Zenon DEF UnreadInv, Threads
<1>2. rebuild' = y
  BY DEF RebuildLock
<1> HIDE DEF y
<1>3. rebuild'.pc = "load" /\ rebuild'.receiver = r /\ IsRebuild(rebuild')
  BY <1>1, <1>2 DEF IsRebuild
<1>4. UNCHANGED <<projection, durable, cached, event, worker>>
  BY DEF RebuildLock
<1>5. r % MutexCount \in 0 .. MutexCount - 1 /\ StripeOf(r, r) = r % MutexCount
  BY StripeType
<1>6. /\ receiver_mutexes' = [s \in 0 .. MutexCount - 1 |-> receiver_mutexes'[s]]
      /\ receiver_mutexes[r % MutexCount] = Nobody
      /\ \A s \in 0 .. MutexCount - 1 :
            receiver_mutexes'[s] = IF s = r % MutexCount THEN Rebuilder ELSE receiver_mutexes[s]
  <2>1. /\ receiver_mutexes' = [receiver_mutexes EXCEPT ![r % MutexCount] = Rebuilder]
        /\ receiver_mutexes[r % MutexCount] = Nobody
    BY <1>5 DEF RebuildLock
  <2> DEFINE s0 == r % MutexCount
  <2> HIDE DEF s0
  <2>2. /\ receiver_mutexes' = [receiver_mutexes EXCEPT ![s0] = Rebuilder]
        /\ receiver_mutexes[s0] = Nobody
    BY <2>1 DEF s0
  <2>3. /\ receiver_mutexes' = [s \in 0 .. MutexCount - 1 |-> receiver_mutexes'[s]]
        /\ \A s \in 0 .. MutexCount - 1 :
              receiver_mutexes'[s] = IF s = s0 THEN Rebuilder ELSE receiver_mutexes[s]
    BY <2>2, Zenon DEF UnreadInv, Threads
  <2> QED  BY <2>2, <2>3 DEF s0
<1>7. Fenced'
  <2>1. \A s \in 0 .. MutexCount - 1 :
           receiver_mutexes[s] \in Workers => receiver_mutexes'[s] = receiver_mutexes[s]
    BY <1>6, HoldersAssumption
  <2> QED  BY <1>3, <1>4, <1>5, <1>6, <2>1, WorkersFenced DEF Fenced
<1>8. Rebuilt'
  BY <1>3 DEF Rebuilt
<1>9. StillOwed
  BY <1>4 DEF StillOwed, Owed
<1>10. Fresh'
  BY <1>4, <1>9, FreshKept DEF UnreadInv
<1> QED  BY <1>3, <1>4, <1>6, <1>7, <1>8, <1>10, RebuildKeeps DEF UnreadInv, Stores

\* A rebuild that ends releases its stripe, and Redis is as exact as before.
LEMMA RebuildEnds ==
    ASSUME UnreadInv, rebuild' = [Resting EXCEPT !.pc = "done"],
           receiver_mutexes' = Free(Rebuilder),
           UNCHANGED <<projection, durable, event, worker>>, Fresh',
           cached' = [r \in Receivers |-> cached'[r]], \A r \in Receivers : IsCount(cached'[r])
    PROVE  UnreadInv'
<1>1. IsRebuild(rebuild') /\ rebuild'.pc = "done"
  BY RebuildOver
<1>2. /\ receiver_mutexes' = [s \in 0 .. MutexCount - 1 |-> receiver_mutexes'[s]]
      /\ \A s \in 0 .. MutexCount - 1 :
            receiver_mutexes[s] # Rebuilder => receiver_mutexes'[s] = receiver_mutexes[s]
  BY FreeOthers DEF UnreadInv
<1>3. Fenced'
  <2>1. \A s \in 0 .. MutexCount - 1 :
           receiver_mutexes[s] \in Workers => receiver_mutexes'[s] = receiver_mutexes[s]
    BY <1>2, HoldersAssumption
  <2> QED  BY <1>1, <2>1, WorkersFenced DEF Fenced
<1>4. Rebuilt'
  BY <1>1 DEF Rebuilt
<1> QED  BY <1>1, <1>2, <1>3, <1>4, RebuildKeeps

LEMMA RebuildLoadKeeps ==
    ASSUME UnreadInv, RebuildLoad
    PROVE  UnreadInv'
<1> DEFINE r == rebuild.receiver
<1>1. UNCHANGED <<projection, durable, cached, event, worker>> /\ rebuild.pc = "load"
  BY DEF RebuildLoad
<1>2. StillOwed
  BY <1>1 DEF StillOwed, Owed
<1>3. Fresh'
  BY <1>1, <1>2, FreshKept DEF UnreadInv
<1>4. CASE /\ rebuild' = [rebuild EXCEPT !.pc = "replace", !.snap = durable[r]]
           /\ UNCHANGED receiver_mutexes
  <2> DEFINE y == [rebuild EXCEPT !.pc = "replace", !.snap = durable[r]]
  <2>1. y \in [pc : {"replace"}, receiver : {r}, snap : {durable[r]}]
    BY RebuildUpdates, Zenon DEF UnreadInv, Threads
  <2>2. rebuild' = y
    BY <1>4
  <2>3. r \in Receivers
    BY <1>1 DEF UnreadInv, Threads, IsRebuild
  <2>4. durable[r] = [p \in Peers |-> durable[r][p]]
    BY <2>3 DEF UnreadInv, Stores
  <2> HIDE DEF y, r
  <2>5. rebuild'.pc = "replace" /\ rebuild'.receiver = r /\ rebuild'.snap = durable[r]
    BY <2>1, <2>2
  <2>6. rebuild' \in [pc : {rebuild'.pc}, receiver : {rebuild'.receiver}, snap : {rebuild'.snap}]
    BY <2>1, <2>2, <2>5
  <2>7. IsRebuild(rebuild')
    BY <2>3, <2>4, <2>5, <2>6 DEF IsRebuild
  <2>8. Fenced'
    <3>1. \A s \in 0 .. MutexCount - 1 :
             receiver_mutexes[s] \in Workers => receiver_mutexes'[s] = receiver_mutexes[s]
      BY <1>4
    <3>2. receiver_mutexes'[rebuild'.receiver % MutexCount] = Rebuilder
      BY <1>1, <1>4, <2>5 DEF UnreadInv, Fenced, r
    <3> QED  BY <1>1, <3>1, <3>2, WorkersFenced DEF Fenced
  <2>9. Rebuilt'
    BY <1>1, <2>5 DEF Rebuilt
  <2> QED  BY <1>1, <1>3, <1>4, <2>7, <2>8, <2>9, RebuildKeeps DEF UnreadInv, Stores, Threads
<1>5. CASE rebuild' = [Resting EXCEPT !.pc = "done"] /\ receiver_mutexes' = Free(Rebuilder)
  BY <1>1, <1>3, <1>5, RebuildEnds DEF UnreadInv, Stores
<1> QED  BY <1>4, <1>5 DEF RebuildLoad

LEMMA RebuildReplaceKeeps ==
    ASSUME UnreadInv, RebuildReplace
    PROVE  UnreadInv'
<1> DEFINE r == rebuild.receiver
           n == rebuild.snap
<1>1. /\ rebuild.pc = "replace" /\ UNCHANGED <<projection, durable, event, worker>>
      /\ rebuild' = [Resting EXCEPT !.pc = "done"] /\ receiver_mutexes' = Free(Rebuilder)
  BY DEF RebuildReplace
<1>2. StillOwed
  BY <1>1 DEF StillOwed, Owed
<1>3. CASE UNCHANGED cached
  <2>1. Fresh'
    BY <1>1, <1>2, <1>3, FreshKept DEF UnreadInv
  <2> QED  BY <1>1, <1>3, <2>1, RebuildEnds DEF UnreadInv, Stores
<1>4. CASE cached' = [cached EXCEPT ![r] = [peer |-> n, total |-> Total(n)]]
  <2>1. r \in Receivers /\ n = [p \in Peers |-> n[p]]
    BY <1>1 DEF UnreadInv, Threads, IsRebuild
  <2> DEFINE t == Total(n)
             c == [peer |-> n, total |-> t]
  <2>2. c.peer = n /\ c.total = t
    OBVIOUS
  <2>3. IsCount(c)
    BY <2>1 DEF IsCount
  <2>4. cached' = [cached EXCEPT ![r] = c]
    BY <1>4
  <2> HIDE DEF c, t, r, n
  <2>5. /\ cached'[r] = c /\ \A q \in Receivers : q # r => cached'[q] = cached[q]
        /\ cached' = [q \in Receivers |-> cached'[q]]
    BY <2>1, <2>4 DEF UnreadInv, Stores
  <2>6. \A q \in Receivers : IsCount(cached'[q])
    BY <2>3, <2>5, Zenon DEF UnreadInv, Stores
  <2>7. Fresh'
    <3> SUFFICES ASSUME NEW q \in Receivers
                 PROVE  /\ \A z \in Peers :
                              OwedIn(Between(q, z), {})' => cached'[q].peer[z] = durable[q][z]
                        /\ OwedIn(Of(q), {})' => cached'[q].total = Total(durable[q])
      BY <1>1 DEF Fresh
    <3>1. /\ OwedIn(Of(q), {})' => OwedIn(Of(q), {})
          /\ \A z : OwedIn(Between(q, z), {})' => OwedIn(Between(q, z), {})
      BY <1>1, <1>2 DEF StillOwed, OwedIn, Of, Between, About
    <3>2. CASE q # r
      BY <2>5, <3>1, <3>2 DEF UnreadInv, Fresh
    <3>3. CASE q = r
      <4>1. \A z \in Peers : OwedIn(Between(r, z), {}) => n[z] = durable[r][z]
        BY <1>1 DEF UnreadInv, Rebuilt, r, n
      <4>2. OwedIn(Of(r), {}) => \A z \in Peers : OwedIn(Between(r, z), {})
        BY DEF OwedIn, Between
      <4>3. durable[r] = [z \in Peers |-> durable[r][z]]
        BY <2>1 DEF UnreadInv, Stores
      <4>4. OwedIn(Of(r), {}) => n = durable[r]
        BY <2>1, <4>1, <4>2, <4>3
      <4>5. OwedIn(Of(r), {}) => t = Total(durable[r])
        BY <4>4 DEF t
      <4> QED  BY <2>2, <2>5, <3>1, <3>3, <4>1, <4>5
    <3> QED  BY <3>2, <3>3
  <2> QED  BY <1>1, <2>5, <2>6, <2>7, RebuildEnds
<1> QED  BY <1>3, <1>4 DEF RebuildReplace
-----------------------------------------------------------------------------
\* Threads that are gone have nothing in hand.
LEMMA IdleType ==
    IsLocal(Idle) /\ Idle.pc = "receive" /\ Idle.todo = {} /\ Idle.unit = {} /\ Idle.ackable = {}
BY DEF Idle, IsLocal, Is

LEMMA AllIdle ==
    ASSUME UnreadInv, worker' = [w \in Workers |-> Idle],
           UNCHANGED <<projection, durable, cached, event>>, IsRebuild(rebuild'),
           rebuild' = rebuild \/ rebuild'.pc \notin {"load", "replace"},
           receiver_mutexes' = [s \in 0 .. MutexCount - 1 |-> receiver_mutexes'[s]],
           rebuild'.pc \in {"load", "replace"} => receiver_mutexes' = receiver_mutexes
    PROVE  UnreadInv'
<1>1. \A w \in Workers : worker'[w] = Idle
  OBVIOUS
<1>2. Stores' /\ Committed'
  BY <1>1, IdleType DEF UnreadInv, Stores, Committed, About
<1>3. Threads'
  BY <1>1, IdleType DEF Threads
<1>4. Fenced' /\ Snaps'
  BY <1>1, IdleType, Zenon DEF UnreadInv, Fenced, Snaps
<1>5. StillOwed
  BY <1>1, IdleType DEF StillOwed, Owed
<1>6. Rebuilt'
  BY <1>5, RebuiltKept DEF UnreadInv, Rebuilt
<1> QED  BY <1>2, <1>3, <1>4, <1>5, <1>6, FreshKept DEF UnreadInv

\* The switch running_ and the bound on failures do not matter.
LEMMA UnchangedKeeps ==
    ASSUME UnreadInv,
           UNCHANGED <<projection, durable, cached, event, worker, rebuild, receiver_mutexes>>
    PROVE  UnreadInv'
<1>1. StillOwed /\ About' = About
  BY DEF StillOwed, Owed, About
<1>2. Stores' /\ Threads' /\ Committed' /\ Fenced'
  BY <1>1, Zenon DEF UnreadInv, Stores, Threads, Committed, Known, Fenced, Stripe
<1>3. Snaps'
  BY <1>1, CurrentKept DEF UnreadInv, Snaps
<1> QED  BY <1>1, <1>2, <1>3, FreshKept, RebuiltKept DEF UnreadInv

LEMMA LifecycleKeeps ==
    ASSUME UnreadInv, Shutdown \/ Start \/ Crash
    PROVE  UnreadInv'
<1>1. CASE Shutdown
  BY <1>1, UnchangedKeeps DEF Shutdown
<1>2. CASE Start
  <2>1. /\ worker' = [w \in Workers |-> Idle]
        /\ UNCHANGED <<projection, durable, cached, event, rebuild, receiver_mutexes>>
    BY <1>2 DEF Start
  <2>2. IsRebuild(rebuild') /\ receiver_mutexes' = [s \in 0 .. MutexCount - 1 |-> receiver_mutexes'[s]]
    BY <2>1 DEF UnreadInv, Threads
  <2> QED  BY <2>1, <2>2, AllIdle
<1>3. CASE Crash
  <2>1. /\ worker' = [w \in Workers |-> Idle]
        /\ UNCHANGED <<projection, durable, cached, event>>
        /\ receiver_mutexes' = [s \in DOMAIN receiver_mutexes |-> Nobody]
        /\ \/ rebuild.pc = "idle" /\ rebuild' = rebuild
           \/ rebuild' = [Resting EXCEPT !.pc = "done"]
    BY <1>3 DEF Crash
  <2>2. IsRebuild(rebuild') /\ rebuild'.pc \notin {"load", "replace"}
    BY <2>1, RebuildOver, Zenon DEF UnreadInv, Threads
  <2>3. receiver_mutexes' = [s \in 0 .. MutexCount - 1 |-> receiver_mutexes'[s]]
    BY <2>1 DEF UnreadInv, Threads
  <2> QED  BY <2>1, <2>2, <2>3, AllIdle
<1> QED  BY <1>1, <1>2, <1>3

LEMMA UnreadInitInv == UnreadInit => UnreadInv
<1> SUFFICES ASSUME UnreadInit PROVE UnreadInv
  OBVIOUS
<1>1. \A w \in Workers : worker[w] = Idle
  BY DEF UnreadInit
<1>2. Committed /\ Snaps
  BY <1>1, IdleType DEF Committed, Snaps
<1>3. rebuild.pc = "idle" /\ IsRebuild(rebuild)
  BY DEF UnreadInit, Resting, IsRebuild
<1>4. Fenced /\ Rebuilt
  BY <1>1, <1>3, IdleType DEF Fenced, Rebuilt
<1>5. Threads
  BY <1>1, <1>3, IdleType DEF UnreadInit, Threads
<1>6. /\ \A r \in Receivers : durable[r] = Unmessaged
      /\ \A r \in Receivers : cached[r].peer = Unmessaged /\ cached[r].total = Total(Unmessaged)
  <2> DEFINE t == Total(Unmessaged)
  <2>1. cached = [r \in Receivers |-> [peer |-> Unmessaged, total |-> t]]
    BY DEF UnreadInit
  <2> HIDE DEF t
  <2>2. \A r \in Receivers : cached[r].peer = Unmessaged /\ cached[r].total = t
    BY <2>1
  <2> QED  BY <2>2 DEF UnreadInit, t
<1>7. Stores
  <2> DEFINE t == Total(Unmessaged)
  <2>1. cached = [r \in Receivers |-> [peer |-> Unmessaged, total |-> t]]
    BY DEF UnreadInit
  <2> HIDE DEF t
  <2> QED  BY <2>1 DEF UnreadInit, Stores, IsCount, About, Unmessaged
<1>8. Fresh
  BY <1>6 DEF Fresh
<1> QED  BY <1>2, <1>4, <1>5, <1>7, <1>8 DEF UnreadInv

-----------------------------------------------------------------------------
LEMMA UnreadStepInv == UnreadInv /\ [UnreadNext]_unreadVars => UnreadInv'
<1> SUFFICES ASSUME UnreadInv, [UnreadNext]_unreadVars PROVE UnreadInv'
  OBVIOUS
<1>1. ASSUME NEW e \in Events, Commit(e) PROVE UnreadInv'
  BY <1>1, CommitKeeps
<1>2. ASSUME NEW e \in Events, Broker(e) PROVE UnreadInv'
  BY <1>2, BrokerKeeps
<1>3. ASSUME NEW w \in Workers, RunLoop(w) PROVE UnreadInv'
  <2>1. CASE Receive(w)  BY <2>1, ReceiveIsOutside, OutsideKeeps
  <2>2. CASE Begin(w)    BY <2>2, BeginIsOutside, OutsideKeeps
  <2>3. CASE Lock(w)     BY <2>3, LockKeeps
  <2>4. CASE Load(w)     BY <2>4, LoadKeeps
  <2>5. CASE Apply(w)    BY <2>5, ApplyKeeps
  <2>6. CASE Ack(w)      BY <2>6, AckIsOutside, OutsideKeeps
  <2>7. CASE Finish(w)   BY <2>7, FinishIsOutside, OutsideKeeps
  <2> QED  BY <1>3, <2>1, <2>2, <2>3, <2>4, <2>5, <2>6, <2>7 DEF RunLoop
<1>4. ASSUME NEW r \in Receivers, RebuildLock(r) PROVE UnreadInv'
  BY <1>4, RebuildLockKeeps
<1>5. CASE RebuildUser
  BY <1>5, RebuildLoadKeeps, RebuildReplaceKeeps DEF RebuildUser
<1>6. CASE Shutdown \/ Start \/ Crash
  BY <1>6, LifecycleKeeps
<1>7. CASE UNCHANGED unreadVars
  BY <1>7, UnchangedKeeps DEF unreadVars
<1> QED  BY <1>1, <1>2, <1>3, <1>4, <1>5, <1>6, <1>7 DEF UnreadNext

\* The invariant is strong enough: nothing is owed for events that are acknowledged.
LEMMA UnreadInvExact == UnreadInv => ProjectionExact
<1> SUFFICES ASSUME UnreadInv, NEW r \in Receivers,
                    \A e \in DOMAIN About : About[e].receiver = r => event[e] \in {"future", "acked"}
             PROVE  cached[r] = [peer |-> durable[r], total |-> Total(durable[r])]
  BY DEF ProjectionExact, About
<1>1. OwedIn(Of(r), {}) /\ \A p \in Peers : OwedIn(Between(r, p), {})
  BY DEF OwedIn, Of, Between, Owed
<1>2. cached[r].total = Total(durable[r]) /\ \A p \in Peers : cached[r].peer[p] = durable[r][p]
  BY <1>1 DEF UnreadInv, Fresh
<1>3. durable[r] = [p \in Peers |-> durable[r][p]] /\ IsCount(cached[r])
  BY DEF UnreadInv, Stores
<1> DEFINE t == Total(durable[r])
<1>4. cached[r].total = t
  BY <1>2
<1> HIDE DEF t
<1>5. cached[r] = [peer |-> durable[r], total |-> t]
  BY <1>2, <1>3, <1>4 DEF IsCount
<1> QED  BY <1>5 DEF t

\* Whatever the workers, the broker, a rebuild and a restart interleave to:
\* when all events of a receiver are acknowledged, Redis has the counters of
\* the table (ProjectOne and ProjectBatch under ReceiverFence, RebuildUser).
THEOREM ProjectionIsExact == UnreadSafety => []ProjectionExact
BY UnreadInitInv, UnreadStepInv, UnreadInvExact, PTL DEF UnreadSafety
=============================================================================
