---------------------- MODULE PrivatePersistenceProofs ----------------------
(***************************************************************************)
(* PrivatePersistence for any number of requests, keys, bodies, pooled     *)
(* connections, batch lengths and faults: a message and its Outbox event   *)
(* become durable together and once, and what a finished request says of   *)
(* its messages is true.                                                   *)
(***************************************************************************)
EXTENDS PrivatePersistence, SequenceTheorems, TLAPS

Labels == {"idle", "acquire", "lookup", "insert", "outbox", "commit", "finish",
           "recover", "done", "dead"}
Results == {"none", "created", "reused", "conflict", "error"}

TableType ==
    /\ rows \in [Cids -> Bodies \cup {NoBody}]
    /\ events \in [Cids -> Nat]
    /\ snap \in [Workers -> [Cids -> Bodies \cup {NoBody}]]
    /\ own \in [Workers -> SUBSET Inputs]
    /\ ownEvents \in [Workers -> SUBSET Cids]

\* A request has an answer, if only "none", for each of its messages.
WorkType ==
    /\ job \in [Workers -> Seq(Inputs)]
    /\ pc \in [Workers -> Labels]
    /\ idx \in [Workers -> Nat \ {0}]
    /\ res = [w \in Workers |-> res[w]]
    /\ \A w \in Workers : res[w] \in [1 .. Len(job[w]) -> Results]
    /\ \A w \in Workers :
          /\ pc[w] = "idle" => idx[w] = 1
          /\ pc[w] \notin {"idle", "done", "dead"} => idx[w] <= Len(job[w])

TypeOK == TableType /\ WorkType

-----------------------------------------------------------------------------
(* The locks: what a transaction has written and nobody else can see.      *)

\* The requests without a transaction, or whose transaction wrote nothing.
Clean == {"idle", "acquire", "finish", "recover", "done", "dead"}

\* The keys of a transaction's rows are free in the table and held by no other
\* transaction; a snapshot is an older table.
Exclusive ==
    /\ \A w \in Workers, c \in Cids : snap[w][c] # NoBody => snap[w][c] = rows[c]
    /\ \A w \in Workers : \A o \in own[w] : rows[o.cid] = NoBody
    /\ \A w \in Workers : \A o, p \in own[w] : o.cid = p.cid => o = p
    /\ \A v, w \in Workers : \A o \in own[v], p \in own[w] : o.cid = p.cid => v = w

\* The events of a transaction are those of its rows, but for the row it has
\* just inserted; a row is inserted only where the transaction has none.
Books(w) ==
    /\ pc[w] \in Clean => own[w] = {} /\ ownEvents[w] = {}
    /\ pc[w] \in {"lookup", "insert"} /\ idx[w] = 1 => own[w] = {}
    /\ pc[w] \in {"lookup", "insert", "commit"} => ownEvents[w] = {o.cid : o \in own[w]}
    /\ pc[w] = "outbox" =>
          Input(w) \in own[w] /\ ownEvents[w] \cup {Input(w).cid} = {o.cid : o \in own[w]}
    /\ pc[w] = "insert" => \A o \in own[w] : o.cid # Input(w).cid

Locks == Exclusive /\ \A w \in Workers : Books(w)

-----------------------------------------------------------------------------
(* The answers.                                                            *)

\* What the answer a to message in of w means while w's transaction is open:
\* the row is in the table, or among the rows that w will commit.
Means(w, in, a) ==
    /\ a # "none"
    /\ a = "created" => in \in own[w]
    /\ a = "reused" => rows[in.cid] = in.body \/ in \in own[w]
    /\ a = "conflict" =>
          \/ rows[in.cid] \notin {NoBody, in.body}
          \/ \E o \in own[w] : o.cid = in.cid /\ o.body # in.body

Answered(w, i) == i < idx[w] \/ pc[w] \in {"commit", "finish"}

\* It means what it has answered and has answered nothing else.
Replies(w) ==
    \A i \in 1 .. Len(job[w]) :
        IF Answered(w, i) THEN Means(w, job[w][i], res[w][i]) ELSE res[w][i] = "none"

\* It has created a message at one place only.
CreatesOnce(w) ==
    \A i, j \in 1 .. Len(job[w]) :
        res[w][i] = "created" /\ res[w][j] = "created"
            /\ job[w][i].cid = job[w][j].cid => i = j

\* It has not created before the message that it has just inserted.
InsertsNew(w) ==
    pc[w] = "outbox" =>
        \A i \in 1 .. Len(job[w]) :
            res[w][i] = "created" => job[w][i].cid # Input(w).cid

\* All of it, of a request at work.
Meaning(w) ==
    pc[w] \notin {"idle", "done", "dead"} => Replies(w) /\ CreatesOnce(w) /\ InsertsNew(w)

\* What a finished request says is so, in the table.
Honest(w) ==
    pc[w] = "done" =>
        \A i \in 1 .. Len(job[w]) :
            /\ res[w][i] \in {"created", "reused"} => rows[job[w][i].cid] = job[w][i].body
            /\ res[w][i] = "conflict" => rows[job[w][i].cid] \notin {NoBody, job[w][i].body}
            /\ res[w][i] # "none"

\* Two finished requests have not created the same message, nor one of them twice.
Single(w, v) ==
    pc[w] = "done" /\ pc[v] = "done" =>
        \A i \in 1 .. Len(job[w]), j \in 1 .. Len(job[v]) :
            res[w][i] = "created" /\ res[v][j] = "created" /\ job[v][j].cid = job[w][i].cid
                => v = w /\ j = i

Truth ==
    /\ \A w \in Workers : Meaning(w) /\ Honest(w)
    /\ \A v, w \in Workers : Single(w, v)

-----------------------------------------------------------------------------
(* Types.                                                                  *)

\* A request is a non-empty sequence of messages.
LEMMA JobLength ==
    ASSUME NEW j \in Jobs
    PROVE  j \in Seq(Inputs) /\ Len(j) \in Nat \ {0}
<1>1. PICK n \in 1 .. MaxBatch : j \in [1 .. n -> Inputs]
  BY DEF Jobs
<1>2. n \in Nat \ {0}
  BY <1>1, ConstantsAssumption
<1>3. j \in Seq(Inputs) /\ Len(j) = n
  BY <1>1, <1>2, IsASeq
<1> QED  BY <1>2, <1>3

\* The initial state has its types.
LEMMA TypeInit == Init => TypeOK
  BY DEF Init, TypeOK, TableType, WorkType, Labels, Results

\* The request that w works on and the message it is at.
LEMMA InputType ==
    ASSUME TypeOK, NEW w \in Workers, pc[w] \notin {"idle", "done", "dead"}
    PROVE  /\ idx[w] \in 1 .. Len(job[w]) /\ Len(job[w]) \in Nat
           /\ Input(w) \in Inputs /\ Input(w).cid \in Cids /\ Input(w).body \in Bodies
<1>1. job[w] \in Seq(Inputs) /\ Len(job[w]) \in Nat
  BY DEF TypeOK, WorkType
<1>2. idx[w] \in 1 .. Len(job[w])
  BY <1>1 DEF TypeOK, WorkType
<1>3. job[w][idx[w]] \in Inputs
  BY <1>1, <1>2, ElementOfSeq
<1> QED  BY <1>1, <1>2, <1>3 DEF Input, Inputs

\* A worker goes to label l and message k with the answers r.
LEMMA Moves ==
    ASSUME WorkType, NEW w \in Workers, NEW l \in Labels, NEW k \in Nat \ {0},
           NEW r \in [1 .. Len(job[w]) -> Results],
           pc' = [pc EXCEPT ![w] = l], idx' = [idx EXCEPT ![w] = k],
           res' = [res EXCEPT ![w] = r], job' = job,
           l # "idle", l \notin {"done", "dead"} => k <= Len(job[w])
    PROVE  WorkType'
  BY Zenon DEF WorkType

\* An answer of a request that is at work.
LEMMA AnswerType ==
    ASSUME TypeOK, NEW w \in Workers, NEW a \in Results, pc[w] \notin {"idle", "done", "dead"}
    PROVE  [res[w] EXCEPT ![idx[w]] = a] \in [1 .. Len(job[w]) -> Results]
  BY InputType DEF TypeOK, WorkType

\* Whatever w leaves alone may be written as an update with the old value.
LEMMA Same ==
    ASSUME WorkType, NEW w \in Workers
    PROVE  /\ pc = [pc EXCEPT ![w] = pc[w]] /\ idx = [idx EXCEPT ![w] = idx[w]]
           /\ res = [res EXCEPT ![w] = res[w]]
           /\ pc[w] \in Labels /\ idx[w] \in Nat \ {0} /\ res[w] \in [1 .. Len(job[w]) -> Results]
           /\ Len(job[w]) \in Nat
           /\ [i \in 1 .. Len(job[w]) |-> "none"] \in [1 .. Len(job[w]) -> Results]
           /\ [i \in 1 .. Len(job[w]) |-> "error"] \in [1 .. Len(job[w]) -> Results]
  BY DEF WorkType, Results

\* A transaction that is given up.
LEMMA RecoveryType ==
    ASSUME TypeOK, NEW w \in Workers, pc[w] \notin {"idle", "done", "dead"},
           ToRecovery(w) \/ ToError(w), job' = job
    PROVE  WorkType'
<1> USE DEF TypeOK, Go, Answers
<1>0. 1 \in Nat \ {0} /\ 1 <= Len(job[w])
  BY InputType
<1>1. CASE ToRecovery(w)
  <2>1. "recover" \in Labels /\ "recover" \notin {"idle", "done", "dead"}
    BY Zenon DEF Labels
  <2> QED  BY <1>0, <1>1, <2>1, Same, Moves, Zenon DEF ToRecovery
<1>2. CASE ToError(w)
  <2>1. "done" \in Labels /\ "done" # "idle"
    BY Zenon DEF Labels
  <2> QED  BY <1>2, <2>1, Same, Moves, Zenon DEF ToError, AllErrors
<1> QED  BY <1>1, <1>2

\* An answer to one message, and on to the next or to the end.
LEMMA AdvanceType ==
    ASSUME TypeOK, NEW w \in Workers, pc[w] \notin {"idle", "done", "dead"}, NEW wrote \in BOOLEAN,
           NEW a \in Results, Answers(w, [res[w] EXCEPT ![idx[w]] = a]),
           Advance(w, wrote), job' = job
    PROVE  WorkType'
<1>1. CASE idx[w] < Len(job[w])
  <2>1. "lookup" \in Labels /\ "lookup" # "idle"
    BY Zenon DEF Labels
  <2>2. idx[w] + 1 \in Nat \ {0} /\ idx[w] + 1 <= Len(job[w])
    BY <1>1, InputType
  <2>3. Go(w, "lookup") /\ idx' = [idx EXCEPT ![w] = idx[w] + 1]
    BY <1>1, Same, Zenon DEF Advance, TypeOK
  <2> QED  BY <2>1, <2>2, <2>3, AnswerType, Moves, Zenon DEF TypeOK, Go, Answers
<1>2. CASE ~(idx[w] < Len(job[w]))
  <2>1. PICK l \in {"commit", "finish"} : Go(w, l)
    BY <1>2 DEF Advance
  <2>2. idx' = [idx EXCEPT ![w] = idx[w]] /\ idx[w] \in Nat \ {0} /\ idx[w] <= Len(job[w])
    BY <1>2, InputType, Same DEF Advance, TypeOK
  <2>3. l \in Labels /\ l \notin {"idle", "done", "dead"}
    BY DEF Labels
  <2> QED  BY <2>1, <2>2, <2>3, AnswerType, Moves, Zenon DEF Go, Answers, TypeOK
<1> QED  BY <1>1, <1>2

\* Every step keeps the types.
LEMMA TypeStep == TypeOK /\ [Next]_vars => TypeOK'
<1> SUFFICES ASSUME TypeOK, [Next]_vars PROVE TypeOK'
  OBVIOUS
<1>t. TableType /\ WorkType
  BY DEF TypeOK
<1>0. CASE UNCHANGED vars
  BY <1>0 DEF vars, TypeOK, TableType, WorkType
<1>1. ASSUME NEW w \in Workers, Submit(w) PROVE TypeOK'
  <2>1. PICK j \in Jobs : /\ job' = [job EXCEPT ![w] = j]
                          /\ res' = [res EXCEPT ![w] = [i \in 1 .. Len(j) |-> "none"]]
    BY <1>1, Zenon DEF Submit
  <2>2. j \in Seq(Inputs) /\ Len(j) \in Nat \ {0} /\ idx[w] = 1
    BY <1>1, JobLength DEF Submit, TypeOK, WorkType
  <2>3. pc' = [pc EXCEPT ![w] = "acquire"] /\ idx' = idx
    BY <1>1 DEF Submit, Go
  <2>4. WorkType'
    <3>1. job' \in [Workers -> Seq(Inputs)] /\ pc' \in [Workers -> Labels]
      BY <1>t, <2>1, <2>2, <2>3 DEF WorkType, Labels
    <3>2. /\ res' = [v \in Workers |-> res'[v]]
          /\ \A v \in Workers : res'[v] \in [1 .. Len(job'[v]) -> Results]
      <4>1. res = [v \in Workers |-> res[v]]
        BY <1>t DEF WorkType
      <4>2. res' = [v \in Workers |-> IF v = w THEN [i \in 1 .. Len(j) |-> "none"] ELSE res[v]]
        BY <2>1, <4>1, Zenon
      <4>3. job' = [v \in Workers |-> IF v = w THEN j ELSE job[v]]
        BY <1>t, <2>1, Zenon DEF WorkType
      <4> QED  BY <1>t, <4>2, <4>3 DEF WorkType, Results
    <3>3. \A v \in Workers :
             /\ pc'[v] = "idle" => idx'[v] = 1
             /\ pc'[v] \notin {"idle", "done", "dead"} => idx'[v] <= Len(job'[v])
      BY <1>t, <2>1, <2>2, <2>3 DEF WorkType
    <3> QED  BY <1>t, <2>3, <3>1, <3>2, <3>3 DEF WorkType
  <2> QED  BY <1>1, <1>t, <2>4 DEF Submit, TypeOK, TableType
<1>2. ASSUME NEW w \in Workers, Acquire(w) PROVE TypeOK'
  BY <1>2 DEF Acquire, TypeOK, TableType, WorkType, Labels, Go
<1>3. ASSUME NEW w \in Workers, AcquireFails(w) PROVE TypeOK'
  <2>1. WorkType'
    BY <1>3, RecoveryType DEF AcquireFails
  <2> QED  BY <1>3, <1>t, <2>1 DEF AcquireFails, ToError, Release, TypeOK, TableType
<1>4. ASSUME NEW w \in Workers, Lookup(w) PROVE TypeOK'
  <2>1. TableType'
    BY <1>4, <1>t DEF Lookup, View, TableType
  <2>2. CASE Visible(w) = {}
    BY <1>4, <1>t, <2>1, <2>2, Same, InputType, Moves, "insert" \in Labels DEF Lookup, Go, Labels, TypeOK
  <2>3. CASE Visible(w) # {}
    <3>1. PICK b \in Visible(w) :
             /\ Answers(w, [res[w] EXCEPT ![idx[w]] = Classify(Input(w), b)])
             /\ Advance(w, own[w] # {})
      BY <1>4, <2>3 DEF Lookup
    <3>2. Classify(Input(w), b) \in Results
      BY DEF Classify, Results
    <3>3. WorkType'
      BY <1>4, <3>1, <3>2, AdvanceType, (own[w] # {}) \in BOOLEAN, Zenon DEF Lookup
    <3> QED  BY <2>1, <3>3 DEF TypeOK
  <2> QED  BY <2>2, <2>3
<1>5. ASSUME NEW w \in Workers, SkipPrecheck(w) PROVE TypeOK'
  BY <1>5 DEF SkipPrecheck, TypeOK, TableType, WorkType, Labels, Go
<1>6. ASSUME NEW w \in Workers, StatementFails(w) PROVE TypeOK'
  <2>1. WorkType'
    BY <1>6, RecoveryType DEF StatementFails
  <2> QED  BY <1>6, <1>t, <2>1, Zenon DEF StatementFails, ToError, ToRecovery, Release, TypeOK, TableType
<1>7. ASSUME NEW w \in Workers, Insert(w) \/ InsertLosesLock(w) \/ InsertFails(w)
      PROVE  TypeOK'
  <2>1. CASE ToRecovery(w)
    <3>1. WorkType'
      BY <1>7, <2>1, RecoveryType DEF Insert, InsertLosesLock, InsertFails
    <3> QED  BY <1>7, <1>t, <2>1, <3>1
             DEF Insert, InsertLosesLock, InsertFails, ToRecovery, Release, TypeOK, TableType
  <2>2. CASE ~ToRecovery(w)
    <3>1. TableType'
      <4>1. Insert(w) /\ Input(w) \in Inputs
        BY <1>7, <2>2, InputType DEF Insert, InsertLosesLock, InsertFails
      <4> QED  BY <1>t, <2>2, <4>1 DEF Insert, TableType
    <3>2. WorkType'
      BY <1>7, <1>t, <2>2, InputType, Same, Moves, "outbox" \in Labels
         DEF Insert, InsertLosesLock, InsertFails, Go, Labels
    <3> QED  BY <3>1, <3>2 DEF TypeOK
  <2> QED  BY <2>1, <2>2
<1>8. ASSUME NEW w \in Workers, Outbox(w) PROVE TypeOK'
  <2>1. WorkType'
    BY <1>8, AdvanceType, "created" \in Results, TRUE \in BOOLEAN, Zenon DEF Outbox, Results
  <2> QED  BY <1>8, <1>t, <2>1, InputType DEF Outbox, TypeOK, TableType
<1>9. ASSUME NEW w \in Workers, CommitSucceeds(w) \/ CommitAmbiguous(w) PROVE TypeOK'
  <2>1. \A i \in own[w] : i.body \in Bodies
    BY <1>t DEF Inputs, TableType
  <2>2. ASSUME Commit(w)
        PROVE  rows' \in [Cids -> Bodies \cup {NoBody}] /\ events' \in [Cids -> Nat]
    <3>1. ASSUME NEW c \in Cids, \E i \in own[w] : i.cid = c
          PROVE  (CHOOSE i \in own[w] : i.cid = c).body \in Bodies
      BY <2>1, <3>1
    <3> QED  BY <2>2, <3>1, <1>t DEF Commit, TableType
  <2>3. rows' \in [Cids -> Bodies \cup {NoBody}] /\ events' \in [Cids -> Nat]
    BY <1>9, <1>t, <2>2 DEF CommitSucceeds, CommitAmbiguous, TableType
  <2>4. TableType'
    BY <1>9, <1>t, <2>3, Zenon DEF CommitSucceeds, CommitAmbiguous, ToRecovery, Release, TableType
  <2>5. WorkType'
    BY <1>9, <1>t, RecoveryType, Same, Moves, "done" \in Labels
       DEF CommitSucceeds, CommitAmbiguous, Go, Labels
  <2> QED  BY <2>4, <2>5 DEF TypeOK
<1>10. ASSUME NEW w \in Workers, Finish(w) \/ Crash(w) PROVE TypeOK'
  BY <1>10, Zenon DEF Finish, Crash, Release, TypeOK, TableType, WorkType, Labels, Go
<1>11. ASSUME NEW w \in Workers, Recover(w) \/ RecoverFails(w) PROVE TypeOK'
  <2>1. PICK a \in Results : Answers(w, [res[w] EXCEPT ![idx[w]] = a])
    BY <1>11 DEF Recover, RecoverFails, Recovered, Classify, Results
  <2>2. TableType'
    BY <1>11, <1>t DEF Recover, RecoverFails, TableType
  <2>3. CASE idx[w] < Len(job[w])
    <3>1. idx[w] + 1 \in Nat \ {0} /\ idx[w] + 1 <= Len(job[w])
      BY <1>11, <2>3, InputType DEF Recover, RecoverFails
    <3>2. /\ idx' = [idx EXCEPT ![w] = idx[w] + 1] /\ pc' = [pc EXCEPT ![w] = pc[w]]
          /\ pc[w] = "recover" /\ pc[w] \in Labels /\ job' = job
      BY <1>11, <1>t, <2>3, Same DEF Recover, RecoverFails
    <3>3. WorkType'
      BY <1>t, <2>1, <3>1, <3>2, AnswerType, Moves, Zenon DEF Answers
    <3> QED  BY <2>2, <3>3 DEF TypeOK
  <2>4. CASE ~(idx[w] < Len(job[w]))
    <3>1. /\ idx' = [idx EXCEPT ![w] = idx[w]] /\ pc' = [pc EXCEPT ![w] = "done"]
          /\ idx[w] \in Nat \ {0} /\ pc[w] = "recover" /\ job' = job /\ "done" \in Labels
      BY <1>11, <1>t, <2>4, Same DEF Recover, RecoverFails, Go, Labels
    <3>2. WorkType'
      BY <1>t, <2>1, <3>1, AnswerType, Moves, Zenon DEF Answers
    <3> QED  BY <2>2, <3>2 DEF TypeOK
  <2> QED  BY <2>3, <2>4
<1> QED
  BY <1>0, <1>1, <1>2, <1>3, <1>4, <1>5, <1>6, <1>7, <1>8, <1>9, <1>10, <1>11 DEF Next, Step

-----------------------------------------------------------------------------
(* One step is the step of one worker.                                     *)

Turn(w) ==
    \/ Submit(w) \/ Step(w)
    \/ AcquireFails(w) \/ StatementFails(w) \/ InsertFails(w)
    \/ CommitAmbiguous(w) \/ RecoverFails(w) \/ Crash(w)

\* A step is the turn of some worker.
LEMMA TurnOfNext == Next => \E w \in Workers : Turn(w)
  BY DEF Next, Turn

\* A worker's step leaves the requests of the others alone.
LEMMA OthersKeep ==
    ASSUME TypeOK, NEW w \in Workers, Turn(w), NEW v \in Workers, v # w
    PROVE  /\ job'[v] = job[v] /\ pc'[v] = pc[v] /\ idx'[v] = idx[v]
           /\ own'[v] = own[v] /\ ownEvents'[v] = ownEvents[v]
           /\ snap'[v] = snap[v] /\ res'[v] = res[v]
<1> USE DEF TypeOK, TableType, WorkType, Go, Answers, Release
<1>1. CASE Submit(w) \/ Acquire(w) \/ SkipPrecheck(w) \/ Finish(w) \/ Crash(w)
  BY <1>1 DEF Submit, Acquire, SkipPrecheck, Finish, Crash
<1>2. CASE AcquireFails(w) \/ StatementFails(w)
  BY <1>2 DEF AcquireFails, StatementFails, ToError, ToRecovery
<1>3. CASE Lookup(w)
  BY <1>3 DEF Lookup, Advance
<1>4. CASE Insert(w) \/ InsertLosesLock(w) \/ InsertFails(w)
  BY <1>4 DEF Insert, InsertLosesLock, InsertFails, ToRecovery
<1>5. CASE Outbox(w)
  BY <1>5 DEF Outbox, Advance
<1>6. CASE CommitSucceeds(w) \/ CommitAmbiguous(w)
  BY <1>6 DEF CommitSucceeds, CommitAmbiguous, ToRecovery
<1>7. CASE Recover(w) \/ RecoverFails(w)
  BY <1>7 DEF Recover, RecoverFails
<1> QED  BY <1>1, <1>2, <1>3, <1>4, <1>5, <1>6, <1>7 DEF Turn, Step

\* The books of the others stay in order.
LEMMA OthersBooks ==
    ASSUME TypeOK, NEW w \in Workers, Turn(w), NEW v \in Workers, v # w, Books(v)
    PROVE  Books(v)'
  BY OthersKeep DEF Books, Input

-----------------------------------------------------------------------------
(* The locks are kept.                                                     *)

\* A step that neither commits nor writes keeps what excludes the others.
LEMMA ExclusiveKept ==
    ASSUME TypeOK, Exclusive, NEW w \in Workers, rows' = rows, snap' = snap,
           own' = own \/ own' = [own EXCEPT ![w] = {}]
    PROVE  Exclusive'
<1> USE DEF TypeOK, TableType
<1>1. \A v \in Workers : own'[v] \subseteq own[v]
  OBVIOUS
<1> QED  BY <1>1 DEF Exclusive

\* A transaction that is given up, and a request that ends.
LEMMA ReleaseBooks ==
    ASSUME TypeOK, NEW w \in Workers, Release(w), pc'[w] \in Clean
    PROVE  Books(w)'
  BY DEF TypeOK, TableType, Release, Books, Clean

\* After a message, of a transaction whose books are in order.
LEMMA AdvanceBooks ==
    ASSUME TypeOK, NEW w \in Workers, pc[w] \notin {"idle", "done", "dead"},
           own'[w] = own[w], ownEvents'[w] = {o.cid : o \in own[w]},
           NEW wrote \in BOOLEAN, ~wrote => own[w] = {}, Advance(w, wrote)
    PROVE  Books(w)'
<1>1. CASE idx[w] < Len(job[w])
  <2>1. pc'[w] = "lookup" /\ idx'[w] # 1
    BY <1>1, InputType DEF Advance, Go, TypeOK, WorkType
  <2> QED  BY <2>1 DEF Books, Clean
<1>2. CASE ~(idx[w] < Len(job[w]))
  <2>1. pc'[w] = IF wrote THEN "commit" ELSE "finish"
    BY <1>2 DEF Advance, Go, TypeOK, WorkType
  <2>2. CASE wrote
    BY <2>1, <2>2 DEF Books, Clean
  <2>3. CASE ~wrote
    <3>1. ownEvents'[w] = {}
      BY <2>3
    <3> QED  BY <2>1, <2>3, <3>1 DEF Books, Clean
  <2> QED  BY <2>2, <2>3
<1> QED  BY <1>1, <1>2

\* Lookup reads the table or the snapshot and writes nothing.
LEMMA LookupBooks ==
    ASSUME TypeOK, Locks, NEW w \in Workers, Lookup(w)
    PROVE  Exclusive' /\ Books(w)'
<1>1. Exclusive /\ Books(w) /\ pc[w] = "lookup" /\ TableType
  BY DEF Locks, Lookup, TypeOK
<1>2. Exclusive'
  <2>1. rows' = rows /\ own' = own /\ snap' = [snap EXCEPT ![w] = View(w)]
    BY DEF Lookup
  <2>2. \A c \in Cids : View(w)[c] # NoBody => View(w)[c] = rows[c]
    BY <1>1 DEF View, Exclusive
  <2>3. \A v \in Workers, c \in Cids : snap'[v][c] # NoBody => snap'[v][c] = rows'[c]
    BY <1>1, <2>1, <2>2 DEF Exclusive, TableType
  <2> QED  BY <1>1, <2>1, <2>3 DEF Exclusive
<1>3. CASE Visible(w) = {}
  <2>1. /\ pc'[w] = "insert" /\ idx' = idx /\ job' = job /\ own' = own /\ ownEvents' = ownEvents
    BY <1>3 DEF Lookup, Go, TypeOK, WorkType
  <2>2. \A o \in own[w] : o.cid # Input(w).cid
    BY <1>3 DEF Visible
  <2>3. Input(w)' = Input(w)
    BY <2>1 DEF Input
  <2> QED  BY <1>1, <1>2, <2>1, <2>2, <2>3 DEF Books, Clean
<1>4. CASE Visible(w) # {}
  <2>1. Advance(w, own[w] # {}) /\ own' = own /\ ownEvents' = ownEvents
    BY <1>4, Zenon DEF Lookup
  <2>2. ownEvents[w] = {o.cid : o \in own[w]}
    BY <1>1 DEF Books
  <2> QED  BY <1>1, <1>2, <2>1, <2>2, AdvanceBooks, (own[w] # {}) \in BOOLEAN, Zenon
<1> QED  BY <1>3, <1>4

\* Insert takes a key that neither the table nor a transaction has.
LEMMA InsertBooks ==
    ASSUME TypeOK, Locks, NEW w \in Workers, Insert(w)
    PROVE  Exclusive' /\ Books(w)'
<1>1. Exclusive /\ Books(w) /\ pc[w] = "insert" /\ TableType /\ ~LockedByOther(w)
  BY DEF Locks, Insert, TypeOK
<1>2. CASE rows[Input(w).cid] # NoBody
  <2>1. ToRecovery(w) /\ rows' = rows /\ snap' = snap
    BY <1>2 DEF Insert
  <2>2. Release(w) /\ pc'[w] = "recover" /\ own' = [own EXCEPT ![w] = {}]
    BY <2>1 DEF ToRecovery, Go, Release, TypeOK, WorkType
  <2> QED  BY <1>1, <2>1, <2>2, ExclusiveKept, ReleaseBooks, Zenon DEF Clean
<1>3. CASE rows[Input(w).cid] = NoBody
  <2>1. /\ own' = [own EXCEPT ![w] = own[w] \cup {Input(w)}] /\ pc'[w] = "outbox"
        /\ rows' = rows /\ snap' = snap /\ ownEvents' = ownEvents /\ idx' = idx /\ job' = job
    BY <1>3 DEF Insert, Go, TypeOK, WorkType
  <2>2. own'[w] = own[w] \cup {Input(w)} /\ \A v \in Workers \ {w} : own'[v] = own[v]
    BY <1>1, <2>1 DEF TableType
  <2>3. Input(w)' = Input(w) /\ Input(w) \in own'[w]
    BY <2>1, <2>2 DEF Input
  <2>4. \A o \in own[w] : o.cid # Input(w).cid
    BY <1>1 DEF Books
  <2>5. Exclusive'
    <3>1. \A v \in Workers : \A o \in own'[v] : rows'[o.cid] = NoBody
      BY <1>1, <1>3, <2>1, <2>2 DEF Exclusive
    <3>2. \A v \in Workers : \A o, p \in own'[v] : o.cid = p.cid => o = p
      BY <1>1, <2>2, <2>4 DEF Exclusive
    <3>3. \A u, v \in Workers : \A o \in own'[u], p \in own'[v] : o.cid = p.cid => u = v
      BY <1>1, <2>2 DEF Exclusive, LockedByOther
    <3> QED  BY <1>1, <2>1, <3>1, <3>2, <3>3 DEF Exclusive
  <2>6. ownEvents[w] = {o.cid : o \in own[w]}
    BY <1>1 DEF Books
  <2>7. ownEvents'[w] \cup {Input(w).cid} = {o.cid : o \in own'[w]}
    BY <2>1, <2>2, <2>6
  <2> QED  BY <2>1, <2>3, <2>5, <2>7 DEF Books, Clean
<1> QED  BY <1>2, <1>3

\* The event of the row just inserted balances the books.
LEMMA OutboxBooks ==
    ASSUME TypeOK, Locks, NEW w \in Workers, Outbox(w)
    PROVE  Exclusive' /\ Books(w)'
<1>1. Exclusive /\ Books(w) /\ pc[w] = "outbox" /\ TableType
  BY DEF Locks, Outbox, TypeOK
<1>2. /\ rows' = rows /\ snap' = snap /\ own' = own /\ Advance(w, TRUE)
      /\ ownEvents'[w] = ownEvents[w] \cup {Input(w).cid}
  BY <1>1, Zenon DEF Outbox, TableType
<1>3. ownEvents'[w] = {o.cid : o \in own[w]}
  BY <1>1, <1>2 DEF Books
<1> QED  BY <1>1, <1>2, <1>3, ExclusiveKept, AdvanceBooks, Zenon

\* What a commit does to the row of a key.
LEMMA CommitRow ==
    ASSUME TypeOK, Exclusive, NEW w \in Workers, Commit(w), NEW c \in Cids
    PROVE  /\ (\A o \in own[w] : o.cid # c) => rows'[c] = rows[c]
           /\ \A o \in own[w] : o.cid = c => rows'[c] = o.body /\ rows'[c] # NoBody
<1>1. rows'[c] = IF \E i \in own[w] : i.cid = c
                 THEN (CHOOSE i \in own[w] : i.cid = c).body ELSE rows[c]
  BY DEF Commit
<1>2. ASSUME NEW o \in own[w], o.cid = c PROVE rows'[c] = o.body
  <2>1. (CHOOSE i \in own[w] : i.cid = c) = o
    BY <1>2 DEF Exclusive
  <2> QED  BY <1>1, <1>2, <2>1, Zenon
<1>3. \A o \in own[w] : o.body \in Bodies
  BY DEF TypeOK, TableType, Inputs
<1> QED  BY <1>1, <1>2, <1>3, ConstantsAssumption

\* A commit moves rows whose keys nobody else has into the table.
LEMMA CommitBooks ==
    ASSUME TypeOK, Locks, NEW w \in Workers, CommitSucceeds(w) \/ CommitAmbiguous(w)
    PROVE  Exclusive' /\ Books(w)'
<1>1. Exclusive /\ TableType
  BY DEF Locks, TypeOK
<1>2. /\ Release(w) /\ pc'[w] \in Clean /\ snap' = snap
      /\ own' = [own EXCEPT ![w] = {}] /\ (Commit(w) \/ rows' = rows)
  BY DEF CommitSucceeds, CommitAmbiguous, ToRecovery, Release, Go, TypeOK, WorkType, Clean
<1>3. CASE rows' = rows
  BY <1>1, <1>2, <1>3, ExclusiveKept, ReleaseBooks, Zenon
<1>4. CASE Commit(w)
  <2>1. own'[w] = {} /\ \A v \in Workers \ {w} : own'[v] = own[v]
    BY <1>1, <1>2 DEF TableType
  <2>2. \A v \in Workers, c \in Cids : snap'[v][c] # NoBody => snap'[v][c] = rows'[c]
    BY <1>1, <1>2, <1>4, CommitRow DEF Exclusive
  <2>3. \A v \in Workers : \A o \in own[v] : o.cid \in Cids
    BY <1>1 DEF TableType, Inputs
  <2>4. \A v \in Workers : \A o \in own'[v] : rows'[o.cid] = NoBody
    BY <1>1, <1>4, <2>1, <2>3, CommitRow DEF Exclusive
  <2>5. Exclusive'
    BY <1>1, <2>1, <2>2, <2>4 DEF Exclusive
  <2> QED  BY <1>2, <2>5, ReleaseBooks
<1> QED  BY <1>2, <1>3, <1>4

\* The steps that touch neither the table nor a transaction, and those that
\* give one up.
LEMMA QuietBooks ==
    ASSUME TypeOK, Locks, NEW w \in Workers,
           \/ Submit(w) \/ Acquire(w) \/ SkipPrecheck(w) \/ Recover(w) \/ RecoverFails(w)
           \/ AcquireFails(w) \/ StatementFails(w) \/ InsertLosesLock(w) \/ InsertFails(w)
           \/ Finish(w) \/ Crash(w)
    PROVE  Exclusive' /\ Books(w)'
<1>1. Exclusive /\ Books(w) /\ TableType
  BY DEF Locks, TypeOK
<1> USE DEF TypeOK, WorkType, Go
<1>2. CASE Submit(w) \/ Acquire(w)
  <2>1. /\ rows' = rows /\ snap' = snap /\ own' = own /\ ownEvents' = ownEvents /\ idx' = idx
        /\ pc[w] \in {"idle", "acquire"} /\ pc'[w] \in {"acquire", "lookup"}
    BY <1>2 DEF Submit, Acquire
  <2> QED  BY <1>1, <2>1, ExclusiveKept DEF Books, Clean
<1>3. CASE SkipPrecheck(w)
  <2>1. /\ rows' = rows /\ snap' = snap /\ own' = own /\ ownEvents' = ownEvents /\ idx' = idx
        /\ job' = job /\ pc[w] = "lookup" /\ pc'[w] = "insert" /\ idx[w] = 1
    <3>1. idx[w] \in 1 .. Len(job[w]) /\ Len(job[w]) = 1
      BY <1>3, InputType, Zenon DEF SkipPrecheck, Direct
    <3> QED  BY <1>3, <3>1 DEF SkipPrecheck
  <2> QED  BY <1>1, <2>1, ExclusiveKept DEF Books, Clean
<1>4. CASE Recover(w) \/ RecoverFails(w)
  <2>1. /\ rows' = rows /\ snap' = snap /\ own' = own /\ ownEvents' = ownEvents
        /\ pc[w] = "recover" /\ pc'[w] \in {"recover", "done"}
    BY <1>4 DEF Recover, RecoverFails
  <2> QED  BY <1>1, <2>1, ExclusiveKept DEF Books, Clean
<1>5. CASE \/ AcquireFails(w) \/ StatementFails(w) \/ InsertLosesLock(w) \/ InsertFails(w)
           \/ Finish(w) \/ Crash(w)
  <2>1. /\ Release(w) /\ rows' = rows /\ snap' = snap /\ pc'[w] \in {"done", "recover", "dead"}
    BY <1>5 DEF AcquireFails, StatementFails, InsertLosesLock, InsertFails, Finish, Crash,
                ToError, ToRecovery
  <2> QED  BY <1>1, <2>1, ExclusiveKept, ReleaseBooks, Zenon DEF Release, Clean
<1> QED  BY <1>2, <1>3, <1>4, <1>5

\* At first nobody has written anything.
LEMMA LocksInit == Init => Locks
  BY DEF Init, Locks, Exclusive, Books, Clean

\* Every step keeps the locks.
LEMMA LocksStep == TypeOK /\ Locks /\ [Next]_vars => Locks'
<1> SUFFICES ASSUME TypeOK, Locks, [Next]_vars PROVE Locks'
  OBVIOUS
<1>1. CASE UNCHANGED vars
  BY <1>1 DEF vars, Locks, Exclusive, Books, Input
<1>2. CASE Next
  <2>1. PICK w \in Workers : Turn(w)
    BY <1>2, TurnOfNext
  <2>2. Exclusive' /\ Books(w)'
    BY <2>1, LookupBooks, InsertBooks, OutboxBooks, CommitBooks, QuietBooks DEF Turn, Step
  <2>3. \A v \in Workers : Books(v)'
    BY <2>1, <2>2, OthersBooks DEF Locks
  <2> QED  BY <2>2, <2>3 DEF Locks
<1> QED  BY <1>1, <1>2

-----------------------------------------------------------------------------
(* One event for each message.                                             *)

\* Only a commit writes messages and events, and it writes both.
LEMMA EventStep ==
    TypeOK /\ Locks /\ OneEventPerMessage /\ [Next]_vars => OneEventPerMessage'
<1> SUFFICES ASSUME TypeOK, Locks, OneEventPerMessage, [Next]_vars PROVE OneEventPerMessage'
  OBVIOUS
<1>1. CASE UNCHANGED <<rows, events>>
  BY <1>1 DEF OneEventPerMessage
<1>2. ASSUME NEW w \in Workers, Commit(w), pc[w] = "commit" PROVE OneEventPerMessage'
  <2>1. Exclusive /\ ownEvents[w] = {o.cid : o \in own[w]}
    BY <1>2 DEF Locks, Books
  <2>2. ASSUME NEW c \in Cids PROVE events'[c] = IF rows'[c] = NoBody THEN 0 ELSE 1
    <3>1. events'[c] = IF c \in ownEvents[w] THEN events[c] + 1 ELSE events[c]
      BY <1>2 DEF Commit
    <3>2. CASE c \in ownEvents[w]
      <4>1. PICK o \in own[w] : o.cid = c
        BY <2>1, <3>2
      <4>2. rows[c] = NoBody /\ rows'[c] # NoBody
        BY <1>2, <2>1, <4>1, CommitRow DEF Exclusive
      <4>3. events[c] = 0
        BY <4>2 DEF OneEventPerMessage
      <4> QED  BY <3>1, <3>2, <4>2, <4>3
    <3>3. CASE c \notin ownEvents[w]
      <4>1. \A o \in own[w] : o.cid # c
        BY <2>1, <3>3
      <4>2. rows'[c] = rows[c]
        BY <1>2, <2>1, <4>1, CommitRow, Zenon
      <4> QED  BY <3>1, <3>3, <4>2 DEF OneEventPerMessage
    <3> QED  BY <3>2, <3>3
  <2> QED  BY <2>2 DEF OneEventPerMessage
<1>3. \/ UNCHANGED <<rows, events>>
      \/ \E w \in Workers : Commit(w) /\ pc[w] = "commit"
  BY Zenon DEF Next, Step, vars, Submit, Acquire, AcquireFails, Lookup, SkipPrecheck, StatementFails,
         Insert, InsertLosesLock, InsertFails, Outbox, CommitSucceeds, CommitAmbiguous, Finish,
         Recover, RecoverFails, Crash
<1> QED  BY <1>1, <1>2, <1>3

\* A message is durable exactly when its Outbox event is, and has exactly one,
\* for every number of requests, keys and faults and every batch length.
THEOREM MessageHasOneEvent == Spec => []OneEventPerMessage
<1>1. Init => TypeOK /\ Locks /\ OneEventPerMessage
  BY TypeInit, LocksInit DEF Init, OneEventPerMessage
<1>2. TypeOK /\ Locks /\ OneEventPerMessage /\ [Next]_vars
        => (TypeOK /\ Locks /\ OneEventPerMessage)'
  BY TypeStep, LocksStep, EventStep
<1> QED  BY <1>1, <1>2, PTL DEF Spec

-----------------------------------------------------------------------------
(* The answers are true.                                                   *)

\* Every message of a request.
LEMMA MessageType ==
    ASSUME TypeOK, NEW w \in Workers, NEW i \in 1 .. Len(job[w])
    PROVE  /\ job[w][i] \in Inputs /\ job[w][i].cid \in Cids
           /\ job[w][i].body \in Bodies /\ job[w][i].body # NoBody
<1>1. job[w] \in Seq(Inputs)
  BY DEF TypeOK, WorkType
<1>2. job[w][i] \in Inputs
  BY <1>1, ElementOfSeq
<1> QED  BY <1>2, ConstantsAssumption DEF Inputs

\* A committed row is never changed.
LEMMA RowsStay ==
    ASSUME TypeOK, Locks, NEW w \in Workers, Turn(w), NEW c \in Cids, rows[c] # NoBody
    PROVE  rows'[c] = rows[c]
<1>1. rows' = rows \/ Commit(w)
  BY Zenon DEF Turn, Step, Submit, Acquire, AcquireFails, Lookup, SkipPrecheck, StatementFails,
         Insert, InsertLosesLock, InsertFails, Outbox, CommitSucceeds, CommitAmbiguous, Finish,
         Recover, RecoverFails, Crash
<1>2. CASE Commit(w)
  <2>1. Exclusive /\ \A o \in own[w] : o.cid # c
    BY DEF Locks, Exclusive
  <2> QED  BY <1>2, <2>1, CommitRow, Zenon
<1> QED  BY <1>1, <1>2, Zenon

\* What the others have said stays so.
LEMMA OthersTruth ==
    ASSUME TypeOK, Locks, NEW w \in Workers, Turn(w), NEW v \in Workers, v # w,
           Meaning(v), Honest(v)
    PROVE  Meaning(v)' /\ Honest(v)'
<1>1. /\ job'[v] = job[v] /\ pc'[v] = pc[v] /\ idx'[v] = idx[v]
      /\ own'[v] = own[v] /\ res'[v] = res[v]
  BY OthersKeep
<1>2. \A i \in 1 .. Len(job[v]) :
         /\ rows[job[v][i].cid] # NoBody => rows'[job[v][i].cid] = rows[job[v][i].cid]
         /\ job[v][i].body # NoBody
  BY MessageType, RowsStay
<1>3. \A i \in 1 .. Len(job[v]) :
         Means(v, job[v][i], res[v][i]) => Means(v, job[v][i], res[v][i])'
  BY <1>1, <1>2, Zenon DEF Means
<1>4. Honest(v)'
  BY <1>1, <1>2, Zenon DEF Honest
<1>5. ASSUME pc[v] \notin {"idle", "done", "dead"}
      PROVE  Replies(v)' /\ CreatesOnce(v)' /\ InsertsNew(v)'
  <2>1. \A i \in 1 .. Len(job[v]) : Answered(v, i)' <=> Answered(v, i)
    BY <1>1, Zenon DEF Answered
  <2>2. Replies(v) /\ CreatesOnce(v) /\ InsertsNew(v)
    BY <1>5, Zenon DEF Meaning
  <2>3. Replies(v)'
    BY <1>1, <1>3, <2>1, <2>2, Zenon DEF Replies
  <2>4. CreatesOnce(v)'
    BY <1>1, <2>2, Zenon DEF CreatesOnce
  <2>5. InsertsNew(v)'
    BY <1>1, <2>2, Zenon DEF InsertsNew, Input
  <2> QED  BY <2>3, <2>4, <2>5
<1>6. Meaning(v)'
  BY <1>1, <1>5, Zenon DEF Meaning
<1> QED  BY <1>4, <1>6

\* A message is its key and its body.
LEMMA SameInput ==
    ASSUME NEW x \in Inputs, NEW y \in Inputs, x.cid = y.cid, x.body = y.body
    PROVE  x = y
<1>1. x = [cid |-> x.cid, body |-> x.body] /\ y = [cid |-> y.cid, body |-> y.body]
  BY DEF Inputs
<1> QED  BY <1>1

\* What a row that a lookup finds says of the message.
LEMMA LookupMeans ==
    ASSUME TypeOK, Locks, NEW w \in Workers, pc[w] = "lookup", NEW b \in Visible(w)
    PROVE  /\ Means(w, Input(w), Classify(Input(w), b))
           /\ Classify(Input(w), b) \in {"reused", "conflict"}
<1>1. Input(w) \in Inputs /\ Input(w).cid \in Cids /\ Input(w).body \in Bodies
  BY InputType
<1>2. CASE \E o \in own[w] : o.cid = Input(w).cid /\ b = o.body
  <2>1. PICK o \in own[w] : o.cid = Input(w).cid /\ b = o.body
    BY <1>2
  <2>2. o \in Inputs
    BY DEF TypeOK, TableType
  <2>3. b = Input(w).body => o = Input(w)
    BY <1>1, <2>1, <2>2, SameInput, Zenon
  <2> QED  BY <2>1, <2>3 DEF Means, Classify
<1>3. CASE b = View(w)[Input(w).cid] /\ b # NoBody
  <2>1. b = rows[Input(w).cid]
    BY <1>1, <1>3 DEF View, Locks, Exclusive
  <2> QED  BY <1>3, <2>1 DEF Means, Classify
<1>4. \/ \E o \in own[w] : o.cid = Input(w).cid /\ b = o.body
      \/ b = View(w)[Input(w).cid] /\ b # NoBody
  BY Zenon DEF Visible
<1> QED  BY <1>2, <1>3, <1>4

\* An answer that means what it says, and on to the next message.
LEMMA AdvanceMeaning ==
    ASSUME TypeOK, NEW w \in Workers, Meaning(w), pc[w] \in {"lookup", "outbox"},
           NEW a \in Results, Answers(w, [res[w] EXCEPT ![idx[w]] = a]),
           Means(w, Input(w), a), a = "created" => pc[w] = "outbox",
           NEW wrote \in BOOLEAN, Advance(w, wrote),
           job' = job, own' = own, rows' = rows
    PROVE  Meaning(w)'
<1>1. idx[w] \in 1 .. Len(job[w]) /\ Len(job[w]) \in Nat
  BY InputType
<1>2. \A i \in 1 .. Len(job[w]) : res'[w][i] = IF i = idx[w] THEN a ELSE res[w][i]
  BY <1>1 DEF Answers, TypeOK, WorkType
<1>3. \A i \in 1 .. Len(job[w]) :
         IF i <= idx[w] THEN Means(w, job[w][i], res'[w][i]) ELSE res'[w][i] = "none"
  <2>1. \A i \in 1 .. Len(job[w]) :
           IF i < idx[w] THEN Means(w, job[w][i], res[w][i]) ELSE res[w][i] = "none"
    BY Zenon DEF Meaning, Replies, Answered
  <2>2. Means(w, job[w][idx[w]], a)
    BY DEF Input
  <2> QED  BY <1>1, <1>2, <2>1, <2>2
<1>4. CreatesOnce(w)'
  <2>1. \A i \in 1 .. Len(job[w]) :
           res'[w][i] = "created" => res[w][i] = "created" \/ (i = idx[w] /\ pc[w] = "outbox")
    BY <1>2
  <2>2. pc[w] = "outbox" => \A i \in 1 .. Len(job[w]) :
           res[w][i] = "created" => job[w][i].cid # job[w][idx[w]].cid
    BY Zenon DEF Meaning, InsertsNew, Input
  <2>3. CreatesOnce(w)
    BY Zenon DEF Meaning
  <2>4. \A i, j \in 1 .. Len(job[w]) :
           res'[w][i] = "created" /\ res'[w][j] = "created"
               /\ job[w][i].cid = job[w][j].cid => i = j
    BY <2>1, <2>2, <2>3, Zenon DEF CreatesOnce
  <2> QED  BY <2>4, Zenon DEF CreatesOnce
<1>5. pc'[w] # "outbox" /\ \A i \in 1 .. Len(job[w]) : Answered(w, i)' <=> i <= idx[w]
  <2>1. CASE idx[w] < Len(job[w])
    BY <1>1, <2>1 DEF Advance, Go, Answered, TypeOK, WorkType
  <2>2. CASE ~(idx[w] < Len(job[w]))
    <3>1. PICK l \in {"commit", "finish"} : pc' = [pc EXCEPT ![w] = l]
      BY <2>2 DEF Advance, Go
    <3>2. pc'[w] \in {"commit", "finish"}
      BY <3>1, Zenon DEF TypeOK, WorkType
    <3> QED  BY <1>1, <2>2, <3>2 DEF Answered
  <2> QED  BY <2>1, <2>2
<1>6. \A i \in 1 .. Len(job[w]) :
         Means(w, job[w][i], res'[w][i]) => Means(w, job[w][i], res[w][i])'
  BY Zenon DEF Means
<1>7. Replies(w)'
  BY <1>3, <1>5, <1>6, Zenon DEF Replies
<1>8. InsertsNew(w)'
  BY <1>5, Zenon DEF InsertsNew
<1> QED  BY <1>4, <1>7, <1>8, Zenon DEF Meaning

\* A request that starts, or starts again, has answered nothing.
LEMMA FreshMeaning ==
    ASSUME NEW w \in Workers, pc'[w] \in {"acquire", "recover"}, idx'[w] = 1,
           Len(job'[w]) \in Nat, res'[w] = [i \in 1 .. Len(job'[w]) |-> "none"]
    PROVE  Meaning(w)'
<1>1. \A i \in 1 .. Len(job'[w]) : res'[w][i] = "none" /\ ~Answered(w, i)'
  BY DEF Answered
<1>2. Replies(w)'
  BY <1>1, Zenon DEF Replies
<1>3. "none" # "created"
  OBVIOUS
<1>4. CreatesOnce(w)' /\ InsertsNew(w)'
  BY <1>1, <1>3, Zenon DEF CreatesOnce, InsertsNew
<1> QED  BY <1>2, <1>4, Zenon DEF Meaning

\* A failed transaction means nothing any more.
LEMMA RecoveryMeaning ==
    ASSUME TypeOK, NEW w \in Workers, ToRecovery(w), job' = job
    PROVE  Meaning(w)'
<1>1. pc'[w] = "recover" /\ idx'[w] = 1 /\ res'[w] = [i \in 1 .. Len(job[w]) |-> "none"]
  BY DEF ToRecovery, Go, Answers, TypeOK, WorkType
<1>2. Len(job[w]) \in Nat
  BY DEF TypeOK, WorkType
<1> QED  BY <1>1, <1>2, FreshMeaning

\* What a recovery read says is so, in the table.
LEMMA RecoverMeaning ==
    ASSUME TypeOK, Locks, NEW w \in Workers, Meaning(w), Recover(w) \/ RecoverFails(w)
    PROVE  /\ Meaning(w)'
           /\ pc'[w] = "done" => \A i \in 1 .. Len(job[w]) : Means(w, job[w][i], res'[w][i])
<1>0. pc[w] = "recover" /\ job' = job /\ own' = own /\ rows' = rows
  BY DEF Recover, RecoverFails
<1>1. idx[w] \in 1 .. Len(job[w]) /\ Len(job[w]) \in Nat
  BY <1>0, InputType
<1>2. PICK a \in {"reused", "conflict", "error"} :
         /\ Answers(w, [res[w] EXCEPT ![idx[w]] = a])
         /\ Means(w, Input(w), a)
  BY DEF Recover, RecoverFails, Recovered, Classify, Means
<1>3. \A i \in 1 .. Len(job[w]) : res'[w][i] = IF i = idx[w] THEN a ELSE res[w][i]
  BY <1>1, <1>2 DEF Answers, TypeOK, WorkType
<1>4. \A i \in 1 .. Len(job[w]) :
         IF i <= idx[w] THEN Means(w, job[w][i], res'[w][i]) ELSE res'[w][i] = "none"
  <2>1. \A i \in 1 .. Len(job[w]) :
           IF i < idx[w] THEN Means(w, job[w][i], res[w][i]) ELSE res[w][i] = "none"
    BY <1>0 DEF Meaning, Replies, Answered
  <2>2. Means(w, job[w][idx[w]], a)
    BY <1>2 DEF Input
  <2> QED  BY <1>1, <1>3, <2>1, <2>2
<1>5. CreatesOnce(w)'
  <2>1. \A i \in 1 .. Len(job[w]) : res'[w][i] = "created" => res[w][i] = "created"
    BY <1>2, <1>3
  <2>2. CreatesOnce(w)
    BY <1>0 DEF Meaning
  <2> QED  BY <1>0, <2>1, <2>2, Zenon DEF CreatesOnce
<1>6. \A i \in 1 .. Len(job[w]) :
         Means(w, job[w][i], res'[w][i]) => Means(w, job[w][i], res[w][i])'
  BY <1>0, Zenon DEF Means
<1>7. CASE idx[w] < Len(job[w])
  <2>1. pc'[w] = "recover" /\ idx'[w] = idx[w] + 1
    BY <1>0, <1>7 DEF Recover, RecoverFails, TypeOK, WorkType
  <2>2. \A i \in 1 .. Len(job[w]) : Answered(w, i)' <=> i <= idx[w]
    BY <1>1, <2>1 DEF Answered
  <2>3. Replies(w)'
    BY <1>0, <1>4, <1>6, <2>2, Zenon DEF Replies
  <2>4. InsertsNew(w)' /\ pc'[w] # "done"
    BY <2>1, Zenon DEF InsertsNew
  <2> QED  BY <1>5, <2>3, <2>4, Zenon DEF Meaning
<1>8. CASE ~(idx[w] < Len(job[w]))
  <2>1. pc'[w] = "done"
    <3>1. Go(w, "done")
      BY <1>8, Zenon DEF Recover, RecoverFails
    <3> QED  BY <3>1, Zenon DEF Go, TypeOK, WorkType
  <2> QED  BY <1>1, <1>4, <1>8, <2>1 DEF Meaning
<1> QED  BY <1>7, <1>8

\* The worker whose step it is keeps meaning what it has answered.
LEMMA OwnMeaning ==
    ASSUME TypeOK, Locks, NEW w \in Workers, Turn(w), Meaning(w)
    PROVE  Meaning(w)'
<1> USE DEF TypeOK, WorkType, Go
<1>1. CASE Submit(w)
  <2>1. PICK j \in Jobs : /\ job' = [job EXCEPT ![w] = j]
                          /\ res' = [res EXCEPT ![w] = [i \in 1 .. Len(j) |-> "none"]]
    BY <1>1, Zenon DEF Submit
  <2>2. job'[w] = j /\ res'[w] = [i \in 1 .. Len(j) |-> "none"] /\ pc'[w] = "acquire"
        /\ idx'[w] = 1
    BY <1>1, <2>1 DEF Submit
  <2> QED  BY <2>2, JobLength, FreshMeaning, Zenon
<1>2. CASE Acquire(w) \/ SkipPrecheck(w)
  <2>1. /\ pc[w] \in {"acquire", "lookup"} /\ pc'[w] \in {"lookup", "insert"}
        /\ idx' = idx /\ job' = job /\ res' = res /\ own' = own /\ rows' = rows
    BY <1>2 DEF Acquire, SkipPrecheck
  <2> QED  BY <2>1 DEF Meaning, Replies, CreatesOnce, InsertsNew, Answered, Means
<1>3. CASE Lookup(w)
  <2>1. pc[w] = "lookup" /\ job' = job /\ own' = own /\ rows' = rows
    BY <1>3 DEF Lookup
  <2>2. CASE Visible(w) = {}
    <3>1. pc'[w] = "insert" /\ idx' = idx /\ res' = res
      BY <1>3, <2>2, Zenon DEF Lookup
    <3> QED  BY <2>1, <3>1 DEF Meaning, Replies, CreatesOnce, InsertsNew, Answered, Means
  <2>3. CASE Visible(w) # {}
    <3>1. PICK b \in Visible(w) :
             /\ Answers(w, [res[w] EXCEPT ![idx[w]] = Classify(Input(w), b)])
             /\ Advance(w, own[w] # {})
      BY <1>3, <2>3 DEF Lookup
    <3>2. /\ Means(w, Input(w), Classify(Input(w), b))
          /\ Classify(Input(w), b) \in Results /\ Classify(Input(w), b) # "created"
      BY <2>1, LookupMeans DEF Results
    <3> QED  BY <2>1, <3>1, <3>2, AdvanceMeaning, (own[w] # {}) \in BOOLEAN, Zenon
  <2> QED  BY <2>2, <2>3
<1>4. CASE Insert(w)
  <2>1. CASE ToRecovery(w)
    BY <1>4, <2>1, RecoveryMeaning DEF Insert
  <2>2. CASE ~ToRecovery(w)
    <3>1. /\ pc[w] = "insert" /\ pc'[w] = "outbox" /\ idx' = idx /\ job' = job /\ res' = res
          /\ rows' = rows /\ own[w] \subseteq own'[w]
      BY <1>4, <2>2 DEF Insert, TableType
    <3>2. Input(w)' = Input(w) /\ \A o \in own[w] : o.cid # Input(w).cid
      BY <3>1 DEF Locks, Books, Input
    <3>3. \A i \in 1 .. Len(job[w]) :
             Means(w, job[w][i], res[w][i]) => Means(w, job[w][i], res[w][i])'
      BY <3>1 DEF Means
    <3>4. \A i \in 1 .. Len(job[w]) : res[w][i] = "created" => job[w][i] \in own[w]
      BY <3>1 DEF Meaning, Replies, Means
    <3>5. Replies(w) /\ CreatesOnce(w)
      BY <3>1 DEF Meaning
    <3>6. \A i \in 1 .. Len(job[w]) : Answered(w, i)' <=> Answered(w, i)
      BY <3>1 DEF Answered
    <3>7. Replies(w)'
      BY <3>1, <3>3, <3>5, <3>6, Zenon DEF Replies
    <3>8. CreatesOnce(w)'
      BY <3>1, <3>5, Zenon DEF CreatesOnce
    <3>9. InsertsNew(w)'
      BY <3>1, <3>2, <3>4, Zenon DEF InsertsNew
    <3> QED  BY <3>7, <3>8, <3>9, Zenon DEF Meaning
  <2> QED  BY <2>1, <2>2
<1>5. CASE Outbox(w)
  <2>1. /\ pc[w] = "outbox" /\ job' = job /\ own' = own /\ rows' = rows /\ Advance(w, TRUE)
        /\ Answers(w, [res[w] EXCEPT ![idx[w]] = "created"])
    BY <1>5, Zenon DEF Outbox
  <2>2. Means(w, Input(w), "created") /\ "created" \in Results
    BY <2>1 DEF Locks, Books, Means, Results
  <2> QED  BY <2>1, <2>2, AdvanceMeaning, TRUE \in BOOLEAN, Zenon
<1>6. CASE StatementFails(w) \/ InsertLosesLock(w) \/ InsertFails(w) \/ CommitAmbiguous(w)
  <2>1. job' = job /\ (ToRecovery(w) \/ ToError(w))
    BY <1>6 DEF StatementFails, InsertLosesLock, InsertFails, CommitAmbiguous
  <2>2. ASSUME ToError(w) PROVE Meaning(w)'
    <3>1. pc'[w] = "done"
      BY <2>2 DEF ToError
    <3> QED  BY <3>1 DEF Meaning
  <2> QED  BY <2>1, <2>2, RecoveryMeaning
<1>7. CASE AcquireFails(w) \/ CommitSucceeds(w) \/ Finish(w) \/ Crash(w)
  <2>1. pc'[w] \in {"done", "dead"}
    BY <1>7 DEF AcquireFails, CommitSucceeds, Finish, Crash, ToError
  <2> QED  BY <2>1 DEF Meaning
<1>8. CASE Recover(w) \/ RecoverFails(w)
  BY <1>8, RecoverMeaning
<1> QED  BY <1>1, <1>2, <1>3, <1>4, <1>5, <1>6, <1>7, <1>8 DEF Turn, Step

\* What a request has meant is so when it ends without a transaction, or with
\* one that is committed.
LEMMA EndIsHonest ==
    ASSUME TypeOK, Locks, NEW w \in Workers, Turn(w), job' = job,
           own[w] = {} \/ Commit(w),
           \A i \in 1 .. Len(job[w]) : Means(w, job[w][i], res'[w][i])
    PROVE  Honest(w)'
<1>1. ASSUME NEW i \in 1 .. Len(job[w])
      PROVE  /\ res'[w][i] \in {"created", "reused"} => rows'[job[w][i].cid] = job[w][i].body
             /\ res'[w][i] = "conflict" => rows'[job[w][i].cid] \notin {NoBody, job[w][i].body}
             /\ res'[w][i] # "none"
  <2>1. job[w][i].cid \in Cids /\ job[w][i].body # NoBody
    BY MessageType
  <2>2. rows[job[w][i].cid] # NoBody => rows'[job[w][i].cid] = rows[job[w][i].cid]
    BY <2>1, RowsStay
  <2>3. \A o \in own[w] : o.cid = job[w][i].cid =>
           rows'[job[w][i].cid] = o.body /\ rows'[job[w][i].cid] # NoBody
    BY <2>1, CommitRow DEF Locks
  <2>4. Means(w, job[w][i], res'[w][i])
    OBVIOUS
  <2> QED  BY <2>1, <2>2, <2>3, <2>4, Zenon DEF Means
<1> QED  BY <1>1, Zenon DEF Honest

\* How a request comes to be done.
LEMMA OwnTruth ==
    ASSUME TypeOK, Locks, NEW w \in Workers, Turn(w), Meaning(w), pc'[w] = "done"
    PROVE  /\ Honest(w)' /\ job' = job /\ pc[w] \notin {"idle", "done", "dead"}
           /\ \A i \in 1 .. Len(job[w]) : res'[w][i] = "created" =>
                 res[w][i] = "created" /\ job[w][i] \in own[w]
<1> USE DEF TypeOK, WorkType, Go
<1>1. CASE CommitSucceeds(w)
  <2>1. pc[w] = "commit" /\ Commit(w) /\ job' = job /\ res' = res
    BY <1>1 DEF CommitSucceeds
  <2>2. \A i \in 1 .. Len(job[w]) : Means(w, job[w][i], res[w][i])
    BY <2>1 DEF Meaning, Replies, Answered
  <2> QED  BY <2>1, <2>2, EndIsHonest DEF Means
<1>2. CASE Finish(w)
  <2>1. pc[w] = "finish" /\ own[w] = {} /\ job' = job /\ res' = res
    BY <1>2 DEF Finish, Locks, Books, Clean
  <2>2. \A i \in 1 .. Len(job[w]) : Means(w, job[w][i], res[w][i])
    BY <2>1 DEF Meaning, Replies, Answered
  <2> QED  BY <2>1, <2>2, EndIsHonest, Zenon DEF Means
<1>3. CASE Recover(w) \/ RecoverFails(w)
  <2>1. pc[w] = "recover" /\ own[w] = {} /\ job' = job
    BY <1>3 DEF Recover, RecoverFails, Locks, Books, Clean
  <2>2. \A i \in 1 .. Len(job[w]) : Means(w, job[w][i], res'[w][i])
    BY <1>3, RecoverMeaning
  <2> QED  BY <2>1, <2>2, EndIsHonest, Zenon DEF Means
<1>4. CASE AcquireFails(w) \/ StatementFails(w)
  <2>1. /\ job' = job /\ pc[w] \in {"acquire", "lookup", "outbox"}
        /\ ToError(w)
    BY <1>4 DEF AcquireFails, StatementFails, ToRecovery
  <2>2. res'[w] = [i \in 1 .. Len(job[w]) |-> "error"]
    BY <2>1 DEF ToError, Answers, AllErrors
  <2> QED  BY <2>1, <2>2 DEF Honest
<1>5. CASE \/ Submit(w) \/ Acquire(w) \/ SkipPrecheck(w) \/ Insert(w) \/ InsertLosesLock(w)
           \/ InsertFails(w) \/ CommitAmbiguous(w) \/ Crash(w)
  <2>1. pc'[w] # "done"
    BY <1>5 DEF Submit, Acquire, SkipPrecheck, Insert, InsertLosesLock, InsertFails,
                CommitAmbiguous, Crash, ToRecovery
  <2> QED  BY <2>1
<1>6. CASE Lookup(w) \/ Outbox(w)
  <2>1. \E l \in {"insert", "lookup", "commit", "finish"} : Go(w, l)
    BY <1>6, Zenon DEF Lookup, Outbox, Advance
  <2> QED  BY <2>1
<1> QED  BY <1>1, <1>2, <1>3, <1>4, <1>5, <1>6 DEF Turn, Step

\* Every step keeps what the answers mean true.
LEMMA TruthStep == TypeOK /\ Locks /\ Truth /\ [Next]_vars => Truth'
<1> SUFFICES ASSUME TypeOK, Locks, Truth, [Next]_vars PROVE Truth'
  OBVIOUS
<1>1. CASE UNCHANGED vars
  <2>1. rows' = rows /\ own' = own /\ job' = job /\ pc' = pc /\ idx' = idx /\ res' = res
    BY <1>1 DEF vars
  <2>2. \A w \in Workers : Meaning(w)' <=> Meaning(w)
    BY <2>1 DEF Meaning, Replies, CreatesOnce, InsertsNew, Answered, Means, Input
  <2>3. \A w \in Workers : Honest(w)' <=> Honest(w)
    BY <2>1 DEF Honest
  <2>4. \A v, w \in Workers : Single(w, v)' <=> Single(w, v)
    BY <2>1 DEF Single
  <2> QED  BY <2>2, <2>3, <2>4, Zenon DEF Truth
<1>2. CASE Next
  <2>1. PICK w \in Workers : Turn(w)
    BY <1>2, TurnOfNext
  <2>2. \A v \in Workers : Meaning(v)'
    BY <2>1, OwnMeaning, OthersTruth DEF Truth
  <2>3. \A v \in Workers : Honest(v)'
    <3>1. Honest(w)'
      BY <2>1, OwnTruth, Zenon DEF Truth, Honest
    <3> QED  BY <2>1, <3>1, OthersTruth, Zenon DEF Truth
  <2>4. ASSUME NEW v \in Workers, v # w, pc[v] = "done", pc'[w] = "done",
               NEW i \in 1 .. Len(job[w]), NEW j \in 1 .. Len(job[v]),
               res'[w][i] = "created", res[v][j] = "created"
        PROVE  job[v][j].cid # job[w][i].cid
    <3>1. rows[job[v][j].cid] # NoBody
      <4>1. job[v][j].body # NoBody
        BY <2>4, MessageType, Zenon
      <4>2. Honest(v)
        BY Zenon DEF Truth
      <4>3. rows[job[v][j].cid] = job[v][j].body
        BY <2>4, <4>2, Zenon DEF Honest
      <4> QED  BY <4>1, <4>3, Zenon
    <3>2. rows[job[w][i].cid] = NoBody
      <4>1. Meaning(w)
        BY Zenon DEF Truth
      <4>2. job[w][i] \in own[w]
        BY <2>1, <2>4, <4>1, OwnTruth, Zenon
      <4> QED  BY <4>2, Zenon DEF Locks, Exclusive
    <3> QED  BY <3>1, <3>2
  <2>5. ASSUME pc'[w] = "done" PROVE Single(w, w)'
    <3>1. /\ job' = job /\ pc[w] \notin {"idle", "done", "dead"}
          /\ \A i \in 1 .. Len(job[w]) : res'[w][i] = "created" => res[w][i] = "created"
      BY <2>1, <2>5, OwnTruth, Zenon DEF Truth
    <3>2. Meaning(w)
      BY Zenon DEF Truth
    <3>3. \A i, j \in 1 .. Len(job[w]) :
             res'[w][i] = "created" /\ res'[w][j] = "created"
                 /\ job[w][i].cid = job[w][j].cid => i = j
      <4>1. CreatesOnce(w)
        BY <3>1, <3>2 DEF Meaning
      <4> QED  BY <3>1, <4>1 DEF CreatesOnce
    <3> QED  BY <3>1, <3>3, Zenon DEF Single
  <2>6. \A u, v \in Workers : Single(u, v)'
    <3> SUFFICES ASSUME NEW u \in Workers, NEW v \in Workers PROVE Single(u, v)'
      OBVIOUS
    <3>1. \A x \in Workers \ {w} : job'[x] = job[x] /\ pc'[x] = pc[x] /\ res'[x] = res[x]
      BY <2>1, OthersKeep, Zenon
    <3>2. pc'[w] = "done" => job' = job
      BY <2>1, OwnTruth, Zenon DEF Truth
    <3>3. CASE u # w /\ v # w
      <4>1. Single(u, v)
        BY Zenon DEF Truth
      <4> QED  BY <3>1, <3>3, <4>1 DEF Single
    <3>4. CASE u = w /\ v # w
      BY <2>4, <3>1, <3>2, <3>4 DEF Single
    <3>5. CASE u # w /\ v = w
      BY <2>4, <3>1, <3>2, <3>5 DEF Single
    <3>6. CASE u = w /\ v = w
      BY <2>5, <3>6 DEF Single
    <3> QED  BY <3>3, <3>4, <3>5, <3>6
  <2> QED  BY <2>2, <2>3, <2>6 DEF Truth
<1> QED  BY <1>1, <1>2

\* What a finished request says of each of its messages is true of the table,
\* and one request, at one place, creates a message: for every number of
\* requests and faults, every pool and every batch.
THEOREM AnswersAreTrue == Spec => []AnswersTrue
<1>1. Init => TypeOK /\ Locks /\ Truth
  BY TypeInit, LocksInit DEF Init, Truth, Meaning, Replies, CreatesOnce, InsertsNew, Honest, Single
<1>2. TypeOK /\ Locks /\ Truth /\ [Next]_vars => (TypeOK /\ Locks /\ Truth)'
  BY TypeStep, LocksStep, TruthStep
<1>3. Truth => AnswersTrue
  BY DEF Truth, Honest, Single, AnswersTrue
<1> QED  BY <1>1, <1>2, <1>3, PTL DEF Spec
=============================================================================
