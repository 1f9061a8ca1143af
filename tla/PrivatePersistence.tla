------------------------- MODULE PrivatePersistence -------------------------
(***************************************************************************)
(* services/message/repository/MessageRepositoryAdapter: persisting        *)
(* private messages together with their Outbox events. A request is one    *)
(* message (PersistPrivateMessageDirect) or a sequential batch of them     *)
(* (ExecutePrivatePersistBatchSequential) run in one MySQL transaction on  *)
(* one pooled connection. A message is its idempotency key, cid, standing  *)
(* for (from_user_id, client_message_id), and its body, standing for the   *)
(* fields same_identity compares.                                          *)
(*                                                                         *)
(* External, as the code relies on it: InnoDB holds the unique key of an   *)
(* uncommitted insert, a consistent read sees the snapshot taken by the    *)
(* transaction's first read plus its own writes, a failed COMMIT may have  *)
(* committed, and a lock wait may end in a deadlock or timeout error.      *)
(***************************************************************************)
EXTENDS Integers, Sequences, FiniteSets

CONSTANTS
    Workers,      \* concurrent requests
    Cids, Bodies, NoBody,
    PoolSize,     \* connections in the pool
    MaxBatch,     \* bound: messages per request
    MaxFaults     \* bound: failed statements, ambiguous commits, crashes

ASSUME ConstantsAssumption ==
    /\ PoolSize \in Nat \ {0} /\ MaxBatch \in Nat \ {0} /\ MaxFaults \in Nat
    /\ NoBody \notin Bodies

VARIABLES
    rows,      \* committed private_message rows, by unique key
    events,    \* committed Outbox rows, by the key of their message
    job,       \* the request of a worker
    pc, idx,   \* where it is, and which message it works on
    snap,      \* its transaction's consistent-read snapshot
    own,       \* its uncommitted message rows
    ownEvents, \* its uncommitted Outbox rows
    res,       \* its answers so far
    held,      \* workers that hold a pooled connection
    faults

vars == <<rows, events, job, pc, idx, snap, own, ownEvents, res, held, faults>>

Inputs == [cid : Cids, body : Bodies]
Jobs == UNION {[1 .. n -> Inputs] : n \in 1 .. MaxBatch}
Finished == {"done", "dead"}

Init ==
    /\ rows = [c \in Cids |-> NoBody]
    /\ events = [c \in Cids |-> 0]
    /\ job = [w \in Workers |-> <<>>]
    /\ pc = [w \in Workers |-> "idle"]
    /\ idx = [w \in Workers |-> 1]
    /\ snap = [w \in Workers |-> [c \in Cids |-> NoBody]]
    /\ own = [w \in Workers |-> {}]
    /\ ownEvents = [w \in Workers |-> {}]
    /\ res = [w \in Workers |-> <<>>]
    /\ held = {}
    /\ faults = 0

Fault == faults < MaxFaults /\ faults' = faults + 1

Input(w) == job[w][idx[w]]
Direct(w) == Len(job[w]) = 1

\* set_existing_result: the row found for a key either is this message or not.
Classify(input, body) == IF body = input.body THEN "reused" ELSE "conflict"

Go(w, label) == pc' = [pc EXCEPT ![w] = label]
Answers(w, r) == res' = [res EXCEPT ![w] = r]

\* The answers of a request that found out nothing.
AllErrors(w) == [i \in 1 .. Len(job[w]) |-> "error"]

\* The lease is given back; an open transaction is rolled back first.
Release(w) ==
    /\ held' = held \ {w}
    /\ own' = [own EXCEPT ![w] = {}]
    /\ ownEvents' = [ownEvents EXCEPT ![w] = {}]

\* Roll back, release the lease, then resolve every key by reading.
ToRecovery(w) ==
    /\ Go(w, "recover")
    /\ idx' = [idx EXCEPT ![w] = 1]
    /\ Answers(w, [i \in 1 .. Len(job[w]) |-> "none"])
    /\ Release(w)

\* Roll back, release the lease and answer with a storage error.
ToError(w) ==
    /\ Go(w, "done") /\ Answers(w, AllErrors(w)) /\ Release(w)
    /\ UNCHANGED idx

----------------------------------------------------------------------------
\* A request arrives: a client's message, its retry, or a coalesced batch.
Submit(w) ==
    /\ pc[w] = "idle"
    /\ \E j \in Jobs :
          /\ job' = [job EXCEPT ![w] = j]
          /\ res' = [res EXCEPT ![w] = [i \in 1 .. Len(j) |-> "none"]]
    /\ Go(w, "acquire")
    /\ UNCHANGED <<rows, events, idx, snap, own, ownEvents, held, faults>>

\* pool_->Acquire, which waits for a free connection.
Acquire(w) ==
    /\ pc[w] = "acquire" /\ Cardinality(held) < PoolSize
    /\ held' = held \cup {w}
    /\ Go(w, "lookup")
    /\ UNCHANGED <<rows, events, job, idx, snap, own, ownEvents, res, faults>>

\* Acquire times out, or BEGIN fails.
AcquireFails(w) ==
    /\ pc[w] = "acquire" /\ Fault
    /\ ToError(w)
    /\ UNCHANGED <<rows, events, job, snap>>

\* Mutant of Advance: the loop works on the same message again.
AdvanceStays(w, wrote) ==
    IF idx[w] < Len(job[w])
    THEN Go(w, "lookup") /\ UNCHANGED idx
    ELSE Go(w, IF wrote THEN "commit" ELSE "finish") /\ UNCHANGED idx

\* After its last message a request that wrote something commits it.
Advance(w, wrote) ==
    IF idx[w] < Len(job[w])
    THEN Go(w, "lookup") /\ idx' = [idx EXCEPT ![w] = @ + 1]
    ELSE Go(w, IF wrote THEN "commit" ELSE "finish") /\ UNCHANGED idx

\* What a consistent read of the current message's key returns.
View(w) == IF idx[w] = 1 THEN rows ELSE snap[w]
Visible(w) ==
    {i.body : i \in {i \in own[w] : i.cid = Input(w).cid}}
    \cup ({View(w)[Input(w).cid]} \ {NoBody})

\* Precheck by key: an existing row is classified, a miss goes on to insert.
Lookup(w) ==
    /\ pc[w] = "lookup"
    /\ snap' = [snap EXCEPT ![w] = View(w)]
    /\ IF Visible(w) = {}
       THEN Go(w, "insert") /\ UNCHANGED <<idx, res>>
       ELSE \E b \in Visible(w) :
               /\ Answers(w, [res[w] EXCEPT ![idx[w]] = Classify(Input(w), b)])
               /\ Advance(w, own[w] # {})
    /\ UNCHANGED <<rows, events, job, own, ownEvents, held, faults>>

\* PrivateInsertFirstEnabled: a single message skips the precheck and lets the
\* unique key decide.
SkipPrecheck(w) ==
    /\ pc[w] = "lookup" /\ Direct(w)
    /\ Go(w, "insert")
    /\ UNCHANGED <<rows, events, job, idx, snap, own, ownEvents, res, held, faults>>

\* A statement of the transaction fails. A single message answers an error,
\* a batch resolves all its keys by reading.
StatementFails(w) ==
    /\ pc[w] \in {"lookup", "outbox"} /\ Fault
    /\ IF Direct(w) THEN ToError(w) ELSE ToRecovery(w)
    /\ UNCHANGED <<rows, events, job, snap>>

LockedByOther(w) ==
    \E v \in Workers \ {w} : \E i \in own[v] : i.cid = Input(w).cid

\* INSERT under the unique key: it waits for an uncommitted rival, fails on a
\* committed one, and otherwise writes the Pending row and verifies it.
Insert(w) ==
    /\ pc[w] = "insert" /\ ~LockedByOther(w)
    /\ IF rows[Input(w).cid] # NoBody
       THEN ToRecovery(w)
       ELSE /\ own' = [own EXCEPT ![w] = @ \cup {Input(w)}]
            /\ Go(w, "outbox")
            /\ UNCHANGED <<idx, res, ownEvents, held>>
    /\ UNCHANGED <<rows, events, job, snap, faults>>

\* The insert loses a deadlock or times out waiting for a rival's lock.
InsertLosesLock(w) ==
    /\ pc[w] = "insert" /\ LockedByOther(w)
    /\ ToRecovery(w)
    /\ UNCHANGED <<rows, events, job, snap, faults>>

\* The insert fails for any other reason.
InsertFails(w) ==
    /\ pc[w] = "insert" /\ Fault
    /\ ToRecovery(w)
    /\ UNCHANGED <<rows, events, job, snap>>

\* Mutant of Outbox: only the first message of a batch gets its event.
OutboxFirstOnly(w) ==
    /\ pc[w] = "outbox"
    /\ ownEvents' = [ownEvents EXCEPT ![w] =
          IF idx[w] = 1 THEN @ \cup {Input(w).cid} ELSE @]
    /\ Answers(w, [res[w] EXCEPT ![idx[w]] = "created"])
    /\ Advance(w, TRUE)
    /\ UNCHANGED <<rows, events, job, snap, own, held, faults>>

\* The MessageCreated event joins the same transaction.
Outbox(w) ==
    /\ pc[w] = "outbox"
    /\ ownEvents' = [ownEvents EXCEPT ![w] = @ \cup {Input(w).cid}]
    /\ Answers(w, [res[w] EXCEPT ![idx[w]] = "created"])
    /\ Advance(w, TRUE)
    /\ UNCHANGED <<rows, events, job, snap, own, held, faults>>

\* The transaction's writes become visible together.
Commit(w) ==
    /\ rows' = [c \in Cids |->
          IF \E i \in own[w] : i.cid = c
          THEN (CHOOSE i \in own[w] : i.cid = c).body ELSE rows[c]]
    /\ events' = [c \in Cids |->
          IF c \in ownEvents[w] THEN events[c] + 1 ELSE events[c]]

CommitSucceeds(w) ==
    /\ pc[w] = "commit"
    /\ Commit(w) /\ Release(w) /\ Go(w, "done")
    /\ UNCHANGED <<job, idx, snap, res, faults>>

\* COMMIT reports a failure whose outcome is unknown: release, then read.
CommitAmbiguous(w) ==
    /\ pc[w] = "commit" /\ Fault
    /\ \/ Commit(w) \/ UNCHANGED <<rows, events>>
    /\ ToRecovery(w)
    /\ UNCHANGED <<job, snap>>

\* A request that wrote nothing just gives its connection back.
Finish(w) ==
    /\ pc[w] = "finish"
    /\ Release(w) /\ Go(w, "done")
    /\ UNCHANGED <<rows, events, job, idx, snap, res, faults>>

\* Mutant of Recovered: a row found after a failure is taken for one's own.
RecoveredAsCreated(input) ==
    IF rows[input.cid] = NoBody THEN "error"
    ELSE IF rows[input.cid] = input.body THEN "created" ELSE "conflict"

\* What a recovery read of the key says; no row is a storage error.
Recovered(input) ==
    IF rows[input.cid] = NoBody THEN "error"
    ELSE Classify(input, rows[input.cid])

\* Recovery reads one key at a time on a connection of its own and never
\* repeats a write.
Recover(w) ==
    /\ pc[w] = "recover" /\ Cardinality(held) < PoolSize
    /\ Answers(w, [res[w] EXCEPT ![idx[w]] = Recovered(Input(w))])
    /\ IF idx[w] < Len(job[w])
       THEN idx' = [idx EXCEPT ![w] = @ + 1] /\ UNCHANGED pc
       ELSE Go(w, "done") /\ UNCHANGED idx
    /\ UNCHANGED <<rows, events, job, snap, own, ownEvents, held, faults>>

\* A recovery read fails: that key is a storage error.
RecoverFails(w) ==
    /\ pc[w] = "recover" /\ Fault
    /\ Answers(w, [res[w] EXCEPT ![idx[w]] = "error"])
    /\ IF idx[w] < Len(job[w])
       THEN idx' = [idx EXCEPT ![w] = @ + 1] /\ UNCHANGED pc
       ELSE Go(w, "done") /\ UNCHANGED idx
    /\ UNCHANGED <<rows, events, job, snap, own, ownEvents, held>>

\* External: the process dies; MySQL rolls back what was not committed.
Crash(w) ==
    /\ pc[w] \notin Finished \cup {"idle"} /\ Fault
    /\ Release(w) /\ Go(w, "dead")
    /\ UNCHANGED <<rows, events, job, idx, snap, res>>

Step(w) ==
    \/ Acquire(w) \/ Lookup(w) \/ SkipPrecheck(w) \/ Insert(w)
    \/ InsertLosesLock(w) \/ Outbox(w)
    \/ CommitSucceeds(w) \/ Finish(w) \/ Recover(w)

Next ==
    \E w \in Workers :
        \/ Submit(w) \/ Step(w)
        \/ AcquireFails(w) \/ StatementFails(w) \/ InsertFails(w)
        \/ CommitAmbiguous(w) \/ RecoverFails(w) \/ Crash(w)

Spec == Init /\ [][Next]_vars

\* A worker thread keeps running, a free connection is handed to a waiter, and
\* InnoDB ends every lock wait.
Fairness == \A w \in Workers : WF_vars(Step(w))

FairSpec == Spec /\ Fairness
----------------------------------------------------------------------------
(* Properties.                                                             *)

\* A message is durable exactly when its Outbox event is, and has exactly one:
\* no crash, ambiguous commit, retry, race or batch separates the two.
OneEventPerMessage ==
    \A c \in Cids : events[c] = IF rows[c] = NoBody THEN 0 ELSE 1

\* What a finished request says of each of its messages is true of the
\* committed rows: created and reused mean this very body is durable, conflict
\* means another body owns the key; and at most one request, at one place of
\* its batch, is ever told that it created a given message.
AnswersTrue ==
    \A w \in Workers : pc[w] = "done" =>
        \A i \in 1 .. Len(job[w]) :
            LET in == job[w][i] IN
            /\ res[w][i] \in {"created", "reused"} => rows[in.cid] = in.body
            /\ res[w][i] = "conflict" => rows[in.cid] \notin {NoBody, in.body}
            /\ res[w][i] # "none"
            /\ res[w][i] = "created" =>
                  \A v \in Workers : pc[v] = "done" =>
                      \A j \in 1 .. Len(job[v]) :
                          res[v][j] = "created" /\ job[v][j].cid = in.cid => v = w /\ j = i

\* Every request is answered (or its process dies), whatever locks and pool
\* slots the others hold and in whichever order batches take their keys.
EveryRequestAnswered ==
    \A w \in Workers : pc[w] = "acquire" ~> pc[w] \in Finished
=============================================================================
