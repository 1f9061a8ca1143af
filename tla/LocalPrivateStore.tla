------------------------- MODULE LocalPrivateStore -------------------------
(***************************************************************************)
(* services/message/local/LocalPrivateStore: the native store of private   *)
(* messages, a key-value engine with a write-ahead log. Calls take the     *)
(* mutexes of their users in ascending order, read, build one batch of     *)
(* puts and deletes and hand it to the engine; counters are put as values  *)
(* that were read, so the mutexes carry their correctness.                 *)
(*                                                                         *)
(* The engine: db is what a read sees, wal the states a crash may leave,   *)
(* oldest first. A synchronous write makes the whole log durable before    *)
(* it is visible; an asynchronous one is visible at once. Keys are tuples: *)
(* M record, I client id, P pending, N and D unread, Q pending count,      *)
(* E pending event, F failed event, H reserved ids. The event of a message *)
(* has the message's id. Indexes written once with the message are left    *)
(* out, and so is the validation of a request's shape.                     *)
(***************************************************************************)
EXTENDS Integers, FiniteSets, SequencesExt

CONSTANTS
    Users,          \* user ids
    Threads,        \* relay threads that write, besides the calls
    Deployments,    \* options, requests and bounds of a behaviour
    MaxCalls,       \* bound: calls of a behaviour
    IdRange,        \* 4096 in the code
    ReadIds,        \* the id of a read event is ReadIds + the call
    None, Deleted

ASSUME StoreAssumption ==
    /\ Users \subseteq Nat /\ MaxCalls \in Nat /\ IdRange \in Nat \ {0}
    /\ ReadIds \in Nat /\ None \notin Nat \cup Threads
    /\ Threads \cap Nat = {}

VARIABLES
    deploy,       \* the deployment, fixed
    db, wal,
    write,        \* a writer's batch at the engine
    store,        \* the members of Impl
    locks,        \* the owner of each user's mutex
    call,         \* the calls and where they are
    told,         \* history: what answers have promised
    healthy,      \* the relay's health, which admit_events reads
    faults        \* troubles so far, bounded by the deployment

Calls == 1 .. MaxCalls
Writers == Calls \cup Threads
Request(c) == deploy.calls[c]
NoWrite == [st |-> "none", batch |-> <<>>, sync |-> FALSE]
NoCall == [pc |-> "idle", i |-> 1, want |-> <<>>, batch |-> <<>>, outs |-> <<>>,
           prov |-> {}, slots |-> {}]

Rank == [pending |-> 0, confirmed |-> 1, read |-> 2]
Events(d) == {k[2] : k \in {x \in DOMAIN d : x[1] = "E"}}
Messages(d) == {k[2] : k \in {x \in DOMAIN d : x[1] = "M"}}
Count(d, k) == IF k \in DOMAIN d THEN d[k] ELSE 0
Apply(d, b) ==
    [k \in {x \in DOMAIN d \cup DOMAIN b : x \in DOMAIN b => b[x] # Deleted} |->
        IF k \in DOMAIN b THEN b[k] ELSE d[k]]

\* Puts on top of a batch keep the deletions in it.
Put(b, more) ==
    [k \in DOMAIN b \cup DOMAIN more |-> IF k \in DOMAIN more THEN more[k] ELSE b[k]]
Amount(n) == IF n = 0 THEN Deleted ELSE n

\* The index of pending events, unless there are more than it may hold.
Indexed(d) == deploy.index /\ Cardinality(Events(d)) <= deploy.maxEvents

\* Mutant of FirstId: the reserved range is used again from its start.
FirstIdOfRange(d) == IF d[<<"H">>] = 0 THEN 1 ELSE d[<<"H">>] - IdRange + 1
FirstId(d) == d[<<"H">>] + 1

\* The constructor, from the rows that are in the engine.
Opened(d) ==
    [poisoned |-> FALSE, closing |-> FALSE, end |-> d[<<"H">>], next |-> FirstId(d),
     idBusy |-> None, events |-> Cardinality(Events(d)), indexed |-> Indexed(d),
     index |-> IF Indexed(d) THEN [e \in Events(d) |-> TRUE] ELSE <<>>,
     marks |-> 0, synced |-> None, evlock |-> None]

Empty == (<<"H">> :> 0)

StoreInit ==
    /\ deploy \in Deployments
    /\ db = Apply(Empty, deploy.rows) /\ wal = <<db>>
    /\ write = [w \in Writers |-> NoWrite]
    /\ store = Opened(db)
    /\ locks = [u \in Users |-> None]
    /\ call = [c \in Calls |-> IF c <= Len(deploy.calls) THEN NoCall
                               ELSE [NoCall EXCEPT !.pc = "done"]]
    /\ told = {} /\ faults = 0

Fault == faults < deploy.faults /\ faults' = faults + 1
NoFault == UNCHANGED faults

IsOpen == ~store.closing /\ ~store.poisoned
Start(w, b, sync) == write' = [write EXCEPT ![w] = [st |-> "ready", batch |-> b, sync |-> sync]]

-----------------------------------------------------------------------------
(* The engine. ReadyPhysicalWriteGroup, when enabled, merges the batches   *)
(* that are ready; a failed write poisons the store for good.              *)

Ready == {w \in Writers : write[w].st = "ready"}
Merged(d, S) ==
    FoldSet(LAMBDA w, acc : Apply(acc, write[w].batch), d, S)
Settle(S, st) == write' = [w \in Writers |-> IF w \in S THEN [write[w] EXCEPT !.st = st] ELSE write[w]]

Synchronous(S) == \E w \in S : write[w].sync

PhysicalWrite(S) ==
    /\ S \subseteq Ready /\ S # {} /\ (deploy.group \/ Cardinality(S) = 1)
    /\ UNCHANGED <<deploy, locks, call, told>>
    /\ \/ /\ store.poisoned
          /\ Settle(S, "failed") /\ NoFault /\ UNCHANGED <<db, wal, store>>
       \/ /\ ~store.poisoned
          /\ db' = Merged(db, S)
          /\ wal' = IF Synchronous(S) THEN <<db'>> ELSE Append(wal, db')
          /\ Settle(S, "ok") /\ NoFault /\ UNCHANGED store
       \/ /\ ~store.poisoned /\ Fault
          /\ wal' \in {wal, Append(wal, Merged(db, S))}
          /\ store' = [store EXCEPT !.poisoned = TRUE]
          /\ Settle(S, "failed") /\ UNCHANGED db

\* FlushWAL(true).
Flush == wal' = <<db>>

-----------------------------------------------------------------------------
(* The calls.                                                              *)

Failed == [res |-> "failed"]
Invalid == [res |-> "invalid"]
Made(res, mid, m) == [res |-> res, mid |-> mid, from |-> m.from, cid |-> m.cid]
Promised == [created |-> 0, reused |-> 0, confirmed |-> 1, already |-> 1, read |-> 2]

Op(c) == Request(c).op
Input(c) == Request(c).in[call[c].i]
Seen(c) == Apply(db, call[c].batch)   \* the rows with what the call has staged

Actors(c) ==
    LET ins == ToSet(Request(c).in) IN
    CASE Op(c) = "persist" -> UNION {{in.from, in.to} : in \in ins}
      [] Op(c) = "confirm" -> {in.by : in \in ins}
      [] Op(c) = "confirmAll" -> {db[<<"M", in.mid>>].to : in \in ins}
      [] Op(c) = "read" -> {in.reader : in \in ins}
      [] OTHER -> {}

\* Mutant of LockOrder: the sender first.
LockOrderSenderFirst(c) ==
    IF Op(c) = "persist" THEN <<Input(c).from, Input(c).to>>
    ELSE SetToSortSeq(Actors(c), LAMBDA a, b : a < b)

\* LockActors: ascending, whatever the roles.
LockOrder(c) == SetToSortSeq(Actors(c), LAMBDA a, b : a < b)

Freed(c) == [u \in Users |-> IF locks[u] = c THEN None ELSE locks[u]]

\* The call returns: its locks are released and its answers are known.
Return(c, outs) ==
    /\ call' = [call EXCEPT ![c] = [NoCall EXCEPT !.pc = "done", !.outs = outs]]
    /\ locks' = Freed(c)
    /\ told' = told \cup {o \in ToSet(outs) : o.res \in DOMAIN Promised}

Stay(c, rec) == call' = [call EXCEPT ![c] = rec] /\ UNCHANGED <<locks, told>>
NextInput(rec, out) ==
    [rec EXCEPT !.pc = "decide", !.i = @ + 1, !.outs = Append(@, out)]
Provisional(rec) == [rec EXCEPT !.prov = @ \cup {rec.i}]

\* Call and the batch entrances: a closed or poisoned store answers at once.
\* A confirmation of several messages looks up their owners before it locks.
Enter(c) ==
    /\ call[c].pc = "idle"
    /\ NoFault /\ UNCHANGED <<deploy, db, wal, write, store>>
    /\ IF ~IsOpen \/ (Op(c) = "confirmAll" /\ \E in \in ToSet(Request(c).in) :
                          in.mid \notin Messages(db))
       THEN Return(c, <<Failed>>)
       ELSE Stay(c, [NoCall EXCEPT !.pc = "lock", !.want = LockOrder(c)])

TakeLock(c) ==
    LET rec == call[c] IN
    /\ rec.pc = "lock" /\ rec.want # <<>> /\ locks[Head(rec.want)] = None
    /\ locks' = [locks EXCEPT ![Head(rec.want)] = c]
    /\ call' = [call EXCEPT ![c] = [rec EXCEPT !.want = Tail(@),
                   !.pc = IF Len(rec.want) = 1 THEN "decide" ELSE "lock"]]
    /\ NoFault /\ UNCHANGED <<deploy, db, wal, write, store, told>>

\* A confirmation would take a pending counter below zero.
Underflow(batch) ==
    \E k \in DOMAIN batch : k[1] = "Q" /\ batch[k] # Deleted /\ batch[k] < 0

\* All inputs are decided: one write, or none when nothing is to be written or
\* a counter does not cover it.
EndOfInputs(c) ==
    /\ call[c].pc = "decide" /\ call[c].i > Len(Request(c).in)
    /\ NoFault /\ UNCHANGED <<deploy, db, wal, store>>
    /\ IF call[c].batch = <<>>
       THEN Return(c, call[c].outs) /\ UNCHANGED write
       ELSE IF Underflow(call[c].batch)
       THEN /\ Return(c, [i \in 1 .. Len(call[c].outs) |->
                             IF i \in call[c].prov \/ Op(c) = "confirmAll"
                             THEN Invalid ELSE call[c].outs[i]])
            /\ UNCHANGED write
       ELSE Stay(c, [call[c] EXCEPT !.pc = "write"]) /\ Start(c, call[c].batch, TRUE)

\* admit_events and the EventSlot.
Admitted == IsOpen /\ healthy
SlotFree == store.events < deploy.maxEvents

FoundCid(c) == <<"I", Input(c).from, Input(c).cid>> \in DOMAIN Seen(c)

\* PersistPrivateMessage: a known client id, or a slot for the event of a new
\* message. EnsureActors may fail.
PersistDecide(c) ==
    LET in  == Input(c)
        rec == call[c]
        key == <<"I", in.from, in.cid>>
    IN
    /\ Op(c) = "persist" /\ rec.pc = "decide" /\ rec.i <= Len(Request(c).in)
    /\ UNCHANGED <<deploy, db, wal, write>>
    /\ \/ /\ FoundCid(c)
          /\ LET mid == Seen(c)[key]
                 m   == Seen(c)[<<"M", mid>>]
                 out == IF m.to = in.to /\ m.body = in.body
                        THEN Made("reused", mid, m) ELSE [res |-> "conflict"]
             IN Stay(c, NextInput(IF key \in DOMAIN rec.batch THEN Provisional(rec)
                                  ELSE rec, out))
          /\ NoFault /\ UNCHANGED store
       \/ /\ ~FoundCid(c)
          /\ \/ (~Admitted \/ ~SlotFree) /\ NoFault
             \/ Admitted /\ SlotFree /\ Fault
          /\ Stay(c, NextInput(rec, Failed)) /\ UNCHANGED store
       \/ /\ ~FoundCid(c) /\ Admitted /\ SlotFree
          /\ store' = [store EXCEPT !.events = @ + 1]
          /\ Stay(c, [rec EXCEPT !.pc = "id"]) /\ NoFault

Prepared(ids) == IF store.indexed THEN store.index @@ [e \in ids |-> FALSE] ELSE <<>>
Without(ids) == [e \in DOMAIN store.index \ ids |-> store.index[e]]

\* The new message is added to the batch; st is the store with its id taken.
Stage(c, mid, st) ==
    LET in  == Input(c)
        rec == call[c]
        d   == Seen(c)
        n   == Count(d, <<"N", in.to>>)
        dl  == Count(d, <<"D", in.to, in.from>>)
        q   == Count(d, <<"Q", in.to>>)
        m   == [from |-> in.from, to |-> in.to, cid |-> in.cid, body |-> in.body,
                state |-> "pending"]
        new == (<<"M", mid>> :> m) @@ (<<"I", in.from, in.cid>> :> mid)
               @@ (<<"P", in.to, mid>> :> TRUE) @@ (<<"N", in.to>> :> n + 1)
               @@ (<<"D", in.to, in.from>> :> dl + 1) @@ (<<"Q", in.to>> :> q + 1)
               @@ (<<"E", mid>> :> TRUE)
    IN  IF dl > n \/ q > n \/ mid \in DOMAIN store.index
        THEN /\ Stay(c, NextInput(rec, Invalid))
             /\ store' = [st EXCEPT !.events = @ - 1]
        ELSE /\ Stay(c, NextInput([Provisional(rec) EXCEPT !.batch = Put(@, new),
                                      !.slots = @ \cup {mid}], Made("created", mid, m)))
             /\ store' = [st EXCEPT !.index = Prepared({mid})]

\* NextId: a new range is reserved with a synchronous write under id_mutex.
NextId(c) ==
    /\ call[c].pc = "id" /\ store.idBusy = None
    /\ NoFault /\ UNCHANGED <<deploy, db, wal>>
    /\ IF store.next > store.end
       THEN /\ Start(c, <<"H">> :> store.end + IdRange, TRUE)
            /\ Stay(c, [call[c] EXCEPT !.pc = "reserve"])
            /\ store' = [store EXCEPT !.idBusy = c]
       ELSE Stage(c, store.next, [store EXCEPT !.next = @ + 1]) /\ UNCHANGED write

Reserved(c) ==
    /\ call[c].pc = "reserve" /\ write[c].st \in {"ok", "failed"}
    /\ write' = [write EXCEPT ![c] = NoWrite]
    /\ NoFault /\ UNCHANGED <<deploy, db, wal>>
    /\ IF write[c].st = "ok"
       THEN Stage(c, store.next, [store EXCEPT !.next = @ + 1, !.end = @ + IdRange,
                                               !.idBusy = None])
       ELSE /\ Stay(c, NextInput(call[c], Failed))
            /\ store' = [store EXCEPT !.idBusy = None, !.events = @ - 1]


\* ConfirmReceiver, ConfirmReceiverRequests and ConfirmReceiverBatch, one
\* input at a time: ReceiverConfirmationDecision, or the change to confirmed.
ConfirmDecide(c) ==
    LET in    == Input(c)
        rec   == call[c]
        d     == Seen(c)
        key   == <<"M", in.mid>>
        m     == d[key]
        q     == Count(d, <<"Q", m.to>>)
        owner == IF Op(c) = "confirmAll" THEN m.to ELSE in.by
        wrong == key \notin DOMAIN d \/ owner # m.to
        new   == (key :> [m EXCEPT !.state = "confirmed"])
                 @@ (<<"P", m.to, in.mid>> :> Deleted) @@ (<<"Q", m.to>> :> Amount(q - 1))
    IN
    /\ Op(c) \in {"confirm", "confirmAll"} /\ rec.pc = "decide"
    /\ rec.i <= Len(Request(c).in)
    /\ NoFault /\ UNCHANGED <<deploy, db, wal, write, store>>
    /\ IF wrong /\ Op(c) = "confirmAll"
       THEN Return(c, <<Invalid>>)
       ELSE Stay(c,
               IF wrong THEN NextInput(rec, [res |-> "refused"])
               ELSE IF m.state # "pending"
               THEN NextInput(IF key \in DOMAIN rec.batch THEN Provisional(rec) ELSE rec,
                              Made("already", in.mid, m))
               ELSE NextInput([Provisional(rec) EXCEPT !.batch = Put(@, new)],
                              Made("confirmed", in.mid, m)))

\* MarkDialogRead: every unread message of the dialog, in one write.
Unread(d, reader, peer) ==
    {x \in Messages(d) : LET m == d[<<"M", x>>] IN
        m.to = reader /\ m.from = peer /\ m.state # "read"}

ReadDecide(c) ==
    LET in      == Input(c)
        rec     == call[c]
        mids    == Unread(db, in.reader, in.peer)
        waiting == {x \in mids : db[<<"M", x>>].state = "pending"}
        n       == Count(db, <<"N", in.reader>>)
        dl      == Count(db, <<"D", in.reader, in.peer>>)
        q       == Count(db, <<"Q", in.reader>>)
        e       == ReadIds + c
        new     == [k \in {<<"M", x>> : x \in mids} |-> [db[k] EXCEPT !.state = "read"]]
                   @@ [k \in {<<"P", in.reader, x>> : x \in waiting} |-> Deleted]
                   @@ (<<"N", in.reader>> :> n - Cardinality(mids))
                   @@ (<<"D", in.reader, in.peer>> :> Deleted)
                   @@ (<<"Q", in.reader>> :> Amount(q - Cardinality(waiting)))
                   @@ (<<"E", e>> :> TRUE)
        outs    == SetToSeq({Made("read", x, db[<<"M", x>>]) : x \in mids})
    IN
    /\ Op(c) = "read" /\ rec.pc = "decide" /\ rec.i = 1
    /\ NoFault /\ UNCHANGED <<deploy, db, wal>>
    /\ IF mids = {} \/ ~Admitted \/ ~SlotFree \/ dl # Cardinality(mids)
          \/ n < dl \/ q < Cardinality(waiting)
       THEN /\ Return(c, IF mids = {} THEN <<>>
                         ELSE IF dl # Cardinality(mids) \/ n < dl \/ q < Cardinality(waiting)
                         THEN <<Invalid>> ELSE <<Failed>>)
            /\ UNCHANGED <<write, store>>
       ELSE /\ Stay(c, [rec EXCEPT !.pc = "write", !.outs = outs, !.slots = {e},
                                   !.prov = 1 .. Len(outs)])
            /\ Start(c, new, TRUE)
            /\ store' = [store EXCEPT !.events = @ + 1, !.index = Prepared({e})]

\* RequeueFailedEvents, under the lock of the event state.
Requeue(c) ==
    LET ids == {in.event : in \in {x \in ToSet(Request(c).in) :
                    <<"F", x.event>> \in DOMAIN db}}
        new == [k \in {<<"E", e>> : e \in ids} |-> TRUE]
               @@ [k \in {<<"F", e>> : e \in ids} |-> Deleted]
    IN
    /\ Op(c) = "requeue" /\ call[c].pc = "lock" /\ store.evlock = None
    /\ NoFault /\ UNCHANGED <<deploy, db, wal>>
    /\ IF ids = {} \/ store.events + Cardinality(ids) > deploy.maxEvents
       THEN Return(c, IF ids = {} THEN <<>> ELSE <<Failed>>) /\ UNCHANGED <<write, store>>
       ELSE IF ids \cap Events(db) # {}
       THEN Return(c, <<Invalid>>) /\ UNCHANGED <<write, store>>
       ELSE /\ Stay(c, [call[c] EXCEPT !.pc = "write", !.slots = ids])
            /\ Start(c, new, TRUE)
            /\ store' = [store EXCEPT !.events = @ + Cardinality(ids),
                                      !.index = Prepared(ids), !.evlock = c]

\* After the write: the slots are committed and the answers given, or the
\* slots are released and what depended on the write has failed.
Finish(c) ==
    LET rec == call[c]
        ok  == write[c].st = "ok"
    IN
    /\ rec.pc = "write" /\ write[c].st \in {"ok", "failed"}
    /\ write' = [write EXCEPT ![c] = NoWrite]
    /\ store' = [store EXCEPT
           !.index = IF ok THEN [e \in DOMAIN @ |-> @[e] \/ e \in rec.slots]
                     ELSE Without(rec.slots),
           !.events = IF ok THEN @ ELSE @ - Cardinality(rec.slots),
           !.evlock = IF @ = c THEN None ELSE @]
    /\ Return(c, [i \in 1 .. Len(rec.outs) |->
                     IF ok \/ i \notin rec.prov THEN rec.outs[i] ELSE Failed])
    /\ NoFault /\ UNCHANGED <<deploy, db, wal>>

CallStep(c) ==
    \/ Enter(c) \/ TakeLock(c) \/ EndOfInputs(c) \/ Finish(c)
    \/ PersistDecide(c) \/ NextId(c) \/ Reserved(c)
    \/ ConfirmDecide(c) \/ ReadDecide(c) \/ Requeue(c)

-----------------------------------------------------------------------------
(* A new process opens the store with the rows d. The calls that had not   *)
(* been answered are made again by their clients.                          *)

\* Mutant of Recovered: the recovered log is not flushed before serving.
RecoveredUnflushed(d) == wal' = Append(wal, d)
Recovered(d) == wal' = <<d>>

Reopen(d) ==
    /\ db' = d /\ Recovered(d)
    /\ write' = [w \in Writers |-> NoWrite]
    /\ store' = Opened(d)
    /\ locks' = [u \in Users |-> None]
    /\ call' = [c \in Calls |-> IF call[c].pc = "done" THEN call[c] ELSE NoCall]
    /\ UNCHANGED <<deploy, told>>

\* What a crash may leave: a state of the log, or the last one with some of
\* the batches that were at the engine.
Survivors == ToSet(wal) \cup {Merged(Last(wal), S) : S \in SUBSET Ready}

=============================================================================
