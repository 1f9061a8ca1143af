-------------------------- MODULE PrivateDelivery --------------------------
(***************************************************************************)
(* The life of one private message across several Gateways, the Message    *)
(* Service and the receiver's client:                                      *)
(*   - the sender's (retried) kChatMessage runs in the ordered lane of its *)
(*     user pair, persists the message, answers, and delivers locally or   *)
(*     forwards to the peer Gateway that the route names;                  *)
(*   - a delivery registers an attempt D with the tracker, then sends it;  *)
(*     an ACK timer retries it; a login replays what is still pending;     *)
(*   - the receiver's ACK is tracked first, then made durable by an RPC    *)
(*     that may fail before or after its commit;                           *)
(*   - clients disconnect, Gateways restart, bounded caches evict.         *)
(* A Gateway's tracker entry for the message is tstate/tseqs/tcur; the     *)
(* module ReceiverDeliveryTracker shows that its counters are exact, so a  *)
(* full window appears here only as a refused submission. A TCP connection *)
(* delivers or dies; it does not duplicate.                                *)
(***************************************************************************)
EXTENDS Integers, FiniteSets

CONSTANTS
    Gateways,
    NoGateway, NoConn,
    Recovery,              \* enable_durable_private_recovery
    MaxAttempts,           \* receiver_delivery_max_attempts
    MaxAttemptSequences,   \* evidence cap of a tracker entry
    MaxSends,              \* bound: times the sender submits the message
    MaxConns,              \* bound: logins of the receiver
    MaxFaults              \* bound: failed RPCs, refusals, evictions, restarts

ASSUME ConstantsAssumption ==
    /\ Recovery \in BOOLEAN
    /\ MaxAttempts \in Nat \ {0} /\ MaxAttemptSequences \in Nat \ {0}
    /\ MaxSends \in Nat /\ MaxConns \in Nat /\ MaxFaults \in Nat
    /\ NoGateway \notin Gateways

Conns == [n : 1 .. MaxConns, g : Gateways]

ASSUME NoConnAssumption == NoConn \notin Conns

VARIABLES
    db,          \* delivery_status of the row in MySQL
    reqs, fwds,  \* queued client requests and peer forwards per lane
    stage, peer, tconn, result,          \* the coroutine running in the lane
    dedup,       \* MessageDeliveryDeduplicator state of the message
    tstate, tseqs, tcur, cooling,        \* ReceiverDeliveryTracker entry
    timers,      \* attempts with an armed ACK timer
    nextD,       \* next_receiver_delivery_seq_
    intent, rstage, rconn,               \* pending replay and the running one
    confirming,  \* a ConfirmReceiver RPC is in flight
    sess,        \* the receiver's session at each Gateway
    cur, conns,  \* the client's live connection, logins so far
    down, up,    \* deliveries and ACKs in flight
    received,    \* the receiving application has the message
    told,        \* answers the sender was given
    sends, faults

lane == <<reqs, fwds, stage, peer, tconn, result>>
track == <<tstate, tseqs, tcur, cooling, timers, nextD>>
replay == <<intent, rstage, rconn>>
client == <<cur, conns, received>>
vars == <<db, lane, dedup, track, replay, confirming, sess, client, down, up,
          told, sends, faults>>

Stages == {"idle", "persist", "persisted", "reply", "get", "got"}
Results == {"none", "fail", "pending", "confirmed"}

Init ==
    /\ db = "absent"
    /\ reqs = [g \in Gateways |-> 0] /\ fwds = [g \in Gateways |-> 0]
    /\ stage = [g \in Gateways |-> "idle"]
    /\ peer = [g \in Gateways |-> NoGateway]
    /\ tconn = [g \in Gateways |-> NoConn]
    /\ result = [g \in Gateways |-> "none"]
    /\ dedup = [g \in Gateways |-> "none"]
    /\ tstate = [g \in Gateways |-> "absent"]
    /\ tseqs = [g \in Gateways |-> {}]
    /\ tcur = [g \in Gateways |-> 0]
    /\ cooling = [g \in Gateways |-> FALSE]
    /\ timers = [g \in Gateways |-> {}]
    /\ nextD = 1
    /\ intent = [g \in Gateways |-> FALSE]
    /\ rstage = [g \in Gateways |-> "idle"]
    /\ rconn = [g \in Gateways |-> NoConn]
    /\ confirming = [g \in Gateways |-> FALSE]
    /\ sess = [g \in Gateways |-> NoConn]
    /\ cur = NoConn /\ conns = 0
    /\ down = {} /\ up = {}
    /\ received = FALSE /\ told = {}
    /\ sends = 0 /\ faults = 0

Fault == faults < MaxFaults /\ faults' = faults + 1

----------------------------------------------------------------------------
(* MessageService, as the RPCs of the Gateway see it.                      *)

\* Mutant of Persisted: the insert is an upsert that resets the status.
PersistedUpsert(s) == "pending"

\* PersistPrivateMessage creates the row or finds the one already there.
Persisted(s) == IF s = "absent" THEN "pending" ELSE s

\* ConfirmReceiver and ConfirmReceiverBatch only move Pending forward.
ConfirmedStatus(s) == IF s = "pending" THEN "confirmed" ELSE s

\* The delivery state an RPC response carries.
Snapshot(s) == IF s \in {"confirmed", "read"} THEN "confirmed" ELSE "pending"

\* MarkDialogRead updates only confirmed rows.
MarkDialogRead ==
    /\ db = "confirmed" /\ db' = "read"
    /\ UNCHANGED <<lane, dedup, track, replay, confirming, sess, client, down,
                   up, told, sends, faults>>

----------------------------------------------------------------------------
(* Submitting a delivery attempt on connection c of Gateway g.             *)

EvidenceFull(g) == Cardinality(tseqs[g]) >= MaxAttemptSequences

\* Mutant of SubmitStatus: a full evidence set also stops durable recovery.
SubmitStatusStuck(g, c) ==
    IF c = NoConn \/ sess[g] # c THEN "kConnectionUnavailable"
    ELSE IF tstate[g] = "confirmed" THEN "kAlreadyConfirmed"
    ELSE IF Recovery /\ tstate[g] = "waiting" /\ cooling[g] THEN "kWaitingAck"
    ELSE IF EvidenceFull(g) THEN "kWindowFull"
    ELSE "kSubmitted"

SubmitStatus(g, c) ==
    IF c = NoConn \/ sess[g] # c THEN "kConnectionUnavailable"
    ELSE IF tstate[g] = "confirmed" THEN "kAlreadyConfirmed"
    ELSE IF Recovery /\ tstate[g] = "waiting" /\ cooling[g] THEN "kWaitingAck"
    ELSE IF ~Recovery /\ EvidenceFull(g) THEN "kWindowFull"
    ELSE "kSubmitted"

\* Mutant of SendNew: a retry is sent without registering its attempt.
SendNewUnregistered(g, c) ==
    /\ tstate' = [tstate EXCEPT ![g] = "waiting"]
    /\ tseqs' = [tseqs EXCEPT ![g] = IF @ = {} THEN {nextD} ELSE @]
    /\ tcur' = [tcur EXCEPT ![g] = nextD]
    /\ cooling' = [cooling EXCEPT ![g] = Recovery]
    /\ timers' = [timers EXCEPT ![g] = @ \cup {nextD}]
    /\ nextD' = nextD + 1
    /\ down' = IF c = cur THEN down \cup {[conn |-> c, d |-> nextD]} ELSE down

\* Register a fresh attempt with the tracker, then send it, then arm its timer.
SendNew(g, c) ==
    /\ tstate' = [tstate EXCEPT ![g] = "waiting"]
    /\ tseqs' = [tseqs EXCEPT ![g] = @ \cup {nextD}]
    /\ tcur' = [tcur EXCEPT ![g] = nextD]
    /\ cooling' = [cooling EXCEPT ![g] = Recovery]
    /\ timers' = [timers EXCEPT ![g] = @ \cup {nextD}]
    /\ nextD' = nextD + 1
    /\ down' = IF c = cur THEN down \cup {[conn |-> c, d |-> nextD]} ELSE down

\* With the evidence full, durable recovery resends the current attempt.
Resend(g, c) ==
    /\ cooling' = [cooling EXCEPT ![g] = TRUE]
    /\ timers' = [timers EXCEPT ![g] = @ \cup {tcur[g]}]
    /\ down' = IF c = cur THEN down \cup {[conn |-> c, d |-> tcur[g]]} ELSE down
    /\ UNCHANGED <<tstate, tseqs, tcur, nextD>>

\* SubmitReceiverChatDelivery with outcome s. A new entry may also be refused
\* because other messages fill the window.
Submit(g, c, s) ==
    \/ /\ s = SubmitStatus(g, c)
       /\ IF s # "kSubmitted" THEN UNCHANGED <<track, down>>
          ELSE IF EvidenceFull(g) THEN Resend(g, c)
          ELSE SendNew(g, c)
       /\ UNCHANGED faults
    \/ /\ SubmitStatus(g, c) = "kSubmitted" /\ tstate[g] = "absent"
       /\ s = "kWindowFull"
       /\ Fault /\ UNCHANGED <<track, down>>

SubmitStatuses == {"kConnectionUnavailable", "kAlreadyConfirmed",
                   "kWaitingAck", "kWindowFull", "kSubmitted"}

\* Mutant of DedupAfter: a failed submission keeps the ownership.
DedupAfterLeak(s) ==
    IF s \in {"kSubmitted", "kAlreadyConfirmed"} THEN "delivered" ELSE "processing"

\* MarkDelivered after a submission or a known confirmation, Abort otherwise.
DedupAfter(s) ==
    IF s \in {"kSubmitted", "kAlreadyConfirmed"} THEN "delivered" ELSE "none"

----------------------------------------------------------------------------
(* The sender's request: HandleChatMessage, ExecuteChatMessageCoroutine.   *)

\* The client submits the message, or submits it again after a lost answer.
ClientSend(g) ==
    /\ sends < MaxSends
    /\ sends' = sends + 1
    /\ reqs' = [reqs EXCEPT ![g] = @ + 1]
    /\ UNCHANGED <<db, fwds, stage, peer, tconn, result, dedup, track, replay,
                   confirming, sess, client, down, up, told, faults>>

\* The lane starts a request: resolve the route (the Redis record may be stale,
\* missing or unreachable, so any answer is possible) and, for the local
\* branch, look the receiver up before the persistence await.
StartChat(g) ==
    /\ stage[g] = "idle" /\ reqs[g] > 0
    /\ reqs' = [reqs EXCEPT ![g] = @ - 1]
    /\ stage' = [stage EXCEPT ![g] = "persist"]
    /\ \/ /\ UNCHANGED peer
          /\ tconn' = [tconn EXCEPT ![g] = sess[g]]
       \/ /\ \E h \in Gateways \ {g} : peer' = [peer EXCEPT ![g] = h]
          /\ UNCHANGED tconn
    /\ UNCHANGED <<db, fwds, result, dedup, track, replay, confirming, sess,
                   client, down, up, told, sends, faults>>

\* The persistence RPC answers with the state of the created or reused row.
PersistRpc(g) ==
    /\ stage[g] = "persist"
    /\ db' = Persisted(db)
    /\ stage' = [stage EXCEPT ![g] = "persisted"]
    /\ result' = [result EXCEPT ![g] = Snapshot(db)]
    /\ UNCHANGED <<reqs, fwds, peer, tconn, dedup, track, replay, confirming,
                   sess, client, down, up, told, sends, faults>>

\* The RPC fails; the row may have been committed all the same.
PersistFails(g) ==
    /\ stage[g] = "persist"
    /\ Fault
    /\ db' \in {db, Persisted(db)}
    /\ stage' = [stage EXCEPT ![g] = "persisted"]
    /\ result' = [result EXCEPT ![g] = "fail"]
    /\ UNCHANGED <<reqs, fwds, peer, tconn, dedup, track, replay, confirming,
                   sess, client, down, up, told, sends>>

\* The coroutine ends and the lane is free.
EndTask(g) ==
    /\ stage' = [stage EXCEPT ![g] = "idle"]
    /\ peer' = [peer EXCEPT ![g] = NoGateway]
    /\ tconn' = [tconn EXCEPT ![g] = NoConn]
    /\ result' = [result EXCEPT ![g] = "none"]

Answer(delivered) ==
    told' = told \cup {"accepted"} \cup (IF delivered THEN {"delivered"} ELSE {})

\* success=false: the sender learns nothing about durability.
AnswerFailed(g) ==
    /\ stage[g] = "persisted" /\ result[g] = "fail"
    /\ EndTask(g)
    /\ UNCHANGED <<db, reqs, fwds, dedup, track, replay, confirming, sess,
                   client, down, up, told, sends, faults>>

\* Remote route: answer durable acceptance, then forward whatever happens next.
AnswerRemote(g) ==
    /\ stage[g] = "persisted" /\ result[g] # "fail" /\ peer[g] # NoGateway
    /\ Answer(result[g] = "confirmed")
    /\ \/ fwds' = [fwds EXCEPT ![peer[g]] = @ + 1]
       \/ UNCHANGED fwds
    /\ EndTask(g)
    /\ UNCHANGED <<db, reqs, dedup, track, replay, confirming, sess, client,
                   down, up, sends, faults>>

\* A retry of a message that is already confirmed is answered without a push.
AnswerConfirmed(g) ==
    /\ stage[g] = "persisted" /\ result[g] = "confirmed" /\ peer[g] = NoGateway
    /\ Answer(TRUE)
    /\ EndTask(g)
    /\ UNCHANGED <<db, reqs, fwds, dedup, track, replay, confirming, sess,
                   client, down, up, sends, faults>>

\* Local push on the connection found before the await, under the dedup.
DeliverLocal(g) ==
    /\ stage[g] = "persisted" /\ result[g] = "pending" /\ peer[g] = NoGateway
    /\ stage' = [stage EXCEPT ![g] = "reply"]
    /\ IF tconn[g] # NoConn /\ dedup[g] = "none"
       THEN \E s \in SubmitStatuses :
               /\ Submit(g, tconn[g], s)
               /\ dedup' = [dedup EXCEPT ![g] = DedupAfter(s)]
       ELSE UNCHANGED <<track, down, faults, dedup>>
    /\ UNCHANGED <<db, reqs, fwds, peer, tconn, result, replay, confirming,
                   sess, client, up, told, sends>>

\* The answer reads the tracker again: an ACK may have arrived meanwhile.
AnswerLocal(g) ==
    /\ stage[g] = "reply"
    /\ Answer(tstate[g] = "confirmed")
    /\ EndTask(g)
    /\ UNCHANGED <<db, reqs, fwds, dedup, track, replay, confirming, sess,
                   client, down, up, sends, faults>>

----------------------------------------------------------------------------
(* A forward from a peer: ExecuteGatewayForwardChatCoroutine.              *)

\* Take ownership in the dedup; a message already delivered here is answered
\* without touching anything.
StartForward(g) ==
    /\ stage[g] = "idle" /\ fwds[g] > 0
    /\ fwds' = [fwds EXCEPT ![g] = @ - 1]
    /\ IF dedup[g] = "none"
       THEN /\ dedup' = [dedup EXCEPT ![g] = "processing"]
            /\ stage' = [stage EXCEPT ![g] = "get"]
       ELSE UNCHANGED <<dedup, stage>>
    /\ UNCHANGED <<db, reqs, peer, tconn, result, track, replay, confirming,
                   sess, client, down, up, told, sends, faults>>

\* GetPrivateMessage reads the authoritative row.
GetRpc(g) ==
    /\ stage[g] = "get"
    /\ stage' = [stage EXCEPT ![g] = "got"]
    /\ \/ result' = [result EXCEPT ![g] = Snapshot(db)] /\ UNCHANGED faults
       \/ result' = [result EXCEPT ![g] = "fail"] /\ Fault
    /\ UNCHANGED <<db, reqs, fwds, peer, tconn, dedup, track, replay,
                   confirming, sess, client, down, up, told, sends>>

\* Every exit either marks the message delivered here or aborts the ownership.
DeliverForwarded(g) ==
    /\ stage[g] = "got"
    /\ IF result[g] = "pending" /\ sess[g] # NoConn
       THEN \E s \in SubmitStatuses :
               /\ Submit(g, sess[g], s)
               /\ dedup' = [dedup EXCEPT ![g] = DedupAfter(s)]
       ELSE /\ dedup' = [dedup EXCEPT ![g] =
                  IF result[g] = "confirmed" THEN "delivered" ELSE "none"]
            /\ UNCHANGED <<track, down, faults>>
    /\ EndTask(g)
    /\ UNCHANGED <<db, reqs, fwds, replay, confirming, sess, client, up, told,
                   sends>>

----------------------------------------------------------------------------
(* ACK timers: HandleReceiverDeliveryAckTimeout.                           *)

\* Only the current, unconfirmed attempt is retried, on whatever session the
\* receiver has now, and at most MaxAttempts times in all.
AckTimeout(g, d) ==
    /\ d \in timers[g]
    /\ IF /\ tstate[g] = "waiting" /\ tcur[g] = d
          /\ sess[g] # NoConn
          /\ Cardinality(tseqs[g]) < MaxAttempts /\ ~EvidenceFull(g)
       THEN /\ tseqs' = [tseqs EXCEPT ![g] = @ \cup {nextD}]
            /\ tcur' = [tcur EXCEPT ![g] = nextD]
            /\ cooling' = [cooling EXCEPT ![g] = Recovery]
            /\ timers' = [timers EXCEPT ![g] = (@ \ {d}) \cup {nextD}]
            /\ nextD' = nextD + 1
            /\ down' = IF sess[g] = cur
                       THEN down \cup {[conn |-> cur, d |-> nextD]} ELSE down
            /\ UNCHANGED tstate
       ELSE /\ timers' = [timers EXCEPT ![g] = @ \ {d}]
            /\ UNCHANGED <<tstate, tseqs, tcur, cooling, nextD, down>>
    /\ UNCHANGED <<db, lane, dedup, replay, confirming, sess, client, up, told,
                   sends, faults>>

\* External: the recovery cooldown of the entry has passed.
CooldownElapses(g) ==
    /\ cooling[g]
    /\ cooling' = [cooling EXCEPT ![g] = FALSE]
    /\ UNCHANGED <<db, lane, dedup, tstate, tseqs, tcur, timers, nextD, replay,
                   confirming, sess, client, down, up, told, sends, faults>>

----------------------------------------------------------------------------
(* The receiver: its client is external, its ACK handler is the Gateway's. *)

\* A login binds a fresh connection and records the duty to replay.
Login(g) ==
    /\ conns < MaxConns
    /\ conns' = conns + 1
    /\ cur' = [n |-> conns + 1, g |-> g]
    /\ sess' = [sess EXCEPT ![g] = cur']
    /\ intent' = [intent EXCEPT ![g] = TRUE]
    /\ down' = {}
    /\ UNCHANGED <<db, lane, dedup, track, rstage, rconn, confirming, received,
                   up, told, sends, faults>>

\* External: the client's connection dies with every delivery still on it.
Disconnect ==
    /\ cur # NoConn
    /\ cur' = NoConn /\ down' = {}
    /\ UNCHANGED <<db, lane, dedup, track, replay, confirming, sess, conns,
                   received, up, told, sends, faults>>

\* HandleConnection: the Gateway learns that a connection is gone.
NoticeClose(g) ==
    /\ sess[g] # NoConn /\ sess[g] # cur
    /\ sess' = [sess EXCEPT ![g] = NoConn]
    /\ intent' = [intent EXCEPT ![g] = FALSE]
    /\ UNCHANGED <<db, lane, dedup, track, rstage, rconn, confirming, client,
                   down, up, told, sends, faults>>

\* External: the application takes the message (once, by message_id) and
\* acknowledges the attempt that carried it.
Receive(f) ==
    /\ f \in down
    /\ received' = TRUE
    /\ down' = down \ {f} /\ up' = up \cup {f}
    /\ UNCHANGED <<db, lane, dedup, track, replay, confirming, sess, cur,
                   conns, told, sends, faults>>

\* An ACK is lost with the connection that carried it, or its task is refused by
\* the executor or finds no MessageService client: a log line and no other trace.
LoseAck(f) ==
    /\ f \in up
    /\ up' = up \ {f}
    /\ IF f.conn # cur THEN UNCHANGED faults ELSE Fault
    /\ UNCHANGED <<db, lane, dedup, track, replay, confirming, sess, client,
                   down, told, sends>>

\* ProcessPrivateReceiverAck: a known attempt confirms the tracker entry, and
\* the first or a repeated confirmation goes on to the ConfirmReceiver RPC.
\* Acknowledgements of one message run one at a time.
ReceiverAck(f) ==
    LET g == f.conn.g
    IN  /\ f \in up /\ ~confirming[g]
        /\ up' = up \ {f}
        /\ IF f.d \in tseqs[g]
           THEN /\ tstate' = [tstate EXCEPT ![g] = "confirmed"]
                /\ confirming' = [confirming EXCEPT ![g] = TRUE]
           ELSE UNCHANGED <<tstate, confirming>>
        /\ UNCHANGED <<db, lane, dedup, tseqs, tcur, cooling, timers, nextD,
                       replay, sess, client, down, told, sends, faults>>

\* The RPC advances the row, or fails before or after doing so.
ConfirmRpc(g) ==
    /\ confirming[g]
    /\ confirming' = [confirming EXCEPT ![g] = FALSE]
    /\ \/ db' = ConfirmedStatus(db) /\ UNCHANGED faults
       \/ db' \in {db, ConfirmedStatus(db)} /\ Fault
    /\ UNCHANGED <<lane, dedup, track, replay, sess, client, down, up, told,
                   sends>>

----------------------------------------------------------------------------
(* Replay of pending messages after a login or a recovery discovery.       *)

\* PumpPrivateReplayAdmission finds the receiver among the pending recipients.
Discover(g) ==
    /\ Recovery /\ db = "pending" /\ sess[g] # NoConn /\ ~intent[g]
    /\ intent' = [intent EXCEPT ![g] = TRUE]
    /\ UNCHANGED <<db, lane, dedup, track, rstage, rconn, confirming, sess,
                   client, down, up, told, sends, faults>>

\* The admitted work starts for the session that is current.
StartReplay(g) ==
    /\ intent[g] /\ rstage[g] = "idle" /\ sess[g] # NoConn
    /\ intent' = [intent EXCEPT ![g] = FALSE]
    /\ rstage' = [rstage EXCEPT ![g] = "query"]
    /\ rconn' = [rconn EXCEPT ![g] = sess[g]]
    /\ UNCHANGED <<db, lane, dedup, track, confirming, sess, client, down, up,
                   told, sends, faults>>

EndReplay(g) ==
    /\ rstage' = [rstage EXCEPT ![g] = "idle"]
    /\ rconn' = [rconn EXCEPT ![g] = NoConn]

\* ListPendingAfter: the row is listed only while Pending; a failure ends it.
ReplayQuery(g) ==
    /\ rstage[g] = "query"
    /\ \/ /\ db = "pending"
          /\ rstage' = [rstage EXCEPT ![g] = "submit"]
          /\ UNCHANGED <<rconn, faults>>
       \/ db # "pending" /\ EndReplay(g) /\ UNCHANGED faults
       \/ EndReplay(g) /\ Fault
    /\ UNCHANGED <<db, lane, dedup, track, intent, confirming, sess, client,
                   down, up, told, sends>>

\* The listed message is submitted on the replay's own connection; when the
\* tracker already holds its ACK, the durable row is repaired instead.
ReplaySubmit(g) ==
    /\ rstage[g] = "submit"
    /\ \E s \in SubmitStatuses :
          /\ Submit(g, rconn[g], s)
          /\ IF s = "kAlreadyConfirmed"
             THEN rstage' = [rstage EXCEPT ![g] = "repair"] /\ UNCHANGED rconn
             ELSE EndReplay(g)
    /\ UNCHANGED <<db, lane, dedup, intent, confirming, sess, client, up, told,
                   sends>>

\* ConfirmReceiverBatch for the listed messages whose ACK the tracker holds.
RepairRpc(g) ==
    /\ rstage[g] = "repair"
    /\ \/ db' = ConfirmedStatus(db) /\ UNCHANGED faults
       \/ db' \in {db, ConfirmedStatus(db)} /\ Fault
    /\ EndReplay(g)
    /\ UNCHANGED <<lane, dedup, track, intent, confirming, sess, client, down,
                   up, told, sends>>

----------------------------------------------------------------------------
(* Evictions and restarts.                                                 *)

\* Other confirmations push this one out of the tracker.
EvictTracker(g) ==
    /\ tstate[g] = "confirmed" /\ Fault
    /\ tstate' = [tstate EXCEPT ![g] = "absent"]
    /\ tseqs' = [tseqs EXCEPT ![g] = {}]
    /\ tcur' = [tcur EXCEPT ![g] = 0]
    /\ cooling' = [cooling EXCEPT ![g] = FALSE]
    /\ UNCHANGED <<db, lane, dedup, timers, nextD, replay, confirming, sess,
                   client, down, up, told, sends>>

\* Other deliveries push this one out of the dedup.
EvictDedup(g) ==
    /\ dedup[g] = "delivered" /\ Fault
    /\ dedup' = [dedup EXCEPT ![g] = "none"]
    /\ UNCHANGED <<db, lane, track, replay, confirming, sess, client, down, up,
                   told, sends>>

\* What the MessageService may do with the RPCs of a Gateway that died.
Orphaned(g) ==
    {db} \cup (IF stage[g] = "persist" THEN {Persisted(db)} ELSE {})
         \cup (IF confirming[g] \/ rstage[g] = "repair"
               THEN {ConfirmedStatus(db)} ELSE {})

\* External: the process of g dies and restarts with empty memory.
Restart(g) ==
    /\ Fault
    /\ db' \in Orphaned(g)
    /\ reqs' = [reqs EXCEPT ![g] = 0] /\ fwds' = [fwds EXCEPT ![g] = 0]
    /\ EndTask(g) /\ EndReplay(g)
    /\ dedup' = [dedup EXCEPT ![g] = "none"]
    /\ tstate' = [tstate EXCEPT ![g] = "absent"]
    /\ tseqs' = [tseqs EXCEPT ![g] = {}]
    /\ tcur' = [tcur EXCEPT ![g] = 0]
    /\ cooling' = [cooling EXCEPT ![g] = FALSE]
    /\ timers' = [timers EXCEPT ![g] = {}]
    /\ intent' = [intent EXCEPT ![g] = FALSE]
    /\ confirming' = [confirming EXCEPT ![g] = FALSE]
    /\ sess' = [sess EXCEPT ![g] = NoConn]
    /\ up' = {f \in up : f.conn.g # g}
    /\ IF cur # NoConn /\ sess[g] = cur THEN cur' = NoConn /\ down' = {}
       ELSE UNCHANGED <<cur, down>>
    /\ UNCHANGED <<nextD, conns, received, told, sends>>

----------------------------------------------------------------------------
\* The steps the Gateways, the service and the network take by themselves.
SystemStep(g) ==
    \/ StartChat(g) \/ PersistRpc(g) \/ AnswerFailed(g) \/ AnswerRemote(g)
    \/ AnswerConfirmed(g) \/ DeliverLocal(g) \/ AnswerLocal(g)
    \/ StartForward(g) \/ GetRpc(g) \/ DeliverForwarded(g)
    \/ CooldownElapses(g) \/ NoticeClose(g) \/ ConfirmRpc(g)
    \/ Discover(g) \/ StartReplay(g) \/ ReplayQuery(g) \/ ReplaySubmit(g)
    \/ RepairRpc(g)

Next ==
    \/ \E g \in Gateways :
          \/ SystemStep(g)
          \/ ClientSend(g) \/ PersistFails(g) \/ Login(g)
          \/ EvictTracker(g) \/ EvictDedup(g) \/ Restart(g)
          \/ \E d \in timers[g] : AckTimeout(g, d)
    \/ \E f \in down : Receive(f)
    \/ \E f \in up : ReceiverAck(f) \/ LoseAck(f)
    \/ Disconnect \/ MarkDialogRead

Spec == Init /\ [][Next]_vars

\* Fairness: threads, timers and queries of a live Gateway keep running, RPCs
\* return, TCP delivers on a live connection. Nothing is assumed of clients
\* (sending, logging in, reading) or of faults.
Fairness ==
    /\ \A g \in Gateways :
          /\ WF_vars(StartChat(g)) /\ WF_vars(PersistRpc(g))
          /\ WF_vars(AnswerFailed(g) \/ AnswerRemote(g) \/ AnswerConfirmed(g)
                     \/ DeliverLocal(g) \/ AnswerLocal(g))
          /\ WF_vars(StartForward(g)) /\ WF_vars(GetRpc(g) \/ DeliverForwarded(g))
          /\ WF_vars(CooldownElapses(g)) /\ WF_vars(NoticeClose(g))
          /\ WF_vars(ConfirmRpc(g)) /\ WF_vars(Discover(g))
          /\ WF_vars(StartReplay(g))
          /\ WF_vars(ReplayQuery(g) \/ ReplaySubmit(g) \/ RepairRpc(g))
    /\ WF_vars(\E f \in down : Receive(f))
    /\ WF_vars(\E f \in up : ReceiverAck(f))

FairSpec == Spec /\ Fairness
----------------------------------------------------------------------------
(* Properties.                                                             *)

Frames == [conn : Conns, d : Nat]

\* Every variable keeps its declared shape.
TypeOK ==
    /\ db \in {"absent", "pending", "confirmed", "read"}
    /\ reqs \in [Gateways -> Nat] /\ fwds \in [Gateways -> Nat]
    /\ stage \in [Gateways -> Stages]
    /\ peer \in [Gateways -> Gateways \cup {NoGateway}]
    /\ tconn \in [Gateways -> Conns \cup {NoConn}]
    /\ result \in [Gateways -> Results]
    /\ dedup \in [Gateways -> {"none", "processing", "delivered"}]
    /\ tstate \in [Gateways -> {"absent", "waiting", "confirmed"}]
    /\ tseqs \in [Gateways -> SUBSET Nat] /\ tcur \in [Gateways -> Nat]
    /\ cooling \in [Gateways -> BOOLEAN]
    /\ timers \in [Gateways -> SUBSET Nat] /\ nextD \in Nat
    /\ intent \in [Gateways -> BOOLEAN]
    /\ rstage \in [Gateways -> {"idle", "query", "submit", "repair"}]
    /\ rconn \in [Gateways -> Conns \cup {NoConn}]
    /\ confirming \in [Gateways -> BOOLEAN]
    /\ sess \in [Gateways -> Conns \cup {NoConn}]
    /\ cur \in Conns \cup {NoConn} /\ conns \in 0 .. MaxConns
    /\ down \subseteq Frames /\ up \subseteq Frames
    /\ received \in BOOLEAN
    /\ told \subseteq {"accepted", "delivered"}
    /\ sends \in 0 .. MaxSends /\ faults \in 0 .. MaxFaults

Contract == INSTANCE PrivateMessageContract
                WITH status <- db, seen <- received

\* The whole protocol implements the contract: across retries, forwards,
\* replays, late and repeated ACKs, failed RPCs, evictions and restarts, the
\* durable status only moves absent, pending, confirmed, read; only an
\* application that holds the message makes it confirmed; the sender hears
\* success only of a durable message and delivered only of one that was seen.
ImplementsContract == Contract!Spec

\* Register-before-Send: whatever attempt is on the wire while its tracker
\* entry lives is known to that entry, so no genuine ACK of a live entry is
\* refused as an unknown attempt, however late it is and whichever retry,
\* replay or session change overtook it.
WireAttemptsKnown ==
    \A f \in down \cup up : \A e \in tseqs[f.conn.g] :
        e <= f.d => f.d \in tseqs[f.conn.g]

\* Delivery ownership never outlives the coroutine that took it: a leaked
\* "processing" mark would make every later forward of the message answer
\* kDuplicateInProgress for ever. The converse holds too: the ordered lane
\* never lets a second coroutine drop the mark.
OwnershipHeldByLane ==
    \A g \in Gateways : dedup[g] = "processing" <=> stage[g] \in {"get", "got"}

\* M12_RELIABLE_MESSAGING_ACCEPTANCE.md 56: delivered=true means "durable
\* Receiver application confirmation has occurred".
DeliveredMeansDurablyConfirmed ==
    "delivered" \in told => db \in {"confirmed", "read"}

\* With durable recovery, an accepted message becomes durably confirmed if the
\* receiver is eventually connected for good, whatever failed before.
AcceptedConverges ==
    <>[](cur # NoConn) =>
        (("accepted" \in told) ~> (db \in {"confirmed", "read"}))
=============================================================================
