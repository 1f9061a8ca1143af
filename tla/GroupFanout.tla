---------------------------- MODULE GroupFanout ----------------------------
(***************************************************************************)
(* How the messages of a group reach one of its members: the durable rows  *)
(* of im_group_message_deliveries, the GroupFanoutCoordinator of every     *)
(* Gateway that leases and dispatches the PENDING ones, the forwards to    *)
(* another Gateway, the receiver's ACK, and the offline replay that leases *)
(* and sends the DEFERRED ones after a login.                              *)
(*                                                                         *)
(* A row belongs to a message and a recipient; rows of different           *)
(* recipients never meet, so there is one recipient.  A transaction is one *)
(* step (rows another transaction holds are skipped by the claims, which   *)
(* a step cannot show).  Routes and sessions are those of the modules      *)
(* GatewayPresence and SessionManager, reduced to what a delivery reads.   *)
(* The tracker is reduced to the state of the recipient's entry; its       *)
(* sequence numbers, windows and the recovery mode's resend cooldown are   *)
(* ReceiverDeliveryTracker's.  Delays are steps that may come at any time, *)
(* except where `timely` says otherwise.                                   *)
(***************************************************************************)
EXTENDS Naturals, FiniteSets

CONSTANTS
    Gateways,
    Messages,     \* numbers: the messages of the group, in the order of their ids
    BatchSize,    \* GroupFanoutCoordinatorOptions::batch_size
    Tokens,       \* bound: numbers that stand for lease tokens
    Scenes,       \* the deployments and the mishaps that are looked at
    NoToken, Nowhere

ASSUME TokenAssumption == NoToken \notin Tokens
ASSUME SceneAssumption ==
    \A s \in Scenes : s.start \in [Messages -> {"pending", "deferred", "absent"}]

VARIABLES
    scene,
    row,        \* [message -> its row in im_group_message_deliveries]
    co,         \* [gateway -> [claimed message -> what its iteration knows of it]]
    late,       \* completions whose call failed and which are applied later
    forwards,   \* group forwards under way: <<target Gateway, message>>
    online,     \* the recipient's online record in Redis
    conn,       \* [gateway -> does it have a session of the recipient]
    client,     \* where the recipient really is
    wire,       \* packets on the way to the client: <<gateway, message>>
    acks,       \* ACK tasks of the Gateways: <<gateway, message, stage>>
    received,   \* the messages the client has
    tracker,    \* [gateway -> [message -> state of the tracker's entry]]
    timer,      \* [gateway -> messages whose current attempt has an ACK timer]
    replay,     \* [gateway -> its group offline replay tasks]
    probes,     \* [gateway -> probe timers, each the leases it outlasts]
    spent       \* how many faults, crashes and logins there have been

rowVars == <<row, late>>
sessionVars == <<online, conn, client>>
gatewayVars == <<tracker, timer, replay, probes>>
fanoutVars == <<scene, row, co, late, forwards, online, conn, client, wire, acks,
                received, tracker, timer, replay, probes, spent>>

-----------------------------------------------------------------------------
(* The rows: MessageRepository.                                            *)

NewRow(status) == [status |-> status, token |-> NoToken, lease |-> "none", due |-> TRUE]

Claimable(m, status) ==
    row[m].status = status /\ row[m].due /\ row[m].lease # "live"

\* ORDER BY message_id LIMIT n.
FirstOf(S, n) == {m \in S : Cardinality({k \in S : k < m}) < n}

\* Tokens are never used twice: one that is nowhere any more stands for a new one.
TokensInUse(m) ==
    {row[m].token}
        \cup {co[g][m].token : g \in {h \in Gateways : m \in DOMAIN co[h]}}
        \cup {c.token : c \in {d \in late : d.message = m}}

TokensLeft(S) == \A m \in S : \E t \in Tokens : t \notin TokensInUse(m)

NewToken(m) == CHOOSE t \in Tokens : t \notin TokensInUse(m)

\* ClaimGroupMessageDeliveries and ClaimGroupMessageDeliveriesForRecipient.
Claimed(S) ==
    [m \in Messages |->
        IF m \in S THEN [row[m] EXCEPT !.token = NewToken(m), !.lease = "live"]
        ELSE row[m]]

\* Mutant of Completed: what was sent counts as delivered.
CompletedAsDelivered(r, c) ==
    IF r.status = "pending" /\ r.token = c.token
    THEN [status |-> IF c.result = "submitted" THEN "delivered" ELSE "pending",
          token |-> NoToken, lease |-> "none", due |-> FALSE]
    ELSE r

\* Mutant of Completed: the token is not compared.
CompletedUnfenced(r, c) ==
    IF r.status = "pending"
    THEN [status |-> IF c.result = "offline" THEN "deferred" ELSE "pending",
          token |-> NoToken, lease |-> "none", due |-> c.result = "offline"]
    ELSE r

\* CompleteGroupMessageDeliveryAttempt: a fence on the token and the status.
Completed(r, c) ==
    IF r.status = "pending" /\ r.token = c.token
    THEN [status |-> IF c.result = "offline" THEN "deferred" ELSE "pending",
          token |-> NoToken, lease |-> "none", due |-> c.result = "offline"]
    ELSE r

\* One call or CompleteGroupMessageDeliveryAttempts for the messages of S,
\* which items is about.
CompletedAll(items, S) ==
    [m \in Messages |-> IF m \in S THEN Completed(row[m], items[m]) ELSE row[m]]

\* ConfirmGroupMessageDelivery, alone or in a batch.
Confirmed(r) == [r EXCEPT !.status = "delivered", !.token = NoToken, !.lease = "none"]

\* A probe no longer waits for a lease that has ended.
LeasesEnded(rows) ==
    [g \in Gateways |->
        {{m \in waits : rows[m].lease = "live" /\ rows[m].token = row[m].token} :
            waits \in probes[g]}]

\* A scene allows so many failing or lost calls, crashes and logins.
SpendAll(kinds) ==
    /\ \A kind \in kinds : spent[kind] < scene[kind]
    /\ spent' = [kind \in DOMAIN spent |->
                    IF kind \in kinds THEN spent[kind] + 1 ELSE spent[kind]]

Spend(kind) == SpendAll({kind})

-----------------------------------------------------------------------------
(* GatewayServer: sending, acknowledging, replaying.                       *)

\* SubmitGroupMessageDelivery of g to the recipient's session, and `timed`:
\* ScheduleGroupMessageDeliveryAckTimeout after it.  A new attempt makes the
\* timer of the one before stale.
Submitted(g, m, timed) ==
    /\ tracker' = [tracker EXCEPT ![g][m] = IF @ = "confirmed" THEN @ ELSE "waiting"]
    /\ timer' = [timer EXCEPT ![g] = IF tracker[g][m] = "confirmed" THEN @
                                     ELSE IF timed THEN @ \cup {m} ELSE @ \ {m}]
    /\ wire' = IF tracker[g][m] = "confirmed" \/ client # g THEN wire
               ELSE wire \cup {<<g, m>>}

\* ScheduleGroupOfflineReplayProbe: it outlasts the leases that are live now
\* (kGroupOfflineReplayProbeDelay).
Probe == {{m \in Messages : row[m].lease = "live"}}

\* Mutant of LoginProbe: there is none.
NoLoginProbe == {}

\* What HandleLoginRequest schedules, in place of the last session's probes.
LoginProbe == Probe

\* `prompt`: the next task, or the one that runs, is the login's.  `missed`: what
\* a replay of the session failed to send, until another one claims it.
NoReplay == [queued |-> 0, pc |-> "idle", current |-> FALSE, items |-> {},
             prompt |-> FALSE, missed |-> {}]

\* PushGroupOfflineMessages; two waiting tasks do what three do.
Queue(r) == [r EXCEPT !.queued = IF @ < 2 THEN @ + 1 ELSE @]

\* The executor refuses the task; there is a log line and no other attempt.
Refused(r) == [r EXCEPT !.missed = Messages]

\* A replay returns early, with what it has claimed still leased.
CutShort(r) ==
    [r EXCEPT !.pc = "idle", !.items = {}, !.missed = IF r.current THEN Messages ELSE @]

\* What is left of the tasks of a session that ends: the one that runs stops
\* at its next look at the session.
SessionEnded(r) == [r EXCEPT !.queued = 0, !.current = FALSE, !.missed = {}]

-----------------------------------------------------------------------------
(* GroupFanoutCoordinator: an iteration claims, then dispatches and        *)
(* completes the rows one by one, or dispatches all before it completes    *)
(* any (`defer`), with the routes read at once (`route_batch`) and the     *)
(* completions in one call (`completion_batch`).                           *)

Work(S) ==
    [m \in S |-> [message |-> m, token |-> NewToken(m), route |-> "none", result |-> "none"]]

\* The claim; a failed call may have been committed.
ClaimPending(g) ==
    /\ g \in scene.coordinators /\ DOMAIN co[g] = {}
    /\ LET S == FirstOf({m \in Messages : Claimable(m, "pending")}, BatchSize) IN
       /\ S # {} /\ TokensLeft(S)
       /\ \/ /\ row' = Claimed(S)
             /\ co' = [co EXCEPT ![g] = Work(S)]
             /\ UNCHANGED spent
          \/ /\ Spend("faults")
             /\ row' = Claimed(S)
             /\ UNCHANGED co
    /\ UNCHANGED <<scene, late, forwards, sessionVars, wire, acks, received, gatewayVars>>

\* The row that is dispatched next; none while a completion comes first.
Undispatched(g) == {m \in DOMAIN co[g] : co[g][m].result = "none"}
Turn(g) ==
    IF scene.defer THEN Undispatched(g) # {}
    ELSE FirstOf(DOMAIN co[g], 1) \cap Undispatched(g) # {}
Current(g) == CHOOSE m \in Undispatched(g) : \A k \in Undispatched(g) : m <= k

\* GatewayRouteResolver::Resolve and ResolveBatch.
Route(g) == IF online = Nowhere THEN "offline" ELSE IF online = g THEN "local" ELSE online

ResolveRoute(g) ==
    /\ Turn(g) /\ co[g][Current(g)].route = "none"
    /\ co' = [co EXCEPT ![g] =
                 [m \in DOMAIN co[g] |->
                     IF m = Current(g) \/ scene.route_batch
                     THEN [co[g][m] EXCEPT !.route = Route(g)] ELSE co[g][m]]]
    /\ UNCHANGED <<scene, row, late, forwards, sessionVars, wire, acks, received,
                   gatewayVars, spent>>

Dispatched(g, result) == co' = [co EXCEPT ![g][Current(g)].result = result]

\* DispatchGroupFanoutDeliveryUsingRoute; it fails also where the route could
\* not be resolved, the peer transport refuses or the identity is busy.
Dispatch(g) ==
    /\ Turn(g)
    /\ LET item == co[g][Current(g)] IN
       /\ item.route # "none"
       /\ \/ /\ item.route = "offline"
             /\ Dispatched(g, "offline")
             /\ UNCHANGED <<tracker, timer, wire, forwards, spent>>
          \/ /\ item.route = "local" /\ ~conn[g]
             /\ Dispatched(g, "failed")
             /\ UNCHANGED <<tracker, timer, wire, forwards, spent>>
          \/ /\ item.route = "local" /\ conn[g]
             /\ Dispatched(g, "submitted")
             /\ Submitted(g, item.message, FALSE)
             /\ UNCHANGED <<forwards, spent>>
          \/ /\ item.route \in Gateways
             /\ Dispatched(g, "submitted")
             /\ forwards' = forwards \cup {<<item.route, item.message>>}
             /\ UNCHANGED <<tracker, timer, wire, spent>>
          \/ /\ Spend("faults")
             /\ Dispatched(g, "failed")
             /\ UNCHANGED <<tracker, timer, wire, forwards>>
    /\ UNCHANGED <<scene, row, late, sessionVars, acks, received, replay, probes>>

\* The completions of the iteration; a failed call may be applied later.
Complete(g) ==
    /\ DOMAIN co[g] # {} /\ ~Turn(g)
    /\ LET S == IF scene.completion_batch THEN DOMAIN co[g] ELSE FirstOf(DOMAIN co[g], 1)
       IN  /\ co' = [co EXCEPT ![g] = [m \in DOMAIN co[g] \ S |-> co[g][m]]]
           /\ \/ row' = CompletedAll(co[g], S) /\ UNCHANGED <<late, spent>>
              \/ Spend("faults") /\ UNCHANGED rowVars
              \/ Spend("faults") /\ late' = late \cup {co[g][m] : m \in S} /\ UNCHANGED row
    /\ probes' = LeasesEnded(row')
    /\ UNCHANGED <<scene, forwards, sessionVars, wire, acks, received, tracker, timer, replay>>

LateCompletion(c) ==
    /\ c \in late
    /\ late' = late \ {c}
    /\ row' = CompletedAll([m \in {c.message} |-> c], {c.message})
    /\ probes' = LeasesEnded(row')
    /\ UNCHANGED <<scene, co, forwards, sessionVars, wire, acks, received, tracker,
                   timer, replay, spent>>

\* ExecuteGatewayForwardGroupMessageRequest on the target Gateway.
HandleForward(g, m) ==
    /\ <<g, m>> \in forwards
    /\ forwards' = forwards \ {<<g, m>>}
    /\ IF row[m].status = "delivered" \/ ~conn[g]
       THEN UNCHANGED <<tracker, timer, wire>>
       ELSE Submitted(g, m, FALSE)
    /\ UNCHANGED <<scene, row, co, late, sessionVars, acks, received, replay, probes, spent>>

ForwardLost(g, m) ==
    /\ <<g, m>> \in forwards /\ Spend("faults")
    /\ forwards' = forwards \ {<<g, m>>}
    /\ UNCHANGED <<scene, row, co, late, sessionVars, wire, acks, received, gatewayVars>>

-----------------------------------------------------------------------------
(* The recipient and its ACKs.                                             *)

ClientReceives(g, m) ==
    /\ <<g, m>> \in wire
    /\ wire' = wire \ {<<g, m>>}
    /\ received' = received \cup {m}
    /\ acks' = acks \cup {<<g, m, "check">>}
    /\ UNCHANGED <<scene, row, co, late, forwards, sessionVars, gatewayVars, spent>>

\* ExecuteGroupMessageDeliveryAck: the row is read and the tracker asked, ...
CheckAck(g, m) ==
    /\ <<g, m, "check">> \in acks
    /\ \/ /\ tracker[g][m] # "none"
          /\ acks' = (acks \ {<<g, m, "check">>}) \cup {<<g, m, "confirm">>}
          /\ tracker' = [tracker EXCEPT ![g][m] = "confirmed"]
          /\ UNCHANGED spent
       \/ /\ Spend("faults")
          /\ acks' = acks \ {<<g, m, "check">>}
          /\ UNCHANGED tracker
    /\ UNCHANGED <<scene, row, co, late, forwards, sessionVars, wire, received, timer,
                   replay, probes>>

\* ... then the row is confirmed.
ConfirmAck(g, m) ==
    /\ <<g, m, "confirm">> \in acks
    /\ acks' = acks \ {<<g, m, "confirm">>}
    /\ \/ row' = [row EXCEPT ![m] = Confirmed(@)] /\ UNCHANGED spent
       \/ Spend("faults") /\ UNCHANGED row
    /\ probes' = LeasesEnded(row')
    /\ UNCHANGED <<scene, co, late, forwards, sessionVars, wire, received, tracker,
                   timer, replay>>

\* HandleGroupMessageDeliveryAckTimeout, with one attempt more or, at the
\* limit of attempts, a probe.
AckTimeout(g, m) ==
    /\ m \in timer[g]
    /\ IF tracker[g][m] # "waiting" \/ ~conn[g]
       THEN /\ timer' = [timer EXCEPT ![g] = @ \ {m}]
            /\ UNCHANGED <<tracker, wire, probes>>
       ELSE \/ Submitted(g, m, TRUE) /\ UNCHANGED probes
            \/ /\ timer' = [timer EXCEPT ![g] = @ \ {m}]
               /\ probes' = [probes EXCEPT ![g] = @ \cup Probe]
               /\ UNCHANGED <<tracker, wire>>
    /\ UNCHANGED <<scene, row, co, late, forwards, sessionVars, acks, received, replay, spent>>

-----------------------------------------------------------------------------
(* ExecuteGroupOfflineReplay: claim, send, and again until nothing is left.*)

\* The executor starts the next task of the recipient, or the loop looks
\* whether its session is still the current one and its deadline ahead.
ReplayLook(g) ==
    LET r == replay[g] IN
    /\ \/ /\ r.pc = "idle" /\ r.queued > 0
          /\ replay' = [replay EXCEPT ![g].queued = @ - 1, ![g].current = TRUE,
                                      ![g].pc = "claim"]
          /\ UNCHANGED spent
       \/ /\ r.pc = "look"
          /\ replay' = [replay EXCEPT ![g].pc = IF r.current THEN "claim" ELSE "idle"]
          /\ UNCHANGED spent
       \/ /\ r.pc \in {"look", "send"} /\ Spend("faults")
          /\ replay' = [replay EXCEPT ![g] = CutShort(@)]
    /\ UNCHANGED <<scene, row, co, late, forwards, sessionVars, wire, acks, received,
                   tracker, timer, probes>>

\* Where calls are timely the replay of a login claims within the 250 ms by
\* which a probe outlasts a lease that begins with it.
Outlasted(g, S) ==
    IF scene.timely /\ replay[g].prompt
    THEN [probes EXCEPT ![g] = {waits \cup S : waits \in @}] ELSE probes

\* A failed call may have been committed; the replay is not repeated.
ReplayClaim(g) ==
    /\ replay[g].pc = "claim"
    /\ LET S == {m \in Messages : Claimable(m, "deferred")} IN
       /\ TokensLeft(S)
       /\ \/ /\ row' = Claimed(S)
             /\ replay' = [replay EXCEPT ![g].pc = IF S = {} THEN "idle" ELSE "send",
                                         ![g].items = S, ![g].missed = @ \ S]
             /\ probes' = Outlasted(g, S)
             /\ UNCHANGED spent
          \/ /\ Spend("faults")
             /\ \/ UNCHANGED <<row, probes>>
                \/ row' = Claimed(S) /\ probes' = Outlasted(g, S)
             /\ replay' = [replay EXCEPT ![g] = CutShort(@)]
    /\ UNCHANGED <<scene, co, late, forwards, sessionVars, wire, acks, received,
                   tracker, timer>>

\* One of the claimed messages.  Where the tracker has a confirmation that the
\* row has not, the row is repaired.  A submission that is refused (a full
\* window, an attempt in its cooldown, a packet that cannot be built) leaves the
\* row leased, without a timer.
Sent(r, rest, refused) ==
    [r EXCEPT !.items = rest, !.pc = IF rest = {} THEN "look" ELSE "send",
              !.missed = @ \cup refused]

ReplaySend(g) ==
    /\ replay[g].pc = "send"
    /\ \E m \in FirstOf(replay[g].items, 1) :
          LET rest == replay[g].items \ {m} IN
          IF ~replay[g].current
          THEN /\ replay' = [replay EXCEPT ![g].pc = "idle", ![g].items = {}]
               /\ UNCHANGED <<row, probes, tracker, timer, wire, spent>>
          ELSE /\ \/ /\ Submitted(g, m, TRUE)
                     /\ row' = IF tracker[g][m] = "confirmed"
                               THEN [row EXCEPT ![m] = Confirmed(@)] ELSE row
                     /\ replay' = [replay EXCEPT ![g] = Sent(@, rest, {})]
                     /\ UNCHANGED spent
                  \/ /\ Spend("faults")
                     /\ replay' = [replay EXCEPT ![g] = Sent(@, rest, {m})]
                     /\ UNCHANGED <<row, tracker, timer, wire>>
               /\ probes' = LeasesEnded(row')
    /\ UNCHANGED <<scene, co, late, forwards, sessionVars, acks, received>>

\* Where calls are timely a replay takes less than a probe's delay, and less
\* than the recipient takes for another login.
Timely == scene.timely => \A g \in Gateways : replay[g].pc = "idle" /\ replay[g].queued = 0

ProbeFires(g) ==
    /\ {} \in probes[g] /\ Timely
    /\ probes' = [probes EXCEPT ![g] = @ \ {{}}]
    /\ \/ /\ replay' = [replay EXCEPT ![g] = [Queue(@) EXCEPT !.prompt = FALSE]]
          /\ UNCHANGED spent
       \/ /\ Spend("faults")
          /\ replay' = [replay EXCEPT ![g] = Refused(@)]
    /\ UNCHANGED <<scene, row, co, late, forwards, sessionVars, wire, acks, received,
                   tracker, timer>>

-----------------------------------------------------------------------------
(* Sessions, crashes and time.                                             *)

\* A login binds the session, publishes the record, submits a replay, which
\* may be refused, and schedules one probe.
Login(g) ==
    /\ client = Nowhere /\ Timely
    /\ client' = g
    /\ conn' = [conn EXCEPT ![g] = TRUE]
    /\ online' = g
    /\ \/ /\ Spend("logins")
          /\ replay' = [replay EXCEPT ![g] = [Queue(SessionEnded(@)) EXCEPT !.prompt = TRUE]]
       \/ /\ SpendAll({"logins", "faults"})
          /\ replay' = [replay EXCEPT ![g] = Refused(SessionEnded(@))]
    /\ probes' = [probes EXCEPT ![g] = LoginProbe]
    /\ UNCHANGED <<scene, row, co, late, forwards, wire, acks, received, tracker, timer>>

\* HandleDisconnect of the recipient's session.
SessionGone(g) ==
    /\ conn' = [conn EXCEPT ![g] = FALSE]
    /\ online' = IF online = g THEN Nowhere ELSE online
    /\ replay' = [replay EXCEPT ![g] = SessionEnded(@)]
    /\ probes' = [probes EXCEPT ![g] = {}]

\* The client goes; without a word where the scene has it.
Leave ==
    /\ client # Nowhere
    /\ client' = Nowhere
    /\ wire' = {}
    /\ acks' = {a \in acks : a[3] # "check"}
    /\ \/ SessionGone(client)
       \/ scene.silent /\ UNCHANGED <<conn, online, replay, probes>>
    /\ UNCHANGED <<scene, row, co, late, forwards, received, tracker, timer, spent>>

NoticeGone(g) ==
    /\ conn[g] /\ client # g
    /\ SessionGone(g)
    /\ UNCHANGED <<scene, row, co, late, forwards, client, wire, acks, received,
                   tracker, timer, spent>>

\* The process dies and is started again.
GatewayCrash(g) ==
    /\ Spend("crashes")
    /\ co' = [co EXCEPT ![g] = [m \in {} |-> 0]]
    /\ forwards' = {f \in forwards : f[1] # g}
    /\ conn' = [conn EXCEPT ![g] = FALSE]
    /\ client' = IF client = g THEN Nowhere ELSE client
    /\ wire' = {p \in wire : p[1] # g}
    /\ acks' = {a \in acks : a[1] # g}
    /\ tracker' = [tracker EXCEPT ![g] = [m \in Messages |-> "none"]]
    /\ timer' = [timer EXCEPT ![g] = {}]
    /\ replay' = [replay EXCEPT ![g] = NoReplay]
    /\ probes' = [probes EXCEPT ![g] = {}]
    /\ UNCHANGED <<scene, row, late, online, received>>

\* The record's time to live passes; a session renews it.
RecordExpires ==
    /\ online # Nowhere /\ ~conn[online]
    /\ online' = Nowhere
    /\ UNCHANGED <<scene, row, co, late, forwards, conn, client, wire, acks, received,
                   gatewayVars, spent>>

\* next_retry_at passes.
BecomesDue(m) ==
    /\ ~row[m].due /\ row[m].status = "pending"
    /\ row' = [row EXCEPT ![m].due = TRUE]
    /\ UNCHANGED <<scene, co, late, forwards, sessionVars, wire, acks, received,
                   gatewayVars, spent>>

\* Where calls are timely a lease outlasts what is done under it: 5 s and
\* 10 s, for calls that take milliseconds.
LeaseOver(m) ==
    scene.timely =>
        /\ \A g \in Gateways :
              /\ m \notin DOMAIN co[g]
              /\ m \notin replay[g].items
        /\ \A c \in late : c.message # m

\* lease_until passes.
RowLeaseExpires(m) ==
    /\ row[m].lease = "live" /\ LeaseOver(m)
    /\ row' = [row EXCEPT ![m].lease = "expired"]
    /\ probes' = LeasesEnded(row')
    /\ UNCHANGED <<scene, co, late, forwards, sessionVars, wire, acks, received,
                   tracker, timer, replay, spent>>

-----------------------------------------------------------------------------
FanoutInit ==
    /\ scene \in Scenes
    /\ row = [m \in Messages |-> NewRow(scene.start[m])]
    /\ co = [g \in Gateways |-> [m \in {} |-> 0]]
    /\ late = {} /\ forwards = {} /\ wire = {} /\ acks = {} /\ received = {}
    /\ online = Nowhere /\ client = Nowhere
    /\ conn = [g \in Gateways |-> FALSE]
    /\ tracker = [g \in Gateways |-> [m \in Messages |-> "none"]]
    /\ timer = [g \in Gateways |-> {}]
    /\ replay = [g \in Gateways |-> NoReplay]
    /\ probes = [g \in Gateways |-> {}]
    /\ spent = [faults |-> 0, crashes |-> 0, logins |-> 0]

Coordinate(g) == ClaimPending(g) \/ ResolveRoute(g) \/ Dispatch(g) \/ Complete(g)
ReplayTask(g) == ReplayLook(g) \/ ReplayClaim(g) \/ ReplaySend(g)

FanoutNext ==
    \/ \E g \in Gateways :
          \/ Coordinate(g) \/ ReplayTask(g) \/ ProbeFires(g)
          \/ Login(g) \/ NoticeGone(g) \/ GatewayCrash(g)
          \/ \E m \in Messages :
                \/ HandleForward(g, m) \/ ForwardLost(g, m)
                \/ ClientReceives(g, m) \/ CheckAck(g, m) \/ ConfirmAck(g, m) \/ AckTimeout(g, m)
    \/ \E c \in late : LateCompletion(c)
    \/ Leave \/ RecordExpires
    \/ \E m \in Messages : BecomesDue(m) \/ RowLeaseExpires(m)

FanoutSafety == FanoutInit /\ [][FanoutNext]_fanoutVars

\* Threads, timers and connections go on: coordinators poll, queued tasks run,
\* a completion under way arrives, a client reads and answers, and a closed
\* connection is noticed in the end.  No fault, crash, login or farewell is
\* assumed.
FanoutFair ==
    /\ \A g \in Gateways :
          /\ \/ []<>(DOMAIN co[g] = {} /\ \A m \in Messages : ~Claimable(m, "pending"))
             \/ []<><<Coordinate(g)>>_fanoutVars
          /\ []<>(replay[g].pc = "idle" /\ replay[g].queued = 0)
                \/ []<><<ReplayTask(g)>>_fanoutVars
          /\ []<>({} \notin probes[g] \/ ~Timely) \/ []<><<ProbeFires(g)>>_fanoutVars
          /\ []<>(conn[g] => client = g) \/ []<><<NoticeGone(g)>>_fanoutVars
    /\ WF_fanoutVars(RecordExpires)
    /\ \A m \in Messages :
          /\ []<>(\A c \in late : c.message # m)
                \/ []<><<\E c \in late : c.message = m /\ LateCompletion(c)>>_fanoutVars
          /\ []<>(\A g \in Gateways : <<g, m>> \notin forwards)
                \/ []<><<\E g \in Gateways : HandleForward(g, m)>>_fanoutVars
          /\ []<>(\A g \in Gateways : <<g, m>> \notin wire)
                \/ []<><<\E g \in Gateways : ClientReceives(g, m)>>_fanoutVars
          /\ []<>(\A a \in acks : a[2] # m)
                \/ []<><<\E g \in Gateways : CheckAck(g, m) \/ ConfirmAck(g, m)>>_fanoutVars
          /\ []<>(\A g \in Gateways : m \notin timer[g])
                \/ []<><<\E g \in Gateways : AckTimeout(g, m)>>_fanoutVars
          /\ []<>(row[m].due \/ row[m].status # "pending") \/ []<><<BecomesDue(m)>>_fanoutVars
          /\ []<>(row[m].lease # "live" \/ ~LeaseOver(m)) \/ []<><<RowLeaseExpires(m)>>_fanoutVars

-----------------------------------------------------------------------------
(* Properties.                                                             *)

\* Sending is not delivering: a row says DELIVERED, and a tracker confirmed,
\* only for a message that the recipient has, whichever of the coordinators,
\* forwards, replays and repairs touched it.
GroupDeliveredTrue ==
    \A m \in Messages :
        row[m].status = "delivered" \/ (\E g \in Gateways : tracker[g][m] = "confirmed")
            => m \in received

\* Somebody has yet to complete the claim t of m.
Holding(m, t) ==
    \/ \E g \in Gateways : m \in DOMAIN co[g] /\ co[g][m].token = t
    \/ \E c \in late : c.message = m /\ c.token = t

\* A live lease is taken from its holder by nobody: only the completion of the
\* claim that took it, now or late, or the recipient's confirmation ends it
\* early, and what is delivered stays delivered, whatever an older claim's
\* completion says.
LeaseHeld ==
    [][\A m \in Messages :
          /\ row[m].status = "delivered" => row'[m] = row[m]
          /\ row[m].lease = "live" /\ row'[m].token # row[m].token =>
                 \/ row'[m].status = "delivered"
                 \/ \E t \in {row[m].token} : Holding(m, t) /\ ~Holding(m, t)'
      ]_row

\* A recipient who stays logged in has every message of the group in the end,
\* sent while pending or replayed after the deferral, through crashes, failed
\* calls and moves between Gateways.  A replay that fails (a refused task, a
\* failed claim, a passed deadline, a refused submission) is not repeated by
\* itself: the probe of the login makes up for it, and a message is excepted
\* only while no replay of the session has claimed it after one that failed.
GroupReceived ==
    <>[](scene.timely /\ client # Nowhere =>
            \A m \in Messages : scene.start[m] # "absent" =>
                m \in received \cup replay[client].missed)
=============================================================================
