---------------------------- MODULE OfflineReplay ----------------------------
(***************************************************************************)
(* What a Gateway owes a user who comes online: the private messages that  *)
(* are still pending in SQL.  PrivateReplayAdmission remembers the debt    *)
(* until a replay task has started; DurablePrivateRecovery, when enabled,  *)
(* limits replays, pages through the messages of one user and looks for    *)
(* users with pending messages from time to time.                          *)
(*                                                                         *)
(* Generations and attempt numbers are only compared for equality with     *)
(* those that leases in flight carry: a number no lease in flight carries  *)
(* stands for the next one.  Delays are left out: an entry that is armed   *)
(* again may be due at once.  A page holds one message, or one user.  One  *)
(* Gateway of the deployment replays.                                      *)
(***************************************************************************)
EXTENDS GatewayPresence, FiniteSetsExt, SequencesExt

CONSTANTS MaxLeases,          \* bound on the leases in flight at once
          MaxActiveReplays    \* DurablePrivateRecovery::Options

VARIABLES phase,        \* "running", "stopped" or "resumed"
          entries,      \* PrivateReplayAdmission::entries_
          started,      \* epoch of the last replay that started, a history
          tasks,        \* replay tasks, per user
          replays,      \* DurablePrivateRecovery: sessions
          active_replays,
          recipients, query, cursor,
          discovery,    \* discovery tasks
          pending,      \* SQL: the messages of a user that are pending
          arriving,     \* messages still to be stored, <<user, message>>
          flight,       \* tracker: <<message, connection>> waiting for an ACK
          confirmed     \* tracker: messages that were acknowledged
admissionVars == <<entries, started>>
recoveryVars == <<replays, active_replays>>
discoveryVars == <<recipients, query, cursor, discovery>>
messageVars == <<pending, arriving, flight, confirmed>>
replayVars == <<phase, admissionVars, tasks, recoveryVars, discoveryVars, messageVars>>
vars == <<sessionVars, presenceVars, replayVars>>

Init ==
    /\ PresenceInit
    /\ phase = "running"
    /\ entries = [u \in Users |-> None] /\ started = [u \in Users |-> 0]
    /\ tasks = [u \in Users |-> <<>>]
    /\ replays = [u \in Users |-> None] /\ active_replays = 0
    /\ recipients = <<>> /\ query = None /\ cursor = 0 /\ discovery = <<>>
    /\ pending = deploy.pending /\ arriving = deploy.arriving
    /\ flight = {} /\ confirmed = {}

Running == phase # "stopped"
G == deploy.replay
Leases == 1..MaxLeases

\* The leases that somebody may still present.
LeasesHeld ==
    {entries[u].lease : u \in {v \in Users : entries[v] # None}}
    \cup {replays[u].slot : u \in {v \in Users : replays[v] # None}}
    \cup UNION {{tasks[u][i].lease : i \in DOMAIN tasks[u]} : u \in Users}
FreshLease == Min(Leases \ LeasesHeld)

-----------------------------------------------------------------------------
\* PrivateReplayAdmission, as functions of its entries.
EnsureIn(es, u, e) ==
    IF ~Running \/ (es[u] # None /\ es[u].epoch >= e) THEN es
    ELSE [es EXCEPT ![u] = [epoch |-> e, lease |-> None]]
RetireIn(es, u, e) ==
    IF es[u] # None /\ es[u].epoch = e THEN [es EXCEPT ![u] = None] ELSE es
MatchesIn(es, u, t) == es[u] # None /\ es[u].epoch = t.epoch /\ es[u].lease = t.lease
\* A bug: a lease that ends unstarted takes its entry with it.
AbandonedDropsIn(es, u, t) == IF MatchesIn(es, u, t) THEN [es EXCEPT ![u] = None] ELSE es
AbandonedIn(es, u, t) == IF MatchesIn(es, u, t) THEN [es EXCEPT ![u].lease = None] ELSE es

ReplayTask(e, c, lease) ==
    [epoch |-> e, conn |-> c, lease |-> lease, at |-> "queued", cursor |-> 0,
     message |-> 0, more |-> FALSE]

\* SubmitPrivateReplayAdmissionAttempt for a claim on u's entry in es: the
\* session must be current and connected, and the executor may refuse, which
\* ends the lease and arms the entry again.
SubmitAttempt(es, u) ==
    LET s == user_sessions[G][u]
    IN  IF s # None /\ s.epoch = es[u].epoch /\ IsConnected(s.conn)
        THEN \/ /\ entries' = [es EXCEPT ![u].lease = FreshLease]
                /\ tasks' = [tasks EXCEPT ![u] = Append(@, ReplayTask(s.epoch, s.conn, FreshLease))]
                /\ NoFault
             \/ entries' = es /\ UNCHANGED tasks /\ Fault
        ELSE entries' = RetireIn(es, u, es[u].epoch) /\ UNCHANGED tasks /\ NoFault

\* The debt is recorded before anything that can fail.
PushPersistentOfflineMessages(u, c) ==
    LET own == FindSessionByConnection(c)
        es == EnsureIn(entries, u, own.epoch)
    IN  IF ~IsConnected(c) \/ own = None \/ own.user # u
        THEN UNCHANGED <<entries, tasks, faults>>
        ELSE IF Running /\ es[u].epoch = own.epoch /\ es[u].lease = None
             THEN SubmitAttempt(es, u)
             ELSE entries' = es /\ UNCHANGED <<tasks, faults>>

\* The last step of a login.
LoginPush(g, u) ==
    /\ login[g][u] # None /\ login[g][u].at = "push"
    /\ login' = [login EXCEPT ![g][u] = None]
    /\ IF deploy.message /\ g = G THEN PushPersistentOfflineMessages(u, login[g][u].conn)
       ELSE UNCHANGED <<entries, tasks, faults>>
    /\ UNCHANGED <<deploy, requests, conn, ended, online, lane, jobs, fences, sessionVars>>
    /\ UNCHANGED <<phase, started, recoveryVars, discoveryVars, messageVars>>

\* DurablePrivateRecovery::Retire.
RetireReplay(u, e) ==
    IF replays[u] # None /\ replays[u].epoch = e
    THEN /\ replays' = [replays EXCEPT ![u] = None]
         /\ active_replays' = active_replays - (IF replays[u].slot # None THEN 1 ELSE 0)
    ELSE UNCHANGED recoveryVars

\* The rest of the connection callback: the session's debts are retired.
Disconnected(c) ==
    /\ SubmitOffline(c)
    /\ IF Home[c] = G
       THEN /\ entries' = RetireIn(entries, ended[c].user, ended[c].epoch)
            /\ RetireReplay(ended[c].user, ended[c].epoch)
       ELSE UNCHANGED <<entries, recoveryVars>>
    /\ UNCHANGED <<phase, started, tasks, discoveryVars, messageVars>>

\* The timer, first part: an entry without a lease is claimed and submitted.
PumpAdmission(u) ==
    /\ Running /\ entries[u] # None /\ entries[u].lease = None
    /\ SubmitAttempt(entries, u)
    /\ UNCHANGED <<deploy, requests, conn, ended, login, online, lane, jobs, fences, sessionVars>>
    /\ UNCHANGED <<phase, started, recoveryVars, discoveryVars, messageVars>>

-----------------------------------------------------------------------------
\* A replay task of u, at one of its steps.
At(u, step) == tasks[u] # <<>> /\ Head(tasks[u]).at = step
T(u) == Head(tasks[u])
Becomes(u, t) == tasks' = [tasks EXCEPT ![u] = <<t>> \o Tail(@)]
Ends(u) == tasks' = [tasks EXCEPT ![u] = Tail(@)]
Current(u) == IsCurrent(u, T(u).epoch, T(u).conn)

\* The slot of the task is the one that u's replay state counts as active.
HoldsSlot(u) ==
    Running /\ replays[u] # None /\ replays[u].epoch = T(u).epoch /\ replays[u].slot = T(u).lease
\* ReplayAttempt's destructor.
Release(u) ==
    IF HoldsSlot(u)
    THEN /\ replays' = [replays EXCEPT ![u].slot = None]
         /\ active_replays' = active_replays - 1
    ELSE UNCHANGED recoveryVars

\* The task of a session that ended is cancelled by the executor, which ends
\* its lease, or finds out itself and retires the entry.
ReplayCheck(u) ==
    /\ At(u, "queued")
    /\ IF Current(u)
       THEN /\ Becomes(u, [T(u) EXCEPT !.at = IF deploy.recovery THEN "begin" ELSE "mark"])
            /\ UNCHANGED entries
       ELSE /\ Ends(u)
            /\ \/ entries' = AbandonedIn(entries, u, T(u))
               \/ entries' = RetireIn(entries, u, T(u).epoch)
    /\ UNCHANGED <<started, recoveryVars, discoveryVars, messageVars, phase, faults>>

\* DurablePrivateRecovery::BeginReplay.  An older epoch is refused, a newer
\* one takes the state over; then the user and all users have their limits.
ReplayBegin(u) ==
    /\ At(u, "begin")
    /\ LET e == T(u).epoch
           old == replays[u]
           replaced == old # None /\ old.epoch < e
           r == IF old = None \/ replaced THEN [epoch |-> e, cursor |-> 0, slot |-> None] ELSE old
           active == active_replays - (IF replaced /\ old.slot # None THEN 1 ELSE 0)
       IN  IF Running /\ r.epoch = e /\ r.slot = None /\ active < MaxActiveReplays
           THEN /\ Becomes(u, [T(u) EXCEPT !.at = "mark", !.cursor = r.cursor])
                /\ replays' = [replays EXCEPT ![u] = [r EXCEPT !.slot = T(u).lease]]
                /\ active_replays' = active + 1
                /\ UNCHANGED entries
           ELSE /\ Ends(u)
                /\ entries' = AbandonedIn(entries, u, T(u))
                /\ replays' = IF Running /\ replaced THEN [replays EXCEPT ![u] = r] ELSE replays
                /\ active_replays' = IF Running THEN active ELSE active_replays
    /\ UNCHANGED <<started, discoveryVars, messageVars, phase, faults>>

\* MarkStarted settles the debt, unless the entry is no longer this lease's.
ReplayMark(u) ==
    /\ At(u, "mark")
    /\ IF Running /\ MatchesIn(entries, u, T(u))
       THEN /\ entries' = [entries EXCEPT ![u] = None]
            /\ started' = [started EXCEPT ![u] = T(u).epoch]
            /\ Becomes(u, [T(u) EXCEPT !.at = "list"])
            /\ UNCHANGED recoveryVars
       ELSE Ends(u) /\ Release(u) /\ UNCHANGED admissionVars
    /\ UNCHANGED <<discoveryVars, messageVars, phase, faults>>

Live(u) == IsConnected(T(u).conn) /\ Current(u)
After(u, k) == {m \in pending[u] : m > k}

\* ReplayAttempt::Complete, for a lease that is still current.
Complete(u, next) ==
    IF HoldsSlot(u)
    THEN /\ replays' = [replays EXCEPT ![u].slot = None, ![u].cursor = next]
         /\ active_replays' = active_replays - 1
    ELSE UNCHANGED recoveryVars

\* ListPendingAfter answers the next page, or fails, which ends the replay.
ReplayList(u) ==
    /\ At(u, "list")
    /\ LET ms == After(u, T(u).cursor)
       IN  \/ ~Live(u) /\ Ends(u) /\ Release(u) /\ NoFault
           \/ Live(u) /\ Ends(u) /\ Release(u) /\ Fault
           \/ Live(u) /\ ms = {} /\ Ends(u) /\ Complete(u, 0) /\ NoFault
           \/ /\ Live(u) /\ ms # {} /\ NoFault
              /\ Becomes(u, [T(u) EXCEPT !.at = "deliver", !.message = Min(ms),
                                         !.more = Cardinality(ms) > 1])
              /\ UNCHANGED recoveryVars
    /\ UNCHANGED <<admissionVars, discoveryVars, messageVars, phase>>

\* One message is given to the delivery tracker, which may be waiting for its
\* ACK, have no room, or have the ACK already; then SQL is repaired.  With
\* recovery the replay ends after one page.
ReplayDeliver(u) ==
    /\ At(u, "deliver")
    /\ IF ~Live(u) THEN Ends(u) /\ Release(u) /\ UNCHANGED <<messageVars, faults>>
       ELSE LET m == T(u).message
                c == T(u).conn
                room == Cardinality({x \in flight : x[2] = c}) < deploy.window
            IN  /\ \/ /\ m \in confirmed /\ NoFault
                      /\ pending' = [pending EXCEPT ![u] = @ \ {m}]
                      /\ UNCHANGED <<flight, confirmed>>
                   \/ m \in confirmed /\ Fault /\ UNCHANGED <<pending, confirmed, flight>>
                   \/ /\ m \notin confirmed /\ NoFault
                      /\ flight' = IF room THEN flight \cup {<<m, c>>} ELSE flight
                      /\ UNCHANGED <<pending, confirmed>>
                /\ IF deploy.recovery
                   THEN Ends(u) /\ Complete(u, IF T(u).more THEN m ELSE 0)
                   ELSE /\ IF T(u).more THEN Becomes(u, [T(u) EXCEPT !.at = "list", !.cursor = m])
                           ELSE Ends(u)
                        /\ UNCHANGED recoveryVars
                /\ UNCHANGED arriving
    /\ UNCHANGED <<admissionVars, discoveryVars, phase>>

\* A message is stored while the user may be online.
Arrive(u, m) ==
    /\ <<u, m>> \in arriving
    /\ arriving' = arriving \ {<<u, m>>}
    /\ pending' = [pending EXCEPT ![u] = @ \cup {m}]
    /\ UNCHANGED <<admissionVars, tasks, recoveryVars, discoveryVars, phase, flight, confirmed, faults>>

\* The client acknowledges; storing the confirmation may fail.
Acknowledge(m, c) ==
    /\ <<m, c>> \in flight /\ IsConnected(c)
    /\ flight' = flight \ {<<m, c>>}
    /\ confirmed' = confirmed \cup {m}
    /\ \/ pending' = [u \in Users |-> pending[u] \ {m}] /\ NoFault
       \/ UNCHANGED pending /\ Fault
    /\ UNCHANGED <<admissionVars, tasks, recoveryVars, discoveryVars, phase, arriving>>

-----------------------------------------------------------------------------
\* The timer, second part: what a discovery found is pushed, user by user.
PumpRecipients ==
    /\ deploy.recovery /\ Running /\ recipients # <<>>
    /\ LET u == Head(recipients)
           s == user_sessions[G][u]
       IN  IF s = None THEN UNCHANGED <<entries, tasks, faults>>
           ELSE PushPersistentOfflineMessages(u, s.conn)
    /\ recipients' = Tail(recipients)
    /\ UNCHANGED <<started, recoveryVars, query, cursor, discovery, messageVars, phase>>

\* The timer, third part: one discovery at a time, and only when the last one
\* is used up and somebody is online.
AcquireQuery ==
    /\ deploy.recovery /\ Running /\ query = None /\ recipients = <<>>
    /\ \E u \in Users : user_sessions[G][u] # None
    /\ LET lease == Min(Leases \ {discovery[i].lease : i \in DOMAIN discovery})
       IN  /\ query' = lease
           /\ discovery' = Append(discovery, [lease |-> lease, cursor |-> cursor,
                                              answered |-> FALSE, users |-> <<>>, more |-> FALSE])
    /\ UNCHANGED <<admissionVars, tasks, recoveryVars, recipients, cursor, messageVars, phase, faults>>

D == Head(discovery)
QueryCurrent == Running /\ query = D.lease

\* The executor drops the task of a stopped Gateway; a failed query only ends
\* its lease.
DiscoveryQuery ==
    /\ discovery # <<>> /\ ~D.answered
    /\ LET us == {u \in Users : u > D.cursor /\ pending[u] # {}}
       IN  \/ /\ Running /\ NoFault
              /\ discovery' = <<[D EXCEPT !.answered = TRUE,
                                          !.users = IF us = {} THEN <<>> ELSE <<Min(us)>>,
                                          !.more = Cardinality(us) > 1]>> \o Tail(discovery)
              /\ UNCHANGED query
           \/ /\ IF Running THEN Fault ELSE NoFault
              /\ discovery' = Tail(discovery)
              /\ query' = IF QueryCurrent THEN None ELSE query
    /\ UNCHANGED <<admissionVars, tasks, recoveryVars, recipients, cursor, messageVars, phase>>

\* A bug: the scan goes on from the last user although there are no more.
CompleteNeverWraps ==
    /\ discovery # <<>> /\ D.answered
    /\ discovery' = Tail(discovery)
    /\ IF QueryCurrent
       THEN /\ recipients' = D.users
            /\ cursor' = IF D.users # <<>> THEN Head(D.users) ELSE cursor
            /\ query' = None
       ELSE UNCHANGED <<recipients, cursor, query>>
    /\ UNCHANGED <<admissionVars, tasks, recoveryVars, messageVars, phase, faults>>

\* QueryAttempt::Complete: the scan starts over after the last page.
DiscoveryComplete ==
    /\ discovery # <<>> /\ D.answered
    /\ discovery' = Tail(discovery)
    /\ IF QueryCurrent
       THEN /\ recipients' = D.users
            /\ cursor' = IF D.more THEN Head(D.users) ELSE 0
            /\ query' = None
       ELSE UNCHANGED <<recipients, cursor, query>>
    /\ UNCHANGED <<admissionVars, tasks, recoveryVars, messageVars, phase, faults>>

-----------------------------------------------------------------------------
Forgotten ==
    /\ entries' = [u \in Users |-> None]
    /\ replays' = [u \in Users |-> None] /\ active_replays' = 0
    /\ recipients' = <<>> /\ query' = None
    /\ UNCHANGED <<started, tasks, discovery, messageVars>>
    /\ UNCHANGED <<deploy, requests, ended, login, online, lane, jobs, fences, faults, sessionVars>>

\* Stop closes every connection; tasks the executors hold go on.
Stop ==
    /\ deploy.restart /\ phase = "running"
    /\ phase' = "stopped"
    /\ conn' = [c \in Conns |-> IF Home[c] = G /\ c \notin deploy.late
                                   /\ conn[c] \in {"open", "shut", "closing"}
                                THEN "dead" ELSE conn[c]]
    /\ UNCHANGED cursor
    /\ Forgotten

Resume ==
    /\ phase = "stopped"
    /\ phase' = "resumed"
    /\ cursor' = 0
    /\ UNCHANGED conn
    /\ Forgotten

-----------------------------------------------------------------------------
ReplayStep(u) ==
    ReplayCheck(u) \/ ReplayBegin(u) \/ ReplayMark(u) \/ ReplayList(u) \/ ReplayDeliver(u)
Discovery == PumpRecipients \/ AcquireQuery \/ DiscoveryQuery \/ DiscoveryComplete
Others == <<deploy, requests, conn, ended, login, online, lane, jobs, fences, sessionVars>>

LoginStep(g, u) == LoginBind(g, u) \/ LoginCheck(g, u) \/ SetUserOnline(g, u)
LaneStep(g, u) ==
    \/ RefreshUserOnline(g, u) \/ FenceMismatch(g, u) \/ CheckMissing(g, u)
    \/ SetOnlineIfMissing(g, u) \/ SetUserOfflineIfMatch(g, u)

\* A late connection is made after the restart.
Connects(c) == c \in deploy.late => phase = "resumed"

PresenceNext ==
    \/ \E c \in Conns :
           \/ \E u \in Users : Connects(c) /\ Login(c, u)
           \/ ShutdownInLoop(c) \/ (Connects(c) /\ HandleClose(c)) \/ HandleConnection(c)
           \/ Heartbeat(c)
    \/ \E g \in Gateways, u \in Users : LoginStep(g, u) \/ LaneStep(g, u)
    \/ \E j \in jobs : RefreshJob(j) \/ FinishJob(j)
    \/ \E f \in fences : Fence(f)
    \/ \E u \in Users : Expire(u)

ReplayNext ==
    \/ \E u \in Users : ReplayStep(u)
    \/ Discovery
    \/ \E a \in arriving : Arrive(a[1], a[2])
    \/ \E f \in flight : Acknowledge(f[1], f[2])

Next ==
    \/ PresenceNext /\ UNCHANGED replayVars
    \/ ReplayNext /\ UNCHANGED Others
    \/ \E g \in Gateways, u \in Users : LoginPush(g, u)
    \/ \E c \in Conns : Disconnected(c)
    \/ \E u \in Users : PumpAdmission(u)
    \/ Stop \/ Resume

Spec == Init /\ [][Next]_vars

\* What ends by itself, on whatever thread: logins, closing connections,
\* acknowledgements, and records that nobody refreshes.
Progress ==
    \/ /\ \/ \E g \in Gateways, u \in Users : LoginStep(g, u)
          \/ \E c \in Conns : \/ ShutdownInLoop(c) \/ HandleConnection(c)
                              \/ conn[c] = "closing" /\ HandleClose(c)
          \/ \E u \in Users : Expire(u) /\ NoFault
       /\ UNCHANGED replayVars
    \/ \E f \in flight : Acknowledge(f[1], f[2]) /\ UNCHANGED Others
    \/ \E g \in Gateways, u \in Users : LoginPush(g, u)
    \/ \E c \in Conns : Disconnected(c)

\* One heartbeat of a connection and what its loop and the batches do for it.
Beat(c) ==
    \/ Heartbeat(c)
    \/ \E j \in jobs : j.conn = c /\ (RefreshJob(j) \/ FinishJob(j))
    \/ \E f \in fences : f.conn = c /\ Fence(f)

\* Threads, loops and timers go on, clients that are connected send their
\* heartbeats and acknowledge, a peer answers a half-close, and a record that
\* nobody refreshes expires.  Clients need not log in, connections need not
\* close by themselves, and a Gateway need not stop.  This is less than
\* fairness for every thread: Progress is one condition.
FairSpec ==
    /\ Spec
    /\ WF_vars(Progress)
    /\ \A g \in Gateways, u \in Users : WF_vars(LaneStep(g, u) /\ UNCHANGED replayVars)
    /\ \A c \in Conns : WF_vars(Beat(c) /\ UNCHANGED replayVars)
    /\ \A u \in Users : WF_vars((ReplayStep(u) /\ UNCHANGED Others) \/ PumpAdmission(u))
    /\ WF_vars(Discovery /\ UNCHANGED Others)

-----------------------------------------------------------------------------
\* BeginReplay, Complete, Release and Retire keep the number of active
\* replays equal to the replay states that are active, within the limit, and
\* every active one belongs to a task that runs.
ReplaySlotsExact ==
    LET active == {u \in Users : replays[u] # None /\ replays[u].slot # None}
    IN  /\ active_replays = Cardinality(active)
        /\ active_replays <= MaxActiveReplays
        /\ \A u \in active : \E i \in DOMAIN tasks[u] : tasks[u][i].lease = replays[u].slot

\* PrivateReplayAdmission's comment says that a live session must not lose
\* admission responsibility.  While a session is current and connected, and
\* its login is over, either its replay has started, or its entry is there
\* and somebody will act on it: no lease is out, or a task holds the lease.
\* And no replay slot is lost when a user comes back, a task ends late, or the
\* Gateway stops and resumes.
ReplayOwed ==
    /\ ReplaySlotsExact
    /\ deploy.message /\ Running =>
       \A u \in Users :
           LET s == user_sessions[G][u]
               l == login[G][u]
           IN  s # None /\ IsConnected(s.conn) /\ ~(l # None /\ l.epoch = s.epoch)
               => \/ started[u] = s.epoch
                  \/ /\ entries[u] # None /\ entries[u].epoch = s.epoch
                     /\ \/ entries[u].lease = None
                        \/ \E i \in DOMAIN tasks[u] : tasks[u][i].lease = entries[u].lease

\* Recovery repeats what a failed query, a full window, a refused task or a
\* failed confirmation left behind: a user who stays connected has no message
\* pending for ever.
PendingDelivered ==
    <>[](\A u \in Users :
             (\E c \in Conns : Home[c] = G /\ Serves(c, u)) => pending[u] = {})
=============================================================================
