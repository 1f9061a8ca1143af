-------------------------- MODULE GatewayPresence --------------------------
(***************************************************************************)
(* Logins, disconnects and heartbeats of several Gateways, and the record  *)
(* in Redis of where a user is online (gateway/GatewayServer.cpp,          *)
(* gateway/OnlineStatusMaintenance.h, services/cache/OnlineStatusCache).   *)
(* A login runs on an executor lane of its user name, presence tasks run   *)
(* on a lane of their user; a connection's own events run on its I/O loop. *)
(* A record holds a Gateway and a connection name, here a connection.      *)
(***************************************************************************)
EXTENDS SessionManager, Sequences, FiniteSets

CONSTANT Deployments

VARIABLES deploy,
          requests,   \* login requests not yet sent, <<connection, user>>
          conn,       \* "open", "shut", "closing", "dead", "unbound" or "gone"
          ended,      \* the session a connection lost when it closed
          login,      \* the login that runs, per Gateway and user
          online,     \* Redis: the connection that holds a user's record
          lane,       \* presence tasks, per Gateway and user
          jobs,       \* refreshes given to OnlineStatusMaintenance
          fences,     \* fences queued in the loop of a connection
          faults      \* failures still to come, a bound
presenceVars == <<deploy, requests, conn, ended, login, online, lane, jobs, fences, faults>>

PresenceInit ==
    /\ SessionInit
    /\ deploy \in Deployments
    /\ requests = deploy.logins
    /\ conn = [c \in Conns |-> IF \E r \in requests : r[1] = c THEN "open" ELSE "gone"]
    /\ ended = [c \in Conns |-> None]
    /\ login = [g \in Gateways |-> [u \in Users |-> None]]
    /\ online = [u \in Users |-> None]
    /\ lane = [g \in Gateways |-> [u \in Users |-> <<>>]]
    /\ jobs = {}
    /\ fences = {}
    /\ faults = deploy.faults

Fault == faults > 0 /\ faults' = faults - 1
NoFault == UNCHANGED faults

\* TcpConnection::IsConnected; a queued Shutdown has not run yet.
IsConnected(c) == conn[c] \in {"open", "shut"}
Shutdown(c) == IF conn[c] = "open" THEN [conn EXCEPT ![c] = "shut"] ELSE conn
NotifyLoginReplaced(c) == IF c = None THEN conn ELSE Shutdown(c)

-----------------------------------------------------------------------------
\* A login whose authentication has succeeded, on a live connection.
Login(c, u) ==
    /\ <<c, u>> \in requests
    /\ IsConnected(c)
    /\ login[Home[c]][u] = None
    /\ requests' = requests \ {<<c, u>>}
    /\ login' = [login EXCEPT ![Home[c]][u] = [conn |-> c, at |-> "bind", epoch |-> 0]]
    /\ UNCHANGED <<deploy, conn, ended, online, lane, jobs, fences, faults>>
    /\ UNCHANGED sessionVars

LoginBind(g, u) ==
    /\ login[g][u] # None /\ login[g][u].at = "bind"
    /\ LET c == login[g][u].conn
       IN  /\ BindOrReplace(u, c)
           /\ conn' = NotifyLoginReplaced(ReplacedBy(u, c))
           /\ login' = [login EXCEPT ![g][u].at = "check", ![g][u].epoch = next_epoch[g]]
    /\ UNCHANGED <<deploy, requests, ended, online, lane, jobs, fences, faults>>

LoginCheck(g, u) ==
    /\ login[g][u] # None /\ login[g][u].at = "check"
    /\ login' = IF IsCurrent(u, login[g][u].epoch, login[g][u].conn)
                THEN [login EXCEPT ![g][u].at = "online"]
                ELSE [login EXCEPT ![g][u] = None]
    /\ UNCHANGED <<deploy, requests, conn, ended, online, lane, jobs, fences, faults>>
    /\ UNCHANGED sessionVars

\* The record is written whatever it holds; a failure is only logged.
SetUserOnline(g, u) ==
    /\ login[g][u] # None /\ login[g][u].at = "online"
    /\ login' = [login EXCEPT ![g][u].at = "push"]
    /\ \/ deploy.cache /\ online' = [online EXCEPT ![u] = login[g][u].conn] /\ NoFault
       \/ ~deploy.cache /\ UNCHANGED online /\ NoFault
       \/ deploy.cache /\ UNCHANGED online /\ Fault
    /\ UNCHANGED <<deploy, requests, conn, ended, lane, jobs, fences>>
    /\ UNCHANGED sessionVars

-----------------------------------------------------------------------------
ShutdownInLoop(c) ==
    /\ conn[c] = "shut"
    /\ conn' = [conn EXCEPT ![c] = "closing"]
    /\ UNCHANGED <<deploy, requests, ended, login, online, lane, jobs, fences, faults>>
    /\ UNCHANGED sessionVars

\* The peer closes, in answer to the half-close or, unless it is one that
\* stays, at any time.
HandleClose(c) ==
    /\ conn[c] = "closing" \/ (conn[c] \in {"open", "shut"} /\ c \notin deploy.stays)
    /\ conn' = [conn EXCEPT ![c] = "dead"]
    /\ UNCHANGED <<deploy, requests, ended, login, online, lane, jobs, fences, faults>>
    /\ UNCHANGED sessionVars

\* The connection callback: first the session is unbound ...
HandleConnection(c) ==
    /\ conn[c] = "dead"
    /\ UnbindIfCurrent(c)
    /\ ended' = [ended EXCEPT ![c] = FindSessionByConnection(c)]
    /\ conn' = [conn EXCEPT ![c] = IF FindSessionByConnection(c) = None THEN "gone" ELSE "unbound"]
    /\ UNCHANGED <<deploy, requests, login, online, lane, jobs, fences, faults>>

Task(kind, c, e) == [kind |-> kind, conn |-> c, epoch |-> e, got |-> "nothing"]

\* ... then a cleanup that must run is queued, unless the lane refuses it.
SubmitOffline(c) ==
    /\ conn[c] = "unbound"
    /\ conn' = [conn EXCEPT ![c] = "gone"]
    /\ ended' = [ended EXCEPT ![c] = None]
    /\ LET g == Home[c]
           u == ended[c].user
       IN  \/ /\ deploy.cache
              /\ lane' = [lane EXCEPT ![g][u] = Append(@, Task("offline", c, ended[c].epoch))]
              /\ NoFault
           \/ ~deploy.cache /\ UNCHANGED lane /\ NoFault
           \/ deploy.cache /\ UNCHANGED lane /\ Fault
    /\ UNCHANGED <<deploy, requests, login, online, jobs, fences>>
    /\ UNCHANGED sessionVars

-----------------------------------------------------------------------------
\* A bound: a client waits for the work of one heartbeat before the next.
Refreshing(c) ==
    \/ \E x \in jobs \cup fences : x.conn = c
    \/ \E u \in Users : \E i \in DOMAIN lane[Home[c]][u] :
           lane[Home[c]][u][i].conn = c /\ lane[Home[c]][u][i].kind = "refresh"

Heartbeat(c) ==
    /\ deploy.cache /\ IsConnected(c) /\ ~Refreshing(c)
    /\ LET own == FindSessionByConnection(c)
       IN  /\ own # None
           /\ IF deploy.batched
              THEN /\ jobs' = jobs \cup {[conn |-> c, user |-> own.user, epoch |-> own.epoch,
                                          got |-> "nothing"]}
                   /\ UNCHANGED lane
              ELSE /\ lane' = [lane EXCEPT ![Home[c]][own.user] =
                                   Append(@, Task("refresh", c, own.epoch))]
                   /\ UNCHANGED jobs
    /\ UNCHANGED <<deploy, requests, conn, ended, login, online, fences, faults>>
    /\ UNCHANGED sessionVars

\* The answer of the script that extends the record of its own connection.
RefreshOnlineIfMatch(u, c) ==
    IF online[u] = None THEN "missing" ELSE IF online[u] = c THEN "refreshed" ELSE "mismatch"

\* OnlineStatusMaintenance::Process, up to and including the Redis call.
RefreshJob(j) ==
    /\ j \in jobs /\ j.got = "nothing"
    /\ LET valid == IsConnected(j.conn) /\ IsCurrent(j.user, j.epoch, j.conn)
           got == RefreshOnlineIfMatch(j.user, j.conn)
       IN  \/ /\ jobs' = (jobs \ {j}) \cup
                      (IF valid /\ got # "refreshed"
                       THEN {[j EXCEPT !.got = got]} ELSE {})
              /\ NoFault
           \/ valid /\ jobs' = jobs \ {j} /\ Fault
    /\ UNCHANGED <<deploy, requests, conn, ended, login, online, lane, fences>>
    /\ UNCHANGED sessionVars

FenceOf(c, own) == [conn |-> c, user |-> own.user, epoch |-> own.epoch]

\* Its callback: a restore goes through the user's lane, which may refuse it.
FinishJob(j) ==
    /\ j \in jobs /\ j.got # "nothing"
    /\ jobs' = jobs \ {j}
    /\ LET valid == IsConnected(j.conn) /\ IsCurrent(j.user, j.epoch, j.conn)
           g == Home[j.conn]
       IN  \/ ~valid /\ UNCHANGED <<lane, fences, faults>>
           \/ /\ valid /\ j.got = "mismatch"
              /\ fences' = fences \cup {FenceOf(j.conn, j)}
              /\ UNCHANGED <<lane, faults>>
           \/ /\ valid /\ j.got = "missing"
              /\ lane' = [lane EXCEPT ![g][j.user] = Append(@, Task("refresh", j.conn, j.epoch))]
              /\ UNCHANGED <<fences, faults>>
           \/ valid /\ j.got = "missing" /\ Fault /\ UNCHANGED <<lane, fences>>
    /\ UNCHANGED <<deploy, requests, conn, ended, login, online>>
    /\ UNCHANGED sessionVars

-----------------------------------------------------------------------------
\* The task at the head of the presence lane of u.
HeadIs(g, u, kind, got) ==
    /\ lane[g][u] # <<>>
    /\ Head(lane[g][u]).kind = kind /\ Head(lane[g][u]).got = got
Pop(g, u) == lane' = [lane EXCEPT ![g][u] = Tail(@)]
Keep(g, u, t) == lane' = [lane EXCEPT ![g][u] = <<t>> \o Tail(@)]

\* RefreshUserOnlineIfMatch: the executor cancels the task of a session that
\* ended; else Redis is asked.
RefreshUserOnline(g, u) ==
    /\ HeadIs(g, u, "refresh", "nothing")
    /\ LET t == Head(lane[g][u])
           got == RefreshOnlineIfMatch(u, t.conn)
           valid == IsCurrent(u, t.epoch, t.conn)
       IN  \/ (~valid \/ got = "refreshed") /\ Pop(g, u) /\ NoFault
           \/ valid /\ Pop(g, u) /\ Fault
           \/ /\ valid /\ got # "refreshed" /\ NoFault
              /\ Keep(g, u, [t EXCEPT !.got = got])
    /\ UNCHANGED <<deploy, requests, conn, ended, login, online, jobs, fences>>
    /\ UNCHANGED sessionVars

\* Another owner: fence the session this connection has now.
FenceMismatch(g, u) ==
    /\ HeadIs(g, u, "refresh", "mismatch")
    /\ LET t == Head(lane[g][u])
           own == FindSessionByConnection(t.conn)
       IN  fences' = IF own # None /\ own.user = u
                     THEN fences \cup {FenceOf(t.conn, own)} ELSE fences
    /\ Pop(g, u)
    /\ UNCHANGED <<deploy, requests, conn, ended, login, online, jobs, faults>>
    /\ UNCHANGED sessionVars

\* No record: only the connection of the current session restores it ...
CheckMissing(g, u) ==
    /\ HeadIs(g, u, "refresh", "missing")
    /\ LET t == Head(lane[g][u])
           own == FindSessionByConnection(t.conn)
       IN  IF own # None /\ own.user = u THEN Keep(g, u, [t EXCEPT !.got = "restore"])
           ELSE Pop(g, u)
    /\ UNCHANGED <<deploy, requests, conn, ended, login, online, jobs, fences, faults>>
    /\ UNCHANGED sessionVars

\* ... and only if there still is none.
SetOnlineIfMissing(g, u) ==
    /\ HeadIs(g, u, "refresh", "restore")
    /\ \/ online' = [online EXCEPT ![u] = IF @ = None THEN Head(lane[g][u]).conn ELSE @] /\ NoFault
       \/ UNCHANGED online /\ Fault
    /\ Pop(g, u)
    /\ UNCHANGED <<deploy, requests, conn, ended, login, jobs, fences>>
    /\ UNCHANGED sessionVars

\* A bug: the cleanup deletes the user's record whoever holds it.
SetUserOfflineAlways(g, u) ==
    /\ HeadIs(g, u, "offline", "nothing")
    /\ online' = [online EXCEPT ![u] = None]
    /\ Pop(g, u)
    /\ UNCHANGED <<deploy, requests, conn, ended, login, jobs, fences, faults>>
    /\ UNCHANGED sessionVars

SetUserOfflineIfMatch(g, u) ==
    /\ HeadIs(g, u, "offline", "nothing")
    /\ \/ online' = [online EXCEPT ![u] = IF @ = Head(lane[g][u]).conn THEN None ELSE @] /\ NoFault
       \/ UNCHANGED online /\ Fault
    /\ Pop(g, u)
    /\ UNCHANGED <<deploy, requests, conn, ended, login, jobs, fences>>
    /\ UNCHANGED sessionVars

\* A bug: a fence is only logged, as an unanswered refresh is.
FenceIgnored(f) ==
    /\ f \in fences
    /\ fences' = fences \ {f}
    /\ UNCHANGED <<deploy, requests, conn, ended, login, online, lane, jobs, faults>>
    /\ UNCHANGED sessionVars

\* The loop closes exactly the session that was found to be replaced.
Fence(f) ==
    /\ f \in fences
    /\ fences' = fences \ {f}
    /\ conn' = IF IsConnected(f.conn) /\ IsCurrent(f.user, f.epoch, f.conn)
               THEN NotifyLoginReplaced(f.conn) ELSE conn
    /\ UNCHANGED <<deploy, requests, ended, login, online, lane, jobs, faults>>
    /\ UNCHANGED sessionVars

\* The connection is live and holds the session of u on its Gateway.
Serves(c, u) ==
    /\ IsConnected(c)
    /\ user_sessions[Home[c]][u] # None /\ user_sessions[Home[c]][u].conn = c

\* The time to live of a record ends when nobody refreshes it, or when an
\* outage outlasts it.
Expire(u) ==
    /\ online[u] # None
    /\ online' = [online EXCEPT ![u] = None]
    /\ IF Serves(online[u], u) THEN Fault ELSE NoFault
    /\ UNCHANGED <<deploy, requests, conn, ended, login, lane, jobs, fences>>
    /\ UNCHANGED sessionVars

-----------------------------------------------------------------------------
\* Cleanup after a disconnect (SetUserOfflineIfMatch) may run after the user
\* is back on another connection: it never removes the record of a session
\* that is served.  Only an outage longer than the time to live does.
OfflineSparesServed ==
    [][\A u \in Users :
           (online[u] # None /\ online'[u] = None /\ Serves(online[u], u)) => faults' < faults
      ]_<<online, faults>>

\* Two Gateways do not keep serving one user: heartbeats that meet the record
\* of another connection fence their session (FenceMismatch, FinishJob), and
\* one that meets none restores it.  In the end one connection at most serves
\* a user, Redis names it, and it names nobody else.
PresenceConverges ==
    <>[](deploy.cache =>
         \A u \in Users :
             LET serving == {c \in Conns : Serves(c, u)}
             IN  /\ Cardinality(serving) <= 1
                 /\ serving = IF online[u] = None THEN {} ELSE {online[u]})
=============================================================================
