--------------------------- MODULE SessionManager ---------------------------
(***************************************************************************)
(* gateway/SessionManager.cpp: which connection speaks for which user.     *)
(* Every Gateway keeps two maps under one mutex, from users to sessions    *)
(* and from connections back to users, and gives every session an epoch.   *)
(* A method is one action, because it holds the mutex from its first read  *)
(* to its last write.  Epochs are 64 bits wide and do not wrap here.       *)
(***************************************************************************)
EXTENDS Naturals

CONSTANTS Users, Gateways, Conns,
          Home,      \* the Gateway that accepted a connection
          None

Session == [epoch : Nat, conn : Conns]
Owner == [user : Users, epoch : Nat]

ASSUME HomeAssumption == Home \in [Conns -> Gateways]
ASSUME NoneAssumption == None \notin Session \cup Owner

VARIABLES user_sessions, connection_sessions, next_epoch
sessionVars == <<user_sessions, connection_sessions, next_epoch>>

SessionInit ==
    /\ user_sessions = [g \in Gateways |-> [u \in Users |-> None]]
    /\ connection_sessions = [c \in Conns |-> None]
    /\ next_epoch = [g \in Gateways |-> 1]

IsCurrent(u, e, c) == user_sessions[Home[c]][u] = [epoch |-> e, conn |-> c]

\* The session a connection owns, if it still owns it.
FindSessionByConnection(c) ==
    IF connection_sessions[c] # None
       /\ IsCurrent(connection_sessions[c].user, connection_sessions[c].epoch, c)
    THEN connection_sessions[c]
    ELSE None

\* The connection a login of u on c takes the user from.
ReplacedBy(u, c) ==
    LET old == user_sessions[Home[c]][u]
    IN  IF old = None \/ old.conn = c THEN None ELSE old.conn

\* A bug: the reverse record of the replaced connection is left behind.
BindKeepsReverse(u, c) ==
    LET g == Home[c]
        e == next_epoch[g]
    IN  /\ user_sessions' = [user_sessions EXCEPT ![g][u] = [epoch |-> e, conn |-> c]]
        /\ connection_sessions' = [connection_sessions EXCEPT ![c] = [user |-> u, epoch |-> e]]
        /\ next_epoch' = [next_epoch EXCEPT ![g] = e + 1]

\* First the user's old session goes, with the reverse record of that very
\* session; then whatever the connection owned; then a new session is made.
BindOrReplace(u, c) ==
    LET g == Home[c]
        e == next_epoch[g]
        old == user_sessions[g][u]
        reverse ==
            IF old # None /\ connection_sessions[old.conn] = [user |-> u, epoch |-> old.epoch]
            THEN [connection_sessions EXCEPT ![old.conn] = None]
            ELSE connection_sessions
        owner == reverse[c]
        sessions ==
            IF owner # None /\ user_sessions[g][owner.user] = [epoch |-> owner.epoch, conn |-> c]
            THEN [user_sessions[g] EXCEPT ![owner.user] = None]
            ELSE user_sessions[g]
    IN  /\ user_sessions' =
               [user_sessions EXCEPT ![g] = [sessions EXCEPT ![u] = [epoch |-> e, conn |-> c]]]
        /\ connection_sessions' = [reverse EXCEPT ![c] = [user |-> u, epoch |-> e]]
        /\ next_epoch' = [next_epoch EXCEPT ![g] = e + 1]

\* A connection gives up what it owns, and the user's session only when that
\* is still the session of this connection.
UnbindIfCurrent(c) ==
    LET own == FindSessionByConnection(c)
    IN  /\ connection_sessions' = [connection_sessions EXCEPT ![c] = None]
        /\ user_sessions' = IF own = None THEN user_sessions
                            ELSE [user_sessions EXCEPT ![Home[c]][own.user] = None]
        /\ UNCHANGED next_epoch

SessionNext ==
    \E c \in Conns : UnbindIfCurrent(c) \/ \E u \in Users : BindOrReplace(u, c)

SessionSpec == SessionInit /\ [][SessionNext]_sessionVars

-----------------------------------------------------------------------------
\* The state has its type.
SessionTypeOK ==
    /\ user_sessions \in [Gateways -> [Users -> Session \cup {None}]]
    /\ connection_sessions \in [Conns -> Owner \cup {None}]
    /\ next_epoch \in [Gateways -> Nat]

\* BindOrReplace and UnbindIfCurrent keep the two maps of a Gateway inverse
\* to each other: a user's session is on a connection of the same Gateway
\* whose reverse record names this user and epoch, and a reverse record is
\* that of the user's current session.  So one connection never speaks for
\* two users, a user has one connection, and the stale branches of
\* UnbindIfCurrent are only defensive.
SessionsMatch ==
    /\ \A g \in Gateways, u \in Users :
           LET s == user_sessions[g][u]
           IN  s # None => /\ Home[s.conn] = g
                           /\ connection_sessions[s.conn] = [user |-> u, epoch |-> s.epoch]
                           /\ s.epoch < next_epoch[g]
    /\ \A c \in Conns :
           LET o == connection_sessions[c]
           IN  o # None => IsCurrent(o.user, o.epoch, c)
=============================================================================
