--------------------------- MODULE RuntimeProofs ---------------------------
(***************************************************************************)
(* Two structures inside one process. The two maps of SessionManager stay  *)
(* inverse to each other, for any numbers of users, Gateways and           *)
(* connections; the invariant is inductive together with the types.        *)
(* BoundedCallerBatch::Run hands every caller its own result, and executes *)
(* no input twice, for any set of callers and any positive limits.         *)
(***************************************************************************)
EXTENDS SessionManager, BoundedCallerBatch, FiniteSetTheorems, TLAPS

----------------------------------------------------------------------------
(* SessionManager.                                                         *)

SessionInv == SessionTypeOK /\ SessionsMatch

\* The mark for "no session" is none of the sessions.
LEMMA NoneIsNoSession == None \notin Session /\ None \notin Owner
BY NoneAssumption

\* Before any login both maps are empty (SessionManager.h, the members).
LEMMA SessionInitInv == SessionInit => SessionInv
BY HomeAssumption DEF SessionInit, SessionInv, SessionTypeOK, SessionsMatch

\* BindOrReplace keeps the maps inverse: under the invariant the old session's
\* reverse record, and the session the connection owned, are both removed.
LEMMA BindInv ==
    ASSUME SessionInv, NEW u \in Users, NEW c \in Conns, BindOrReplace(u, c)
    PROVE  SessionInv'
<1> DEFINE g == Home[c]
           e == next_epoch[g]
           old == user_sessions[g][u]
           reverse ==
               IF old # None /\ connection_sessions[old.conn] = [user |-> u, epoch |-> old.epoch]
               THEN [connection_sessions EXCEPT ![old.conn] = None]
               ELSE connection_sessions
           owner == reverse[c]
           sessions ==
               IF owner # None /\ user_sessions[g][owner.user] = [epoch |-> owner.epoch, conn |-> c]
               THEN [user_sessions[g] EXCEPT ![owner.user] = None]
               ELSE user_sessions[g]
<1>g. g \in Gateways /\ e \in Nat
  BY HomeAssumption DEF SessionInv, SessionTypeOK
<1>t. /\ user_sessions \in [Gateways -> [Users -> Session \cup {None}]]
      /\ connection_sessions \in [Conns -> Owner \cup {None}]
      /\ next_epoch \in [Gateways -> Nat]
  BY Zenon DEF SessionInv, SessionTypeOK
<1>b. /\ user_sessions' =
            [user_sessions EXCEPT ![g] = [sessions EXCEPT ![u] = [epoch |-> e, conn |-> c]]]
      /\ connection_sessions' = [reverse EXCEPT ![c] = [user |-> u, epoch |-> e]]
      /\ next_epoch' = [next_epoch EXCEPT ![g] = e + 1]
  BY Zenon DEF BindOrReplace
<1>m. SessionsMatch
  BY DEF SessionInv
<1> HIDE DEF reverse, sessions, g, e, owner, old
<1>o. old \in Session \cup {None}
  BY <1>t, <1>g DEF old
<1>q. old # None => /\ old.conn \in Conns
                    /\ connection_sessions[old.conn] = [user |-> u, epoch |-> old.epoch]
                    /\ Home[old.conn] = g
  BY <1>o, <1>m, <1>g DEF SessionsMatch, old, Session
<1>w. owner = reverse[c]
  BY DEF owner
<1>r. /\ reverse \in [Conns -> Owner \cup {None}]
      /\ \A d \in Conns : reverse[d] \in {connection_sessions[d], None}
      /\ old # None => reverse[old.conn] = None
      /\ \A d \in Conns : (old = None \/ d # old.conn) => reverse[d] = connection_sessions[d]
  BY <1>t, <1>q DEF reverse
<1>s. /\ sessions \in [Users -> Session \cup {None}]
      /\ \A v \in Users : sessions[v] \in {user_sessions[g][v], None}
      /\ \A v \in Users : v # u /\ sessions[v] # None => sessions[v].conn # c
      /\ \A v \in Users : user_sessions[g][v] # None /\ user_sessions[g][v].conn # c
                             => sessions[v] = user_sessions[g][v]
  <2>1. sessions \in [Users -> Session \cup {None}]
    BY <1>t, <1>g, Zenon DEF sessions
  <2>2. \A v \in Users : sessions[v] \in {user_sessions[g][v], None}
    BY <1>t, <1>g DEF sessions
  <2>3. ASSUME NEW v \in Users, v # u, sessions[v] # None, sessions[v].conn = c
        PROVE FALSE
    <3>1. /\ user_sessions[g][v] # None
          /\ user_sessions[g][v] = sessions[v]
          /\ user_sessions[g][v] \in Session
      BY <2>2, <2>3, <1>t, <1>g
    <3>2. connection_sessions[c] = [user |-> v, epoch |-> user_sessions[g][v].epoch]
      BY <3>1, <2>3, <1>m, <1>g DEF SessionsMatch
    <3>3. reverse[c] = connection_sessions[c]
      <4>1. CASE old = None
        BY <4>1, <1>r
      <4>2. CASE old # None
        <5>1. c # old.conn
          BY <4>2, <1>q, <3>2, <2>3
        <5> QED BY <5>1, <1>r
      <4> QED BY <4>1, <4>2
    <3>4. owner = [user |-> v, epoch |-> user_sessions[g][v].epoch] /\ owner # None
      BY <3>2, <3>3, <3>1, <1>w, NoneIsNoSession DEF Owner, Session
    <3>5. user_sessions[g][v] = [epoch |-> owner.epoch, conn |-> c]
      BY <3>1, <3>4, <2>3 DEF Session
    <3>6. sessions = [user_sessions[g] EXCEPT ![v] = None]
      BY <3>4, <3>5, Zenon DEF sessions
    <3>7. sessions[v] = None
      BY <3>6, <1>t, <1>g
    <3> QED BY <3>7, <2>3
  <2>4. \A v \in Users : user_sessions[g][v] # None /\ user_sessions[g][v].conn # c
                             => sessions[v] = user_sessions[g][v]
    BY <1>t, <1>g DEF sessions
  <2> QED BY <2>1, <2>2, <2>3, <2>4
<1>n. /\ [epoch |-> e, conn |-> c] \in Session /\ [user |-> u, epoch |-> e] \in Owner
      /\ [epoch |-> e, conn |-> c] # None /\ [user |-> u, epoch |-> e] # None
  BY <1>g, NoneIsNoSession DEF Session, Owner
<1>1. SessionTypeOK'
  BY <1>b, <1>t, <1>g, <1>r, <1>s, <1>n DEF SessionTypeOK
<1>2. ASSUME NEW h \in Gateways, NEW v \in Users, user_sessions'[h][v] # None
      PROVE  LET s == user_sessions'[h][v]
             IN  /\ Home[s.conn] = h
                 /\ connection_sessions'[s.conn] = [user |-> v, epoch |-> s.epoch]
                 /\ s.epoch < next_epoch'[h]
  <2>1. CASE h = g /\ v = u
    <3>1. user_sessions'[h][v] = [epoch |-> e, conn |-> c]
      BY <2>1, <1>b, <1>t, <1>g, <1>s
    <3>2. connection_sessions'[c] = [user |-> u, epoch |-> e]
      BY <1>b, <1>r
    <3>3. next_epoch'[h] = e + 1
      BY <2>1, <1>b, <1>t, <1>g
    <3> QED BY <3>1, <3>2, <3>3, <2>1, <1>g DEF g
  <2>2. CASE h = g /\ v # u
    <3>1. user_sessions'[h][v] = sessions[v]
      BY <2>2, <1>b, <1>t, <1>g, <1>s
    <3>2. /\ sessions[v] = user_sessions[g][v] /\ sessions[v].conn # c
          /\ sessions[v] \in Session
      BY <3>1, <1>2, <1>s, <2>2, <1>t, <1>g
    <3>3. /\ Home[sessions[v].conn] = g
          /\ connection_sessions[sessions[v].conn] = [user |-> v, epoch |-> sessions[v].epoch]
          /\ sessions[v].epoch < next_epoch[g]
      BY <3>1, <3>2, <1>2, <1>m, <1>g DEF SessionsMatch
    <3>4. sessions[v].conn \in Conns /\ sessions[v].epoch \in Nat
      BY <3>2 DEF Session
    <3>5. reverse[sessions[v].conn] = connection_sessions[sessions[v].conn]
      <4>1. CASE old = None
        BY <4>1, <3>4, <1>r
      <4>2. CASE old # None
        BY <4>2, <1>q, <3>3, <3>4, <2>2, <1>r
      <4> QED BY <4>1, <4>2
    <3>6. connection_sessions'[sessions[v].conn] = connection_sessions[sessions[v].conn]
      BY <3>5, <3>2, <3>4, <1>b, <1>r
    <3>7. sessions[v].epoch < next_epoch'[h]
      BY <3>3, <3>4, <2>2, <1>b, <1>t, <1>g DEF e
    <3> QED BY <3>1, <3>3, <3>6, <3>7, <2>2
  <2>3. CASE h # g
    <3>1. /\ user_sessions'[h][v] = user_sessions[h][v]
          /\ next_epoch'[h] = next_epoch[h]
          /\ user_sessions[h][v] \in Session
      BY <2>3, <1>2, <1>b, <1>t, <1>g
    <3> DEFINE s == user_sessions[h][v]
    <3>2. /\ Home[s.conn] = h
          /\ connection_sessions[s.conn] = [user |-> v, epoch |-> s.epoch]
          /\ s.epoch < next_epoch[h]
      BY <3>1, <1>2, <1>m DEF SessionsMatch
    <3>3. s.conn \in Conns /\ s.conn # c
      BY <3>1, <3>2, <2>3 DEF Session, g
    <3>4. reverse[s.conn] = connection_sessions[s.conn]
      BY <3>2, <3>3, <1>q, <2>3, <1>r
    <3>5. connection_sessions'[s.conn] = connection_sessions[s.conn]
      BY <3>3, <3>4, <1>b, <1>r
    <3> QED BY <3>1, <3>2, <3>5
  <2> QED BY <2>1, <2>2, <2>3
<1>3. ASSUME NEW d \in Conns, connection_sessions'[d] # None
      PROVE  LET o == connection_sessions'[d]
             IN  user_sessions'[Home[d]][o.user] = [epoch |-> o.epoch, conn |-> d]
  <2>1. CASE d = c
    <3>1. connection_sessions'[d] = [user |-> u, epoch |-> e]
      BY <2>1, <1>b, <1>r
    <3>2. user_sessions'[g][u] = [epoch |-> e, conn |-> c]
      BY <1>b, <1>t, <1>g, <1>s
    <3> QED BY <3>1, <3>2, <2>1 DEF g
  <2>2. CASE d # c
    <3> DEFINE o == connection_sessions[d]
    <3>1. connection_sessions'[d] = reverse[d]
      BY <2>2, <1>b, <1>r
    <3>2. reverse[d] = o /\ o # None /\ o \in Owner /\ (old # None => d # old.conn)
      BY <3>1, <1>3, <1>r, <1>t
    <3>3. user_sessions[Home[d]][o.user] = [epoch |-> o.epoch, conn |-> d]
      BY <3>2, <1>m DEF SessionsMatch, IsCurrent
    <3>4. o.user \in Users /\ o.epoch \in Nat /\ Home[d] \in Gateways
      BY <3>2, HomeAssumption DEF Owner
    <3>5. CASE Home[d] = g
      <4>1. o.user # u
        BY <3>2, <3>3, <3>5, <3>4, <1>t, <1>g, NoneIsNoSession DEF old, Session
      <4>2. /\ user_sessions[g][o.user] # None
            /\ user_sessions[g][o.user].conn = d
        BY <3>3, <3>4, <3>5, NoneIsNoSession DEF Session
      <4>3. sessions[o.user] = user_sessions[g][o.user]
        BY <4>2, <2>2, <3>4, <1>s
      <4>4. user_sessions'[g][o.user] = sessions[o.user]
        BY <4>1, <3>4, <1>b, <1>t, <1>g, <1>s
      <4> QED BY <3>1, <3>2, <3>3, <3>5, <4>3, <4>4
    <3>6. CASE Home[d] # g
      BY <3>1, <3>2, <3>3, <3>4, <3>6, <1>b, <1>t, <1>g
    <3> QED BY <3>5, <3>6
  <2> QED BY <2>1, <2>2
<1> QED BY <1>1, <1>2, <1>3 DEF SessionInv, SessionsMatch, IsCurrent

\* UnbindIfCurrent removes a session and its reverse record together.
LEMMA UnbindInv ==
    ASSUME SessionInv, NEW c \in Conns, UnbindIfCurrent(c)
    PROVE  SessionInv'
<1>t. /\ user_sessions \in [Gateways -> [Users -> Session \cup {None}]]
      /\ connection_sessions \in [Conns -> Owner \cup {None}]
      /\ next_epoch \in [Gateways -> Nat]
      /\ Home[c] \in Gateways
  BY HomeAssumption DEF SessionInv, SessionTypeOK
<1>m. SessionsMatch
  BY DEF SessionInv
<1> DEFINE own == connection_sessions[c]
<1>f. FindSessionByConnection(c) = own
  BY <1>m DEF FindSessionByConnection, SessionsMatch
<1>b. /\ connection_sessions' = [connection_sessions EXCEPT ![c] = None]
      /\ user_sessions' = IF own = None THEN user_sessions
                          ELSE [user_sessions EXCEPT ![Home[c]][own.user] = None]
      /\ next_epoch' = next_epoch
  BY <1>f DEF UnbindIfCurrent
<1>o. own # None => /\ own \in Owner /\ own.user \in Users
                    /\ user_sessions[Home[c]][own.user] = [epoch |-> own.epoch, conn |-> c]
  BY <1>t, <1>m DEF SessionsMatch, IsCurrent, Owner
<1>1. SessionTypeOK'
  BY <1>t, <1>b, <1>o DEF SessionTypeOK
<1>2. ASSUME NEW h \in Gateways, NEW v \in Users, user_sessions'[h][v] # None
      PROVE  LET s == user_sessions'[h][v]
             IN  /\ Home[s.conn] = h
                 /\ connection_sessions'[s.conn] = [user |-> v, epoch |-> s.epoch]
                 /\ s.epoch < next_epoch'[h]
  <2> DEFINE s == user_sessions[h][v]
  <2>1. user_sessions'[h][v] = s /\ s \in Session
    BY <1>2, <1>b, <1>t, <1>o
  <2>2. /\ Home[s.conn] = h
        /\ connection_sessions[s.conn] = [user |-> v, epoch |-> s.epoch]
        /\ s.epoch < next_epoch[h]
    BY <2>1, <1>2, <1>m DEF SessionsMatch
  <2>3. s.conn # c
    <3> SUFFICES ASSUME s.conn = c PROVE FALSE
      OBVIOUS
    <3>1. own = [user |-> v, epoch |-> s.epoch] /\ own # None /\ own.user = v /\ Home[c] = h
      BY <2>1, <2>2, NoneIsNoSession DEF Owner, Session
    <3>2. user_sessions'[h][v] = None
      BY <3>1, <1>b, <1>t
    <3> QED BY <3>2, <1>2
  <2>4. connection_sessions'[s.conn] = connection_sessions[s.conn]
    BY <2>1, <2>3, <1>b, <1>t DEF Session
  <2> QED BY <2>1, <2>2, <2>4, <1>b
<1>3. ASSUME NEW d \in Conns, connection_sessions'[d] # None
      PROVE  LET o == connection_sessions'[d]
             IN  user_sessions'[Home[d]][o.user] = [epoch |-> o.epoch, conn |-> d]
  <2> DEFINE o == connection_sessions[d]
  <2>1. d # c /\ connection_sessions'[d] = o /\ o \in Owner /\ o # None
    BY <1>3, <1>b, <1>t
  <2>2. user_sessions[Home[d]][o.user] = [epoch |-> o.epoch, conn |-> d]
    BY <2>1, <1>m DEF SessionsMatch, IsCurrent
  <2>3. o.user \in Users /\ Home[d] \in Gateways
    BY <2>1, HomeAssumption DEF Owner
  <2>4. user_sessions'[Home[d]][o.user] = user_sessions[Home[d]][o.user]
    <3>1. own # None /\ Home[d] = Home[c] => own.user # o.user
      BY <1>o, <2>1, <2>2
    <3> QED BY <3>1, <2>3, <1>b, <1>t, <1>o
  <2> QED BY <2>1, <2>2, <2>4
<1> QED BY <1>1, <1>2, <1>3 DEF SessionInv, SessionsMatch, IsCurrent

\* Whatever logins and disconnects do, a user's session and its connection's
\* record always name each other (BindOrReplace, UnbindIfCurrent).
THEOREM SessionMapsInverse == SessionSpec => []SessionsMatch
<1>1. SessionInit => SessionInv
  BY SessionInitInv
<1>2. SessionInv /\ [SessionNext]_sessionVars => SessionInv'
  <2>1. ASSUME SessionInv, SessionNext PROVE SessionInv'
    BY <2>1, BindInv, UnbindInv DEF SessionNext
  <2>2. ASSUME SessionInv, UNCHANGED sessionVars PROVE SessionInv'
    BY <2>2 DEF sessionVars, SessionInv, SessionTypeOK, SessionsMatch, IsCurrent
  <2> QED BY <2>1, <2>2
<1>3. SessionInv => SessionsMatch
  BY DEF SessionInv
<1> QED BY <1>1, <1>2, <1>3, PTL DEF SessionSpec

----------------------------------------------------------------------------
(* BoundedCallerBatch.                                                     *)

In(x, s) == \E i \in 1 .. Len(s) : s[i] = x
Distinct(s) == \A i, j \in 1 .. Len(s) : s[i] = s[j] => i = j

Leading == {"collecting", "executing", "completing"}

Types ==
    /\ pc \in [Callers -> Leading \cup {"idle", "waiting", "returned"}]
    /\ queue \in Seq(Callers) /\ batch \in Seq(Callers)
    /\ running \in BOOLEAN
    /\ result \in [Callers -> Callers \cup {Failure}]
    /\ executed \in [Callers -> Nat]

\* At most one caller leads, and only while the lead is taken.
OneLeader ==
    \A c, d \in Callers : pc[c] \in Leading =>
        running /\ (pc[d] \in Leading => c = d)

\* An input that waits to be executed has not been executed: it is in the
\* queue, once, or in a batch that was taken from it.
NotYet ==
    /\ Distinct(queue) /\ Distinct(batch)
    /\ \A c \in Callers : pc[c] = "idle" => ~In(c, queue) /\ ~In(c, batch) /\ executed[c] = 0
    /\ \A c \in Callers : In(c, queue) => ~In(c, batch) /\ executed[c] = 0

\* What the leader holds at each stage.
Stages ==
    /\ \A c \in Callers : pc[c] = "collecting" => batch = <<>>
    /\ \A c \in Callers : pc[c] = "executing" =>
          \A x \in Callers : In(x, batch) => executed[x] = 0
    /\ \A c \in Callers : pc[c] = "completing" =>
          \/ results = <<>>
          \/ results = batch /\ \A x \in Callers : In(x, batch) => executed[x] = 1
    /\ (\A c \in Callers : pc[c] \notin Leading) => batch = <<>>

Results ==
    \A c \in Callers :
        /\ executed[c] <= 1
        /\ result[c] # Failure => result[c] = c /\ executed[c] = 1

BatchInv == Types /\ OneLeader /\ NotYet /\ Stages /\ Results

\* A sequence without repetitions counts each of its elements once.
LEMMA CountOnce ==
    ASSUME NEW s \in Seq(Callers), Distinct(s), NEW x
    PROVE  Cardinality({i \in 1 .. Len(s) : s[i] = x}) = IF In(x, s) THEN 1 ELSE 0
<1>1. CASE In(x, s)
  <2>1. PICK i \in 1 .. Len(s) : s[i] = x  BY <1>1 DEF In
  <2>2. {j \in 1 .. Len(s) : s[j] = x} = {i}  BY <2>1 DEF Distinct
  <2> QED  BY <1>1, <2>2, FS_Singleton, Zenon
<1>2. CASE ~In(x, s)
  <2>1. {j \in 1 .. Len(s) : s[j] = x} = {}  BY <1>2 DEF In
  <2> QED  BY <1>2, <2>1, FS_EmptySet, Zenon
<1> QED  BY <1>1, <1>2

\* The two parts of a split sequence.
LEMMA Split ==
    ASSUME NEW s \in Seq(Callers), NEW n \in 0 .. Len(s), Distinct(s)
    PROVE  LET front == SubSeq(s, 1, n)
               back == SubSeq(s, n + 1, Len(s))
           IN  /\ front \in Seq(Callers) /\ back \in Seq(Callers)
               /\ Distinct(front) /\ Distinct(back)
               /\ \A x : In(x, front) => In(x, s) /\ ~In(x, back)
               /\ \A x : In(x, back) => In(x, s)
<1> DEFINE front == SubSeq(s, 1, n)
           back == SubSeq(s, n + 1, Len(s))
<1>0. Len(s) \in Nat /\ n \in Nat /\ n <= Len(s)  OBVIOUS
<1>1. /\ front \in Seq(Callers) /\ Len(front) = n
      /\ \A i \in 1 .. n : front[i] = s[i]
  BY <1>0
<1>2. /\ back \in Seq(Callers) /\ Len(back) = Len(s) - n
      /\ \A i \in 1 .. Len(s) - n : back[i] = s[n + i]
  BY <1>0
<1> HIDE DEF front, back
<1>3. Distinct(front)  BY <1>0, <1>1 DEF Distinct
<1>4. Distinct(back)
  <2> SUFFICES ASSUME NEW i \in 1 .. Len(s) - n, NEW j \in 1 .. Len(s) - n, back[i] = back[j]
               PROVE  i = j
    BY <1>2 DEF Distinct
  <2>1. n + i \in 1 .. Len(s) /\ n + j \in 1 .. Len(s)  BY <1>0
  <2>2. s[n + i] = s[n + j]  BY <1>2
  <2>3. n + i = n + j  BY <2>1, <2>2 DEF Distinct
  <2> QED  BY <2>3, <1>0
<1>5. ASSUME NEW x, In(x, front) PROVE In(x, s) /\ ~In(x, back)
  <2>1. PICK i \in 1 .. n : s[i] = x  BY <1>1, <1>5 DEF In
  <2>2. i \in 1 .. Len(s)  BY <1>0
  <2>3. In(x, s)  BY <2>1, <2>2 DEF In
  <2>4. ASSUME In(x, back) PROVE FALSE
    <3>1. PICK j \in 1 .. Len(s) - n : back[j] = x  BY <1>2, <2>4 DEF In
    <3>2. s[n + j] = x /\ n + j \in 1 .. Len(s)  BY <1>0, <1>2, <3>1
    <3>3. i = n + j  BY <2>1, <2>2, <3>2 DEF Distinct
    <3> QED  BY <3>3, <1>0
  <2> QED  BY <2>3, <2>4
<1>6. ASSUME NEW x, In(x, back) PROVE In(x, s)
  <2>1. PICK j \in 1 .. Len(s) - n : back[j] = x  BY <1>2, <1>6 DEF In
  <2>2. s[n + j] = x /\ n + j \in 1 .. Len(s)  BY <1>0, <1>2, <2>1
  <2> QED  BY <2>2 DEF In
<1> QED  BY <1>1, <1>2, <1>3, <1>4, <1>5, <1>6 DEF front, back

\* The empty batch is a batch.
LEMMA NoCallers == <<>> \in Seq(Callers)
  OBVIOUS

\* The initial state.
LEMMA BatchInit == CallerInit => BatchInv
<1> SUFFICES ASSUME CallerInit PROVE BatchInv  OBVIOUS
<1>1. Types  BY NoCallers, Zenon DEF CallerInit, Types
<1>2. OneLeader  BY DEF CallerInit, OneLeader, Leading
<1>3. NotYet  BY DEF CallerInit, NotYet, In, Distinct
<1>4. Stages  BY DEF CallerInit, Stages
<1>5. Results  BY DEF CallerInit, Results
<1> QED  BY <1>1, <1>2, <1>3, <1>4, <1>5 DEF BatchInv

\* A caller is queued behind the others, or turned away.
LEMMA CallInv ==
    ASSUME BatchInv, NEW c \in Callers, Call(c)
    PROVE  BatchInv'
<1> USE DEF BatchInv
<1>t. Types'
  <2>1. pc' \in [Callers -> Leading \cup {"idle", "waiting", "returned"}]
    BY Zenon DEF Call, Types
  <2>2. queue' \in Seq(Callers)
    <3>1. Append(queue, c) \in Seq(Callers)  BY DEF Types
    <3> QED  BY <3>1, Zenon DEF Call, Types
  <2> QED  BY <2>1, <2>2 DEF Call, Types
<1>p. \A d \in Callers : d # c => pc'[d] = pc[d]  BY DEF Call, Types
<1>c. pc[c] = "idle" /\ pc'[c] \in {"waiting", "returned"}  BY DEF Call, Types
<1>q. \A x \in Callers : In(x, queue') => In(x, queue) \/ (x = c /\ pc'[c] = "waiting")
  <2> SUFFICES ASSUME NEW x \in Callers, In(x, queue')
               PROVE  In(x, queue) \/ (x = c /\ pc'[c] = "waiting")
    OBVIOUS
  <2>1. CASE queue' = queue  BY <2>1
  <2>2. CASE queue' = Append(queue, c) /\ pc' = [pc EXCEPT ![c] = "waiting"]
    <3>1. PICK i \in 1 .. Len(queue') : queue'[i] = x  BY DEF In
    <3>2. /\ queue \in Seq(Callers) /\ Len(queue') = Len(queue) + 1
          /\ queue'[Len(queue) + 1] = c
          /\ \A j \in 1 .. Len(queue) : queue'[j] = queue[j]
      BY <2>2 DEF Types
    <3>3. CASE i \in 1 .. Len(queue)  BY <3>1, <3>2, <3>3 DEF In
    <3>4. CASE i = Len(queue) + 1  BY <2>2, <3>1, <3>2, <3>4 DEF Types
    <3> QED  BY <3>1, <3>2, <3>3, <3>4
  <2> QED  BY <2>1, <2>2 DEF Call
<1>d. Distinct(queue')
  <2>1. CASE queue' = queue  BY <2>1 DEF NotYet, Distinct
  <2>2. CASE queue' = Append(queue, c)
    <3>1. ~In(c, queue)  BY <1>c DEF NotYet
    <3>2. \A i \in 1 .. Len(queue) : queue[i] # c  BY <3>1 DEF In
    <3> QED  BY <2>2, <3>2 DEF Distinct, NotYet, Types
  <2> QED  BY <2>1, <2>2 DEF Call
<1>l. OneLeader'  BY <1>p, <1>c DEF OneLeader, Call, Leading
<1>n. NotYet'
  <2>1. \A d \in Callers : pc'[d] = "idle" =>
            ~In(d, queue') /\ ~In(d, batch') /\ executed'[d] = 0
    BY <1>p, <1>c, <1>q DEF NotYet, Call
  <2>2. \A d \in Callers : In(d, queue') => ~In(d, batch') /\ executed'[d] = 0
    BY <1>c, <1>q DEF NotYet, Call
  <2>3. Distinct(batch')  BY DEF NotYet, Call
  <2> QED  BY <1>d, <2>1, <2>2, <2>3 DEF NotYet
<1>s. Stages'  BY <1>p, <1>c DEF Stages, Call, Leading
<1>r. Results'  BY DEF Results, Call
<1> QED  BY <1>t, <1>l, <1>n, <1>s, <1>r

\* A caller returns, takes the lead, or gives it up without a batch.
LEMMA LeadInv ==
    ASSUME BatchInv, NEW c \in Callers, ReturnResult(c) \/ Lead(c) \/ CloseFails(c)
    PROVE  BatchInv'
<1> USE DEF BatchInv
<1>t. Types'
  <2>1. pc' \in [Callers -> Leading \cup {"idle", "waiting", "returned"}]
    BY DEF ReturnResult, Lead, CloseFails, Types, Leading
  <2>2. queue' \in Seq(Callers)  BY NoCallers, Zenon DEF ReturnResult, Lead, CloseFails, Types
  <2>3. running' \in BOOLEAN  BY Zenon DEF ReturnResult, Lead, CloseFails, Types
  <2> QED  BY <2>1, <2>2, <2>3 DEF ReturnResult, Lead, CloseFails, Types
<1>p. \A d \in Callers : d # c => pc'[d] = pc[d]  BY DEF ReturnResult, Lead, CloseFails, Types
<1>c. /\ pc'[c] # "idle" /\ UNCHANGED <<result, batch, results, executed>>
      /\ \A x : In(x, queue') => In(x, queue)
  BY DEF ReturnResult, Lead, CloseFails, Types, In
<1>d. Distinct(queue')  BY DEF ReturnResult, Lead, CloseFails, NotYet, Distinct
<1>n. NotYet'  BY <1>p, <1>c, <1>d DEF NotYet
<1>r. Results'  BY <1>c DEF Results
<1>1. CASE ReturnResult(c)
  <2>1. OneLeader'  BY <1>1, <1>p DEF OneLeader, ReturnResult, Leading, Types
  <2>2. Stages'  BY <1>1, <1>p DEF Stages, ReturnResult, Leading, Types
  <2> QED  BY <1>t, <1>n, <1>r, <2>1, <2>2
<1>2. CASE Lead(c)
  <2>1. \A d \in Callers : pc[d] \notin Leading  BY <1>2 DEF OneLeader, Lead
  <2>2. OneLeader'  BY <1>2, <1>p, <2>1 DEF OneLeader, Lead, Types
  <2>3. Stages'  BY <1>2, <1>p, <2>1 DEF Stages, Lead, Leading, Types
  <2> QED  BY <1>t, <1>n, <1>r, <2>2, <2>3
<1>3. CASE CloseFails(c)
  <2>1. \A d \in Callers : pc'[d] \notin Leading
    BY <1>3, <1>p DEF OneLeader, CloseFails, Leading, Types
  <2>2. OneLeader'  BY <2>1 DEF OneLeader
  <2>3. Stages'  BY <1>3, <2>1 DEF Stages, CloseFails, Leading
  <2> QED  BY <1>t, <1>n, <1>r, <2>2, <2>3
<1> QED  BY <1>1, <1>2, <1>3

\* The leader takes the oldest inputs: they leave the queue.
LEMMA CloseInv ==
    ASSUME BatchInv, NEW c \in Callers, Close(c)
    PROVE  BatchInv'
<1> USE DEF BatchInv
<1> DEFINE n == Least(Len(queue), Batch)
<1>0. n \in 0 .. Len(queue)  BY LimitsAssumption DEF Least, Types
<1>1. /\ batch' = SubSeq(queue, 1, n) /\ queue' = SubSeq(queue, n + 1, Len(queue))
      /\ pc[c] = "collecting" /\ pc' = [pc EXCEPT ![c] = "executing"]
      /\ UNCHANGED <<running, done, result, results, executed>>
  BY DEF Close
<1> HIDE DEF n
<1>2. queue \in Seq(Callers) /\ Distinct(queue)  BY DEF Types, NotYet
<1>3. /\ batch' \in Seq(Callers) /\ queue' \in Seq(Callers)
      /\ Distinct(batch') /\ Distinct(queue')
      /\ \A x : In(x, batch') => In(x, queue) /\ ~In(x, queue')
      /\ \A x : In(x, queue') => In(x, queue)
  BY <1>0, <1>1, <1>2, Split
<1>p. pc'[c] = "executing" /\ \A d \in Callers : d # c => pc'[d] = pc[d]
  BY <1>1 DEF Types
<1>t. Types'  BY <1>1, <1>3 DEF Types, Leading
<1>l. OneLeader'  BY <1>1, <1>p DEF OneLeader, Leading
<1>n. NotYet'  BY <1>1, <1>3, <1>p DEF NotYet
<1>s. Stages'
  <2>1. \A d \in Callers : d # c => pc'[d] \notin Leading
    BY <1>1, <1>p DEF OneLeader, Leading
  <2>2. \A x \in Callers : In(x, batch') => executed'[x] = 0
    BY <1>1, <1>3 DEF NotYet
  <2> QED  BY <1>p, <2>1, <2>2 DEF Stages, Leading
<1>r. Results'  BY <1>1 DEF Results
<1> QED  BY <1>t, <1>l, <1>n, <1>s, <1>r

\* The batch is executed, once, or fails before it is.
LEMMA ExecuteInv ==
    ASSUME BatchInv, NEW c \in Callers, Execute(c)
    PROVE  BatchInv'
<1> USE DEF BatchInv
<1> DEFINE once == [x \in Callers |-> IF In(x, batch) THEN 1 ELSE executed[x]]
<1>0. batch \in Seq(Callers) /\ Distinct(batch)  BY DEF Types, NotYet
<1>1. /\ pc[c] = "executing" /\ pc' = [pc EXCEPT ![c] = "completing"]
      /\ UNCHANGED <<queue, running, done, result, batch>>
      /\ results' \in {batch, <<>>}
  BY DEF Execute
<1>2. \A x \in Callers : In(x, batch) => executed[x] = 0  BY <1>1 DEF Stages
<1>3. \A x \in Callers : executed[x] + Cardinality({i \in 1 .. Len(batch) : batch[i] = x})
                          = once[x]
  <2> TAKE x \in Callers
  <2>1. Cardinality({i \in 1 .. Len(batch) : batch[i] = x}) = IF In(x, batch) THEN 1 ELSE 0
    BY <1>0, CountOnce
  <2> QED  BY <1>2, <2>1 DEF Types
<1>4. executed' = once \/ (results' # batch /\ executed' = executed)
  <2>1. [x \in Callers |-> executed[x] + Cardinality({i \in 1 .. Len(batch) : batch[i] = x})]
        = once
    BY <1>3
  <2> QED  BY <2>1, Zenon DEF Execute
<1>5. once \in [Callers -> Nat]  BY DEF Types
<1>6. \A x \in Callers : once[x] = IF In(x, batch) THEN 1 ELSE executed[x]  OBVIOUS
<1> HIDE DEF once
<1>p. pc'[c] = "completing" /\ \A d \in Callers : d # c => pc'[d] = pc[d]
  BY <1>1 DEF Types
<1>o. \A d \in Callers : d # c => pc'[d] \notin Leading
  BY <1>1, <1>p DEF OneLeader, Leading
<1>t. Types'
  <2>1. pc' \in [Callers -> Leading \cup {"idle", "waiting", "returned"}]
    BY <1>1 DEF Types, Leading
  <2>2. executed' \in [Callers -> Nat]  BY <1>4, <1>5 DEF Types
  <2> QED  BY <1>1, <2>1, <2>2 DEF Types
<1>l. OneLeader'  BY <1>1, <1>p DEF OneLeader, Leading
<1>n. NotYet'  BY <1>1, <1>4, <1>6, <1>p DEF NotYet
<1>s. Stages'  BY <1>1, <1>4, <1>6, <1>p, <1>o DEF Stages, Leading
<1>r. Results'
  <2> SUFFICES ASSUME NEW x \in Callers
               PROVE  /\ executed'[x] <= 1
                      /\ result'[x] # Failure => result'[x] = x /\ executed'[x] = 1
    BY DEF Results
  <2>1. CASE executed' = executed  BY <1>1, <2>1 DEF Results
  <2>2. CASE executed' = once  BY <1>1, <1>2, <1>6, <2>2 DEF Results
  <2> QED  BY <1>4, <2>1, <2>2
<1> QED  BY <1>t, <1>l, <1>n, <1>s, <1>r

\* The results are handed out, and the lead is given up.
LEMMA CompleteInv ==
    ASSUME BatchInv, NEW c \in Callers, Complete(c)
    PROVE  BatchInv'
<1> USE DEF BatchInv
<1>1. /\ pc[c] = "completing" /\ pc' = [pc EXCEPT ![c] = "waiting"]
      /\ running' = FALSE /\ batch' = <<>> /\ results' = <<>>
      /\ UNCHANGED <<queue, executed>>
  BY DEF Complete
<1>2. results = <<>> \/ (results = batch /\ \A x \in Callers : In(x, batch) => executed[x] = 1)
  BY <1>1 DEF Stages
<1>3. \A x \in Callers : result'[x] = result[x] \/ (result'[x] = x /\ executed[x] = 1)
  <2> TAKE x \in Callers
  <2>1. CASE Len(results) = Len(batch) /\ \E i \in 1 .. Len(batch) : batch[i] = x
    <3> DEFINE k == CHOOSE i \in 1 .. Len(batch) : batch[i] = x
    <3>1. k \in 1 .. Len(batch) /\ batch[k] = x  BY <2>1
    <3>2. result'[x] = results[k]  BY <2>1 DEF Complete
    <3> HIDE DEF k
    <3>3. results # <<>>  BY <2>1, <3>1 DEF Types
    <3>4. In(x, batch)  BY <3>1 DEF In
    <3> QED  BY <1>2, <3>1, <3>2, <3>3, <3>4
  <2>2. CASE ~(Len(results) = Len(batch) /\ \E i \in 1 .. Len(batch) : batch[i] = x)
    BY <2>2 DEF Complete
  <2> QED  BY <2>1, <2>2
<1>4. DOMAIN result' = Callers /\ result' = [x \in Callers |-> result'[x]]
  BY DEF Complete
<1>p. pc'[c] = "waiting" /\ \A d \in Callers : d # c => pc'[d] = pc[d]
  BY <1>1 DEF Types
<1>o. \A d \in Callers : pc'[d] \notin Leading
  BY <1>1, <1>p DEF OneLeader, Leading
<1>t. Types'
  <2>1. pc' \in [Callers -> Leading \cup {"idle", "waiting", "returned"}]
    BY <1>1 DEF Types
  <2>2. \A x \in Callers : result'[x] \in Callers \cup {Failure}  BY <1>3, Zenon DEF Types
  <2>3. result' \in [Callers -> Callers \cup {Failure}]  BY <1>4, <2>2
  <2> QED  BY <1>1, <2>1, <2>3, NoCallers, Zenon DEF Types
<1>l. OneLeader'  BY <1>o DEF OneLeader
<1>e. \A x : ~In(x, batch')  BY <1>1 DEF In
<1>n. NotYet'
  <2>1. Distinct(batch')  BY <1>1 DEF Distinct
  <2> QED  BY <1>1, <1>p, <1>e, <2>1 DEF NotYet
<1>s. Stages'  BY <1>1, <1>o DEF Stages, Leading
<1>r. Results'  BY <1>1, <1>3 DEF Results
<1> QED  BY <1>t, <1>l, <1>n, <1>s, <1>r

\* BoundedCallerBatch::Run: for any set of callers and any limits, a caller
\* that gets a result gets its own, of an input that was executed, and no
\* input is executed twice, however execute ends and whoever leads.
THEOREM CallerGetsOwnResult == CallerSpec => []OwnResult
<1>1. CallerInit => BatchInv  BY BatchInit
<1>2. BatchInv /\ [CallerNext]_callerVars => BatchInv'
  <2> SUFFICES ASSUME BatchInv, [CallerNext]_callerVars PROVE BatchInv'  OBVIOUS
  <2>1. CASE UNCHANGED callerVars
    BY <2>1 DEF callerVars, BatchInv, Types, OneLeader, NotYet, Stages, Results
  <2>2. CASE CallerNext
    <3>1. PICK c \in Callers : Call(c) \/ CallerStep(c)  BY <2>2 DEF CallerNext
    <3> QED  BY <3>1, CallInv, LeadInv, CloseInv, ExecuteInv, CompleteInv DEF CallerStep
  <2> QED  BY <2>1, <2>2
<1>3. BatchInv => OwnResult  BY DEF BatchInv, Results, OwnResult, Types
<1> QED  BY <1>1, <1>2, <1>3, PTL DEF CallerSpec
=============================================================================
