-------------------------- MODULE GroupFanoutProofs --------------------------
(***************************************************************************)
(* GroupFanout for any number of Gateways, messages and lease tokens, any  *)
(* batch size and any scene: a row says DELIVERED only for a message that  *)
(* the recipient has, and a live lease is taken from its holder by nobody. *)
(***************************************************************************)
EXTENDS GroupFanout, TLAPS

Rows ==
    [status : {"pending", "deferred", "absent", "delivered"}, token : Tokens \cup {NoToken},
     lease : {"none", "live", "expired"}, due : BOOLEAN]

Items ==
    [message : Messages, token : Tokens, route : {"none", "offline", "local"} \cup Gateways,
     result : {"none", "offline", "failed", "submitted"}]

\* A delivered row is nobody's.
RowInv ==
    /\ row \in [Messages -> Rows]
    /\ \A m \in Messages :
          row[m].status = "delivered" => row[m].token = NoToken /\ row[m].lease = "none"

\* What the iteration of g has claimed.
BatchType(batch) ==
    /\ DOMAIN batch \subseteq Messages
    /\ batch = [m \in DOMAIN batch |-> batch[m]]
    /\ \A m \in DOMAIN batch : batch[m] \in Items /\ batch[m].message = m

\* A claim of a message has one holder: an iteration, or a completion that is
\* still to be applied.
HolderInv ==
    /\ online \in Gateways \cup {Nowhere}
    /\ co = [g \in Gateways |-> co[g]]
    /\ \A g \in Gateways : BatchType(co[g])
    /\ late \subseteq Items
    /\ \A g, h \in Gateways : \A m \in DOMAIN co[g] :
          m \in DOMAIN co[h] /\ co[g][m].token = co[h][m].token => g = h
    /\ \A g \in Gateways : \A c \in late :
          c.message \in DOMAIN co[g] => co[g][c.message].token # c.token
    /\ \A c, d \in late : c.message = d.message /\ c.token = d.token => c = d

\* Every ACK and every confirmation is one of a message that the client has.
AckInv ==
    /\ tracker \in [Gateways -> [Messages -> {"none", "waiting", "confirmed"}]]
    /\ acks \subseteq Gateways \X received \X {"check", "confirm"}
    /\ \A g \in Gateways, m \in Messages : tracker[g][m] = "confirmed" => m \in received

FanoutInv == RowInv /\ HolderInv /\ AckInv /\ GroupDeliveredTrue

-----------------------------------------------------------------------------
(* What a step may do to a row.                                            *)

\* The updates of a row.
LEMMA RowUpdates ==
    ASSUME NEW r \in Rows
    PROVE  /\ \A t \in Tokens :
                 LET u == [r EXCEPT !.token = t, !.lease = "live"] IN
                 u \in Rows /\ u.status = r.status /\ u.token = t /\ u.lease = "live"
           /\ LET u == [r EXCEPT !.due = TRUE] IN
              u \in Rows /\ u.status = r.status /\ u.token = r.token /\ u.lease = r.lease
           /\ LET u == [r EXCEPT !.lease = "expired"] IN
              u \in Rows /\ u.status = r.status /\ u.token = r.token /\ u.lease = "expired"
<1>1. \A t \in Tokens :
         LET u == [r EXCEPT !.token = t, !.lease = "live"] IN
         u \in Rows /\ u.status = r.status /\ u.token = t /\ u.lease = "live"
  BY Zenon DEF Rows
<1>3. LET u == [r EXCEPT !.due = TRUE] IN
      u \in Rows /\ u.status = r.status /\ u.token = r.token /\ u.lease = r.lease
  BY Zenon DEF Rows
<1>4. LET u == [r EXCEPT !.lease = "expired"] IN
      u \in Rows /\ u.status = r.status /\ u.token = r.token /\ u.lease = "expired"
  BY DEF Rows
<1> QED  BY <1>1, <1>3, <1>4, Zenon

\* A row is confirmed.
LEMMA ConfirmedRow ==
    ASSUME NEW r \in Rows
    PROVE  /\ Confirmed(r) \in Rows /\ Confirmed(r).status = "delivered"
           /\ Confirmed(r).token = NoToken /\ Confirmed(r).lease = "none"
  BY Zenon DEF Rows, Confirmed

\* Confirming a delivered row again changes nothing.
LEMMA ConfirmedAgain ==
    ASSUME NEW r \in Rows, r.status = "delivered", r.token = NoToken, r.lease = "none"
    PROVE  Confirmed(r) = r
<1>1. r = [status |-> r.status, token |-> r.token, lease |-> r.lease, due |-> r.due]
  BY DEF Rows
<1>2. Confirmed(r) = [status |-> "delivered", token |-> NoToken, lease |-> "none", due |-> r.due]
  BY Zenon DEF Rows, Confirmed
<1> QED  BY <1>1, <1>2

\* A completion: under the fence, or none.
LEMMA CompletedRow ==
    ASSUME NEW r \in Rows, NEW c
    PROVE  \/ Completed(r, c) = r
           \/ /\ r.status = "pending" /\ r.token = c.token
              /\ Completed(r, c) \in Rows
              /\ Completed(r, c).status \in {"pending", "deferred"}
              /\ Completed(r, c).token = NoToken /\ Completed(r, c).lease = "none"
<1> DEFINE s == IF c.result = "offline" THEN "deferred" ELSE "pending"
           b == c.result = "offline"
           u == [status |-> s, token |-> NoToken, lease |-> "none", due |-> b]
<1>1. s \in {"pending", "deferred"} /\ b \in BOOLEAN
  OBVIOUS
<1>2. r.status = "pending" /\ r.token = c.token => Completed(r, c) = u
  BY DEF Completed
<1>3. ~(r.status = "pending" /\ r.token = c.token) => Completed(r, c) = r
  BY DEF Completed
<1> HIDE DEF s, b
<1>4. u \in Rows /\ u.status = s /\ u.token = NoToken /\ u.lease = "none"
  BY <1>1 DEF Rows
<1> QED  BY <1>1, <1>2, <1>3, <1>4

\* The holder of the claim t of m gives it up.
GivesUp(m, t) ==
    /\ Holding(m, t)
    /\ \A g \in Gateways : m \in DOMAIN co'[g] => co'[g][m].token # t
    /\ \A c \in late' : c.message = m => c.token # t

\* What a step may do to the row of m.
RowMoves(m) ==
    \/ row'[m] = row[m]
    \/ \* a claim
       /\ row[m].status \in {"pending", "deferred"} /\ row[m].lease # "live"
       /\ row'[m].status = row[m].status
    \/ \* the completion of the claim that has the row
       /\ row[m].status = "pending" /\ row'[m].status \in {"pending", "deferred"}
       /\ \E t \in {row[m].token} : GivesUp(m, t)
    \/ \* a confirmation
       /\ m \in received /\ row'[m].status = "delivered"
       /\ row'[m].token = NoToken /\ row'[m].lease = "none"
       /\ row[m].status # "delivered"
    \/ \* time passes
       /\ row[m].status # "delivered"
       /\ row'[m].status = row[m].status /\ row'[m].token = row[m].token

RowsMove == row' \in [Messages -> Rows] /\ \A m \in Messages : RowMoves(m)

\* Tokens of a claim are new.
LEMMA NewTokens ==
    ASSUME NEW S, TokensLeft(S), NEW m \in S
    PROVE  NewToken(m) \in Tokens /\ NewToken(m) \notin TokensInUse(m)
  BY DEF TokensLeft, NewToken

\* A claim of rows that nobody has.
LEMMA ClaimMoves ==
    ASSUME RowInv, NEW st \in {"pending", "deferred"}, NEW S \in SUBSET Messages,
           \A m \in S : Claimable(m, st), TokensLeft(S), row' = Claimed(S)
    PROVE  RowsMove
<1>1. ASSUME NEW m \in Messages PROVE row'[m] \in Rows /\ RowMoves(m)
  <2>0. row[m] \in Rows
    BY DEF RowInv
  <2>1. CASE m \in S
    <3> DEFINE u == [row[m] EXCEPT !.token = NewToken(m), !.lease = "live"]
    <3>1. row'[m] = u
      BY <2>1, Zenon DEF Claimed
    <3>2. u \in Rows /\ u.status = row[m].status
      <4>1. NewToken(m) \in Tokens
        BY <2>1, NewTokens
      <4> QED  BY <2>0, <4>1, RowUpdates, Zenon
    <3> HIDE DEF u
    <3> QED  BY <2>1, <3>1, <3>2, Zenon DEF RowMoves, Claimable
  <2>2. CASE m \notin S
    BY <2>0, <2>2, Zenon DEF Claimed, RowMoves
  <2> QED  BY <2>1, <2>2
<1>2. row' = [m \in Messages |-> row'[m]]
  BY Zenon DEF Claimed
<1> QED  BY <1>1, <1>2 DEF RowsMove

\* Completions of claims whose holders give them up.
LEMMA CompleteMoves ==
    ASSUME RowInv, NEW S \in SUBSET Messages, NEW items, row' = CompletedAll(items, S),
           \A m \in S : GivesUp(m, items[m].token)
    PROVE  RowsMove
<1>1. ASSUME NEW m \in Messages PROVE row'[m] \in Rows /\ RowMoves(m)
  <2>0. row[m] \in Rows
    BY DEF RowInv
  <2>1. CASE m \in S
    <3>1. row'[m] = Completed(row[m], items[m])
      BY <2>1 DEF CompletedAll
    <3>2. CASE row'[m] = row[m]
      BY <2>0, <3>2 DEF RowMoves
    <3>3. CASE row'[m] # row[m]
      <4>1. /\ row[m].status = "pending" /\ row[m].token = items[m].token
            /\ row'[m] \in Rows /\ row'[m].status \in {"pending", "deferred"}
        BY <2>0, <3>1, <3>3, CompletedRow
      <4>2. GivesUp(m, items[m].token)
        BY <2>1
      <4>3. \E t \in {row[m].token} : GivesUp(m, t)
        <5>1. items[m].token \in {row[m].token}
          BY <4>1
        <5> QED  BY <4>2, <5>1, Zenon DEF GivesUp
      <4> QED  BY <4>1, <4>3 DEF RowMoves
    <3> QED  BY <3>2, <3>3
  <2>2. CASE m \notin S
    BY <2>0, <2>2 DEF CompletedAll, RowMoves
  <2> QED  BY <2>1, <2>2
<1>2. row' = [m \in Messages |-> row'[m]]
  BY DEF CompletedAll
<1> QED  BY <1>1, <1>2 DEF RowsMove

\* One row, of a message that the recipient has, is confirmed.
LEMMA ConfirmMoves ==
    ASSUME RowInv, NEW k \in received, row' = [row EXCEPT ![k] = Confirmed(row[k])]
    PROVE  RowsMove
<1>1. ASSUME NEW m \in Messages PROVE row'[m] \in Rows /\ RowMoves(m)
  <2>0. row[m] \in Rows
    BY DEF RowInv
  <2>1. CASE m = k
    <3>1. row'[m] = Confirmed(row[m])
      BY <2>1 DEF RowInv
    <3>2. CASE row[m].status = "delivered"
      <4>1. row[m].token = NoToken /\ row[m].lease = "none"
        BY <3>2 DEF RowInv
      <4>2. row'[m] = row[m]
        BY <2>0, <3>1, <3>2, <4>1, ConfirmedAgain
      <4> QED  BY <2>0, <4>2 DEF RowMoves
    <3>3. CASE row[m].status # "delivered"
      <4>1. /\ row'[m] \in Rows /\ row'[m].status = "delivered" /\ row'[m].token = NoToken
            /\ row'[m].lease = "none"
        BY <2>0, <3>1, ConfirmedRow
      <4> QED  BY <2>1, <3>3, <4>1 DEF RowMoves
    <3> QED  BY <3>2, <3>3
  <2>2. CASE m # k
    BY <2>0, <2>2 DEF RowMoves, RowInv
  <2> QED  BY <2>1, <2>2
<1>2. row' = [m \in Messages |-> row'[m]]
  BY Zenon DEF RowInv
<1> QED  BY <1>1, <1>2, Zenon DEF RowsMove

\* A retry time or a lease passes.
LEMMA TimeMoves ==
    ASSUME RowInv, NEW k \in Messages,
           \/ row' = [row EXCEPT ![k].due = TRUE] /\ row[k].status = "pending"
           \/ row' = [row EXCEPT ![k].lease = "expired"] /\ row[k].lease = "live"
    PROVE  RowsMove
<1> DEFINE u == [row[k] EXCEPT !.due = TRUE]
           v == [row[k] EXCEPT !.lease = "expired"]
<1>0. row[k] \in Rows
  BY DEF RowInv
<1>1. /\ u \in Rows /\ u.status = row[k].status /\ u.token = row[k].token
      /\ v \in Rows /\ v.status = row[k].status /\ v.token = row[k].token
  BY <1>0, RowUpdates, Zenon
<1>2. row[k].status # "delivered"
  BY DEF RowInv
<1>3. row' = [row EXCEPT ![k] = u] \/ row' = [row EXCEPT ![k] = v]
  OBVIOUS
<1> HIDE DEF u, v
<1> QED  BY <1>0, <1>1, <1>2, <1>3 DEF RowInv, RowsMove, RowMoves

\* A row that is left alone.
LEMMA SameMoves ==
    ASSUME RowInv, row' = row
    PROVE  RowsMove
  BY DEF RowInv, RowsMove, RowMoves

-----------------------------------------------------------------------------
(* The holders.                                                            *)

\* What a step may do to the iterations: one of them claims, goes on with what
\* it has, or drops a part.
BatchClaims(g) ==
    \E S \in SUBSET Messages :
        /\ DOMAIN co[g] = {} /\ TokensLeft(S) /\ co' = [co EXCEPT ![g] = Work(S)] /\ late' = late

BatchGoesOn(g) ==
    \E f : /\ co' = [co EXCEPT ![g] = f] /\ late' = late
           /\ BatchType(f) /\ DOMAIN f \subseteq DOMAIN co[g]
           /\ \A m \in DOMAIN f : f[m].token = co[g][m].token

\* New claims have new tokens.
LEMMA ClaimHolders ==
    ASSUME HolderInv, NEW g \in Gateways, BatchClaims(g), online' \in Gateways \cup {Nowhere}
    PROVE  HolderInv'
<1>1. PICK S \in SUBSET Messages :
         DOMAIN co[g] = {} /\ TokensLeft(S) /\ co' = [co EXCEPT ![g] = Work(S)] /\ late' = late
  BY Zenon DEF BatchClaims
<1>2. co'[g] = Work(S) /\ \A h \in Gateways \ {g} : co'[h] = co[h]
  BY <1>1 DEF HolderInv
<1>3. DOMAIN Work(S) = S /\ \A m \in S : /\ Work(S)[m].message = m /\ Work(S)[m].token = NewToken(m)
                                         /\ Work(S)[m] \in Items
  <2>1. \A m \in S : NewToken(m) \in Tokens
    BY <1>1, NewTokens
  <2> QED  BY <2>1 DEF Work, Items
<1>4. \A m \in S : /\ \A h \in Gateways : m \in DOMAIN co[h] => co[h][m].token # NewToken(m)
                   /\ \A c \in late : c.message = m => c.token # NewToken(m)
  BY <1>1, NewTokens DEF TokensInUse
<1>5. \A h \in Gateways : BatchType(co'[h])
  BY <1>2, <1>3 DEF HolderInv, BatchType, Work
<1>6. co' = [h \in Gateways |-> co'[h]]
  BY <1>1 DEF HolderInv
<1>7. \A h, k \in Gateways : \A m \in DOMAIN co'[h] :
         m \in DOMAIN co'[k] /\ co'[h][m].token = co'[k][m].token => h = k
  BY <1>2, <1>3, <1>4 DEF HolderInv
<1>8. \A h \in Gateways : \A c \in late' :
         c.message \in DOMAIN co'[h] => co'[h][c.message].token # c.token
  BY <1>1, <1>2, <1>3, <1>4 DEF HolderInv
<1> QED  BY <1>1, <1>5, <1>6, <1>7, <1>8, Zenon DEF HolderInv, BatchType

\* An iteration that goes on holds no claim that it has not held.
LEMMA GoOnHolders ==
    ASSUME HolderInv, NEW g \in Gateways, BatchGoesOn(g), online' \in Gateways \cup {Nowhere}
    PROVE  HolderInv'
<1>1. PICK f : /\ co' = [co EXCEPT ![g] = f] /\ late' = late
               /\ BatchType(f) /\ DOMAIN f \subseteq DOMAIN co[g]
               /\ \A m \in DOMAIN f : f[m].token = co[g][m].token
  BY Zenon DEF BatchGoesOn
<1>2. co'[g] = f /\ \A h \in Gateways \ {g} : co'[h] = co[h]
  BY <1>1 DEF HolderInv
<1>3. \A h \in Gateways : BatchType(co'[h])
  BY <1>1, <1>2 DEF HolderInv
<1>4. co' = [h \in Gateways |-> co'[h]]
  BY <1>1 DEF HolderInv
<1>5. \A h \in Gateways : /\ DOMAIN co'[h] \subseteq DOMAIN co[h]
                          /\ \A m \in DOMAIN co'[h] : co'[h][m].token = co[h][m].token
  BY <1>1, <1>2
<1>6. \A h, k \in Gateways : \A m \in DOMAIN co'[h] :
         m \in DOMAIN co'[k] /\ co'[h][m].token = co'[k][m].token => h = k
  BY <1>5 DEF HolderInv
<1>7. \A h \in Gateways : \A c \in late' :
         c.message \in DOMAIN co'[h] => co'[h][c.message].token # c.token
  BY <1>1, <1>5 DEF HolderInv
<1> QED  BY <1>1, <1>3, <1>4, <1>6, <1>7 DEF HolderInv, BatchType

\* Part of what g holds goes, at once or into late completions.
LEMMA CompleteHolders ==
    ASSUME HolderInv, NEW g \in Gateways, NEW S \in SUBSET DOMAIN co[g],
           co' = [co EXCEPT ![g] = [m \in DOMAIN co[g] \ S |-> co[g][m]]],
           late' = late \/ late' = late \cup {co[g][m] : m \in S},
           online' = online
    PROVE  /\ HolderInv'
           /\ late' = late => \A m \in S : GivesUp(m, co[g][m].token)
<1>1. /\ co'[g] = [m \in DOMAIN co[g] \ S |-> co[g][m]]
      /\ \A h \in Gateways \ {g} : co'[h] = co[h]
  BY DEF HolderInv
<1>2. DOMAIN co'[g] = DOMAIN co[g] \ S /\ \A m \in DOMAIN co'[g] : co'[g][m] = co[g][m]
  BY <1>1
<1>3. \A h \in Gateways : /\ DOMAIN co'[h] \subseteq DOMAIN co[h]
                          /\ \A m \in DOMAIN co'[h] : co'[h][m] = co[h][m]
  BY <1>1, <1>2
<1>4. \A m \in S : co[g][m] \in Items /\ co[g][m].message = m
  BY DEF HolderInv, BatchType
<1>5. \A h \in Gateways : BatchType(co'[h])
  <2>1. BatchType(co[g])
    BY DEF HolderInv
  <2>2. co'[g] = [m \in DOMAIN co'[g] |-> co'[g][m]]
    BY <1>1, <1>2
  <2>3. BatchType(co'[g])
    BY <1>2, <2>1, <2>2 DEF BatchType
  <2> QED  BY <1>1, <2>3 DEF HolderInv
<1>6. co' = [h \in Gateways |-> co'[h]]
  BY DEF HolderInv
<1>7. \A h, k \in Gateways : \A m \in DOMAIN co'[h] :
         m \in DOMAIN co'[k] /\ co'[h][m].token = co'[k][m].token => h = k
  BY <1>3 DEF HolderInv
<1>8. \A c \in late' : c \in late \/ (\E m \in S : c = co[g][m])
  OBVIOUS
<1>9. \A h \in Gateways : \A c \in late' :
         c.message \in DOMAIN co'[h] => co'[h][c.message].token # c.token
  <2> SUFFICES ASSUME NEW h \in Gateways, NEW c \in late', c.message \in DOMAIN co'[h]
               PROVE  co'[h][c.message].token # c.token
    BY Zenon
  <2>1. CASE c \in late
    BY <1>3, <2>1 DEF HolderInv
  <2>2. ASSUME NEW m \in S, c = co[g][m] PROVE co'[h][c.message].token # c.token
    <3>1. c.message = m /\ h # g
      BY <1>2, <1>4, <2>2
    <3> QED  BY <1>1, <2>2, <3>1 DEF HolderInv
  <2> QED  BY <1>8, <2>1, <2>2
<1>10. \A c, d \in late' : c.message = d.message /\ c.token = d.token => c = d
  <2> SUFFICES ASSUME NEW c \in late', NEW d \in late', c.message = d.message, c.token = d.token
               PROVE  c = d
    OBVIOUS
  <2>1. CASE c \in late /\ d \in late
    BY <2>1 DEF HolderInv
  <2>2. ASSUME NEW m \in S, c = co[g][m], d \in late PROVE FALSE
    BY <1>4, <2>2 DEF HolderInv
  <2>3. ASSUME NEW m \in S, d = co[g][m], c \in late PROVE FALSE
    BY <1>4, <2>3 DEF HolderInv
  <2>4. ASSUME NEW m \in S, c = co[g][m], NEW n \in S, d = co[g][n] PROVE c = d
    BY <1>4, <2>4
  <2> QED  BY <1>8, <2>1, <2>2, <2>3, <2>4
<1>11. late' \subseteq Items
  BY <1>4, <1>8 DEF HolderInv
<1>12. HolderInv'
  BY <1>5, <1>6, <1>7, <1>9, <1>10, <1>11, Zenon DEF HolderInv, BatchType
<1>13. ASSUME late' = late, NEW m \in S PROVE GivesUp(m, co[g][m].token)
  <2> DEFINE t == co[g][m].token
  <2>1. Holding(m, t)
    BY DEF Holding
  <2>2. m \notin DOMAIN co'[g]
    BY <1>2
  <2>3. \A h \in Gateways : m \in DOMAIN co'[h] => co'[h][m].token # t
    BY <1>1, <2>2 DEF HolderInv
  <2>4. \A c \in late' : c.message = m => c.token # t
    BY <1>13 DEF HolderInv
  <2> QED  BY <2>1, <2>3, <2>4 DEF GivesUp
<1> QED  BY <1>12, <1>13

\* A late completion is applied.
LEMMA LateHolders ==
    ASSUME HolderInv, NEW c \in late, late' = late \ {c}, co' = co, online' = online
    PROVE  HolderInv' /\ GivesUp(c.message, c.token)
<1>1. HolderInv'
  BY DEF HolderInv, BatchType
<1>2. GivesUp(c.message, c.token)
  BY DEF GivesUp, Holding, HolderInv
<1> QED  BY <1>1, <1>2

\* The holders are left alone.
LEMMA SameHolders ==
    ASSUME HolderInv, co' = co, late' = late, online' \in Gateways \cup {Nowhere}
    PROVE  HolderInv'
  BY DEF HolderInv, BatchType

\* Routing and dispatching change neither the message nor the token of an item.
LEMMA ItemUpdates ==
    ASSUME NEW i \in Items, NEW x \in {"none", "offline", "local"} \cup Gateways,
           NEW r \in {"none", "offline", "failed", "submitted"}
    PROVE  /\ [i EXCEPT !.route = x] \in Items /\ [i EXCEPT !.result = r] \in Items
           /\ [i EXCEPT !.route = x].message = i.message /\ [i EXCEPT !.route = x].token = i.token
           /\ [i EXCEPT !.result = r].message = i.message /\ [i EXCEPT !.result = r].token = i.token
  BY DEF Items

\* So an iteration that reads routes still holds what it held.
LEMMA ResolveHolders ==
    ASSUME HolderInv, NEW g \in Gateways, ResolveRoute(g)
    PROVE  HolderInv'
<1> DEFINE f == [m \in DOMAIN co[g] |->
                    IF m = Current(g) \/ scene.route_batch
                    THEN [co[g][m] EXCEPT !.route = Route(g)] ELSE co[g][m]]
<1>1. co' = [co EXCEPT ![g] = f] /\ late' = late /\ online' = online
  BY DEF ResolveRoute, sessionVars
<1>2. Route(g) \in {"none", "offline", "local"} \cup Gateways
  BY DEF Route, HolderInv
<1>4. /\ DOMAIN f = DOMAIN co[g]
      /\ \A m \in DOMAIN co[g] : \/ f[m] = co[g][m]
                                 \/ f[m] = [co[g][m] EXCEPT !.route = Route(g)]
  OBVIOUS
<1>5. f = [m \in DOMAIN f |-> f[m]]
  OBVIOUS
<1> HIDE DEF f
<1>6. /\ DOMAIN co[g] \subseteq Messages
      /\ \A m \in DOMAIN co[g] : co[g][m] \in Items /\ co[g][m].message = m
  BY DEF HolderInv, BatchType
<1>7. \A m \in DOMAIN f : f[m] \in Items /\ f[m].message = m /\ f[m].token = co[g][m].token
  <2> SUFFICES ASSUME NEW m \in DOMAIN f
               PROVE  f[m] \in Items /\ f[m].message = m /\ f[m].token = co[g][m].token
    OBVIOUS
  <2> DEFINE i == co[g][m]
             u == [i EXCEPT !.route = Route(g)]
  <2>1. i \in Items /\ i.message = m
    BY <1>4, <1>6
  <2>2. u \in Items /\ u.message = i.message /\ u.token = i.token
    BY <1>2, <2>1, ItemUpdates, Zenon
  <2>3. f[m] = i \/ f[m] = u
    BY <1>4
  <2> HIDE DEF u
  <2> QED  BY <2>1, <2>2, <2>3
<1>8. BatchType(f)
  BY <1>4, <1>5, <1>6, <1>7 DEF BatchType
<1> QED  BY <1>1, <1>4, <1>7, <1>8, GoOnHolders, Zenon DEF BatchGoesOn, HolderInv

\* The same of one that dispatches.
LEMMA DispatchHolders ==
    ASSUME HolderInv, NEW g \in Gateways, Dispatch(g)
    PROVE  HolderInv'
<1>1. PICK r \in {"offline", "failed", "submitted"} : Dispatched(g, r)
  BY Zenon DEF Dispatch
<1> DEFINE k == Current(g)
           f == [co[g] EXCEPT ![k] = [co[g][k] EXCEPT !.result = r]]
<1>2. co' = [co EXCEPT ![g] = f] /\ late' = late /\ online' = online
  BY <1>1 DEF Dispatch, Dispatched, sessionVars
<1> HIDE DEF k
<1>4. /\ DOMAIN f = DOMAIN co[g]
      /\ \A m \in DOMAIN co[g] : \/ f[m] = co[g][m]
                                 \/ f[m] = [co[g][m] EXCEPT !.result = r]
  OBVIOUS
<1>5. f = [m \in DOMAIN f |-> f[m]]
  OBVIOUS
<1> HIDE DEF f
<1>6. /\ DOMAIN co[g] \subseteq Messages
      /\ \A m \in DOMAIN co[g] : co[g][m] \in Items /\ co[g][m].message = m
  BY DEF HolderInv, BatchType
<1>7. \A m \in DOMAIN f : f[m] \in Items /\ f[m].message = m /\ f[m].token = co[g][m].token
  <2> SUFFICES ASSUME NEW m \in DOMAIN f
               PROVE  f[m] \in Items /\ f[m].message = m /\ f[m].token = co[g][m].token
    OBVIOUS
  <2> DEFINE i == co[g][m]
             u == [i EXCEPT !.result = r]
  <2>1. i \in Items /\ i.message = m
    BY <1>4, <1>6
  <2>2. u \in Items /\ u.message = i.message /\ u.token = i.token
    BY <2>1, ItemUpdates, Zenon
  <2>3. f[m] = i \/ f[m] = u
    BY <1>4
  <2> HIDE DEF u
  <2> QED  BY <2>1, <2>2, <2>3
<1>8. BatchType(f)
  BY <1>4, <1>5, <1>6, <1>7 DEF BatchType
<1>9. BatchGoesOn(g)
  <2>1. DOMAIN f \subseteq DOMAIN co[g] /\ \A m \in DOMAIN f : f[m].token = co[g][m].token
    BY <1>4, <1>7
  <2> QED  BY <1>2, <1>8, <2>1, Zenon DEF BatchGoesOn
<1> QED  BY <1>2, <1>9, GoOnHolders, Zenon DEF HolderInv

\* A Gateway that dies holds nothing.
LEMMA CrashHolders ==
    ASSUME HolderInv, NEW g \in Gateways, GatewayCrash(g)
    PROVE  HolderInv'
<1> DEFINE f == [m \in {} |-> 0]
<1>1. co' = [co EXCEPT ![g] = f] /\ late' = late /\ online' = online
  BY DEF GatewayCrash
<1>2. DOMAIN f = {} /\ f = [m \in DOMAIN f |-> f[m]]
  OBVIOUS
<1> HIDE DEF f
<1>3. BatchType(f)
  BY <1>2 DEF BatchType
<1> QED  BY <1>1, <1>2, <1>3, GoOnHolders DEF BatchGoesOn, HolderInv

-----------------------------------------------------------------------------
(* The ACKs.                                                               *)

\* A submission makes a tracker wait, never confirm.
LEMMA SubmitAcks ==
    ASSUME AckInv, NEW g \in Gateways, NEW m, NEW timed, Submitted(g, m, timed)
    PROVE  /\ tracker' \in [Gateways -> [Messages -> {"none", "waiting", "confirmed"}]]
           /\ \A h \in Gateways, k \in Messages :
                 tracker'[h][k] = "confirmed" => tracker[h][k] = "confirmed"
<1>1. PICK v \in {"waiting", "confirmed"} :
         /\ tracker' = [tracker EXCEPT ![g] = [tracker[g] EXCEPT ![m] = v]]
         /\ v = "confirmed" => tracker[g][m] = "confirmed"
  BY Zenon DEF Submitted
<1>2. tracker \in [Gateways -> [Messages -> {"none", "waiting", "confirmed"}]]
  BY DEF AckInv
<1>3. tracker' \in [Gateways -> [Messages -> {"none", "waiting", "confirmed"}]]
  BY <1>1, <1>2, Zenon
<1>4. \A h \in Gateways, k \in Messages :
         tracker'[h][k] = "confirmed" => tracker[h][k] = "confirmed"
  BY <1>1, <1>2
<1> QED  BY <1>3, <1>4

\* Nothing is acknowledged or confirmed anew.
LEMMA KeepAcks ==
    ASSUME AckInv, acks' \subseteq acks, received' = received,
           tracker' \in [Gateways -> [Messages -> {"none", "waiting", "confirmed"}]],
           \A h \in Gateways, k \in Messages :
               tracker'[h][k] = "confirmed" => tracker[h][k] = "confirmed"
    PROVE  AckInv'
  BY DEF AckInv

\* Every step acknowledges and confirms only what the client has.
LEMMA AckStep == AckInv /\ FanoutNext => AckInv'
<1> SUFFICES ASSUME AckInv, FanoutNext PROVE AckInv'
  OBVIOUS
<1> USE DEF gatewayVars, sessionVars
<1>t. tracker \in [Gateways -> [Messages -> {"none", "waiting", "confirmed"}]]
  BY DEF AckInv
<1>k. ASSUME acks' \subseteq acks, UNCHANGED <<tracker, received>> PROVE AckInv'
  BY <1>t, <1>k, KeepAcks
<1>s. ASSUME NEW g \in Gateways, NEW m, NEW timed, Submitted(g, m, timed),
             UNCHANGED <<acks, received>>
      PROVE  AckInv'
  BY <1>s, SubmitAcks, KeepAcks
<1>1. ASSUME NEW g \in Gateways, Coordinate(g) PROVE AckInv'
  <2>1. CASE ClaimPending(g) \/ ResolveRoute(g) \/ Complete(g)
    BY <1>k, <2>1 DEF ClaimPending, ResolveRoute, Complete
  <2>2. CASE Dispatch(g)
    <3>1. /\ UNCHANGED <<acks, received>>
          /\ UNCHANGED tracker \/ \E m : Submitted(g, m, FALSE)
      BY <2>2, Zenon DEF Dispatch
    <3> QED  BY <1>k, <1>s, <3>1, Zenon
  <2> QED  BY <1>1, <2>1, <2>2 DEF Coordinate
<1>2. ASSUME NEW g \in Gateways, ReplayTask(g) PROVE AckInv'
  <2>1. CASE ReplayLook(g) \/ ReplayClaim(g)
    BY <1>k, <2>1 DEF ReplayLook, ReplayClaim
  <2>2. CASE ReplaySend(g)
    <3>1. /\ UNCHANGED <<acks, received>>
          /\ UNCHANGED tracker \/ \E m : Submitted(g, m, TRUE)
      BY <2>2, Zenon DEF ReplaySend
    <3> QED  BY <1>k, <1>s, <3>1, Zenon
  <2> QED  BY <1>2, <2>1, <2>2 DEF ReplayTask
<1>3. ASSUME NEW g \in Gateways, ProbeFires(g) \/ Login(g) \/ NoticeGone(g) PROVE AckInv'
  BY <1>k, <1>3 DEF ProbeFires, Login, NoticeGone
<1>4. ASSUME NEW g \in Gateways, GatewayCrash(g) PROVE AckInv'
  <2>1. /\ acks' \subseteq acks /\ received' = received
        /\ tracker' = [tracker EXCEPT ![g] = [m \in Messages |-> "none"]]
    BY <1>4 DEF GatewayCrash
  <2> QED  BY <1>t, <2>1, KeepAcks
<1>5. ASSUME NEW g \in Gateways, NEW m \in Messages, HandleForward(g, m) PROVE AckInv'
  <2>1. /\ UNCHANGED <<acks, received>>
        /\ UNCHANGED tracker \/ Submitted(g, m, FALSE)
    BY <1>5, Zenon DEF HandleForward
  <2> QED  BY <1>k, <1>s, <2>1, Zenon
<1>6. ASSUME NEW g \in Gateways, NEW m \in Messages, ForwardLost(g, m) \/ ConfirmAck(g, m)
      PROVE  AckInv'
  BY <1>k, <1>6 DEF ForwardLost, ConfirmAck
<1>7. ASSUME NEW g \in Gateways, NEW m \in Messages, ClientReceives(g, m) PROVE AckInv'
  BY <1>7 DEF ClientReceives, AckInv
<1>8. ASSUME NEW g \in Gateways, NEW m \in Messages, CheckAck(g, m) PROVE AckInv'
  <2>1. CASE acks' = acks \ {<<g, m, "check">>} /\ UNCHANGED tracker
    BY <1>8, <1>k, <2>1 DEF CheckAck
  <2>2. CASE /\ acks' = (acks \ {<<g, m, "check">>}) \cup {<<g, m, "confirm">>}
             /\ tracker' = [tracker EXCEPT ![g] = [tracker[g] EXCEPT ![m] = "confirmed"]]
    <3>1. m \in received /\ received' = received
      BY <1>8 DEF CheckAck, AckInv
    <3>2. tracker' \in [Gateways -> [Messages -> {"none", "waiting", "confirmed"}]]
      BY <1>t, <2>2
    <3>3. \A h \in Gateways, k \in Messages : tracker'[h][k] = "confirmed" => k \in received
      BY <1>t, <2>2, <3>1 DEF AckInv
    <3> QED  BY <2>2, <3>1, <3>2, <3>3 DEF AckInv
  <2> QED  BY <1>8, <2>1, <2>2 DEF CheckAck
<1>9. ASSUME NEW g \in Gateways, NEW m \in Messages, AckTimeout(g, m) PROVE AckInv'
  <2>1. /\ UNCHANGED <<acks, received>>
        /\ UNCHANGED tracker \/ Submitted(g, m, TRUE)
    BY <1>9, Zenon DEF AckTimeout
  <2> QED  BY <1>k, <1>s, <2>1, Zenon
<1>10. ASSUME NEW c \in late, LateCompletion(c) PROVE AckInv'
  BY <1>k, <1>10 DEF LateCompletion
<1>11. CASE Leave \/ RecordExpires
  BY <1>k, <1>11 DEF Leave, RecordExpires
<1>12. ASSUME NEW m \in Messages, BecomesDue(m) \/ RowLeaseExpires(m) PROVE AckInv'
  BY <1>k, <1>12 DEF BecomesDue, RowLeaseExpires
<1> QED
  BY <1>1, <1>2, <1>3, <1>4, <1>5, <1>6, <1>7, <1>8, <1>9, <1>10, <1>11, <1>12 DEF FanoutNext

-----------------------------------------------------------------------------
(* All together.                                                           *)

\* FirstOf chooses some of the set.
LEMMA FirstOfSome == ASSUME NEW S, NEW n PROVE FirstOf(S, n) \subseteq S
  BY DEF FirstOf

\* What every step does to the rows and to the holders.
LEMMA RowStep ==
    ASSUME RowInv, HolderInv, AckInv, FanoutNext
    PROVE  RowsMove /\ HolderInv'
<1> USE DEF gatewayVars, sessionVars, rowVars
<1>s. ASSUME UNCHANGED <<row, co, late, online>> PROVE RowsMove /\ HolderInv'
  BY <1>s, SameMoves, SameHolders DEF HolderInv
<1>1. ASSUME NEW g \in Gateways, ClaimPending(g) PROVE RowsMove /\ HolderInv'
  <2> DEFINE S == FirstOf({m \in Messages : Claimable(m, "pending")}, BatchSize)
  <2>1. /\ TokensLeft(S) /\ row' = Claimed(S) /\ DOMAIN co[g] = {}
        /\ co' = [co EXCEPT ![g] = Work(S)] \/ co' = co
        /\ late' = late /\ online' = online
    BY <1>1 DEF ClaimPending
  <2>2. S \in SUBSET Messages /\ \A m \in S : Claimable(m, "pending")
    BY FirstOfSome
  <2> HIDE DEF S
  <2>3. RowsMove
    BY <2>1, <2>2, ClaimMoves
  <2>4. HolderInv'
    <3>1. CASE co' = co
      BY <2>1, <3>1, SameHolders DEF HolderInv
    <3>2. CASE co' = [co EXCEPT ![g] = Work(S)]
      BY <2>1, <2>2, <3>2, ClaimHolders, Zenon DEF BatchClaims, HolderInv
    <3> QED  BY <2>1, <3>1, <3>2
  <2> QED  BY <2>3, <2>4
<1>2. ASSUME NEW g \in Gateways, ResolveRoute(g) \/ Dispatch(g) PROVE RowsMove /\ HolderInv'
  <2>1. row' = row
    BY <1>2, Zenon DEF ResolveRoute, Dispatch
  <2> QED  BY <1>2, <2>1, SameMoves, ResolveHolders, DispatchHolders
<1>3. ASSUME NEW g \in Gateways, Complete(g) PROVE RowsMove /\ HolderInv'
  <2>1. PICK S \in SUBSET DOMAIN co[g] :
           /\ co' = [co EXCEPT ![g] = [m \in DOMAIN co[g] \ S |-> co[g][m]]]
           /\ \/ row' = CompletedAll(co[g], S) /\ late' = late
              \/ row' = row /\ late' = late
              \/ row' = row /\ late' = late \cup {co[g][m] : m \in S}
           /\ online' = online
    <3> DEFINE S == IF scene.completion_batch THEN DOMAIN co[g] ELSE FirstOf(DOMAIN co[g], 1)
    <3>1. S \in SUBSET DOMAIN co[g]
      BY FirstOfSome
    <3>2. /\ co' = [co EXCEPT ![g] = [m \in DOMAIN co[g] \ S |-> co[g][m]]]
          /\ \/ row' = CompletedAll(co[g], S) /\ late' = late
             \/ row' = row /\ late' = late
             \/ row' = row /\ late' = late \cup {co[g][m] : m \in S}
          /\ online' = online
      BY <1>3 DEF Complete
    <3> HIDE DEF S
    <3> QED  BY <3>1, <3>2
  <2>2. HolderInv' /\ (late' = late => \A m \in S : GivesUp(m, co[g][m].token))
    BY <2>1, CompleteHolders, Zenon
  <2>3. S \in SUBSET Messages
    BY DEF HolderInv, BatchType
  <2>4. RowsMove
    <3>1. CASE row' = row
      BY <3>1, SameMoves
    <3>2. CASE row' = CompletedAll(co[g], S) /\ late' = late
      BY <2>2, <2>3, <3>2, CompleteMoves
    <3> QED  BY <2>1, <3>1, <3>2
  <2> QED  BY <2>2, <2>4
<1>4. ASSUME NEW g \in Gateways, ReplayLook(g) \/ ProbeFires(g) PROVE RowsMove /\ HolderInv'
  BY <1>4, <1>s DEF ReplayLook, ProbeFires
<1>5. ASSUME NEW g \in Gateways, ReplayClaim(g) PROVE RowsMove /\ HolderInv'
  <2> DEFINE S == {m \in Messages : Claimable(m, "deferred")}
  <2>1. /\ TokensLeft(S) /\ row' \in {row, Claimed(S)}
        /\ co' = co /\ late' = late /\ online' = online
    BY <1>5 DEF ReplayClaim
  <2>2. S \in SUBSET Messages /\ \A m \in S : Claimable(m, "deferred")
    OBVIOUS
  <2> HIDE DEF S
  <2>3. RowsMove
    BY <2>1, <2>2, ClaimMoves, SameMoves
  <2> QED  BY <2>1, <2>3, SameHolders DEF HolderInv
<1>6. ASSUME NEW g \in Gateways, ReplaySend(g) PROVE RowsMove /\ HolderInv'
  <2>1. /\ co' = co /\ late' = late /\ online' = online
        /\ \/ row' = row
           \/ \E m : tracker[g][m] = "confirmed" /\ row' = [row EXCEPT ![m] = Confirmed(row[m])]
    BY <1>6, Zenon DEF ReplaySend
  <2>2. ASSUME NEW m, tracker[g][m] = "confirmed", row' = [row EXCEPT ![m] = Confirmed(row[m])]
        PROVE  RowsMove
    <3>1. CASE m \in Messages
      BY <2>2, <3>1, ConfirmMoves, Zenon DEF AckInv
    <3>2. CASE m \notin Messages
      <4>1. row' = row
        BY <2>2, <3>2 DEF RowInv
      <4> QED  BY <4>1, SameMoves
    <3> QED  BY <3>1, <3>2
  <2> QED  BY <2>1, <2>2, SameMoves, SameHolders DEF HolderInv
<1>7. ASSUME NEW g \in Gateways, Login(g) \/ NoticeGone(g) PROVE RowsMove /\ HolderInv'
  <2>1. row' = row /\ co' = co /\ late' = late /\ online' \in Gateways \cup {Nowhere}
    BY <1>7 DEF Login, NoticeGone, SessionGone, HolderInv
  <2> QED  BY <2>1, SameMoves, SameHolders
<1>8. ASSUME NEW g \in Gateways, GatewayCrash(g) PROVE RowsMove /\ HolderInv'
  <2>1. row' = row
    BY <1>8 DEF GatewayCrash
  <2> QED  BY <1>8, <2>1, SameMoves, CrashHolders
<1>9. ASSUME NEW g \in Gateways, NEW m \in Messages,
             \/ HandleForward(g, m) \/ ForwardLost(g, m) \/ ClientReceives(g, m)
             \/ CheckAck(g, m) \/ AckTimeout(g, m)
      PROVE  RowsMove /\ HolderInv'
  BY <1>9, <1>s, Zenon DEF HandleForward, ForwardLost, ClientReceives, CheckAck, AckTimeout
<1>10. ASSUME NEW g \in Gateways, NEW m \in Messages, ConfirmAck(g, m)
       PROVE  RowsMove /\ HolderInv'
  <2>1. /\ co' = co /\ late' = late /\ online' = online /\ m \in received
        /\ row' = row \/ row' = [row EXCEPT ![m] = Confirmed(row[m])]
    BY <1>10 DEF ConfirmAck, AckInv
  <2> QED  BY <2>1, ConfirmMoves, SameMoves, SameHolders DEF HolderInv
<1>11. ASSUME NEW c \in late, LateCompletion(c) PROVE RowsMove /\ HolderInv'
  <2> DEFINE items == [m \in {c.message} |-> c]
  <2>1. /\ late' = late \ {c} /\ co' = co /\ online' = online
        /\ row' = CompletedAll(items, {c.message})
    BY <1>11 DEF LateCompletion
  <2>2. HolderInv' /\ GivesUp(c.message, c.token)
    BY <2>1, LateHolders
  <2>3. c.message \in Messages
    BY DEF HolderInv, Items
  <2>4. \A m \in {c.message} : GivesUp(m, items[m].token)
    BY <2>2
  <2> HIDE DEF items
  <2> QED  BY <2>1, <2>2, <2>3, <2>4, CompleteMoves
<1>12. CASE Leave \/ RecordExpires
  <2>1. row' = row /\ co' = co /\ late' = late /\ online' \in Gateways \cup {Nowhere}
    BY <1>12 DEF Leave, RecordExpires, SessionGone, HolderInv
  <2> QED  BY <2>1, SameMoves, SameHolders
<1>13. ASSUME NEW m \in Messages, BecomesDue(m) \/ RowLeaseExpires(m)
       PROVE  RowsMove /\ HolderInv'
  <2>1. /\ co' = co /\ late' = late /\ online' = online
        /\ \/ row' = [row EXCEPT ![m].due = TRUE] /\ row[m].status = "pending"
           \/ row' = [row EXCEPT ![m].lease = "expired"] /\ row[m].lease = "live"
    BY <1>13 DEF BecomesDue, RowLeaseExpires
  <2> QED  BY <2>1, TimeMoves, SameHolders DEF HolderInv
<1> QED
  BY <1>1, <1>2, <1>3, <1>4, <1>5, <1>6, <1>7, <1>8, <1>9, <1>10, <1>11, <1>12, <1>13
     DEF FanoutNext, Coordinate, ReplayTask

\* What the client has received it keeps.
LEMMA ReceivedGrows == FanoutNext => received \subseteq received'
<1>1. ASSUME NEW g \in Gateways, Coordinate(g) \/ ReplayTask(g) PROVE received' = received
  BY <1>1, Zenon DEF Coordinate, ReplayTask, ClaimPending, ResolveRoute, Dispatch, Complete,
              ReplayLook, ReplayClaim, ReplaySend
<1>2. ASSUME NEW g \in Gateways, ProbeFires(g) \/ Login(g) \/ NoticeGone(g) \/ GatewayCrash(g)
      PROVE  received' = received
  BY <1>2 DEF ProbeFires, Login, NoticeGone, GatewayCrash
<1>3. ASSUME NEW g \in Gateways, NEW m \in Messages,
             \/ HandleForward(g, m) \/ ForwardLost(g, m) \/ ClientReceives(g, m)
             \/ CheckAck(g, m) \/ ConfirmAck(g, m) \/ AckTimeout(g, m)
      PROVE  received \subseteq received'
  BY <1>3, Zenon DEF HandleForward, ForwardLost, ClientReceives, CheckAck, ConfirmAck, AckTimeout
<1>4. ASSUME NEW c \in late, LateCompletion(c) PROVE received' = received
  BY <1>4 DEF LateCompletion
<1>5. CASE Leave \/ RecordExpires
  BY <1>5 DEF Leave, RecordExpires
<1>6. ASSUME NEW m \in Messages, BecomesDue(m) \/ RowLeaseExpires(m) PROVE received' = received
  BY <1>6 DEF BecomesDue, RowLeaseExpires
<1> QED  BY <1>1, <1>2, <1>3, <1>4, <1>5, <1>6, Zenon DEF FanoutNext

\* At first nothing is claimed, delivered or confirmed.
LEMMA InitInv == FanoutInit => FanoutInv
<1> SUFFICES ASSUME FanoutInit PROVE FanoutInv
  OBVIOUS
<1>1. scene.start \in [Messages -> {"pending", "deferred", "absent"}]
  BY SceneAssumption DEF FanoutInit
<1>2. \A m \in Messages : row[m] \in Rows /\ row[m].status # "delivered"
  BY <1>1 DEF FanoutInit, NewRow, Rows
<1>3. RowInv
  BY <1>2 DEF RowInv, FanoutInit
<1>4. \A g \in Gateways : DOMAIN co[g] = {} /\ co[g] = [m \in DOMAIN co[g] |-> co[g][m]]
  BY DEF FanoutInit
<1>5. HolderInv
  BY <1>4 DEF HolderInv, BatchType, FanoutInit
<1>6. AckInv
  BY DEF AckInv, FanoutInit
<1>7. GroupDeliveredTrue
  BY <1>2 DEF GroupDeliveredTrue, FanoutInit
<1> QED  BY <1>3, <1>5, <1>6, <1>7 DEF FanoutInv

\* The invariant is inductive.
LEMMA StepInv == FanoutInv /\ [FanoutNext]_fanoutVars => FanoutInv'
<1> SUFFICES ASSUME FanoutInv, [FanoutNext]_fanoutVars PROVE FanoutInv'
  OBVIOUS
<1>1. CASE UNCHANGED fanoutVars
  BY <1>1 DEF fanoutVars, FanoutInv, RowInv, HolderInv, BatchType, AckInv, GroupDeliveredTrue
<1>2. CASE FanoutNext
  <2>1. RowsMove /\ HolderInv' /\ AckInv' /\ received \subseteq received'
    BY <1>2, RowStep, AckStep, ReceivedGrows DEF FanoutInv
  <2>2. \A m \in Messages :
           /\ row'[m].status = "delivered" =>
                 row'[m].token = NoToken /\ row'[m].lease = "none"
           /\ row'[m].status = "delivered" => row[m].status = "delivered" \/ m \in received
    BY <2>1 DEF RowsMove, RowMoves, FanoutInv, RowInv
  <2>3. RowInv'
    BY <2>1, <2>2 DEF RowsMove, RowInv
  <2>4. GroupDeliveredTrue'
    BY <2>1, <2>2 DEF GroupDeliveredTrue, FanoutInv, AckInv
  <2> QED  BY <2>1, <2>3, <2>4 DEF FanoutInv
<1> QED  BY <1>1, <1>2

\* The invariant holds throughout.
LEMMA AlwaysInv == FanoutSafety => []FanoutInv
  BY InitInv, StepInv, PTL DEF FanoutSafety

\* A row says DELIVERED, and a tracker confirmed, only for a message that the
\* recipient has: for all Gateways, messages, scenes and interleavings of
\* coordinators, forwards, replays, ACKs, repairs and crashes.
THEOREM DeliveredIsReceived == FanoutSafety => []GroupDeliveredTrue
<1>1. FanoutInv => GroupDeliveredTrue
  BY DEF FanoutInv
<1> QED  BY <1>1, AlwaysInv, PTL

\* Only the completion of the claim that took a live lease, or a confirmation,
\* ends it early, and a delivered row is final: the fence on the token holds
\* against completions of older claims, however late.
THEOREM LeasesAreHeld == FanoutSafety => LeaseHeld
<1>1. ASSUME FanoutInv, FanoutNext, NEW m \in Messages
      PROVE  /\ row[m].status = "delivered" => row'[m] = row[m]
             /\ row[m].lease = "live" /\ row'[m].token # row[m].token =>
                   \/ row'[m].status = "delivered"
                   \/ \E t \in {row[m].token} : Holding(m, t) /\ ~Holding(m, t)'
  <2>1. RowMoves(m)
    BY <1>1, RowStep DEF FanoutInv, RowsMove
  <2>2. \A t : GivesUp(m, t) => Holding(m, t) /\ ~Holding(m, t)'
    BY DEF GivesUp, Holding
  <2>3. (\E t \in {row[m].token} : GivesUp(m, t)) =>
           \E t \in {row[m].token} : Holding(m, t) /\ ~Holding(m, t)'
    BY <2>2
  <2> QED  BY <2>1, <2>3 DEF RowMoves
<1>2. FanoutInv /\ [FanoutNext]_fanoutVars =>
        [\A m \in Messages :
            /\ row[m].status = "delivered" => row'[m] = row[m]
            /\ row[m].lease = "live" /\ row'[m].token # row[m].token =>
                   \/ row'[m].status = "delivered"
                   \/ \E t \in {row[m].token} : Holding(m, t) /\ ~Holding(m, t)']_row
  BY <1>1 DEF fanoutVars
<1> QED  BY <1>2, AlwaysInv, PTL DEF FanoutSafety, LeaseHeld
=============================================================================
