----------------------- MODULE PrivateDeliveryProofs -----------------------
(***************************************************************************)
(* PrivateDelivery, for any set of Gateways and any bounds: the state      *)
(* keeps its declared shape, the dedup's ownership mark lives exactly as   *)
(* long as the forward that took it, an attempt is registered before its   *)
(* packet is sent, and the protocol implements its contract.               *)
(***************************************************************************)
EXTENDS PrivateDelivery, FiniteSetTheorems, TLAPS

\* A submission keeps the shape of the tracker, the timers and the wire, and
\* it is refused on a dead connection.
LEMMA SubmitType ==
    ASSUME TypeOK, NEW g \in Gateways, NEW c \in Conns \cup {NoConn},
           NEW s \in SubmitStatuses, Submit(g, c, s)
    PROVE  /\ tstate' \in [Gateways -> {"absent", "waiting", "confirmed"}]
           /\ tseqs' \in [Gateways -> SUBSET Nat]
           /\ tcur' \in [Gateways -> Nat]
           /\ cooling' \in [Gateways -> BOOLEAN]
           /\ timers' \in [Gateways -> SUBSET Nat]
           /\ nextD' \in Nat
           /\ down' \subseteq Frames
           /\ faults' \in 0 .. MaxFaults
<1>1. CASE UNCHANGED <<track, down>>
  <2>1. faults' \in 0 .. MaxFaults
    BY ConstantsAssumption DEF Submit, Fault, TypeOK
  <2> QED  BY <1>1, <2>1 DEF TypeOK, track
<1>2. CASE s = SubmitStatus(g, c) /\ s = "kSubmitted" /\ UNCHANGED faults
  <2>1. c \in Conns
    BY <1>2 DEF SubmitStatus
  <2>2. CASE EvidenceFull(g) /\ Resend(g, c)
    BY <2>1, <2>2, <1>2 DEF Resend, TypeOK, Frames
  <2>3. CASE ~EvidenceFull(g) /\ SendNew(g, c)
    BY <2>1, <2>3, <1>2, ConstantsAssumption DEF SendNew, TypeOK, Frames
  <2>4. s # "kWindowFull"
    BY <1>2
  <2>5. IF EvidenceFull(g) THEN Resend(g, c) ELSE SendNew(g, c)
    BY <1>2, <2>4, Zenon DEF Submit
  <2> QED  BY <2>2, <2>3, <2>5
<1> QED  BY <1>1, <1>2 DEF Submit

\* Init and every action keep the declared shape of the state.
LEMMA TypeInductive == TypeOK /\ [Next]_vars => TypeOK'
<1> SUFFICES ASSUME TypeOK, [Next]_vars PROVE TypeOK'
  OBVIOUS
<1> USE ConstantsAssumption
<1> USE DEF lane, track, replay, client
<1>1. ASSUME NEW g \in Gateways, SystemStep(g) PROVE TypeOK'
  <2>1. CASE StartChat(g)  BY <2>1 DEF StartChat, TypeOK, Stages
  <2>2. CASE PersistRpc(g)
    BY <2>2 DEF PersistRpc, Persisted, Snapshot, TypeOK, Stages, Results
  <2>3. CASE AnswerFailed(g)
    BY <2>3 DEF AnswerFailed, EndTask, TypeOK, Stages, Results
  <2>4. CASE AnswerRemote(g)
    BY <2>4 DEF AnswerRemote, Answer, EndTask, TypeOK, Stages, Results
  <2>5. CASE AnswerConfirmed(g)
    BY <2>5 DEF AnswerConfirmed, Answer, EndTask, TypeOK, Stages, Results
  <2>6. CASE DeliverLocal(g)
    <3>1. CASE \E s \in SubmitStatuses : Submit(g, tconn[g], s)
                  /\ dedup' = [dedup EXCEPT ![g] = DedupAfter(s)]
      <4>1. PICK s \in SubmitStatuses : Submit(g, tconn[g], s)
                  /\ dedup' = [dedup EXCEPT ![g] = DedupAfter(s)]
        BY <3>1, Zenon
      <4>2. dedup' \in [Gateways -> {"none", "processing", "delivered"}]
        BY <4>1 DEF DedupAfter, TypeOK
      <4>3. tconn[g] \in Conns \cup {NoConn}
        BY DEF TypeOK
      <4> QED  BY <2>6, <4>1, <4>2, <4>3, SubmitType DEF DeliverLocal, TypeOK, Stages
    <3>2. CASE UNCHANGED <<track, down, faults, dedup>>
      BY <2>6, <3>2 DEF DeliverLocal, TypeOK, Stages
    <3> QED  BY <2>6, <3>1, <3>2 DEF DeliverLocal
  <2>7. CASE AnswerLocal(g)
    BY <2>7 DEF AnswerLocal, Answer, EndTask, TypeOK, Stages, Results
  <2>8. CASE StartForward(g)  BY <2>8 DEF StartForward, TypeOK, Stages
  <2>9. CASE GetRpc(g)
    BY <2>9 DEF GetRpc, Snapshot, Fault, TypeOK, Stages, Results
  <2>10. CASE DeliverForwarded(g)
    <3>1. CASE \E s \in SubmitStatuses : Submit(g, sess[g], s)
                  /\ dedup' = [dedup EXCEPT ![g] = DedupAfter(s)]
      <4>1. PICK s \in SubmitStatuses : Submit(g, sess[g], s)
                  /\ dedup' = [dedup EXCEPT ![g] = DedupAfter(s)]
        BY <3>1, Zenon
      <4>2. dedup' \in [Gateways -> {"none", "processing", "delivered"}]
        BY <4>1 DEF DedupAfter, TypeOK
      <4>3. sess[g] \in Conns \cup {NoConn}
        BY DEF TypeOK
      <4> QED
        BY <2>10, <4>1, <4>2, <4>3, SubmitType
        DEF DeliverForwarded, EndTask, TypeOK, Stages, Results
    <3>2. CASE /\ dedup' = [dedup EXCEPT ![g] =
                    IF result[g] = "confirmed" THEN "delivered" ELSE "none"]
               /\ UNCHANGED <<track, down, faults>>
      BY <2>10, <3>2 DEF DeliverForwarded, EndTask, TypeOK, Stages, Results
    <3> QED  BY <2>10, <3>1, <3>2 DEF DeliverForwarded
  <2>11. CASE CooldownElapses(g)  BY <2>11 DEF CooldownElapses, TypeOK
  <2>12. CASE NoticeClose(g)  BY <2>12 DEF NoticeClose, TypeOK
  <2>13. CASE ConfirmRpc(g)  BY <2>13 DEF ConfirmRpc, ConfirmedStatus, Fault, TypeOK
  <2>14. CASE Discover(g)  BY <2>14 DEF Discover, TypeOK
  <2>15. CASE StartReplay(g)  BY <2>15 DEF StartReplay, TypeOK
  <2>16. CASE ReplayQuery(g)  BY <2>16 DEF ReplayQuery, EndReplay, Fault, TypeOK
  <2>17. CASE ReplaySubmit(g)
    <3>1. PICK s \in SubmitStatuses :
            /\ Submit(g, rconn[g], s)
            /\ IF s = "kAlreadyConfirmed"
               THEN rstage' = [rstage EXCEPT ![g] = "repair"] /\ UNCHANGED rconn
               ELSE EndReplay(g)
      BY <2>17 DEF ReplaySubmit
    <3>2. /\ rstage' \in [Gateways -> {"idle", "query", "submit", "repair"}]
          /\ rconn' \in [Gateways -> Conns \cup {NoConn}]
      BY <3>1 DEF EndReplay, TypeOK
    <3>3. rconn[g] \in Conns \cup {NoConn}
      BY DEF TypeOK
    <3> QED  BY <2>17, <3>1, <3>2, <3>3, SubmitType, Zenon DEF ReplaySubmit, TypeOK
  <2>18. CASE RepairRpc(g)
    BY <2>18 DEF RepairRpc, EndReplay, ConfirmedStatus, Fault, TypeOK
  <2> QED
    BY <1>1, <2>1, <2>2, <2>3, <2>4, <2>5, <2>6, <2>7, <2>8, <2>9, <2>10, <2>11,
       <2>12, <2>13, <2>14, <2>15, <2>16, <2>17, <2>18 DEF SystemStep
<1>2. ASSUME NEW g \in Gateways, ClientSend(g) PROVE TypeOK'
  BY <1>2 DEF ClientSend, TypeOK
<1>3. ASSUME NEW g \in Gateways, PersistFails(g) PROVE TypeOK'
  BY <1>3 DEF PersistFails, Persisted, Fault, TypeOK, Stages, Results
<1>4. ASSUME NEW g \in Gateways, Login(g) PROVE TypeOK'
  BY <1>4 DEF Login, TypeOK, Conns
<1>5. ASSUME NEW g \in Gateways, EvictTracker(g) \/ EvictDedup(g) PROVE TypeOK'
  <2>1. CASE EvictTracker(g)  BY <2>1 DEF EvictTracker, Fault, TypeOK
  <2>2. CASE EvictDedup(g)  BY <2>2 DEF EvictDedup, Fault, TypeOK
  <2> QED  BY <1>5, <2>1, <2>2
<1>6. ASSUME NEW g \in Gateways, Restart(g) PROVE TypeOK'
  <2>1. db' \in {"absent", "pending", "confirmed", "read"}
    BY <1>6 DEF Restart, Orphaned, Persisted, ConfirmedStatus, TypeOK
  <2> QED
    BY <1>6, <2>1
    DEF Restart, EndTask, EndReplay, Fault, TypeOK, Stages, Results
<1>7. ASSUME NEW g \in Gateways, NEW d \in timers[g], AckTimeout(g, d) PROVE TypeOK'
  BY <1>7 DEF AckTimeout, TypeOK, Frames
<1>8. ASSUME NEW f \in down, Receive(f) PROVE TypeOK'
  BY <1>8 DEF Receive, TypeOK
<1>9. ASSUME NEW f \in up, ReceiverAck(f) \/ LoseAck(f) PROVE TypeOK'
  <2>1. f.conn.g \in Gateways
    BY <1>9 DEF TypeOK, Frames, Conns
  <2>2. CASE ReceiverAck(f)
    <3> DEFINE g == f.conn.g
    <3>a. \/ /\ tstate' = [tstate EXCEPT ![g] = "confirmed"]
             /\ confirming' = [confirming EXCEPT ![g] = TRUE]
          \/ UNCHANGED <<tstate, confirming>>
      BY <2>2, Zenon DEF ReceiverAck
    <3>b. g \in Gateways
      BY <2>1
    <3>c. /\ tstate \in [Gateways -> {"absent", "waiting", "confirmed"}]
          /\ confirming \in [Gateways -> BOOLEAN]
      BY DEF TypeOK
    <3> HIDE DEF g
    <3>1. /\ tstate' \in [Gateways -> {"absent", "waiting", "confirmed"}]
          /\ confirming' \in [Gateways -> BOOLEAN]
      BY <3>a, <3>b, <3>c, Zenon
    <3>2. up' \subseteq up
      BY <2>2 DEF ReceiverAck
    <3>3. UNCHANGED <<db, lane, dedup, tseqs, tcur, cooling, timers, nextD,
                      replay, sess, client, down, told, sends, faults>>
      BY <2>2 DEF ReceiverAck
    <3> QED  BY <3>1, <3>2, <3>3 DEF TypeOK
  <2>3. CASE LoseAck(f)  BY <2>3 DEF LoseAck, Fault, TypeOK
  <2> QED  BY <1>9, <2>2, <2>3
<1>10. CASE Disconnect \/ MarkDialogRead
  <2>1. CASE Disconnect  BY <2>1 DEF Disconnect, TypeOK
  <2>2. CASE MarkDialogRead  BY <2>2 DEF MarkDialogRead, TypeOK
  <2> QED  BY <1>10, <2>1, <2>2
<1>11. CASE UNCHANGED vars
  BY <1>11 DEF vars, TypeOK
<1> QED
  BY <1>1, <1>2, <1>3, <1>4, <1>5, <1>6, <1>7, <1>8, <1>9, <1>10, <1>11 DEF Next

\* The initial state has the declared shape.
LEMMA InitType == Init => TypeOK
<1> SUFFICES ASSUME Init PROVE TypeOK
  OBVIOUS
<1>1. /\ tseqs \in [Gateways -> SUBSET Nat] /\ timers \in [Gateways -> SUBSET Nat]
      /\ down \subseteq Frames /\ up \subseteq Frames
  BY DEF Init
<1>2. /\ conns \in 0 .. MaxConns /\ sends \in 0 .. MaxSends
      /\ faults \in 0 .. MaxFaults
  BY ConstantsAssumption DEF Init
<1> QED  BY <1>1, <1>2, Zenon DEF Init, TypeOK, Stages, Results

\* PrivateDelivery keeps its declared shape.
THEOREM TypeCorrect == Spec => []TypeOK
  BY InitType, TypeInductive, PTL DEF Spec

-----------------------------------------------------------------------------
(* Ownership.                                                              *)

\* Delivery ownership is held exactly while the lane's forward runs.
THEOREM OwnershipHeld == Spec => []OwnershipHeldByLane
<1>1. Init => OwnershipHeldByLane
  BY DEF Init, OwnershipHeldByLane
<1>2. TypeOK /\ OwnershipHeldByLane /\ [Next]_vars => OwnershipHeldByLane'
  <2> SUFFICES ASSUME TypeOK, OwnershipHeldByLane, [Next]_vars
               PROVE  OwnershipHeldByLane'
    OBVIOUS
  <2> USE DEF lane, track, replay, client
  <2>t. /\ dedup \in [Gateways -> {"none", "processing", "delivered"}]
        /\ stage \in [Gateways -> Stages]
    BY DEF TypeOK
  <2>1. ASSUME NEW g \in Gateways, SystemStep(g) PROVE OwnershipHeldByLane'
    <3>1. CASE DeliverLocal(g)
      <4>1. \/ dedup' = dedup
            \/ dedup[g] = "none" /\ \E s \in SubmitStatuses :
                  dedup' = [dedup EXCEPT ![g] = DedupAfter(s)]
        BY <3>1 DEF DeliverLocal
      <4> QED  BY <2>t, <3>1, <4>1 DEF DeliverLocal, DedupAfter, OwnershipHeldByLane
    <3>2. CASE DeliverForwarded(g)
      <4>1. \E v \in {"none", "delivered"} : dedup' = [dedup EXCEPT ![g] = v]
        BY <3>2 DEF DeliverForwarded, DedupAfter
      <4> QED  BY <2>t, <3>2, <4>1 DEF DeliverForwarded, EndTask, OwnershipHeldByLane
    <3>3. CASE StartForward(g)
      BY <2>t, <3>3 DEF StartForward, OwnershipHeldByLane
    <3>4. CASE GetRpc(g)
      BY <2>t, <3>4 DEF GetRpc, OwnershipHeldByLane
    <3>5. CASE StartChat(g)
      BY <2>t, <3>5 DEF StartChat, OwnershipHeldByLane
    <3>8. CASE PersistRpc(g)
      BY <2>t, <3>8 DEF PersistRpc, OwnershipHeldByLane
    <3>6. CASE AnswerFailed(g) \/ AnswerRemote(g) \/ AnswerConfirmed(g) \/ AnswerLocal(g)
      <4>1. CASE AnswerFailed(g)
        BY <2>t, <4>1 DEF AnswerFailed, EndTask, OwnershipHeldByLane
      <4>2. CASE AnswerRemote(g)
        BY <2>t, <4>2 DEF AnswerRemote, EndTask, OwnershipHeldByLane
      <4>3. CASE AnswerConfirmed(g)
        BY <2>t, <4>3 DEF AnswerConfirmed, EndTask, OwnershipHeldByLane
      <4>4. CASE AnswerLocal(g)
        BY <2>t, <4>4, Zenon DEF AnswerLocal, EndTask, OwnershipHeldByLane
      <4> QED  BY <3>6, <4>1, <4>2, <4>3, <4>4
    <3>7. CASE \/ CooldownElapses(g) \/ NoticeClose(g) \/ ConfirmRpc(g) \/ Discover(g)
               \/ StartReplay(g) \/ ReplayQuery(g) \/ ReplaySubmit(g) \/ RepairRpc(g)
      BY <3>7, Zenon DEF CooldownElapses, NoticeClose, ConfirmRpc, Discover, StartReplay,
           ReplayQuery, ReplaySubmit, RepairRpc, OwnershipHeldByLane
    <3> QED  BY <2>1, <3>1, <3>2, <3>3, <3>4, <3>5, <3>6, <3>7, <3>8 DEF SystemStep
  <2>2. ASSUME NEW g \in Gateways, PersistFails(g) PROVE OwnershipHeldByLane'
    BY <2>t, <2>2 DEF PersistFails, OwnershipHeldByLane
  <2>3. ASSUME NEW g \in Gateways, EvictDedup(g) PROVE OwnershipHeldByLane'
    BY <2>t, <2>3 DEF EvictDedup, OwnershipHeldByLane
  <2>4. ASSUME NEW g \in Gateways, Restart(g) PROVE OwnershipHeldByLane'
    BY <2>t, <2>4, Zenon DEF Restart, EndTask, OwnershipHeldByLane
  <2>5. ASSUME NEW g \in Gateways, ClientSend(g) \/ Login(g) \/ EvictTracker(g)
        PROVE  OwnershipHeldByLane'
    BY <2>5, Zenon DEF ClientSend, Login, EvictTracker, OwnershipHeldByLane
  <2>6. ASSUME NEW g \in Gateways, NEW d \in timers[g], AckTimeout(g, d)
        PROVE  OwnershipHeldByLane'
    BY <2>6, Zenon DEF AckTimeout, OwnershipHeldByLane
  <2>7. ASSUME NEW f \in down, Receive(f) PROVE OwnershipHeldByLane'
    BY <2>7, Zenon DEF Receive, OwnershipHeldByLane
  <2>8. ASSUME NEW f \in up, ReceiverAck(f) \/ LoseAck(f) PROVE OwnershipHeldByLane'
    BY <2>8 DEF ReceiverAck, LoseAck, OwnershipHeldByLane
  <2>9. CASE Disconnect \/ MarkDialogRead \/ UNCHANGED vars
    BY <2>9 DEF Disconnect, MarkDialogRead, vars, OwnershipHeldByLane
  <2> QED
    BY <2>1, <2>2, <2>3, <2>4, <2>5, <2>6, <2>7, <2>8, <2>9 DEF Next
<1> QED  BY <1>1, <1>2, TypeCorrect, PTL DEF Spec

-----------------------------------------------------------------------------
(* Register-before-Send.  Attempts are numbered upwards by one allocator,  *)
(* so an entry born after a packet was sent never mistakes it for one of   *)
(* its own, and within the life of an entry the packet's attempt stays     *)
(* known.                                                                  *)

WireInv ==
    /\ WireAttemptsKnown
    /\ \A f \in down \cup up : f.d < nextD
    /\ \A g \in Gateways : \A e \in tseqs[g] : e < nextD
    /\ \A g \in Gateways : tseqs[g] # {} => tcur[g] \in tseqs[g]
    /\ \A g \in Gateways : sess[g] # NoConn => sess[g].g = g

\* A packet sent on g's session with an attempt that g's entry knows keeps the
\* wire known; the entry only gains attempts.
LEMMA SubmitWire ==
    ASSUME TypeOK, WireInv, NEW g \in Gateways, NEW c \in Conns \cup {NoConn},
           NEW s, Submit(g, c, s), UNCHANGED <<sess, up>>
    PROVE  WireInv'
<1>1. CASE UNCHANGED <<track, down>>
  BY <1>1, Zenon DEF WireInv, WireAttemptsKnown, track
<1>2. CASE s = SubmitStatus(g, c) /\ s = "kSubmitted"
  <2>1. c \in Conns /\ sess[g] = c /\ c.g = g
    BY <1>2 DEF SubmitStatus, WireInv
  <2>2. CASE EvidenceFull(g) /\ Resend(g, c)
    <3>1. tseqs[g] # {}
      <4>1. Cardinality({}) = 0 /\ MaxAttemptSequences \in Nat \ {0}
        BY FS_EmptySet, ConstantsAssumption
      <4>2. Cardinality(tseqs[g]) >= MaxAttemptSequences
        BY <2>2 DEF EvidenceFull
      <4>3. ASSUME tseqs[g] = {} PROVE FALSE
        <5>1. Cardinality(tseqs[g]) = 0
          BY <4>1, <4>3
        <5> QED  BY <4>1, <4>2, <5>1
      <4> QED  BY <4>3
    <3>2. tcur[g] \in tseqs[g] /\ tcur[g] < nextD
      BY <3>1 DEF WireInv
    <3> DEFINE frame == [conn |-> c, d |-> tcur[g]]
    <3>3. /\ UNCHANGED <<tseqs, tcur, nextD, sess, up>>
          /\ down' \subseteq down \cup {frame}
      BY <2>2 DEF Resend
    <3>4. frame.conn.g = g /\ frame.d = tcur[g]
      BY <2>1
    <3> HIDE DEF frame
    <3>5. WireAttemptsKnown'
      BY <3>2, <3>3, <3>4 DEF WireInv, WireAttemptsKnown
    <3>6. \A f \in down' \cup up' : f.d < nextD'
      BY <3>2, <3>3, <3>4 DEF WireInv
    <3> QED  BY <3>3, <3>5, <3>6 DEF WireInv
  <2>3. CASE SendNew(g, c)
    <3> DEFINE frame == [conn |-> c, d |-> nextD]
    <3>1. /\ nextD' = nextD + 1 /\ nextD \in Nat
          /\ tseqs'[g] = tseqs[g] \cup {nextD} /\ tcur'[g] = nextD
          /\ \A h \in Gateways : h # g => tseqs'[h] = tseqs[h] /\ tcur'[h] = tcur[h]
          /\ down' \subseteq down \cup {frame}
      BY <2>3 DEF SendNew, TypeOK
    <3>2. \A f \in down \cup up : f.conn.g \in Gateways /\ f.d \in Nat /\ f.d < nextD
      BY Zenon DEF TypeOK, Frames, Conns, WireInv
    <3>0. frame.conn.g = g /\ frame.d = nextD
      BY <2>1
    <3> HIDE DEF frame
    <3>3. WireAttemptsKnown'
      <4> SUFFICES ASSUME NEW f \in down' \cup up', NEW e \in tseqs'[f.conn.g], e <= f.d
                   PROVE  f.d \in tseqs'[f.conn.g]
        BY Zenon DEF WireAttemptsKnown
      <4>1. CASE f = frame
        BY <3>0, <3>1, <4>1, Zenon
      <4>2. CASE f \in down \cup up
        <5>1. f.conn.g \in Gateways /\ f.d \in Nat /\ f.d < nextD
          BY <3>2, <4>2
        <5>n. nextD \in Nat
          BY Zenon DEF TypeOK
        <5>2. ASSUME e = nextD PROVE FALSE
          BY <5>1, <5>2, <5>n
        <5>3. e \in tseqs[f.conn.g]
          BY <3>1, <5>1, <5>2, Zenon
        <5> QED  BY <3>1, <4>2, <5>1, <5>3, Zenon DEF WireInv, WireAttemptsKnown
      <4> QED  BY <3>1, <4>1, <4>2, Zenon
    <3>4. \A f \in down' \cup up' : f.d < nextD'
      BY <3>0, <3>1, <3>2
    <3>5. ASSUME NEW h \in Gateways, NEW e \in tseqs'[h] PROVE e < nextD'
      <4>1. \A x \in tseqs[h] : x \in Nat /\ x < nextD
        BY DEF WireInv, TypeOK
      <4>2. e \in tseqs[h] \/ e = nextD
        BY <3>1
      <4> QED  BY <3>1, <4>1, <4>2
    <3>6. \A h \in Gateways : tseqs'[h] # {} => tcur'[h] \in tseqs'[h]
      BY <3>1 DEF WireInv
    <3> QED  BY <3>3, <3>4, <3>5, <3>6 DEF WireInv
  <2>4. s # "kWindowFull"
    BY <1>2
  <2>5. IF EvidenceFull(g) THEN Resend(g, c) ELSE SendNew(g, c)
    BY <1>2, <2>4, Zenon DEF Submit
  <2> QED  BY <2>2, <2>3, <2>5
<1> QED  BY <1>1, <1>2, Zenon DEF Submit

\* Every action keeps the wire known.
LEMMA WireInductive == TypeOK /\ WireInv /\ [Next]_vars => WireInv'
<1> SUFFICES ASSUME TypeOK, WireInv, [Next]_vars PROVE WireInv'
  OBVIOUS
<1> USE DEF lane, track, replay, client
<1>1. ASSUME NEW g \in Gateways, SystemStep(g) PROVE WireInv'
  <2>1. CASE DeliverLocal(g)
    <3>1. CASE UNCHANGED <<track, down>>
      BY <2>1, <3>1 DEF DeliverLocal, WireInv, WireAttemptsKnown
    <3>2. tconn[g] \in Conns \cup {NoConn}
      BY Zenon DEF TypeOK
    <3> QED  BY <2>1, <3>1, <3>2, SubmitWire, Zenon DEF DeliverLocal
  <2>2. CASE DeliverForwarded(g)
    <3>1. CASE UNCHANGED <<track, down>>
      BY <2>2, <3>1 DEF DeliverForwarded, WireInv, WireAttemptsKnown
    <3>2. sess[g] \in Conns \cup {NoConn}
      BY DEF TypeOK
    <3> QED  BY <2>2, <3>1, <3>2, SubmitWire, Zenon DEF DeliverForwarded
  <2>3. CASE ReplaySubmit(g)
    <3>1. rconn[g] \in Conns \cup {NoConn}
      BY Zenon DEF TypeOK
    <3> QED  BY <2>3, <3>1, SubmitWire DEF ReplaySubmit
  <2>4. CASE NoticeClose(g)
    BY <2>4, Zenon DEF NoticeClose, TypeOK, WireInv, WireAttemptsKnown
  <2>5. CASE \/ StartChat(g) \/ PersistRpc(g) \/ AnswerFailed(g) \/ AnswerRemote(g)
             \/ AnswerConfirmed(g) \/ AnswerLocal(g) \/ StartForward(g) \/ GetRpc(g)
             \/ CooldownElapses(g) \/ ConfirmRpc(g) \/ Discover(g)
             \/ StartReplay(g) \/ ReplayQuery(g) \/ RepairRpc(g)
    <3>1. UNCHANGED <<tseqs, tcur, nextD, sess, down, up>>
      BY <2>5, Zenon DEF StartChat, PersistRpc, AnswerFailed, AnswerRemote, AnswerConfirmed,
           AnswerLocal, StartForward, GetRpc, CooldownElapses, ConfirmRpc, Discover,
           StartReplay, ReplayQuery, RepairRpc
    <3> QED  BY <3>1, Zenon DEF WireInv, WireAttemptsKnown
  <2> QED  BY <1>1, <2>1, <2>2, <2>3, <2>4, <2>5, Zenon DEF SystemStep
<1>2. ASSUME NEW g \in Gateways, Login(g) PROVE WireInv'
  BY <1>2, Zenon DEF Login, TypeOK, WireInv, WireAttemptsKnown
<1>3. ASSUME NEW g \in Gateways, EvictTracker(g) PROVE WireInv'
  <2>1. /\ tseqs'[g] = {}
        /\ \A h \in Gateways \ {g} : tseqs'[h] = tseqs[h] /\ tcur'[h] = tcur[h]
    BY <1>3 DEF EvictTracker, TypeOK
  <2>2. \A f \in down \cup up : f.conn.g \in Gateways
    BY Zenon DEF TypeOK, Frames, Conns
  <2> QED  BY <1>3, <2>1, <2>2, Zenon DEF EvictTracker, WireInv, WireAttemptsKnown
<1>4. ASSUME NEW g \in Gateways, Restart(g) PROVE WireInv'
  <2>1. /\ tseqs'[g] = {} /\ sess'[g] = NoConn
        /\ \A h \in Gateways \ {g} :
              tseqs'[h] = tseqs[h] /\ tcur'[h] = tcur[h] /\ sess'[h] = sess[h]
    BY <1>4 DEF Restart, TypeOK
  <2>3. down' \subseteq down /\ up' \subseteq up /\ nextD' = nextD
    BY <1>4 DEF Restart
  <2>2. \A f \in down \cup up : f.conn.g \in Gateways
    BY DEF TypeOK, Frames, Conns
  <2> QED  BY <2>1, <2>2, <2>3, Zenon DEF WireInv, WireAttemptsKnown
<1>5. ASSUME NEW g \in Gateways, NEW d \in timers[g], AckTimeout(g, d) PROVE WireInv'
  <2>1. CASE UNCHANGED <<tseqs, tcur, nextD, down>>
    BY <1>5, <2>1, Zenon DEF AckTimeout, WireInv, WireAttemptsKnown
  <2>2. CASE sess[g] # NoConn /\ nextD' = nextD + 1 /\ tseqs' = [tseqs EXCEPT ![g] = @ \cup {nextD}]
             /\ tcur' = [tcur EXCEPT ![g] = nextD]
             /\ down' \subseteq down \cup {[conn |-> sess[g], d |-> nextD]}
    <3>1. /\ nextD \in Nat /\ UNCHANGED <<sess, up>>
          /\ tseqs'[g] = tseqs[g] \cup {nextD} /\ tcur'[g] = nextD
          /\ \A h \in Gateways : h # g => tseqs'[h] = tseqs[h] /\ tcur'[h] = tcur[h]
          /\ sess[g].g = g
      BY <1>5, <2>2 DEF AckTimeout, TypeOK, WireInv
    <3>2. \A f \in down \cup up : f.conn.g \in Gateways /\ f.d \in Nat /\ f.d < nextD
      BY Zenon DEF TypeOK, Frames, Conns, WireInv
    <3>3. WireAttemptsKnown'
      <4> SUFFICES ASSUME NEW f \in down' \cup up', NEW e \in tseqs'[f.conn.g], e <= f.d
                   PROVE  f.d \in tseqs'[f.conn.g]
        BY DEF WireAttemptsKnown
      <4>1. CASE f = [conn |-> sess[g], d |-> nextD]
        BY <3>1, <4>1
      <4>2. CASE f \in down \cup up
        <5>1. f.conn.g \in Gateways /\ f.d \in Nat /\ f.d < nextD
          BY <3>2, <4>2
        <5>2. e \in tseqs[f.conn.g]
          BY <3>1, <5>1
        <5> QED  BY <3>1, <4>2, <5>1, <5>2 DEF WireInv, WireAttemptsKnown
      <4> QED  BY <2>2, <3>1, <4>1, <4>2, Zenon
    <3>4. \A f \in down' \cup up' : f.d < nextD'
      BY <2>2, <3>1, <3>2
    <3>5. ASSUME NEW h \in Gateways, NEW e \in tseqs'[h] PROVE e < nextD'
      <4>1. \A x \in tseqs[h] : x \in Nat /\ x < nextD
        BY DEF WireInv, TypeOK
      <4>2. e \in tseqs[h] \/ e = nextD
        BY <3>1
      <4> QED  BY <2>2, <3>1, <4>1, <4>2
    <3>6. \A h \in Gateways : tseqs'[h] # {} => tcur'[h] \in tseqs'[h]
      BY <3>1 DEF WireInv
    <3> QED  BY <3>1, <3>3, <3>4, <3>5, <3>6 DEF WireInv
  <2> QED  BY <1>5, <2>1, <2>2, Zenon DEF AckTimeout
<1>6. ASSUME NEW f \in down, Receive(f) PROVE WireInv'
  BY <1>6 DEF Receive, WireInv, WireAttemptsKnown
<1>7. ASSUME NEW f \in up, ReceiverAck(f) PROVE WireInv'
  BY <1>7 DEF ReceiverAck, WireInv, WireAttemptsKnown
<1>8. ASSUME NEW f \in up, LoseAck(f) PROVE WireInv'
  BY <1>8 DEF LoseAck, WireInv, WireAttemptsKnown
<1>9. ASSUME NEW g \in Gateways, ClientSend(g) \/ PersistFails(g) \/ EvictDedup(g) PROVE WireInv'
  BY <1>9, Zenon DEF ClientSend, PersistFails, EvictDedup, WireInv, WireAttemptsKnown
<1>10. CASE Disconnect \/ MarkDialogRead
  BY <1>10, Zenon DEF Disconnect, MarkDialogRead, WireInv, WireAttemptsKnown
<1>11. CASE UNCHANGED vars
  BY <1>11 DEF vars, WireInv, WireAttemptsKnown
<1> QED
  BY <1>1, <1>2, <1>3, <1>4, <1>5, <1>6, <1>7, <1>8, <1>9, <1>10, <1>11, Zenon DEF Next

\* Register-before-Send holds for any number of Gateways, retries and logins.
THEOREM WireKnown == Spec => []WireAttemptsKnown
<1>1. Init => WireInv
  BY Zenon DEF Init, WireInv, WireAttemptsKnown
<1>2. WireInv => WireAttemptsKnown
  BY Zenon DEF WireInv
<1> QED  BY <1>1, <1>2, TypeCorrect, WireInductive, PTL DEF Spec

(***************************************************************************)
(* PrivateDelivery implements PrivateMessageContract. Two facts make each  *)
(* step of the protocol a step of the contract: nothing anywhere in the    *)
(* system speaks of a message before it is durable, and nothing speaks of  *)
(* a confirmation before the receiving application has the message.        *)
(***************************************************************************)

\* Before the row exists no answer, attempt, forward, replay or ACK exists.
DurableFirst ==
    db = "absent" =>
        /\ ~received /\ told = {} /\ down = {} /\ up = {}
        /\ \A g \in Gateways :
              /\ \/ stage[g] \in {"idle", "persist"}
                 \/ stage[g] = "persisted" /\ result[g] = "fail"
              /\ fwds[g] = 0 /\ timers[g] = {}
              /\ tstate[g] = "absent" /\ ~confirming[g]
              /\ rstage[g] \in {"idle", "query"}

\* Whatever claims a confirmation does so after the application took the
\* message: the row, an ACK on the wire, a tracker entry, an RPC in flight, a
\* repair, and the state a coroutine carries across its awaits.
SeenFirst ==
    \/ received
    \/ /\ db \notin {"confirmed", "read"} /\ up = {}
       /\ \A g \in Gateways :
             /\ tstate[g] # "confirmed" /\ ~confirming[g]
             /\ rstage[g] # "repair" /\ result[g] # "confirmed"

ContractInv == TypeOK /\ DurableFirst /\ SeenFirst

\* A submission never confirms anything, and reports a confirmation only when
\* the tracker holds one.
LEMMA SubmitSeen ==
    ASSUME TypeOK, NEW g \in Gateways, NEW c, NEW s, Submit(g, c, s)
    PROVE  /\ \A h \in Gateways : tstate'[h] \in {tstate[h], "waiting"}
           /\ s = "kAlreadyConfirmed" => tstate[g] = "confirmed"
<1>1. s = "kAlreadyConfirmed" => tstate[g] = "confirmed"
  BY DEF Submit, SubmitStatus
<1>2. tstate' = tstate \/ tstate' = [tstate EXCEPT ![g] = "waiting"]
  BY DEF Submit, SendNew, Resend, track
<1> QED  BY <1>1, <1>2 DEF TypeOK

\* Both facts survive every action, given the shape of the state.
LEMMA ContractInductive == ContractInv /\ [Next]_vars => ContractInv'
<1> SUFFICES ASSUME ContractInv, [Next]_vars PROVE DurableFirst' /\ SeenFirst'
  BY TypeInductive DEF ContractInv
<1> USE DEF lane, track, replay, client
<1>ty. TypeOK
  BY DEF ContractInv
<1>t. /\ db \in {"absent", "pending", "confirmed", "read"}
      /\ fwds \in [Gateways -> Nat] /\ stage \in [Gateways -> Stages]
      /\ peer \in [Gateways -> Gateways \cup {NoGateway}]
      /\ result \in [Gateways -> Results]
      /\ tstate \in [Gateways -> {"absent", "waiting", "confirmed"}]
      /\ timers \in [Gateways -> SUBSET Nat]
      /\ confirming \in [Gateways -> BOOLEAN]
      /\ rstage \in [Gateways -> {"idle", "query", "submit", "repair"}]
  BY <1>ty DEF TypeOK
<1>1. ASSUME NEW g \in Gateways, SystemStep(g) PROVE DurableFirst' /\ SeenFirst'
  <2>1. CASE StartChat(g)
    BY <1>t, <2>1 DEF StartChat, ContractInv, DurableFirst, SeenFirst
  <2>2. CASE PersistRpc(g)
    BY <1>t, <2>2 DEF PersistRpc, Persisted, Snapshot, ContractInv, DurableFirst, SeenFirst
  <2>3. CASE AnswerFailed(g)
    BY <1>t, <2>3 DEF AnswerFailed, EndTask, ContractInv, DurableFirst, SeenFirst
  <2>4. CASE AnswerRemote(g)
    BY <1>t, <2>4 DEF AnswerRemote, EndTask, ContractInv, DurableFirst, SeenFirst
  <2>5. CASE AnswerConfirmed(g)
    BY <1>t, <2>5 DEF AnswerConfirmed, EndTask, ContractInv, DurableFirst, SeenFirst
  <2>6. CASE DeliverLocal(g)
    <3>1. db # "absent" /\ db' = db
      BY <2>6 DEF DeliverLocal, ContractInv, DurableFirst
    <3>2. \A h \in Gateways : tstate'[h] \in {tstate[h], "waiting"}
      BY <1>ty, <2>6, SubmitSeen DEF DeliverLocal
    <3> QED  BY <1>t, <2>6, <3>1, <3>2 DEF DeliverLocal, ContractInv, DurableFirst, SeenFirst
  <2>7. CASE AnswerLocal(g)
    BY <1>t, <2>7 DEF AnswerLocal, EndTask, ContractInv, DurableFirst, SeenFirst
  <2>8. CASE StartForward(g)
    BY <1>t, <2>8 DEF StartForward, ContractInv, DurableFirst, SeenFirst
  <2>9. CASE GetRpc(g)
    BY <1>t, <2>9 DEF GetRpc, Snapshot, ContractInv, DurableFirst, SeenFirst
  <2>10. CASE DeliverForwarded(g)
    <3>1. db # "absent" /\ db' = db
      BY <2>10 DEF DeliverForwarded, ContractInv, DurableFirst
    <3>2. \A h \in Gateways : tstate'[h] \in {tstate[h], "waiting"}
      BY <1>ty, <2>10, SubmitSeen DEF DeliverForwarded
    <3> QED
      BY <1>t, <2>10, <3>1, <3>2
      DEF DeliverForwarded, EndTask, ContractInv, DurableFirst, SeenFirst
  <2>11. CASE CooldownElapses(g)
    BY <2>11 DEF CooldownElapses, ContractInv, DurableFirst, SeenFirst
  <2>12. CASE NoticeClose(g)
    BY <2>12 DEF NoticeClose, ContractInv, DurableFirst, SeenFirst
  <2>13. CASE ConfirmRpc(g)
    BY <1>t, <2>13 DEF ConfirmRpc, ConfirmedStatus, ContractInv, DurableFirst, SeenFirst
  <2>14. CASE Discover(g)
    BY <2>14 DEF Discover, ContractInv, DurableFirst, SeenFirst
  <2>15. CASE StartReplay(g)
    BY <1>t, <2>15 DEF StartReplay, ContractInv, DurableFirst, SeenFirst
  <2>16. CASE ReplayQuery(g)
    BY <1>t, <2>16 DEF ReplayQuery, EndReplay, ContractInv, DurableFirst, SeenFirst
  <2>17. CASE ReplaySubmit(g)
    <3>1. db # "absent" /\ db' = db
      BY <2>17 DEF ReplaySubmit, ContractInv, DurableFirst
    <3>2. /\ \A h \in Gateways : tstate'[h] \in {tstate[h], "waiting"}
          /\ tstate[g] = "confirmed" \/ rstage'[g] = "idle"
      BY <1>ty, <1>t, <2>17, SubmitSeen DEF ReplaySubmit, EndReplay
    <3>3. \A h \in Gateways : h # g => rstage'[h] = rstage[h]
      BY <1>t, <2>17 DEF ReplaySubmit, EndReplay
    <3> QED
      BY <1>t, <2>17, <3>1, <3>2, <3>3
      DEF ReplaySubmit, ContractInv, DurableFirst, SeenFirst
  <2>18. CASE RepairRpc(g)
    BY <1>t, <2>18 DEF RepairRpc, EndReplay, ConfirmedStatus, ContractInv, DurableFirst, SeenFirst
  <2> QED
    BY <1>1, <2>1, <2>2, <2>3, <2>4, <2>5, <2>6, <2>7, <2>8, <2>9, <2>10, <2>11,
       <2>12, <2>13, <2>14, <2>15, <2>16, <2>17, <2>18 DEF SystemStep
<1>2. ASSUME NEW g \in Gateways, ClientSend(g) PROVE DurableFirst' /\ SeenFirst'
  BY <1>2 DEF ClientSend, ContractInv, DurableFirst, SeenFirst
<1>3. ASSUME NEW g \in Gateways, PersistFails(g) PROVE DurableFirst' /\ SeenFirst'
  BY <1>t, <1>3 DEF PersistFails, Persisted, ContractInv, DurableFirst, SeenFirst
<1>4. ASSUME NEW g \in Gateways, Login(g) PROVE DurableFirst' /\ SeenFirst'
  BY <1>4 DEF Login, ContractInv, DurableFirst, SeenFirst
<1>5. ASSUME NEW g \in Gateways, EvictTracker(g) PROVE DurableFirst' /\ SeenFirst'
  BY <1>t, <1>5 DEF EvictTracker, ContractInv, DurableFirst, SeenFirst
<1>6. ASSUME NEW g \in Gateways, EvictDedup(g) PROVE DurableFirst' /\ SeenFirst'
  BY <1>6 DEF EvictDedup, ContractInv, DurableFirst, SeenFirst
<1>7. ASSUME NEW g \in Gateways, Restart(g) PROVE DurableFirst' /\ SeenFirst'
  <2>1. received \/ db' \notin {"confirmed", "read"}
    BY <1>t, <1>7 DEF Restart, Orphaned, Persisted, ConfirmedStatus, ContractInv, SeenFirst
  <2>2. db' = "absent" => db = "absent"
    BY <1>t, <1>7 DEF Restart, Orphaned, Persisted, ConfirmedStatus
  <2>a. /\ stage'[g] = "idle" /\ result'[g] = "none" /\ rstage'[g] = "idle"
        /\ fwds'[g] = 0 /\ timers'[g] = {}
        /\ tstate'[g] = "absent" /\ ~confirming'[g]
    BY <1>t, <1>7 DEF Restart, EndTask, EndReplay
  <2>b. \A h \in Gateways \ {g} :
           /\ stage'[h] = stage[h] /\ result'[h] = result[h]
           /\ rstage'[h] = rstage[h] /\ fwds'[h] = fwds[h]
           /\ timers'[h] = timers[h] /\ tstate'[h] = tstate[h]
           /\ confirming'[h] = confirming[h]
    BY <1>t, <1>7 DEF Restart, EndTask, EndReplay
  <2>c. /\ received' = received /\ told' = told
        /\ down' \subseteq down /\ up' \subseteq up
    BY <1>7 DEF Restart
  <2>3. DurableFirst'
    BY <2>2, <2>a, <2>b, <2>c DEF ContractInv, DurableFirst
  <2>4. SeenFirst'
    BY <2>1, <2>a, <2>b, <2>c DEF ContractInv, SeenFirst
  <2> QED  BY <2>3, <2>4
<1>8. ASSUME NEW g \in Gateways, NEW d \in timers[g], AckTimeout(g, d)
      PROVE DurableFirst' /\ SeenFirst'
  <2>1. db # "absent"
    BY DEF ContractInv, DurableFirst
  <2>2. UNCHANGED <<db, up, received, tstate, confirming, rstage, result>>
    BY <1>8 DEF AckTimeout
  <2> QED  BY <2>1, <2>2 DEF ContractInv, DurableFirst, SeenFirst
<1>9. ASSUME NEW f \in down, Receive(f) PROVE DurableFirst' /\ SeenFirst'
  <2>1. db # "absent"
    BY DEF ContractInv, DurableFirst
  <2> QED  BY <1>9, <2>1 DEF Receive, DurableFirst, SeenFirst
<1>10. ASSUME NEW f \in up, ReceiverAck(f) PROVE DurableFirst' /\ SeenFirst'
  <2>1. received /\ db # "absent"
    BY DEF ContractInv, DurableFirst, SeenFirst
  <2> QED  BY <1>10, <2>1 DEF ReceiverAck, DurableFirst, SeenFirst
<1>11. ASSUME NEW f \in up, LoseAck(f) PROVE DurableFirst' /\ SeenFirst'
  BY <1>11 DEF LoseAck, ContractInv, DurableFirst, SeenFirst
<1>12. CASE Disconnect
  BY <1>12 DEF Disconnect, ContractInv, DurableFirst, SeenFirst
<1>13. CASE MarkDialogRead
  BY <1>13 DEF MarkDialogRead, ContractInv, DurableFirst, SeenFirst
<1>14. CASE UNCHANGED vars
  BY <1>14 DEF vars, ContractInv, DurableFirst, SeenFirst
<1> QED
  BY <1>1, <1>2, <1>3, <1>4, <1>5, <1>6, <1>7, <1>8, <1>9, <1>10, <1>11, <1>12,
     <1>13, <1>14 DEF Next

\* Every step of the protocol is a step of the contract, or does not touch what
\* the contract talks about.
LEMMA StepRefines ==
    ContractInv /\ [Next]_vars => [Contract!Next]_<<db, received, told>>
<1> SUFFICES ASSUME ContractInv, [Next]_vars
             PROVE  Contract!Next \/ UNCHANGED <<db, received, told>>
  OBVIOUS
<1> USE DEF lane, track, replay, client
<1>t. TypeOK
  BY DEF ContractInv
<1> DEFINE Quiet == UNCHANGED <<db, received, told>>
<1>a. ASSUME db' = Persisted(db), UNCHANGED <<received, told>>
      PROVE  Contract!Accept \/ Quiet
  BY <1>a DEF Persisted, Contract!Accept
<1>c. ASSUME db' = ConfirmedStatus(db), received, UNCHANGED <<received, told>>
      PROVE  Contract!Confirm \/ Quiet
  BY <1>c DEF ConfirmedStatus, Contract!Confirm
<1>d. ASSUME NEW b \in BOOLEAN, Answer(b), db # "absent", b => received,
             UNCHANGED <<db, received>>
      PROVE  Contract!Tell
  <2>1. CASE b
    BY <1>d, <2>1 DEF Answer, Contract!Tell, Contract!Answers
  <2>2. CASE ~b
    BY <1>d, <2>2 DEF Answer, Contract!Tell
  <2> QED  BY <2>1, <2>2
<1>1. ASSUME NEW g \in Gateways, SystemStep(g) PROVE Contract!Next \/ Quiet
  <2>1. CASE PersistRpc(g)
    BY <1>a, <2>1, Zenon DEF PersistRpc, Contract!Next
  <2>2. CASE AnswerRemote(g)
    <3>1. db # "absent" /\ (result[g] = "confirmed" => received)
      BY <2>2 DEF AnswerRemote, ContractInv, DurableFirst, SeenFirst
    <3> QED  BY <1>d, <2>2, <3>1, Zenon DEF AnswerRemote, Contract!Next
  <2>3. CASE AnswerConfirmed(g)
    <3>1. db # "absent" /\ received
      BY <2>3 DEF AnswerConfirmed, ContractInv, DurableFirst, SeenFirst
    <3> QED  BY <1>d, <2>3, <3>1, Zenon DEF AnswerConfirmed, Contract!Next
  <2>4. CASE AnswerLocal(g)
    <3>1. db # "absent" /\ (tstate[g] = "confirmed" => received)
      BY <2>4 DEF AnswerLocal, ContractInv, DurableFirst, SeenFirst
    <3> QED  BY <1>d, <2>4, <3>1, Zenon DEF AnswerLocal, Contract!Next
  <2>5. CASE ConfirmRpc(g)
    <3>1. received
      BY <2>5 DEF ConfirmRpc, ContractInv, SeenFirst
    <3> QED  BY <1>c, <2>5, <3>1 DEF ConfirmRpc, Contract!Next
  <2>6. CASE RepairRpc(g)
    <3>1. received
      BY <2>6, Zenon DEF RepairRpc, ContractInv, SeenFirst
    <3> QED  BY <1>c, <2>6, <3>1 DEF RepairRpc, Contract!Next
  <2>7. CASE \/ StartChat(g) \/ AnswerFailed(g) \/ DeliverLocal(g)
             \/ StartForward(g) \/ GetRpc(g) \/ DeliverForwarded(g)
             \/ CooldownElapses(g) \/ NoticeClose(g) \/ Discover(g)
             \/ StartReplay(g) \/ ReplayQuery(g) \/ ReplaySubmit(g)
    BY <2>7, Zenon DEF StartChat, AnswerFailed, DeliverLocal, StartForward, GetRpc,
         DeliverForwarded, CooldownElapses, NoticeClose, Discover, StartReplay,
         ReplayQuery, ReplaySubmit
  <2> QED
    BY <1>1, <2>1, <2>2, <2>3, <2>4, <2>5, <2>6, <2>7 DEF SystemStep
<1>2. ASSUME NEW g \in Gateways, PersistFails(g) PROVE Contract!Next \/ Quiet
  BY <1>a, <1>2 DEF PersistFails, Contract!Next
<1>3. ASSUME NEW g \in Gateways, Restart(g) PROVE Contract!Next \/ Quiet
  <2>1. \/ db' = db \/ db' = Persisted(db)
        \/ (confirming[g] \/ rstage[g] = "repair") /\ db' = ConfirmedStatus(db)
    BY <1>3 DEF Restart, Orphaned
  <2>2. confirming[g] \/ rstage[g] = "repair" => received
    BY DEF ContractInv, SeenFirst
  <2>3. UNCHANGED <<received, told>>
    BY <1>3 DEF Restart
  <2> QED  BY <1>a, <1>c, <2>1, <2>2, <2>3 DEF Contract!Next
<1>4. ASSUME NEW g \in Gateways,
             ClientSend(g) \/ Login(g) \/ EvictTracker(g) \/ EvictDedup(g)
      PROVE  Quiet
  BY <1>4, Zenon DEF ClientSend, Login, EvictTracker, EvictDedup
<1>5. ASSUME NEW g \in Gateways, NEW d \in timers[g], AckTimeout(g, d) PROVE Quiet
  BY <1>5 DEF AckTimeout
<1>6. ASSUME NEW f \in down, Receive(f) PROVE Contract!Next
  <2>1. db # "absent"
    BY DEF ContractInv, DurableFirst
  <2> QED  BY <1>6, <2>1 DEF Receive, Contract!Show, Contract!Next
<1>7. ASSUME NEW f \in up, ReceiverAck(f) \/ LoseAck(f) PROVE Quiet
  BY <1>7 DEF ReceiverAck, LoseAck
<1>8. CASE Disconnect
  BY <1>8 DEF Disconnect
<1>9. CASE MarkDialogRead
  BY <1>9 DEF MarkDialogRead, Contract!Read, Contract!Next
<1>10. CASE UNCHANGED vars
  BY <1>10 DEF vars
<1> QED
  BY <1>1, <1>2, <1>3, <1>4, <1>5, <1>6, <1>7, <1>8, <1>9, <1>10 DEF Next

\* The protocol of PrivateDelivery, for any number of Gateways, sends, logins,
\* attempts and faults, implements PrivateMessageContract.
THEOREM Implementation == Spec => ImplementsContract
<1>1. Init => ContractInv
  BY InitType DEF Init, ContractInv, DurableFirst, SeenFirst
<1>2. Init => Contract!Init
  BY DEF Init, Contract!Init
<1> QED
  BY <1>1, <1>2, ContractInductive, StepRefines, PTL
  DEF Spec, ImplementsContract, Contract!Spec
==============================================================================
