-------------------- MODULE ReceiverDeliveryTrackerProofs --------------------
(***************************************************************************)
(* Proofs about ReceiverDeliveryTracker for any users, messages, sequences *)
(* and limits. The counters are exact only because the sets they count are *)
(* finite, which is therefore part of the inductive invariant.             *)
(***************************************************************************)
EXTENDS ReceiverDeliveryTracker, FiniteSetTheorems, SequenceTheorems, TLAPS

\* The sets the counters stand for stay finite.
Finite ==
    /\ IsFiniteSet(WaitingIds)
    /\ \A id \in Identities : IsFiniteSet(entries[id].seqs)

TrackerInv ==
    /\ TypeOK /\ Finite
    /\ EntryCountersExact /\ WindowBounded /\ PrivateIndexExact /\ AttemptEvidence

\* What a step of the tracker can be, with the guards its status implies.
Creates(id) ==
    \E seq \in Seqs, w \in Nat :
        /\ ~Present(id) /\ ~PrivateReceiverKnown(id) /\ WindowRoom(id, w)
        /\ CreateEntry(id, seq, w)
Retries(id) ==
    \E seq \in Seqs, extra \in Nat :
        /\ Waiting(id) /\ seq \notin entries[id].seqs /\ ~EvidenceFull(id)
        /\ extra = 0 \/ ByteRoom(id.recipient, extra)
        /\ AddAttempt(id, seq, extra)
Resends(id) == \E w \in Nat : ResendCurrent(id, w)
Confirms(id) == \E seq \in Seqs : Waiting(id) /\ Acknowledge(id, seq)

\* The size of an enlarged packet is a number.
LEMMA ExtraBytesType ==
    ASSUME TypeOK, NEW id \in Identities, NEW w \in Nat
    PROVE  ExtraBytes(id, w) \in Nat
  BY DEF ExtraBytes, TypeOK, Entry

\* The statuses under which RegisterAttempt changes the state.
LEMMA RegisterShape ==
    ASSUME TypeOK, NEW id \in Identities, NEW seq \in Seqs, NEW w \in Nat,
           RegisterAttempt(id, seq, w)
    PROVE  Creates(id) \/ Retries(id)
<1>1. entries[id].state \in States
  BY DEF TypeOK, Entry
<1>2. CASE RegisterStatus(id, seq, w) = "kRegistered" /\ CreateEntry(id, seq, w)
  <2>1. ~Present(id) /\ ~PrivateReceiverKnown(id) /\ WindowRoom(id, w)
    BY <1>1, <1>2 DEF RegisterStatus, Present, Waiting, Confirmed, States
  <2> QED  BY <1>2, <2>1 DEF Creates
<1>3. CASE RegisterStatus(id, seq, w) = "kRetryRegistered"
           /\ AddAttempt(id, seq, ExtraBytes(id, w))
  <2>1. /\ Waiting(id) /\ seq \notin entries[id].seqs /\ ~EvidenceFull(id)
        /\ ByteRoom(id.recipient, ExtraBytes(id, w))
    BY <1>1, <1>3 DEF RegisterStatus, Present, Waiting, Confirmed, States
  <2> QED  BY <1>3, <2>1, ExtraBytesType DEF Retries
<1> QED  BY <1>2, <1>3 DEF RegisterAttempt

\* Every step has one of the five shapes.
LEMMA StepShape ==
    ASSUME TypeOK, Next
    PROVE  \E id \in Identities :
              Creates(id) \/ Retries(id) \/ Resends(id) \/ Confirms(id)
              \/ CooldownElapses(id)
<1>1. PICK id \in Identities :
        \/ \E seq \in Seqs, w \in Sizes : RegisterAttempt(id, seq, w)
        \/ \E seq \in Seqs, w \in Sizes : RegisterReplayAttempt(id, seq, w)
        \/ \E expected, seq \in Seqs : RegisterRetryAttempt(id, expected, seq)
        \/ \E seq \in Seqs : Acknowledge(id, seq)
        \/ CooldownElapses(id)
  BY DEF Next
<1>2. entries[id].state \in States
  BY DEF TypeOK, Entry
<1>3. ASSUME NEW seq \in Seqs, NEW w \in Sizes, RegisterAttempt(id, seq, w)
      PROVE  Creates(id) \/ Retries(id)
  BY <1>3, RegisterShape, InputsAssumption
<1>4. ASSUME NEW seq \in Seqs, NEW w \in Sizes, RegisterReplayAttempt(id, seq, w)
      PROVE  Creates(id) \/ Retries(id) \/ Resends(id)
  BY <1>4, RegisterShape, InputsAssumption DEF RegisterReplayAttempt, Resends
<1>5. ASSUME NEW expected \in Seqs, NEW seq \in Seqs, RegisterRetryAttempt(id, expected, seq)
      PROVE  Retries(id)
  <2>1. Waiting(id) /\ seq \notin entries[id].seqs /\ ~EvidenceFull(id)
    BY <1>2, <1>5 DEF RegisterRetryAttempt, RetryStatus, Present, Waiting, Confirmed, States
  <2> QED  BY <1>5, <2>1 DEF RegisterRetryAttempt, Retries
<1>6. ASSUME NEW seq \in Seqs, Acknowledge(id, seq) PROVE Confirms(id)
  <2>1. Waiting(id)
    BY <1>2, <1>6 DEF Acknowledge, AckStatus, Present, Waiting, Confirmed, States
  <2> QED  BY <1>6, <2>1 DEF Confirms
<1> QED  BY <1>1, <1>3, <1>4, <1>5, <1>6
----------------------------------------------------------------------------
\* The waiting set of a recipient is finite and is what its window counts.
LEMMA WaitingOfFinite ==
    ASSUME Finite, NEW u
    PROVE  IsFiniteSet(WaitingOf(u)) /\ WaitingOf(u) \subseteq WaitingIds
  BY FS_Subset DEF Finite, WaitingOf

\* A new entry: counters, index and evidence all gain exactly it.
LEMMA CreatesKeeps ==
    ASSUME TrackerInv, NEW id \in Identities, Creates(id)
    PROVE  TrackerInv'
<1>1. PICK seq \in Seqs, w \in Nat :
        /\ ~Present(id) /\ ~PrivateReceiverKnown(id) /\ WindowRoom(id, w)
        /\ CreateEntry(id, seq, w)
  BY DEF Creates
<1> DEFINE fresh == [state |-> "waiting", current |-> seq, count |-> 1,
                     seqs |-> {seq}, bytes |-> w, cooling |-> TRUE]
<1>2. /\ id.domain \in Domains /\ id.message_id \in MessageIds /\ id.recipient \in Users
  BY DEF Identities
<1>3. /\ entries'[id] = fresh
      /\ \A j \in Identities \ {id} : entries'[j] = entries[j]
      /\ entries' \in [Identities -> Entry]
  BY <1>1 DEF CreateEntry, TrackerInv, TypeOK, Entry, States
<1>4. /\ by_recipient'[id.recipient].entries = by_recipient[id.recipient].entries + 1
      /\ by_recipient'[id.recipient].bytes = by_recipient[id.recipient].bytes + w
      /\ \A u \in Users \ {id.recipient} : by_recipient'[u] = by_recipient[u]
      /\ by_recipient' \in [Users -> [entries : Nat, bytes : Int]]
  BY <1>1, <1>2 DEF CreateEntry, TrackerInv, TypeOK
<1>5. TypeOK'
  <2>1. private_receivers' \in [MessageIds -> Users \cup {NoUser}]
    BY <1>1, <1>2 DEF CreateEntry, TrackerInv, TypeOK
  <2>2. waiting_entries' \in Nat /\ waiting_bytes' \in Int
    BY <1>1 DEF CreateEntry, TrackerInv, TypeOK
  <2>3. confirmed_order' \in Seq(Identities)
    BY <1>1 DEF CreateEntry, TrackerInv, TypeOK
  <2> QED  BY <1>3, <1>4, <2>1, <2>2, <2>3 DEF TypeOK
<1>6. id \notin WaitingIds /\ WaitingIds' = WaitingIds \cup {id}
  BY <1>1, <1>3 DEF WaitingIds, Waiting, Present
<1>7. /\ WaitingOf(id.recipient)' = WaitingOf(id.recipient) \cup {id}
      /\ \A u \in Users \ {id.recipient} : WaitingOf(u)' = WaitingOf(u)
  BY <1>6 DEF WaitingOf
<1>8. Finite'
  <2>1. IsFiniteSet(WaitingIds')
    BY <1>6, FS_AddElement DEF Finite, TrackerInv
  <2>2. entries'[id].seqs = {seq}
    BY <1>3
  <2>3. IsFiniteSet({seq})
    BY FS_Singleton, Zenon
  <2>4. \A j \in Identities : IsFiniteSet(entries'[j].seqs)
    BY <1>3, <2>2, <2>3, Zenon DEF Finite, TrackerInv
  <2> QED  BY <2>1, <2>4 DEF Finite
<1>9. EntryCountersExact'
  <2>1. waiting_entries' = Cardinality(WaitingIds)'
    BY <1>1, <1>6, FS_AddElement, Zenon DEF CreateEntry, TrackerInv, EntryCountersExact, Finite
  <2>2. id \notin WaitingOf(id.recipient)
    BY <1>6 DEF WaitingOf
  <2>5. IsFiniteSet(WaitingOf(id.recipient))
    BY WaitingOfFinite DEF TrackerInv
  <2>6. Cardinality(WaitingOf(id.recipient) \cup {id}) = Cardinality(WaitingOf(id.recipient)) + 1
    BY <2>2, <2>5, FS_AddElement, Zenon
  <2>3. by_recipient'[id.recipient].entries = Cardinality(WaitingOf(id.recipient)')
    BY <1>2, <1>4, <1>7, <2>6 DEF TrackerInv, EntryCountersExact
  <2>4. \A u \in Users \ {id.recipient} : by_recipient'[u].entries = Cardinality(WaitingOf(u)')
    BY <1>4, <1>7 DEF TrackerInv, EntryCountersExact
  <2> QED  BY <2>1, <2>3, <2>4 DEF EntryCountersExact
<1>10. WindowBounded'
  <2>1. waiting_entries' <= MaxWaitingEntries /\ waiting_bytes' <= MaxWaitingBytes
    BY <1>1, LimitsAssumption DEF CreateEntry, WindowRoom, ByteRoom, TrackerInv, TypeOK
  <2>2. /\ by_recipient[id.recipient].entries \in Nat
        /\ by_recipient[id.recipient].bytes \in Int
    BY <1>2 DEF TrackerInv, TypeOK
  <2>3. /\ by_recipient'[id.recipient].entries <= MaxWaitingPerRecipient
        /\ by_recipient'[id.recipient].bytes <= MaxBytesPerRecipient
    BY <1>1, <1>4, <2>2, LimitsAssumption DEF WindowRoom, ByteRoom
  <2> QED  BY <1>4, <2>1, <2>3 DEF TrackerInv, WindowBounded
<1>11. PrivateIndexExact'
  <2>1. \A m \in MessageIds : private_receivers'[m] =
          IF id.domain = "private" /\ m = id.message_id THEN id.recipient
          ELSE private_receivers[m]
    BY <1>1, <1>2 DEF CreateEntry, TrackerInv, TypeOK
  <2>2. id.domain = "private" => private_receivers[id.message_id] = NoUser
    BY <1>1 DEF PrivateReceiverKnown
  <2> SUFFICES ASSUME NEW j \in Identities, j.domain = "private"
               PROVE  Present(j)' <=> private_receivers'[j.message_id] = j.recipient
    BY DEF PrivateIndexExact
  <2>3. j.message_id \in MessageIds /\ j.recipient \in Users
    BY DEF Identities
  <2>4. CASE j = id
    BY <1>3, <2>1, <2>3, <2>4 DEF Present
  <2>5. CASE j # id /\ id.domain = "private" /\ j.message_id = id.message_id
    <3>1. ~Present(j)
      BY <2>2, <2>3, <2>5, InputsAssumption DEF TrackerInv, PrivateIndexExact
    <3>2. j.recipient # id.recipient
      BY <2>5 DEF Identities
    <3> QED  BY <1>3, <2>1, <2>3, <2>5, <3>1, <3>2 DEF Present
  <2>6. CASE j # id /\ ~(id.domain = "private" /\ j.message_id = id.message_id)
    BY <1>3, <2>1, <2>3, <2>6 DEF Present, TrackerInv, PrivateIndexExact
  <2> QED  BY <2>4, <2>5, <2>6
<1>12. AttemptEvidence'
  <2>1. Cardinality({seq}) = 1
    BY FS_Singleton
  <2>2. /\ entries'[id].current \in entries'[id].seqs
        /\ entries'[id].count = Cardinality(entries'[id].seqs)
        /\ entries'[id].count <= MaxAttemptSequences
    BY <1>3, <2>1, LimitsAssumption
  <2> QED  BY <1>3, <2>2, Zenon DEF TrackerInv, AttemptEvidence, Present
<1> QED  BY <1>5, <1>8, <1>9, <1>10, <1>11, <1>12 DEF TrackerInv

\* A step that changes no entry's state keeps the sets that are counted.
LEMMA SameStatesKeep ==
    ASSUME TrackerInv,
           \A j \in Identities : entries'[j].state = entries[j].state,
           \A u \in Users : by_recipient'[u].entries = by_recipient[u].entries,
           UNCHANGED <<private_receivers, waiting_entries>>
    PROVE  IsFiniteSet(WaitingIds') /\ EntryCountersExact' /\ PrivateIndexExact'
<1>1. WaitingIds' = WaitingIds
  BY DEF WaitingIds, Waiting
<1>2. \A u : WaitingOf(u)' = WaitingOf(u)
  BY <1>1 DEF WaitingOf
<1>3. EntryCountersExact'
  BY <1>1, <1>2 DEF TrackerInv, EntryCountersExact
<1>4. PrivateIndexExact'
  BY DEF TrackerInv, PrivateIndexExact, Present
<1> QED  BY <1>1, <1>3, <1>4 DEF TrackerInv, Finite

\* Charging extra bytes within the room keeps the window within its limits.
LEMMA ChargeKeeps ==
    ASSUME TrackerInv, NEW u \in Users, NEW extra \in Nat,
           extra = 0 \/ ByteRoom(u, extra),
           waiting_bytes' = waiting_bytes + extra,
           by_recipient' = [by_recipient EXCEPT ![u].bytes = @ + extra],
           UNCHANGED waiting_entries
    PROVE  /\ by_recipient' \in [Users -> [entries : Nat, bytes : Int]]
           /\ waiting_bytes' \in Int
           /\ \A v \in Users : by_recipient'[v].entries = by_recipient[v].entries
           /\ WindowBounded'
<1>2. /\ by_recipient \in [Users -> [entries : Nat, bytes : Int]]
      /\ by_recipient[u].bytes \in Int /\ waiting_bytes \in Int
  BY DEF TrackerInv, TypeOK
<1>1. /\ by_recipient' \in [Users -> [entries : Nat, bytes : Int]]
      /\ waiting_bytes' \in Int
      /\ by_recipient'[u].entries = by_recipient[u].entries
      /\ by_recipient'[u].bytes = by_recipient[u].bytes + extra
      /\ \A v \in Users \ {u} : by_recipient'[v] = by_recipient[v]
  <2>1. waiting_bytes' \in Int
    BY <1>2
  <2>2. by_recipient'[u] = [by_recipient[u] EXCEPT !.bytes = @ + extra]
    BY <1>2
  <2>3. /\ by_recipient'[u].entries = by_recipient[u].entries
        /\ by_recipient'[u].bytes = by_recipient[u].bytes + extra
    BY <1>2, <2>2
  <2>4. by_recipient' \in [Users -> [entries : Nat, bytes : Int]]
    BY <1>2
  <2>5. \A v \in Users \ {u} : by_recipient'[v] = by_recipient[v]
    BY <1>2
  <2> QED  BY <2>1, <2>3, <2>4, <2>5
<1>3. /\ waiting_bytes' <= MaxWaitingBytes
      /\ by_recipient'[u].bytes <= MaxBytesPerRecipient
  BY <1>1, <1>2 DEF ByteRoom, TrackerInv, WindowBounded
<1> QED  BY <1>1, <1>3 DEF TrackerInv, WindowBounded

\* Another attempt for a waiting entry.
LEMMA RetriesKeeps ==
    ASSUME TrackerInv, NEW id \in Identities, Retries(id)
    PROVE  TrackerInv'
<1>1. PICK seq \in Seqs, extra \in Nat :
        /\ Waiting(id) /\ seq \notin entries[id].seqs /\ ~EvidenceFull(id)
        /\ extra = 0 \/ ByteRoom(id.recipient, extra)
        /\ AddAttempt(id, seq, extra)
  BY DEF Retries
<1>2. id.recipient \in Users
  BY DEF Identities
<1>3. entries[id] \in Entry /\ entries \in [Identities -> Entry]
  BY DEF TrackerInv, TypeOK
<1>4. /\ entries'[id].state = entries[id].state
      /\ entries'[id].current = seq
      /\ entries'[id].count = entries[id].count + 1
      /\ entries'[id].seqs = entries[id].seqs \cup {seq}
      /\ \A j \in Identities \ {id} : entries'[j] = entries[j]
  BY <1>1, <1>3 DEF AddAttempt, Entry
<1>5. entries' \in [Identities -> Entry]
  BY <1>1, <1>3 DEF AddAttempt, Entry
<1>6. /\ by_recipient' \in [Users -> [entries : Nat, bytes : Int]]
      /\ waiting_bytes' \in Int
      /\ \A v \in Users : by_recipient'[v].entries = by_recipient[v].entries
      /\ WindowBounded'
  BY <1>1, <1>2, ChargeKeeps, Zenon DEF AddAttempt, ChargeExtra
<1>7. TypeOK'
  BY <1>1, <1>5, <1>6 DEF AddAttempt, TrackerInv, TypeOK
<1>8. IsFiniteSet(WaitingIds') /\ EntryCountersExact' /\ PrivateIndexExact'
  BY <1>1, <1>4, <1>6, SameStatesKeep, Zenon DEF AddAttempt
<1>9. /\ IsFiniteSet(entries[id].seqs)
      /\ IsFiniteSet(entries[id].seqs \cup {seq})
      /\ Cardinality(entries[id].seqs \cup {seq}) = Cardinality(entries[id].seqs) + 1
  BY <1>1, FS_AddElement, Zenon DEF TrackerInv, Finite
<1>10. Finite'
  BY <1>4, <1>8, <1>9, Zenon DEF Finite, TrackerInv
<1>11. AttemptEvidence'
  <2>1. Cardinality(entries[id].seqs) \in Nat
    BY <1>9, FS_CardinalityType
  <2>2. /\ entries'[id].current \in entries'[id].seqs
        /\ entries'[id].count = Cardinality(entries'[id].seqs)
        /\ entries'[id].count <= MaxAttemptSequences
    BY <1>1, <1>4, <1>9, <2>1, LimitsAssumption
    DEF EvidenceFull, TrackerInv, AttemptEvidence, Waiting, Present
  <2> QED  BY <1>4, <2>2, Zenon DEF TrackerInv, AttemptEvidence, Present
<1> QED  BY <1>6, <1>7, <1>8, <1>10, <1>11 DEF TrackerInv

\* A step that leaves the evidence of every entry alone keeps AttemptEvidence.
LEMMA SameEvidenceKeeps ==
    ASSUME TrackerInv,
           \A j \in Identities :
              /\ entries'[j].state = entries[j].state
              /\ entries'[j].current = entries[j].current
              /\ entries'[j].count = entries[j].count
              /\ entries'[j].seqs = entries[j].seqs
    PROVE  AttemptEvidence' /\ \A j \in Identities : IsFiniteSet(entries'[j].seqs)
  BY DEF TrackerInv, AttemptEvidence, Present, Finite

\* A capped replay only moves bytes and the cooldown.
LEMMA ResendsKeeps ==
    ASSUME TrackerInv, NEW id \in Identities, Resends(id)
    PROVE  TrackerInv'
<1>1. PICK w \in Nat : ResendCurrent(id, w)
  BY DEF Resends
<1> DEFINE extra == ExtraBytes(id, w)
<1>2. id.recipient \in Users
  BY DEF Identities
<1>3. extra \in Nat /\ entries[id] \in Entry /\ entries \in [Identities -> Entry]
  BY ExtraBytesType DEF TrackerInv, TypeOK
<1> HIDE DEF extra
<1>4. \A j \in Identities :
        /\ entries'[j].state = entries[j].state
        /\ entries'[j].current = entries[j].current
        /\ entries'[j].count = entries[j].count
        /\ entries'[j].seqs = entries[j].seqs
  BY <1>1, <1>3 DEF ResendCurrent, Entry
<1>5. entries' \in [Identities -> Entry]
  <2>1. entries' = [entries EXCEPT ![id].bytes = @ + extra, ![id].cooling = TRUE]
    BY <1>1 DEF ResendCurrent, extra
  <2>2. entries[id].bytes + extra \in Nat
    BY <1>3 DEF Entry
  <2> QED  BY <1>3, <2>1, <2>2, Zenon DEF Entry
<1>6. /\ by_recipient' \in [Users -> [entries : Nat, bytes : Int]]
      /\ waiting_bytes' \in Int
      /\ \A v \in Users : by_recipient'[v].entries = by_recipient[v].entries
      /\ WindowBounded'
  BY <1>1, <1>2, <1>3, ChargeKeeps, Zenon DEF ResendCurrent, ChargeExtra, extra
<1>7. TypeOK'
  BY <1>1, <1>5, <1>6 DEF ResendCurrent, TrackerInv, TypeOK
<1>8. IsFiniteSet(WaitingIds') /\ EntryCountersExact' /\ PrivateIndexExact'
  BY <1>1, <1>4, <1>6, SameStatesKeep, Zenon DEF ResendCurrent
<1>9. AttemptEvidence' /\ \A j \in Identities : IsFiniteSet(entries'[j].seqs)
  BY <1>4, SameEvidenceKeeps
<1> QED  BY <1>6, <1>7, <1>8, <1>9 DEF TrackerInv, Finite

\* The clock touches nothing that is counted.
LEMMA CooldownKeeps ==
    ASSUME TrackerInv, NEW id \in Identities, CooldownElapses(id)
    PROVE  TrackerInv'
<1>1. entries \in [Identities -> Entry]
  BY DEF TrackerInv, TypeOK
<1>2. /\ entries' \in [Identities -> Entry]
      /\ \A j \in Identities :
            /\ entries'[j].state = entries[j].state
            /\ entries'[j].current = entries[j].current
            /\ entries'[j].count = entries[j].count
            /\ entries'[j].seqs = entries[j].seqs
  BY <1>1, Zenon DEF CooldownElapses, Entry
<1>3. TypeOK' /\ WindowBounded'
  BY <1>2 DEF CooldownElapses, TrackerInv, TypeOK, WindowBounded
<1>4. IsFiniteSet(WaitingIds') /\ EntryCountersExact' /\ PrivateIndexExact'
  BY <1>2, SameStatesKeep DEF CooldownElapses
<1>5. AttemptEvidence' /\ \A j \in Identities : IsFiniteSet(entries'[j].seqs)
  BY <1>2, SameEvidenceKeeps
<1> QED  BY <1>3, <1>4, <1>5 DEF TrackerInv, Finite

\* What an acknowledgement does to the entries: the acknowledged one becomes
\* confirmed or is evicted, other confirmed ones may be evicted, waiting ones
\* stay as they are.
LEMMA ConfirmsEntries ==
    ASSUME TrackerInv, NEW id \in Identities, Waiting(id),
           NEW seq \in Seqs, Acknowledge(id, seq)
    PROVE  /\ entries' \in [Identities -> Entry]
           /\ ~Waiting(id)'
           /\ \A j \in Identities \ {id} :
                 \/ entries'[j] = entries[j]
                 \/ entries[j].state = "confirmed" /\ entries'[j] = NoEntry
           /\ \/ entries'[id] = NoEntry
              \/ entries'[id] = [entries[id] EXCEPT !.state = "confirmed", !.bytes = 0]
           /\ \A m \in MessageIds : private_receivers'[m] =
                 IF \E j \in Identities : /\ j.domain = "private" /\ j.message_id = m
                                          /\ Present(j) /\ entries'[j] = NoEntry
                 THEN NoUser ELSE private_receivers[m]
<1> DEFINE ents == [entries EXCEPT ![id].state = "confirmed", ![id].bytes = 0]
           order == Append(confirmed_order, id)
           evicted == {j \in Overflow(order) : ents[j].state = "confirmed"}
<1>1. entries \in [Identities -> Entry] /\ confirmed_order \in Seq(Identities)
  BY DEF TrackerInv, TypeOK
<1>2. /\ ents[id] = [entries[id] EXCEPT !.state = "confirmed", !.bytes = 0]
      /\ \A j \in Identities \ {id} : ents[j] = entries[j]
      /\ ents \in [Identities -> Entry]
  BY <1>1, Zenon DEF Entry, States
<1>s. ents[id].state = "confirmed"
  BY <1>1, <1>2 DEF Entry
<1>3. NoEntry \in Entry
  BY DEF NoEntry, Entry, States
<1>4. order \in Seq(Identities)
  BY <1>1
<1>5. Overflow(order) \subseteq Identities
  BY <1>4, LimitsAssumption DEF Overflow
<1>6. /\ entries' = [j \in Identities |-> IF j \in evicted THEN NoEntry ELSE ents[j]]
      /\ private_receivers' = [m \in MessageIds |->
            IF \E j \in evicted : j.domain = "private" /\ j.message_id = m
            THEN NoUser ELSE private_receivers[m]]
  BY DEF Acknowledge, TrimConfirmed
<1> HIDE DEF ents, order
<1>7. \A j \in Identities : j \in evicted <=> Present(j) /\ entries'[j] = NoEntry
  <2> SUFFICES ASSUME NEW j \in Identities
               PROVE  j \in evicted <=> Present(j) /\ entries'[j] = NoEntry
    OBVIOUS
  <2>1. ents[j].state # "absent" <=> Present(j)
    BY <1>2, <1>s, Zenon DEF Present, Waiting
  <2>2. ents[j] = NoEntry => ents[j].state = "absent"
    BY DEF NoEntry
  <2> QED  BY <1>6, <2>1, <2>2
<1>8. evicted \subseteq Identities
  BY <1>5
<1>9. \A m \in MessageIds : private_receivers'[m] =
        IF \E j \in Identities : /\ j.domain = "private" /\ j.message_id = m
                                 /\ Present(j) /\ entries'[j] = NoEntry
        THEN NoUser ELSE private_receivers[m]
  BY <1>6, <1>7, <1>8
<1>10. ~Waiting(id)'
  <2>1. entries'[id].state \in {"absent", "confirmed"}
    BY <1>6, <1>s DEF NoEntry
  <2> QED  BY <2>1 DEF Waiting
<1>11. entries' \in [Identities -> Entry]
  BY <1>2, <1>3, <1>6
<1>12. \A j \in Identities \ {id} :
          \/ entries'[j] = entries[j]
          \/ entries[j].state = "confirmed" /\ entries'[j] = NoEntry
  BY <1>2, <1>6
<1>13. \/ entries'[id] = NoEntry
       \/ entries'[id] = [entries[id] EXCEPT !.state = "confirmed", !.bytes = 0]
  BY <1>2, <1>6
<1> QED  BY <1>9, <1>10, <1>11, <1>12, <1>13

\* TrimConfirmedLocked keeps a history of distinct confirmed identities exact,
\* drops only its oldest element and so never the one just acknowledged.
LEMMA ConfirmsHistory ==
    ASSUME TrackerInv, ConfirmedHistoryExact, NEW id \in Identities, Waiting(id),
           NEW seq \in Seqs, Acknowledge(id, seq)
    PROVE  /\ confirmed_order' \in Seq(Identities)
           /\ ConfirmedHistoryExact'
           /\ Confirmed(id)' /\ entries'[id].seqs = entries[id].seqs
<1> DEFINE ents == [entries EXCEPT ![id].state = "confirmed", ![id].bytes = 0]
           n == Len(confirmed_order)
           order == Append(confirmed_order, id)
           evicted == {j \in Overflow(order) : ents[j].state = "confirmed"}
<1>1. entries \in [Identities -> Entry] /\ confirmed_order \in Seq(Identities)
  BY DEF TrackerInv, TypeOK
<1>2. /\ ents[id].state = "confirmed" /\ ents[id].seqs = entries[id].seqs
      /\ \A j \in Identities \ {id} : ents[j] = entries[j]
  BY <1>1 DEF Entry
<1>3. /\ n \in Nat /\ n <= MaxRecentConfirmed /\ MaxRecentConfirmed \in Nat \ {0}
      /\ order \in Seq(Identities) /\ Len(order) = n + 1
      /\ DOMAIN order = 1 .. (n + 1) /\ DOMAIN confirmed_order = 1 .. n
      /\ order[n + 1] = id /\ \A i \in 1 .. n : order[i] = confirmed_order[i]
  BY <1>1, LimitsAssumption DEF ConfirmedHistoryExact
<1>4. \A j \in Identities : j \in Range(confirmed_order) <=> Confirmed(j)
  BY DEF ConfirmedHistoryExact
<1>5. ~Confirmed(id)
  BY DEF Confirmed, Waiting
<1>6. \A i \in 1 .. n : confirmed_order[i] # id
  BY <1>3, <1>4, <1>5 DEF Range
<1>7. IsInjective(order)
  BY <1>3, <1>6 DEF ConfirmedHistoryExact, IsInjective
<1>8. /\ confirmed_order' = Recent(order)
      /\ entries' = [j \in Identities |-> IF j \in evicted THEN NoEntry ELSE ents[j]]
  BY DEF Acknowledge, TrimConfirmed
<1>e. \A j \in Identities : ents[j].state = "confirmed" <=> Confirmed(j) \/ j = id
  BY <1>2, Zenon DEF Confirmed
<1>n. NoEntry.state = "absent"
  BY DEF NoEntry
<1> HIDE DEF ents
<1>9. CASE n < MaxRecentConfirmed
  <2>1. Overflow(order) = {}
    BY <1>3, <1>9 DEF Overflow
  <2>2. confirmed_order' = order
    BY <1>3, <1>8, <1>9 DEF Recent
  <2>3. \A j \in Identities : entries'[j] = ents[j]
    BY <1>8, <2>1
  <2>4. \A j \in Identities : j \in Range(order) <=> Confirmed(j) \/ j = id
    BY <1>3, <1>4 DEF Range
  <2>5. \A j \in Identities : Confirmed(j)' <=> j \in Range(confirmed_order)'
    BY <1>e, <2>2, <2>3, <2>4 DEF Confirmed
  <2>6. Len(confirmed_order') <= MaxRecentConfirmed
    BY <1>3, <1>9, <2>2
  <2> QED
    BY <1>2, <1>3, <1>7, <2>2, <2>3, <2>5, <2>6 DEF ConfirmedHistoryExact, Confirmed
<1>10. CASE n = MaxRecentConfirmed
  <2> DEFINE old == confirmed_order[1]
  <2>1. /\ old \in Identities /\ old # id /\ Confirmed(old) /\ order[1] = old
    BY <1>1, <1>3, <1>4, <1>6, <1>10 DEF Range
  <2>2. Overflow(order) = {old}
    BY <1>3, <1>10, <2>1 DEF Overflow
  <2>3. confirmed_order' = SubSeq(order, 2, n + 1)
    BY <1>3, <1>8, <1>10 DEF Recent
  <2>4. \A i \in 2 .. (n + 1) : order[i] \in Identities
    BY <1>3
  <2>5. /\ confirmed_order' \in Seq(Identities) /\ Len(confirmed_order') = n
        /\ \A i \in 1 .. n : confirmed_order'[i] = order[i + 1]
    <3>1. /\ SubSeq(order, 2, n + 1) \in Seq(Identities)
          /\ Len(SubSeq(order, 2, n + 1)) = IF 2 <= n + 1 THEN n + 1 - 2 + 1 ELSE 0
          /\ \A i \in 1 .. (n + 1 - 2 + 1) : SubSeq(order, 2, n + 1)[i] = order[2 + i - 1]
      BY <1>3, <2>4, SubSeqProperties
    <3> QED  BY <1>3, <1>10, <2>3, <3>1
  <2>6. DOMAIN confirmed_order' = 1 .. n
    BY <1>3, <2>5
  <2>7. IsInjective(confirmed_order')
    <3> HIDE DEF n, order
    <3> SUFFICES ASSUME NEW a \in 1 .. n, NEW b \in 1 .. n,
                        confirmed_order'[a] = confirmed_order'[b]
                 PROVE  a = b
      BY <2>6 DEF IsInjective
    <3>1. order[a + 1] = order[b + 1] /\ a + 1 \in 1 .. (n + 1) /\ b + 1 \in 1 .. (n + 1)
      BY <1>3, <2>5
    <3>2. a + 1 = b + 1
      BY <1>3, <1>7, <3>1 DEF IsInjective
    <3> QED  BY <1>3, <3>2
  <2>8. evicted = {old}
    BY <1>e, <2>1, <2>2
  <2>9. \A j \in Identities : Confirmed(j)' <=> (Confirmed(j) \/ j = id) /\ j # old
    BY <1>8, <1>e, <1>n, <2>8 DEF Confirmed
  <2>10. \A j \in Identities : j \in Range(confirmed_order') <=> \E i \in 2 .. (n + 1) : order[i] = j
    <3> HIDE DEF n, order
    <3> SUFFICES ASSUME NEW j \in Identities
                 PROVE  j \in Range(confirmed_order')
                           <=> \E i \in 2 .. (n + 1) : order[i] = j
      OBVIOUS
    <3>1. ASSUME j \in Range(confirmed_order') PROVE \E i \in 2 .. (n + 1) : order[i] = j
      <4>1. PICK i \in 1 .. n : confirmed_order'[i] = j
        BY <2>6, <3>1 DEF Range
      <4>2. order[i + 1] = j /\ i + 1 \in 2 .. (n + 1)
        BY <1>3, <2>5, <4>1
      <4> QED  BY <4>2
    <3>2. ASSUME NEW i \in 2 .. (n + 1), order[i] = j PROVE j \in Range(confirmed_order')
      <4>1. i - 1 \in 1 .. n /\ (i - 1) + 1 = i
        BY <1>3
      <4>2. confirmed_order'[i - 1] = j
        BY <2>5, <3>2, <4>1
      <4> QED  BY <2>6, <4>1, <4>2 DEF Range
    <3> QED  BY <3>1, <3>2
  <2>11. \A j \in Identities : (\E i \in 2 .. (n + 1) : order[i] = j)
            <=> (\E i \in 1 .. (n + 1) : order[i] = j) /\ j # old
    BY <1>3, <1>7, <2>1 DEF IsInjective
  <2>12. \A j \in Identities : (\E i \in 1 .. (n + 1) : order[i] = j) <=> Confirmed(j) \/ j = id
    BY <1>3, <1>4 DEF Range
  <2>13. \A j \in Identities : Confirmed(j)' <=> j \in Range(confirmed_order')
    BY <2>9, <2>10, <2>11, <2>12
  <2>14. Confirmed(id)' /\ entries'[id].seqs = entries[id].seqs
    BY <1>2, <1>8, <2>1, <2>8 DEF Confirmed
  <2> HIDE DEF n
  <2>15. Len(confirmed_order') <= MaxRecentConfirmed
    BY <1>3, <2>5
  <2>16. ConfirmedHistoryExact'
    BY <2>7, <2>13, <2>15 DEF ConfirmedHistoryExact
  <2> QED  BY <2>5, <2>14, <2>16
<1>11. n < MaxRecentConfirmed \/ n = MaxRecentConfirmed
  <2> HIDE DEF n
  <2> QED  BY <1>3
<1> QED  BY <1>9, <1>10, <1>11, Zenon

\* An acknowledgement takes exactly its entry out of the window.
LEMMA ConfirmsKeeps ==
    ASSUME TrackerInv, ConfirmedHistoryExact, NEW id \in Identities, Confirms(id)
    PROVE  TrackerInv' /\ ConfirmedHistoryExact'
<1>1. PICK seq \in Seqs : Waiting(id) /\ Acknowledge(id, seq)
  BY DEF Confirms
<1> DEFINE rec == id.recipient
<1>2. rec \in Users
  BY Zenon DEF Identities
<1>3. /\ entries' \in [Identities -> Entry]
      /\ ~Waiting(id)'
      /\ \A j \in Identities \ {id} :
            \/ entries'[j] = entries[j]
            \/ entries[j].state = "confirmed" /\ entries'[j] = NoEntry
      /\ \/ entries'[id] = NoEntry
         \/ entries'[id] = [entries[id] EXCEPT !.state = "confirmed", !.bytes = 0]
      /\ \A m \in MessageIds : private_receivers'[m] =
            IF \E j \in Identities : /\ j.domain = "private" /\ j.message_id = m
                                     /\ Present(j) /\ entries'[j] = NoEntry
            THEN NoUser ELSE private_receivers[m]
  BY <1>1, ConfirmsEntries, Zenon
<1>4. /\ confirmed_order' \in Seq(Identities) /\ ConfirmedHistoryExact'
      /\ Confirmed(id)'
  BY <1>1, ConfirmsHistory
<1>n. NoEntry.state = "absent" /\ NoEntry.seqs = {}
  BY DEF NoEntry
<1>5. id \in WaitingIds /\ WaitingIds' = WaitingIds \ {id}
  BY <1>1, <1>3, <1>n DEF WaitingIds, Waiting
<1>6. /\ id \in WaitingOf(rec) /\ WaitingOf(rec)' = WaitingOf(rec) \ {id}
      /\ \A u \in Users \ {rec} : WaitingOf(u)' = WaitingOf(u)
  BY <1>5 DEF WaitingOf
<1>7. /\ IsFiniteSet(WaitingIds) /\ IsFiniteSet(WaitingOf(rec))
  BY WaitingOfFinite DEF TrackerInv, Finite
<1>8. /\ IsFiniteSet(WaitingIds') /\ Cardinality(WaitingIds') = Cardinality(WaitingIds) - 1
      /\ Cardinality(WaitingOf(rec)') = Cardinality(WaitingOf(rec)) - 1
  BY <1>5, <1>6, <1>7, FS_RemoveElement, Zenon
<1>9. waiting_entries' = waiting_entries - 1 /\ waiting_entries = Cardinality(WaitingIds)
  BY <1>1 DEF Acknowledge, TrackerInv, EntryCountersExact
<1>10. waiting_entries \in Nat \ {0} /\ by_recipient[rec].entries \in Nat \ {0}
  <2>1. Cardinality(WaitingIds) # 0 /\ Cardinality(WaitingOf(rec)) # 0
    BY <1>5, <1>6, <1>7, FS_EmptySet
  <2> QED  BY <1>2, <1>9, <2>1 DEF TrackerInv, TypeOK, EntryCountersExact
<1>11. entries[id].bytes \in Nat
  BY DEF TrackerInv, TypeOK, Entry
<1>12. /\ by_recipient[rec].bytes \in Int
       /\ by_recipient'[rec] = CloseWindow(by_recipient[rec], entries[id].bytes)
       /\ \A u \in Users \ {rec} : by_recipient'[u] = by_recipient[u]
       /\ by_recipient' = [by_recipient EXCEPT ![rec] = CloseWindow(@, entries[id].bytes)]
  BY <1>1, <1>2 DEF Acknowledge, TrackerInv, TypeOK
<1>13. /\ by_recipient'[rec].entries = by_recipient[rec].entries - 1
       /\ by_recipient'[rec].bytes <= MaxBytesPerRecipient
       /\ by_recipient'[rec] \in [entries : Nat, bytes : Int]
  BY <1>2, <1>10, <1>11, <1>12, LimitsAssumption DEF CloseWindow, NoWindow, TrackerInv, WindowBounded
<1>14. by_recipient' \in [Users -> [entries : Nat, bytes : Int]]
  BY <1>12, <1>13 DEF TrackerInv, TypeOK
<1>15. TypeOK'
  <2>1. waiting_bytes' \in Int
    BY <1>1, <1>11 DEF Acknowledge, TrackerInv, TypeOK
  <2>2. private_receivers' \in [MessageIds -> Users \cup {NoUser}]
    BY <1>1 DEF Acknowledge, TrimConfirmed, TrackerInv, TypeOK
  <2> QED  BY <1>3, <1>4, <1>9, <1>10, <1>14, <2>1, <2>2 DEF TypeOK
<1>16. EntryCountersExact'
  <2>1. by_recipient'[rec].entries = Cardinality(WaitingOf(rec)')
    BY <1>2, <1>8, <1>13 DEF TrackerInv, EntryCountersExact
  <2>2. \A u \in Users \ {rec} : by_recipient'[u].entries = Cardinality(WaitingOf(u)')
    BY <1>6, <1>12 DEF TrackerInv, EntryCountersExact
  <2> QED  BY <1>8, <1>9, <2>1, <2>2 DEF EntryCountersExact
<1>17. WindowBounded'
  <2>1. waiting_entries' <= MaxWaitingEntries /\ waiting_bytes' <= MaxWaitingBytes
    <3>1. waiting_bytes' = waiting_bytes - entries[id].bytes
      BY <1>1 DEF Acknowledge
    <3>2. /\ waiting_bytes \in Int /\ waiting_bytes <= MaxWaitingBytes
          /\ waiting_entries <= MaxWaitingEntries
      BY DEF TrackerInv, TypeOK, WindowBounded
    <3> QED  BY <1>9, <1>10, <1>11, <3>1, <3>2, LimitsAssumption
  <2>2. by_recipient'[rec].entries <= MaxWaitingPerRecipient
    BY <1>2, <1>10, <1>13, LimitsAssumption DEF TrackerInv, WindowBounded
  <2>3. ASSUME NEW u \in Users \ {rec}
        PROVE  /\ by_recipient'[u].entries <= MaxWaitingPerRecipient
               /\ by_recipient'[u].bytes <= MaxBytesPerRecipient
    BY <1>12, <2>3 DEF TrackerInv, WindowBounded
  <2> QED  BY <1>13, <2>1, <2>2, <2>3 DEF WindowBounded
<1>18. Finite'
  <2>1. IsFiniteSet({})
    BY FS_EmptySet
  <2>2. entries'[id].seqs \in {{}, entries[id].seqs}
    BY <1>3, <1>n, Zenon DEF TrackerInv, TypeOK, Entry
  <2> QED  BY <1>3, <1>8, <1>n, <2>1, <2>2, Zenon DEF Finite, TrackerInv
<1>19. PrivateIndexExact'
  <2> SUFFICES ASSUME NEW j \in Identities, j.domain = "private"
               PROVE  Present(j)' <=> private_receivers'[j.message_id] = j.recipient
    BY DEF PrivateIndexExact
  <2>1. j.message_id \in MessageIds /\ j.recipient \in Users /\ j.recipient # NoUser
    BY InputsAssumption DEF Identities
  <2>2. \A k \in Identities : k.domain = "private" /\ k.message_id = j.message_id
           /\ Present(k) /\ Present(j) => k = j
    BY DEF TrackerInv, PrivateIndexExact, Identities
  <2>3. Present(j)' => Present(j)
    BY <1>1, <1>3, <1>n DEF Present, Waiting
  <2>4. Present(j) => (Present(j)' <=> entries'[j] # NoEntry)
    BY <1>3, <1>4, <1>n DEF Present, Confirmed
  <2>5. CASE Present(j)
    BY <1>3, <2>1, <2>2, <2>4, <2>5 DEF TrackerInv, PrivateIndexExact
  <2>6. CASE ~Present(j)
    BY <1>3, <2>1, <2>3, <2>6 DEF TrackerInv, PrivateIndexExact
  <2> QED  BY <2>5, <2>6
<1>20. AttemptEvidence'
  <2>1. Confirmed(id)' => entries'[id] = [entries[id] EXCEPT !.state = "confirmed", !.bytes = 0]
    BY <1>3, <1>n DEF Confirmed
  <2>2. /\ entries'[id].current = entries[id].current
        /\ entries'[id].count = entries[id].count
        /\ entries'[id].seqs = entries[id].seqs
    BY <1>4, <2>1, Zenon DEF TrackerInv, TypeOK, Entry
  <2>3. Present(id)
    BY <1>1 DEF Present, Waiting
  <2> QED  BY <1>3, <1>n, <2>2, <2>3 DEF TrackerInv, AttemptEvidence, Present
<1> QED
  BY <1>4, <1>15, <1>16, <1>17, <1>18, <1>19, <1>20 DEF TrackerInv

\* Only acknowledgements touch the confirmation history or confirm an entry.
LEMMA OthersKeepHistory ==
    ASSUME TrackerInv, ConfirmedHistoryExact, NEW id \in Identities,
           Creates(id) \/ Retries(id) \/ Resends(id) \/ CooldownElapses(id)
    PROVE  ConfirmedHistoryExact'
<1>0. entries \in [Identities -> Entry]
  BY DEF TrackerInv, TypeOK
<1>1. confirmed_order' = confirmed_order
  BY Zenon DEF Creates, CreateEntry, Retries, AddAttempt, Resends, ResendCurrent, CooldownElapses
<1>2. \A j \in Identities : Confirmed(j)' <=> Confirmed(j)
  <2>1. CASE Creates(id)
    BY <1>0, <2>1 DEF Creates, CreateEntry, Confirmed, Present, Entry
  <2>2. CASE Retries(id)
    <3>1. PICK seq \in Seqs, extra \in Nat : AddAttempt(id, seq, extra)
      BY <2>2 DEF Retries
    <3>2. \A j \in Identities : entries'[j].state = entries[j].state
      BY <1>0, <3>1 DEF AddAttempt, Entry
    <3> QED  BY <3>2 DEF Confirmed
  <2>3. CASE Resends(id)
    <3>1. PICK w \in Nat : ResendCurrent(id, w)
      BY <2>3 DEF Resends
    <3>2. \A j \in Identities : entries'[j].state = entries[j].state
      BY <1>0, <3>1 DEF ResendCurrent, Entry
    <3> QED  BY <3>2 DEF Confirmed
  <2>4. CASE CooldownElapses(id)
    BY <1>0, <2>4 DEF CooldownElapses, Confirmed, Entry
  <2> QED  BY <2>1, <2>2, <2>3, <2>4
<1> QED  BY <1>1, <1>2 DEF ConfirmedHistoryExact

\* The inductive invariant is preserved.
LEMMA TrackerInductive ==
    TrackerInv /\ ConfirmedHistoryExact /\ [Next]_vars
        => TrackerInv' /\ ConfirmedHistoryExact'
<1> SUFFICES ASSUME TrackerInv, ConfirmedHistoryExact, [Next]_vars
             PROVE  TrackerInv' /\ ConfirmedHistoryExact'
  OBVIOUS
<1>1. CASE Next
  <2>1. PICK id \in Identities :
          Creates(id) \/ Retries(id) \/ Resends(id) \/ Confirms(id) \/ CooldownElapses(id)
    BY <1>1, StepShape DEF TrackerInv
  <2> QED
    BY <2>1, CreatesKeeps, RetriesKeeps, ResendsKeeps, ConfirmsKeeps, CooldownKeeps,
       OthersKeepHistory
<1>2. CASE UNCHANGED vars
  BY <1>2 DEF vars, TrackerInv, TypeOK, Finite, EntryCountersExact, WindowBounded,
     PrivateIndexExact, AttemptEvidence, ConfirmedHistoryExact, WaitingIds, WaitingOf,
     Waiting, Present, Confirmed
<1> QED  BY <1>1, <1>2

\* The initial state satisfies the inductive invariant.
LEMMA TrackerInit == Init => TrackerInv /\ ConfirmedHistoryExact
<1> SUFFICES ASSUME Init PROVE TrackerInv /\ ConfirmedHistoryExact
  OBVIOUS
<1>1. \A id \in Identities : entries[id] = NoEntry
  BY DEF Init
<1>2. /\ NoEntry \in Entry /\ NoEntry.state = "absent" /\ NoEntry.seqs = {}
  BY DEF NoEntry, Entry, States
<1>3. WaitingIds = {} /\ \A u : WaitingOf(u) = {}
  BY <1>1, <1>2 DEF WaitingIds, WaitingOf, Waiting
<1>4. IsFiniteSet({}) /\ Cardinality({}) = 0
  BY FS_EmptySet
<1>5. \A u \in Users : by_recipient[u].entries = 0 /\ by_recipient[u].bytes = 0
  BY DEF Init, NoWindow
<1>6. TypeOK
  <2>1. entries \in [Identities -> Entry]
    BY <1>2 DEF Init
  <2>2. by_recipient \in [Users -> [entries : Nat, bytes : Int]]
    BY DEF Init, NoWindow
  <2> QED  BY <2>1, <2>2 DEF Init, TypeOK
<1>7. Finite
  BY <1>1, <1>2, <1>3, <1>4 DEF Finite
<1>8. EntryCountersExact
  BY <1>3, <1>4, <1>5, Zenon DEF Init, EntryCountersExact
<1>9. WindowBounded
  BY <1>5, LimitsAssumption DEF Init, WindowBounded
<1>10. PrivateIndexExact
  <2> SUFFICES ASSUME NEW id \in Identities
               PROVE  ~Present(id) /\ private_receivers[id.message_id] # id.recipient
    BY DEF PrivateIndexExact
  <2>1. id.message_id \in MessageIds /\ id.recipient \in Users
    BY DEF Identities
  <2> QED  BY <1>1, <1>2, <2>1, InputsAssumption DEF Init, Present
<1>11. AttemptEvidence
  BY <1>1, <1>2 DEF AttemptEvidence, Present
<1>12. ConfirmedHistoryExact
  <2>1. Range(confirmed_order) = {} /\ IsInjective(confirmed_order)
    BY DEF Init, Range, IsInjective
  <2>2. Len(confirmed_order) <= MaxRecentConfirmed
    BY LimitsAssumption DEF Init
  <2> QED  BY <1>1, <1>2, <2>1, <2>2 DEF ConfirmedHistoryExact, Confirmed
<1> QED  BY <1>6, <1>7, <1>8, <1>9, <1>10, <1>11, <1>12 DEF TrackerInv

\* TypeOK: the tracker keeps its shape; no size_t counter goes below zero.
THEOREM TrackerTypes == Spec => []TypeOK
  BY TrackerInit, TrackerInductive, PTL DEF Spec, TrackerInv

\* The entry counters equal a scan of the entries, for any users and limits.
THEOREM CountersExact == Spec => []EntryCountersExact
  BY TrackerInit, TrackerInductive, PTL DEF Spec, TrackerInv

\* The window never outgrows any of its four limits.
THEOREM WindowStaysBounded == Spec => []WindowBounded
  BY TrackerInit, TrackerInductive, PTL DEF Spec, TrackerInv

\* private_receivers_ indexes exactly the private entries.
THEOREM PrivateIndex == Spec => []PrivateIndexExact
  BY TrackerInit, TrackerInductive, PTL DEF Spec, TrackerInv

\* The attempt evidence is consistent and bounded.
THEOREM Evidence == Spec => []AttemptEvidence
  BY TrackerInit, TrackerInductive, PTL DEF Spec, TrackerInv

\* confirmed_order_ lists exactly the confirmed identities, within its bound.
THEOREM History == Spec => []ConfirmedHistoryExact
  BY TrackerInit, TrackerInductive, PTL DEF Spec

\* No waiting message is forgotten, no evidence is dropped while it waits, and
\* no confirmation is taken back.
THEOREM EvidenceKept == Spec => EvidenceMonotonic
<1> DEFINE Kept == \A id \in Identities :
              /\ Waiting(id) => /\ Present(id)'
                                /\ entries[id].seqs \subseteq entries'[id].seqs
              /\ Confirmed(id) => ~Waiting(id)'
<1>1. TrackerInv /\ ConfirmedHistoryExact /\ [Next]_vars => [Kept]_vars
  <2> SUFFICES ASSUME TrackerInv, ConfirmedHistoryExact, Next, NEW j \in Identities
               PROVE  /\ Waiting(j) => /\ Present(j)'
                                       /\ entries[j].seqs \subseteq entries'[j].seqs
                      /\ Confirmed(j) => ~Waiting(j)'
    OBVIOUS
  <2>0. entries \in [Identities -> Entry] /\ NoEntry.state = "absent"
    BY DEF TrackerInv, TypeOK, NoEntry
  <2>1. PICK id \in Identities :
          Creates(id) \/ Retries(id) \/ Resends(id) \/ Confirms(id) \/ CooldownElapses(id)
    BY StepShape DEF TrackerInv
  <2>2. CASE Creates(id)
    BY <2>0, <2>2 DEF Creates, CreateEntry, Waiting, Present, Confirmed, Entry
  <2>3. CASE Retries(id)
    BY <2>0, <2>3 DEF Retries, AddAttempt, Waiting, Present, Confirmed, Entry
  <2>4. CASE Resends(id)
    BY <2>0, <2>4 DEF Resends, ResendCurrent, Waiting, Present, Confirmed, Entry
  <2>5. CASE CooldownElapses(id)
    BY <2>0, <2>5 DEF CooldownElapses, Waiting, Present, Confirmed, Entry
  <2>6. CASE Confirms(id)
    <3>1. PICK seq \in Seqs : Waiting(id) /\ Acknowledge(id, seq)
      BY <2>6 DEF Confirms
    <3>2. Confirmed(id)' /\ entries'[id].seqs = entries[id].seqs
      BY <3>1, ConfirmsHistory, Zenon
    <3>3. \A k \in Identities \ {id} :
            \/ entries'[k] = entries[k]
            \/ entries[k].state = "confirmed" /\ entries'[k] = NoEntry
      BY <3>1, ConfirmsEntries, Zenon
    <3> QED  BY <2>0, <3>1, <3>2, <3>3 DEF Waiting, Present, Confirmed
  <2> QED  BY <2>1, <2>2, <2>3, <2>4, <2>5, <2>6
<1> QED
  BY <1>1, TrackerInit, TrackerInductive, PTL DEF Spec, EvidenceMonotonic
=============================================================================
