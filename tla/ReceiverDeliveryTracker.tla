---------------------- MODULE ReceiverDeliveryTracker ----------------------
(***************************************************************************)
(* gateway/ReceiverDeliveryTracker: the Gateway's bounded in-memory        *)
(* evidence of which packets (delivery sequences, D) carry which message   *)
(* to which receiver, and which of them the receiver acknowledged.         *)
(*                                                                         *)
(* Every public method takes the tracker's mutex, so each is one action.   *)
(* A method's status is an operator (RegisterStatus, RetryStatus,          *)
(* AckStatus); statuses that leave the state alone are stuttering steps.   *)
(* The clock is abstracted to one bit per entry: "cooling" is TRUE from an *)
(* attempt until the recovery cooldown has elapsed.                        *)
(***************************************************************************)
EXTENDS Integers, Sequences, FiniteSets, Functions

CONSTANTS
    MessageIds,             \* message_id
    Users,                  \* recipient_user_id
    Seqs,                   \* delivery sequences an allocator may propose
    Sizes,                  \* wire_bytes of an encoded packet
    NoUser,                 \* no private receiver recorded
    NoSeq,                  \* current_delivery_seq of an absent entry
    MaxWaitingEntries, MaxWaitingPerRecipient,
    MaxWaitingBytes, MaxBytesPerRecipient,
    MaxAttemptSequences, MaxRecentConfirmed,
    MaxAttempts             \* receiver_delivery_max_attempts of the caller

\* The constructor clamps every limit to at least 1 (lines 12-18).
ASSUME LimitsAssumption ==
    /\ MaxWaitingEntries \in Nat \ {0}
    /\ MaxWaitingPerRecipient \in Nat \ {0}
    /\ MaxWaitingBytes \in Nat \ {0}
    /\ MaxBytesPerRecipient \in Nat \ {0}
    /\ MaxAttemptSequences \in Nat \ {0}
    /\ MaxRecentConfirmed \in Nat \ {0}
    /\ MaxAttempts \in Nat \ {0}
ASSUME InputsAssumption ==
    /\ Sizes \subseteq Nat
    /\ NoUser \notin Users
    /\ NoSeq \notin Seqs

VARIABLES
    entries,              \* entries_, total over the identities
    private_receivers,    \* private_receivers_
    confirmed_order,      \* confirmed_order_, oldest first
    by_recipient,         \* waiting_by_recipient_, zero where absent
    waiting_entries, waiting_bytes, attempt_sequences

vars == <<entries, private_receivers, confirmed_order, by_recipient,
          waiting_entries, waiting_bytes, attempt_sequences>>

Domains == {"private", "group"}
Identities == [domain : Domains, message_id : MessageIds, recipient : Users]
States == {"absent", "waiting", "confirmed"}

Entry == [state : States, current : Seqs \cup {NoSeq}, count : Nat,
          seqs : SUBSET Seqs, bytes : Nat, cooling : BOOLEAN]
NoEntry == [state |-> "absent", current |-> NoSeq, count |-> 0,
            seqs |-> {}, bytes |-> 0, cooling |-> FALSE]
NoWindow == [entries |-> 0, bytes |-> 0]

Present(id) == entries[id].state # "absent"
Waiting(id) == entries[id].state = "waiting"
Confirmed(id) == entries[id].state = "confirmed"

Init ==
    /\ entries = [id \in Identities |-> NoEntry]
    /\ private_receivers = [m \in MessageIds |-> NoUser]
    /\ confirmed_order = <<>>
    /\ by_recipient = [u \in Users |-> NoWindow]
    /\ waiting_entries = 0
    /\ waiting_bytes = 0
    /\ attempt_sequences = 0

----------------------------------------------------------------------------
(* Guards shared by the registration methods.                              *)

ByteRoom(u, extra) ==
    /\ waiting_bytes + extra <= MaxWaitingBytes
    /\ by_recipient[u].bytes + extra <= MaxBytesPerRecipient

ExtraBytes(id, w) == IF w > entries[id].bytes THEN w - entries[id].bytes ELSE 0

\* A private message id that is already recorded for some receiver.
PrivateReceiverKnown(id) ==
    id.domain = "private" /\ private_receivers[id.message_id] # NoUser

\* Mutant of WindowRoom: the per-recipient limit is tested one too late.
WindowRoomOffByOne(id, w) ==
    /\ waiting_entries < MaxWaitingEntries
    /\ by_recipient[id.recipient].entries <= MaxWaitingPerRecipient
    /\ ByteRoom(id.recipient, w)

WindowRoom(id, w) ==
    /\ waiting_entries < MaxWaitingEntries
    /\ by_recipient[id.recipient].entries < MaxWaitingPerRecipient
    /\ ByteRoom(id.recipient, w)

\* Mutant of EvidenceFull: the cap is tested one too late.
EvidenceFullOffByOne(id) == Cardinality(entries[id].seqs) > MaxAttemptSequences

EvidenceFull(id) == Cardinality(entries[id].seqs) >= MaxAttemptSequences

RegisterStatus(id, seq, w) ==
    CASE ~Present(id) /\ PrivateReceiverKnown(id) -> "kReceiverMismatch"
      [] ~Present(id) /\ ~PrivateReceiverKnown(id) ->
            IF WindowRoom(id, w) THEN "kRegistered" ELSE "kWindowFull"
      [] Confirmed(id) -> "kAlreadyConfirmed"
      [] Waiting(id) ->
            IF seq \in entries[id].seqs THEN "kDuplicateAttempt"
            ELSE IF EvidenceFull(id) \/ ~ByteRoom(id.recipient, ExtraBytes(id, w))
                 THEN "kWindowFull"
            ELSE "kRetryRegistered"

RetryStatus(id, expected, seq) ==
    CASE ~Present(id) -> IF PrivateReceiverKnown(id) THEN "kReceiverMismatch"
                         ELSE "kUnknownMessage"
      [] Confirmed(id) -> "kAlreadyConfirmed"
      [] Waiting(id) ->
            IF entries[id].current # expected THEN "kStaleAttempt"
            ELSE IF entries[id].count >= MaxAttempts \/ EvidenceFull(id)
                 THEN "kAttemptLimitReached"
            ELSE IF seq \in entries[id].seqs THEN "kDuplicateAttempt"
            ELSE "kRetryRegistered"

AckStatus(id, seq) ==
    CASE ~Present(id) -> IF PrivateReceiverKnown(id) THEN "kReceiverMismatch"
                         ELSE "kUnknownMessage"
      [] Present(id) ->
            IF seq \notin entries[id].seqs THEN "kUnknownAttempt"
            ELSE IF Confirmed(id) THEN "kDuplicate"
            ELSE "kConfirmed"

----------------------------------------------------------------------------
(* State changes.                                                          *)

\* A new identity enters the window with its first attempt.
CreateEntry(id, seq, w) ==
    /\ entries' = [entries EXCEPT ![id] =
          [state |-> "waiting", current |-> seq, count |-> 1,
           seqs |-> {seq}, bytes |-> w, cooling |-> TRUE]]
    /\ private_receivers' =
          IF id.domain = "private"
          THEN [private_receivers EXCEPT ![id.message_id] = id.recipient]
          ELSE private_receivers
    /\ by_recipient' = [by_recipient EXCEPT
          ![id.recipient].entries = @ + 1, ![id.recipient].bytes = @ + w]
    /\ waiting_entries' = waiting_entries + 1
    /\ waiting_bytes' = waiting_bytes + w
    /\ attempt_sequences' = attempt_sequences + 1
    /\ UNCHANGED confirmed_order

\* Mutant of ChargeExtra: only the global window is charged.
ChargeExtraGlobalOnly(id, extra) ==
    /\ waiting_bytes' = waiting_bytes + extra
    /\ UNCHANGED by_recipient

\* The byte accounting grows when a re-encoded packet is larger.
ChargeExtra(id, extra) ==
    /\ waiting_bytes' = waiting_bytes + extra
    /\ by_recipient' = [by_recipient EXCEPT ![id.recipient].bytes = @ + extra]

\* Mutant of AddAttempt: the new D replaces the evidence of the earlier ones.
AddAttemptForgetful(id, seq, extra) ==
    /\ entries' = [entries EXCEPT
          ![id].current = seq, ![id].count = 1, ![id].seqs = {seq},
          ![id].bytes = @ + extra, ![id].cooling = TRUE]
    /\ attempt_sequences' = attempt_sequences - Cardinality(entries[id].seqs) + 1
    /\ ChargeExtra(id, extra)
    /\ UNCHANGED <<private_receivers, confirmed_order, waiting_entries>>

\* A waiting entry gains another attempt.
AddAttempt(id, seq, extra) ==
    /\ entries' = [entries EXCEPT
          ![id].current = seq, ![id].count = @ + 1, ![id].seqs = @ \cup {seq},
          ![id].bytes = @ + extra, ![id].cooling = TRUE]
    /\ attempt_sequences' = attempt_sequences + 1
    /\ ChargeExtra(id, extra)
    /\ UNCHANGED <<private_receivers, confirmed_order, waiting_entries>>

RegisterAttempt(id, seq, w) ==
    \/ /\ RegisterStatus(id, seq, w) = "kRegistered"
       /\ CreateEntry(id, seq, w)
    \/ /\ RegisterStatus(id, seq, w) = "kRetryRegistered"
       /\ AddAttempt(id, seq, ExtraBytes(id, w))

\* At the evidence cap a replay resends the current D and registers nothing new.
ResendCurrent(id, w) ==
    /\ Waiting(id) /\ EvidenceFull(id)
    /\ ByteRoom(id.recipient, ExtraBytes(id, w))
    /\ entries' = [entries EXCEPT ![id].bytes = @ + ExtraBytes(id, w),
                                  ![id].cooling = TRUE]
    /\ ChargeExtra(id, ExtraBytes(id, w))
    /\ UNCHANGED <<private_receivers, confirmed_order, waiting_entries,
                   attempt_sequences>>

\* kWaitingAck while an unconfirmed entry is cooling.
RegisterReplayAttempt(id, seq, w) ==
    /\ ~(Waiting(id) /\ entries[id].cooling)
    /\ IF Waiting(id) /\ EvidenceFull(id) THEN ResendCurrent(id, w)
       ELSE RegisterAttempt(id, seq, w)

\* The ACK timer of attempt "expected" replaces it, unless it is no longer current.
RegisterRetryAttempt(id, expected, seq) ==
    /\ RetryStatus(id, expected, seq) = "kRetryRegistered"
    /\ AddAttempt(id, seq, 0)

\* What TrimConfirmedLocked drops from a confirmation history.
Overflow(order) == {order[i] : i \in 1 .. (Len(order) - MaxRecentConfirmed)}
Recent(order) ==
    IF Len(order) > MaxRecentConfirmed
    THEN SubSeq(order, Len(order) - MaxRecentConfirmed + 1, Len(order))
    ELSE order

\* TrimConfirmedLocked over the state "ents" and the history "order".
TrimConfirmed(ents, order) ==
    LET evicted == {id \in Overflow(order) : ents[id].state = "confirmed"}
    IN  /\ confirmed_order' = Recent(order)
        /\ entries' = [id \in Identities |->
              IF id \in evicted THEN NoEntry ELSE ents[id]]
        /\ private_receivers' = [m \in MessageIds |->
              IF \E id \in evicted : id.domain = "private" /\ id.message_id = m
              THEN NoUser ELSE private_receivers[m]]
        /\ attempt_sequences' = attempt_sequences
              - SumFunctionOnSet([id \in Identities |-> Cardinality(ents[id].seqs)],
                                 evicted)

\* The recipient's window loses an entry, and is erased when it was the last.
CloseWindow(w, bytes) ==
    IF w.entries = 1 THEN NoWindow
    ELSE [entries |-> w.entries - 1, bytes |-> w.bytes - bytes]

Acknowledge(id, seq) ==
    /\ AckStatus(id, seq) = "kConfirmed"
    /\ waiting_entries' = waiting_entries - 1
    /\ waiting_bytes' = waiting_bytes - entries[id].bytes
    /\ by_recipient' = [by_recipient EXCEPT
          ![id.recipient] = CloseWindow(@, entries[id].bytes)]
    /\ TrimConfirmed([entries EXCEPT ![id].state = "confirmed", ![id].bytes = 0],
                     Append(confirmed_order, id))

\* External: the clock passes last_attempt_at + recovery_resend_cooldown.
CooldownElapses(id) ==
    /\ entries[id].cooling
    /\ entries' = [entries EXCEPT ![id].cooling = FALSE]
    /\ UNCHANGED <<private_receivers, confirmed_order, by_recipient,
                   waiting_entries, waiting_bytes, attempt_sequences>>

Next ==
    \E id \in Identities :
        \/ \E seq \in Seqs, w \in Sizes : RegisterAttempt(id, seq, w)
        \/ \E seq \in Seqs, w \in Sizes : RegisterReplayAttempt(id, seq, w)
        \/ \E expected, seq \in Seqs : RegisterRetryAttempt(id, expected, seq)
        \/ \E seq \in Seqs : Acknowledge(id, seq)
        \/ CooldownElapses(id)

Spec == Init /\ [][Next]_vars
----------------------------------------------------------------------------
(* Properties.                                                             *)

WaitingIds == {id \in Identities : Waiting(id)}
WaitingOf(u) == {id \in WaitingIds : id.recipient = u}
ConfirmedIds == {id \in Identities : Confirmed(id)}

\* Every variable keeps the shape the class declares (ReceiverDeliveryTracker.h
\* 134-158); ByteCountersExact pins attempt_sequences.
TypeOK ==
    /\ entries \in [Identities -> Entry]
    /\ private_receivers \in [MessageIds -> Users \cup {NoUser}]
    /\ confirmed_order \in Seq(Identities)
    /\ by_recipient \in [Users -> [entries : Nat, bytes : Int]]
    /\ waiting_entries \in Nat
    /\ waiting_bytes \in Int

\* The incrementally maintained entry counters equal what a scan of entries_
\* would count, for the whole tracker and for each recipient. They are size_t
\* in the code: one decrement too many and the window never opens again.
EntryCountersExact ==
    /\ waiting_entries = Cardinality(WaitingIds)
    /\ \A u \in Users : by_recipient[u].entries = Cardinality(WaitingOf(u))

\* The byte and attempt counters equal the sums over entries_ after any mix of
\* larger retries, reused attempts, acknowledgements and evictions.
ByteCountersExact ==
    /\ waiting_bytes = SumFunctionOnSet([id \in Identities |-> entries[id].bytes], WaitingIds)
    /\ \A u \in Users : by_recipient[u].bytes =
          SumFunctionOnSet([id \in Identities |-> entries[id].bytes], WaitingOf(u))
    /\ attempt_sequences =
          SumFunctionOnSet([id \in Identities |-> Cardinality(entries[id].seqs)], Identities)

\* No sequence of registrations, growing retries and replays takes the
\* unacknowledged window past any of its four limits.
WindowBounded ==
    /\ waiting_entries <= MaxWaitingEntries
    /\ waiting_bytes <= MaxWaitingBytes
    /\ \A u \in Users : /\ by_recipient[u].entries <= MaxWaitingPerRecipient
                        /\ by_recipient[u].bytes <= MaxBytesPerRecipient

\* private_receivers_ is exactly the index of the private entries: a private
\* message is tracked for one receiver at a time, and evicting its confirmation
\* forgets the receiver with it (a leftover would reject the message for ever).
PrivateIndexExact ==
    \A id \in Identities :
        id.domain = "private" =>
            (Present(id) <=> private_receivers[id.message_id] = id.recipient)

\* The attempt evidence of a live entry: the current D is one of the registered
\* ones, attempt_count counts them, and their number stays within the cap.
AttemptEvidence ==
    \A id \in Identities : Present(id) =>
        /\ entries[id].current \in entries[id].seqs
        /\ entries[id].count = Cardinality(entries[id].seqs)
        /\ entries[id].count <= MaxAttemptSequences

\* confirmed_order_ lists every confirmed identity once and nothing else, and
\* never outgrows its bound: no confirmed entry can escape eviction.
ConfirmedHistoryExact ==
    /\ \A id \in Identities : Confirmed(id) <=> id \in Range(confirmed_order)
    /\ IsInjective(confirmed_order)
    /\ Len(confirmed_order) <= MaxRecentConfirmed

\* The tracker's redundant books agree with its entries: counters, byte sums,
\* private index and confirmation history, after any sequence of operations. An
\* unsigned counter that drifts refuses for ever or admits without bound.
BooksExact ==
    /\ EntryCountersExact /\ ByteCountersExact
    /\ PrivateIndexExact /\ ConfirmedHistoryExact

\* A waiting message is never forgotten: it keeps every D it was sent with
\* (a late ACK of an old attempt still confirms) until it is confirmed, and a
\* confirmation is never taken back to waiting, only evicted.
EvidenceMonotonic ==
    [][\A id \in Identities :
          /\ Waiting(id) => /\ Present(id)'
                            /\ entries[id].seqs \subseteq entries'[id].seqs
          /\ Confirmed(id) => ~Waiting(id)']_vars
=============================================================================
