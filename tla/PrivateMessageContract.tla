----------------------- MODULE PrivateMessageContract -----------------------
(***************************************************************************)
(* What private messaging promises about one logical send, with no         *)
(* gateways, packets, trackers or retries: the durable delivery status,    *)
(* whether the receiving application holds the message, and what the       *)
(* sender has been told. PrivateDelivery implements it.                    *)
(***************************************************************************)
VARIABLES status,    \* delivery_status: absent, pending, confirmed, read
          seen,      \* the receiving application has the message
          told       \* answers the sender was ever given

Answers == {"accepted", "delivered"}

Init == status = "absent" /\ seen = FALSE /\ told = {}

\* The message becomes durable, once.
Accept ==
    /\ status = "absent" /\ status' = "pending"
    /\ UNCHANGED <<seen, told>>

\* Only a durable message is shown to the receiver.
Show ==
    /\ status # "absent" /\ seen' = TRUE
    /\ UNCHANGED <<status, told>>

\* Only a message the receiver holds becomes confirmed.
Confirm ==
    /\ status = "pending" /\ seen /\ status' = "confirmed"
    /\ UNCHANGED <<seen, told>>

\* Only a confirmed message becomes read.
Read ==
    /\ status = "confirmed" /\ status' = "read"
    /\ UNCHANGED <<seen, told>>

\* success=true is said of a durable message, delivered=true only of one the
\* receiver holds.
Tell ==
    /\ status # "absent"
    /\ \/ told' = told \cup {"accepted"}
       \/ seen /\ told' = told \cup Answers
    /\ UNCHANGED <<status, seen>>

Next == Accept \/ Show \/ Confirm \/ Read \/ Tell

Spec == Init /\ [][Next]_<<status, seen, told>>
=============================================================================
