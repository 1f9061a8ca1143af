------------------------- MODULE MCLocalEventRelay -------------------------
EXTENDS LocalEventRelay

CONSTANTS w1, w2

Send(a, b, n, text) == [from |-> a, to |-> b, cid |-> n, body |-> text]
Persist(ins) == [op |-> "persist", in |-> ins]
Confirm(by, mid) == [op |-> "confirm", in |-> <<[by |-> by, mid |-> mid]>>]
ConfirmAll(mids) ==
    [op |-> "confirmAll", in |-> [i \in DOMAIN mids |-> [mid |-> mids[i]]]]
ReadBy(reader, peer) == [op |-> "read", in |-> <<[reader |-> reader, peer |-> peer]>>]
RequeueAll(es) == [op |-> "requeue", in |-> [i \in DOMAIN es |-> [event |-> es[i]]]]

\* One pending message, 1, from user 1 to user 2, its event not published.
Row(mid, cid) ==
    (<<"M", mid>> :> [from |-> 1, to |-> 2, cid |-> cid, body |-> "x", state |-> "pending"])
    @@ (<<"I", 1, cid>> :> mid) @@ (<<"P", 2, mid>> :> TRUE) @@ (<<"E", mid>> :> TRUE)
Counters(n) == (<<"N", 2>> :> n) @@ (<<"D", 2, 1>> :> n) @@ (<<"Q", 2>> :> n)
One == Row(1, 1) @@ Counters(1) @@ (<<"H">> :> 2)
Two == Row(1, 1) @@ Row(2, 2) @@ Counters(2) @@ (<<"H">> :> 2)
Published(rows) == [k \in {x \in DOMAIN rows : x[1] # "E"} |-> rows[k]]

Base == [calls |-> <<>>, rows |-> <<>>, group |-> FALSE, maxEvents |-> 4, faults |-> 1,
         index |-> FALSE, detached |-> FALSE, guard |-> TRUE, demand |-> FALSE,
         dirty |-> TRUE, batch |-> FALSE, take |-> 1, page |-> 2, maxHeld |-> 2,
         maxRetries |-> 2, maxAttempts |-> 2, workers |-> {w1}]

Third == Persist(<<Send(1, 2, 3, "x")>>)
Quarantined == Published(One) @@ (<<"F", 1>> :> TRUE)

MCDeployments ==
    {\* Two users write to each other, with room for one event, writes grouped.
     [Base EXCEPT !.calls = <<Persist(<<Send(1, 2, 1, "x")>>), Persist(<<Send(2, 1, 1, "y")>>)>>,
                  !.group = TRUE, !.maxEvents = 1, !.faults = 0],
     \* A client id twice in one batch, in a store that has already given ids.
     [Base EXCEPT !.calls = <<Persist(<<Send(1, 2, 3, "x"), Send(1, 2, 3, "x")>>)>>,
                  !.rows = Published(One), !.index = TRUE],
     \* A read against a confirmation of several messages; then one against a
     \* crash, its write grouped with the deletion of an event.
     [Base EXCEPT !.calls = <<ConfirmAll(<<1, 2>>), ReadBy(2, 1)>>, !.rows = Two, !.faults = 0],
     [Base EXCEPT !.calls = <<Confirm(2, 1)>>, !.rows = One, !.group = TRUE],
     \* A new message to a user against a confirmation of theirs.
     [Base EXCEPT !.calls = <<Third, Confirm(2, 1)>>, !.rows = Published(One), !.faults = 0],
     \* Requeue of a quarantined event.
     [Base EXCEPT !.calls = <<RequeueAll(<<1>>), Third>>, !.rows = Quarantined,
                  !.index = TRUE, !.faults = 0],
     [Base EXCEPT !.calls = <<RequeueAll(<<1>>)>>, !.rows = Quarantined, !.dirty = FALSE],
     \* Batches through the progress writer; two workers; one slot and retries.
     [Base EXCEPT !.rows = Two, !.take = 2, !.batch = TRUE, !.detached = TRUE],
     [Base EXCEPT !.rows = Two, !.workers = {w1, w2}, !.dirty = FALSE],
     [Base EXCEPT !.rows = Two, !.maxHeld = 1, !.maxRetries = 1, !.demand = TRUE,
                  !.index = TRUE, !.faults = 2]}
=============================================================================
