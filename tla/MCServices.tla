----------------------------- MODULE MCServices -----------------------------
(***************************************************************************)
(* Four services that share nothing, checked together: in every behaviour  *)
(* one of them has work and the others rest.                               *)
(***************************************************************************)
EXTENDS UnreadProjector, GatewayRegistryLease, GatewayPeerTransport, GroupFanout

CONSTANTS g1, g2

Created(r, p) == [receiver |-> r, peer |-> p, kind |-> "created", poison |-> FALSE]
Read(r, p) == [receiver |-> r, peer |-> p, kind |-> "read", poison |-> FALSE]
Unreadable(r, p) == [receiver |-> r, peer |-> p, kind |-> "created", poison |-> TRUE]

MCEvents == {"e1", "e2", "e3"}

NoProjection == [events |-> <<>>, batch_size |-> 1, batch_snapshot_reads |-> FALSE,
                 parallel_batch_ack |-> FALSE, mishaps |-> 0, rebuilds |-> FALSE,
                 stops |-> FALSE]

MCProjections == {
    NoProjection,
    \* two peers and a read position of one receiver, with a stop or a crash
    [NoProjection EXCEPT
        !.events = [e1 |-> Created(2, 4), e2 |-> Created(2, 5), e3 |-> Read(2, 4)],
        !.mishaps = 1, !.stops = TRUE],
    \* batched ACKs and a rebuild beside the workers
    [NoProjection EXCEPT
        !.events = [e1 |-> Created(2, 4), e2 |-> Created(2, 5)],
        !.batch_size = 2, !.parallel_batch_ack = TRUE, !.mishaps = 1, !.rebuilds = TRUE],
    \* batches that need the stripes of two receivers
    [NoProjection EXCEPT
        !.events = [e1 |-> Created(2, 4), e2 |-> Created(3, 4), e3 |-> Created(3, 5)],
        !.batch_size = 2, !.batch_snapshot_reads = TRUE, !.mishaps = 1],
    \* an event nobody can read
    [NoProjection EXCEPT
        !.events = [e1 |-> Created(2, 4), e2 |-> Unreadable(2, 5)],
        !.batch_size = 2, !.batch_snapshot_reads = TRUE, !.parallel_batch_ack = TRUE,
        !.mishaps = 2, !.stops = TRUE]}

NoRegistration == [starts |-> {}, stops |-> {}, lists |-> FALSE, outages |-> 0]

MCRegistrations == {
    NoRegistration,
    [starts |-> Instances, stops |-> Instances, lists |-> TRUE, outages |-> 3]}

\* Two forwards of chat messages, one of them beside a group forward, and one
\* that is too large; or none.
MCTraffics == {{}, {"c1", "c2"}, {"c1", "g1"}, {"o1"}}

NoFanout == [start |-> <<"absent", "absent">>, coordinators |-> {}, defer |-> FALSE,
             route_batch |-> FALSE, completion_batch |-> FALSE, timely |-> TRUE,
             silent |-> FALSE, faults |-> 0, crashes |-> 0, logins |-> 0]

Pending == [NoFanout EXCEPT !.start = <<"pending", "absent">>, !.coordinators = {g1}]
Deferred == [NoFanout EXCEPT !.start = <<"deferred", "absent">>, !.logins = 2]
Batched == [NoFanout EXCEPT !.defer = TRUE, !.route_batch = TRUE, !.completion_batch = TRUE]

MCScenes == {
    NoFanout,
    \* two coordinators, a login and a call that fails
    [Pending EXCEPT !.coordinators = Gateways, !.faults = 1, !.logins = 1],
    \* the same with batched routes and completions
    [Batched EXCEPT !.start = <<"pending", "absent">>, !.coordinators = {g1},
                    !.faults = 1, !.logins = 1],
    \* two logins and a crash; a login whose replay fails, and its probe's too
    [Deferred EXCEPT !.crashes = 1],
    [Deferred EXCEPT !.faults = 2, !.logins = 1],
    \* leases that end under the calls, of two rows or with a login
    [Batched EXCEPT !.start = <<"pending", "pending">>, !.coordinators = {g1},
                    !.timely = FALSE, !.faults = 1],
    [Pending EXCEPT !.timely = FALSE, !.silent = TRUE, !.faults = 1, !.logins = 1]}

\* The recipient leaves a Gateway that does not notice, for another one.
MovementScenes == {[Deferred EXCEPT !.silent = TRUE]}

serviceVars == <<unreadVars, leaseVars, peerVars, fanoutVars>>

Traffic == \E f \in Forwards : call[f] # "never"

ServicesInit ==
    /\ UnreadInit /\ LeaseInit /\ PeerInit /\ FanoutInit
    /\ Cardinality({x \in {"unread", "lease", "peer", "fanout"} :
          CASE x = "unread" -> projection # NoProjection
            [] x = "lease" -> registration # NoRegistration
            [] x = "peer" -> Traffic
            [] x = "fanout" -> scene # NoFanout}) <= 1

ServicesNext ==
    \/ UnreadNext /\ UNCHANGED <<leaseVars, peerVars, fanoutVars>>
    \/ LeaseNext /\ UNCHANGED <<unreadVars, peerVars, fanoutVars>>
    \/ Traffic /\ PeerNext /\ UNCHANGED <<unreadVars, leaseVars, fanoutVars>>
    \/ FanoutNext /\ UNCHANGED <<unreadVars, leaseVars, peerVars>>

\* Threads that can go on do; an unacknowledged event comes back and an
\* unreadable one is retried a bounded number of times; heartbeats go on and
\* an abandoned record expires.  No failure is ever assumed to happen.
BackgroundFair ==
    /\ WF_unreadVars(\E w \in Workers : RunLoop(w))
    /\ WF_unreadVars(RebuildUser \/ Start)
    /\ \A e \in Events :
          /\ SF_unreadVars(DeadLetter(e))
          /\ WF_unreadVars(Redeliver(e) /\ NoMishap)
    /\ \A i \in Instances : WF_leaseVars(LeaseThread(i) /\ NoOutage)
    /\ WF_leaseVars(LeaseExpires /\ NoOutage)
    /\ WF_leaseVars(RemoveStale)

ServicesSpec ==
    /\ ServicesInit /\ [][ServicesNext]_serviceVars
    /\ BackgroundFair /\ PeerFair /\ FanoutFair

\* The fan-out alone.
FanoutSpec ==
    /\ ServicesInit /\ scene # NoFanout /\ [][ServicesNext]_serviceVars /\ FanoutFair
=============================================================================
