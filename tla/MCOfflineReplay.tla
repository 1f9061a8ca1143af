-------------------------- MODULE MCOfflineReplay --------------------------
EXTENDS OfflineReplay, TLC

CONSTANTS g1, g2, c1, c2, c3

MCHome == (c1 :> g1) @@ (c2 :> g1) @@ (c3 :> g2)

\* Presence without messages, on two Gateways.
Presence(logins, batched, n) ==
    [logins |-> logins, cache |-> TRUE, batched |-> batched, faults |-> n,
     message |-> FALSE, replay |-> g1, recovery |-> FALSE, restart |-> FALSE, late |-> {}, stays |-> {},
     pending |-> (1 :> {} @@ 2 :> {}), arriving |-> {}, window |-> 1]

\* Replay without presence, on one Gateway.
Replay(logins, ms1, ms2, n) ==
    [logins |-> logins, cache |-> FALSE, batched |-> FALSE, faults |-> n,
     message |-> TRUE, replay |-> g1, recovery |-> TRUE, restart |-> FALSE, late |-> {}, stays |-> {},
     pending |-> (1 :> ms1 @@ 2 :> ms2), arriving |-> {}, window |-> 1]

MCDeployments ==
    {\* One user on two Gateways.
     [Presence({<<c1, 1>>, <<c3, 1>>}, FALSE, 0) EXCEPT !.stays = {c1, c3}],
     \* The user comes back on the same Gateway, with and without batches; a
     \* connection that changes its user.
     [Presence({<<c1, 1>>, <<c2, 1>>}, FALSE, 1) EXCEPT !.stays = {c2}],
     [Presence({<<c1, 1>>, <<c2, 1>>}, TRUE, 0) EXCEPT !.stays = {c1, c2}],
     Presence({<<c1, 1>>}, TRUE, 2),
     Presence({<<c1, 1>>, <<c1, 2>>}, FALSE, 0),
     \* Two messages in pages of one; a message stored later.
     [Replay({<<c1, 1>>}, {1, 2}, {}, 2) EXCEPT !.stays = {c1}],
     [Replay({<<c1, 1>>}, {}, {}, 1) EXCEPT !.arriving = {<<1, 1>>}],
     \* Two users and one slot; a user who comes back, here and after the
     \* Gateway stopped and started again.
     [Replay({<<c1, 1>>, <<c2, 2>>}, {1}, {}, 0) EXCEPT !.stays = {c1, c2}],
     [Replay({<<c1, 1>>, <<c2, 1>>}, {1, 2}, {}, 0) EXCEPT !.recovery = FALSE, !.window = 2],
     [Replay({<<c1, 1>>, <<c2, 1>>}, {}, {}, 0) EXCEPT !.restart = TRUE, !.late = {c2}]}
=============================================================================
