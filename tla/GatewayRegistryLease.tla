------------------------ MODULE GatewayRegistryLease ------------------------
(***************************************************************************)
(* services/registry/GatewayRegistry.cpp and GatewayRegistryLease.cpp: the *)
(* lease under which a Gateway advertises itself in Redis.  One gateway_id *)
(* is modelled, with several process instances configured with it, as when *)
(* a new process starts before the old one is gone.  The lease token of an *)
(* instance is the instance itself.  The id's record has a time to live;   *)
(* the index set keeps the id until somebody removes it.                   *)
(*                                                                         *)
(* Register and UnregisterIfMatch are a script followed by a second Redis  *)
(* call on the index; the two are separate steps here, as other clients    *)
(* may come between them.                                                  *)
(***************************************************************************)
EXTENDS Naturals

CONSTANTS
    Instances,           \* processes configured with this gateway_id
    Registrations,       \* the deployments of this component
    NoLease              \* the record's key does not exist

VARIABLES
    registration,        \* the deployment chosen at start
    record,              \* lease token in the record, or NoLease
    indexed,             \* the id is a member of __index__
    instance,            \* GatewayRegistryLease of each process
    lister,              \* a caller of ListActiveGateways
    outages              \* bound: Redis failures and expiries left

leaseVars == <<registration, record, indexed, instance, lister, outages>>

\* pc: where the process is; running and owns: running_ and owns_lease_;
\* reply: what the script of Register answered.
Absent == [pc |-> "absent", running |-> FALSE, owns |-> FALSE, reply |-> "none"]

LeaseInit ==
    /\ registration \in Registrations
    /\ record = NoLease
    /\ indexed = FALSE
    /\ instance = [i \in Instances |-> Absent]
    /\ lister = "idle"
    /\ outages = registration.outages

Outage == outages > 0 /\ outages' = outages - 1
NoOutage == UNCHANGED outages

Becomes(i, local) == instance' = [instance EXCEPT ![i] = local]

(***************************************************************************)
(* GatewayRegistry::Register                                               *)
(***************************************************************************)
\* kRegisterGatewayScript
RegisterScript(i) ==
    IF record \in {NoLease, i}
    THEN record' = i /\ indexed' = TRUE
    ELSE UNCHANGED <<record, indexed>>

\* The script runs, or fails; a failed call may have run.
Register(i) ==
    /\ \/ instance[i].pc = "absent" /\ i \in registration.starts
       \/ instance[i].pc = "recover"
    /\ \/ /\ NoOutage
          /\ RegisterScript(i)
          /\ Becomes(i, [instance[i] EXCEPT
                !.pc = IF @ = "absent" THEN "start_index" ELSE "recover_index",
                !.reply = IF record \in {NoLease, i} THEN "owned" ELSE "conflict"])
       \/ /\ Outage
          /\ RegisterScript(i) \/ UNCHANGED <<record, indexed>>
          /\ Becomes(i, [instance[i] EXCEPT
                !.pc = IF @ = "absent" THEN "start_index" ELSE "recover_index",
                !.reply = "error"])
    /\ UNCHANGED <<registration, lister>>

\* MarkLeaseLost: the callback ends the process.
MarkLeaseLost(local) == [local EXCEPT !.owns = FALSE, !.running = FALSE, !.pc = "lost"]

\* What Start and RecoverMissingLease make of Register's result.
Registered(i, succeeded) ==
    Becomes(i, IF succeeded
               THEN [instance[i] EXCEPT !.pc = "beating", !.running = TRUE, !.owns = TRUE]
               ELSE IF instance[i].pc = "start_index"
                    THEN [instance[i] EXCEPT !.pc = "refused"]
                    ELSE MarkLeaseLost(instance[i]))

\* The second call: SADD whatever the script said, and when it fails the
\* record is deleted whoever owns it, unless that call fails too.
RegisterIndex(i) ==
    /\ instance[i].pc \in {"start_index", "recover_index"}
    /\ \/ /\ NoOutage
          /\ indexed' = TRUE
          /\ Registered(i, instance[i].reply = "owned")
          /\ UNCHANGED record
       \/ /\ Outage
          /\ record' \in {NoLease, record}
          /\ Registered(i, FALSE)
          /\ UNCHANGED indexed
    /\ UNCHANGED <<registration, lister>>

(***************************************************************************)
(* HeartbeatLoop: RefreshOnce                                              *)
(***************************************************************************)
\* Mutant: the refresh leaves the index alone.
RefreshRecordOnly(i) == UNCHANGED <<record, indexed>>

\* kRefreshGatewayLeaseScript when the token matches.
RefreshIfMatch(i) == indexed' = TRUE /\ UNCHANGED record

RefreshOnce(i) ==
    /\ instance[i].pc = "beating"
    /\ \/ /\ record = i /\ NoOutage
          /\ RefreshIfMatch(i)
          /\ UNCHANGED instance
       \/ /\ record = NoLease /\ NoOutage
          /\ Becomes(i, [instance[i] EXCEPT !.owns = FALSE, !.pc = "recover"])
          /\ UNCHANGED <<record, indexed>>
       \/ /\ record \notin {NoLease, i} /\ NoOutage
          /\ Becomes(i, MarkLeaseLost(instance[i]))
          /\ UNCHANGED <<record, indexed>>
       \/ /\ Outage
          /\ UNCHANGED <<record, indexed, instance>>
    /\ UNCHANGED <<registration, lister>>

(***************************************************************************)
(* Stop: UnregisterIfMatch                                                 *)
(***************************************************************************)
\* kUnregisterGatewayScript
UnregisterIfMatch(i) ==
    IF record \in {NoLease, i}
    THEN record' = NoLease /\ indexed' = FALSE
    ELSE UNCHANGED <<record, indexed>>

\* Stop joins the heartbeat first, so it comes between two rounds.
Stop(i) ==
    /\ i \in registration.stops
    /\ instance[i].pc = "beating"
    /\ \/ /\ NoOutage
          /\ UnregisterIfMatch(i)
          /\ Becomes(i, [instance[i] EXCEPT !.running = FALSE, !.owns = FALSE, !.pc = "unindex"])
       \/ /\ Outage
          /\ UnregisterIfMatch(i) \/ UNCHANGED <<record, indexed>>
          /\ Becomes(i, [instance[i] EXCEPT !.running = FALSE, !.owns = FALSE, !.pc = "stopped"])
    /\ UNCHANGED <<registration, lister>>

\* SREM after the script, whatever the script said.
Unindex(i) ==
    /\ instance[i].pc = "unindex"
    /\ indexed' = FALSE
    /\ Becomes(i, [instance[i] EXCEPT !.pc = "stopped"])
    /\ UNCHANGED <<registration, record, lister, outages>>

\* kill -9: the record stays until its time to live ends.
Kill(i) ==
    /\ i \in registration.stops
    /\ instance[i].pc \notin {"absent", "stopped", "lost", "refused"}
    /\ Becomes(i, [Absent EXCEPT !.pc = "stopped"])
    /\ UNCHANGED <<registration, record, indexed, lister, outages>>

\* The time to live ends.  That takes an outage while the owner still beats.
LeaseExpires ==
    /\ record # NoLease
    /\ IF instance[record].running THEN Outage ELSE NoOutage
    /\ record' = NoLease
    /\ UNCHANGED <<registration, indexed, instance, lister>>

(***************************************************************************)
(* ListActiveGateways: SMEMBERS, GET, and SREM of an id without a record.  *)
(***************************************************************************)
ListMembers ==
    /\ registration.lists
    /\ lister = "idle" /\ indexed
    /\ lister' = IF record = NoLease THEN "stale" ELSE "idle"
    /\ UNCHANGED <<registration, record, indexed, instance, outages>>

RemoveStale ==
    /\ lister = "stale"
    /\ lister' = "idle"
    /\ indexed' = FALSE
    /\ UNCHANGED <<registration, record, instance, outages>>

LeaseThread(i) ==
    Register(i) \/ RegisterIndex(i) \/ RefreshOnce(i) \/ Unindex(i)

LeaseNext ==
    \/ \E i \in Instances : LeaseThread(i) \/ Stop(i) \/ Kill(i)
    \/ LeaseExpires \/ ListMembers \/ RemoveStale

(***************************************************************************)
(* Properties                                                              *)
(***************************************************************************)
Live == {i \in Instances : instance[i].running}

\* However starts, stops, kills, expiries, failed Redis calls and the removal
\* of stale index members interleave, in the end at most one instance of the
\* id is running, and a running one is advertised for good: the record carries
\* its token and the index names the id.  Each of them alone may be lost on
\* the way and is repaired by the heartbeat (RefreshOnce, RecoverMissingLease).
LeaseSettles ==
    <>[](\A i \in Live : Live = {i} /\ record = i /\ indexed /\ instance[i].owns)

=============================================================================
