----------------------------- MODULE Federation -----------------------------
(***************************************************************************)
(* The control plane of ControlPlane.tla, Karmada, and a member operator in  *)
(* every cluster (controllers/mongodb_controller.go, mode/replica and        *)
(* pkg/controller/mongodb/core).  Karmada copies services, hostconf and the   *)
(* MongoDB to the member clusters one object at a time, in any order, and     *)
(* aggregates the status of the MongoDBs.  The operator of a cluster runs a   *)
(* pod for each of its services and joins it to the one replica set.          *)
(*                                                                         *)
(* Abstractions.  One pass of a member operator is one step: what its         *)
(* operators do to each other inside a pass is ReplSetConfig's subject, and    *)
(* so are passes that fail between two members.  A pod whose service is not    *)
(* there is not joined; the code also gives up the members after it in the     *)
(* list, which a later pass joins.                                           *)
(* A member of the replica set is healthy iff its pod runs and its service     *)
(* is in its cluster, that is iff its host answers.                          *)
(***************************************************************************)
EXTENDS ControlPlane

CONSTANT Patient   \* the schedule changes only once the last one is reached

VARIABLES at,        \* at[c]: the services in cluster c
          conf,      \* conf[c]: the hostconf in cluster c
          members,   \* members[c]: Spec.Members of c's MongoDB, 0: none
          deleting,  \* clusters whose MongoDB waits for its finalizer
          pods,      \* pods[c]: the services that have a stateful set
          rs,        \* the hosts in the replica set configuration
          st         \* st[c]: Status of c's MongoDB

data == <<at, conf, members, deleting, pods, rs, st>>
schedule == <<target, changes>>
vars == <<schedule, control, agg, data>>

MongoStatus == [n : 0 .. MaxSize, hosts : SUBSET Services, ok : BOOLEAN]
NewStatus == [n |-> 0, hosts |-> {}, ok |-> FALSE]

ASSUME StatusesAssumption == Absent # Nil /\ {Absent, Nil} \cap MongoStatus = {}

\* The part of a host set that lies in cluster c.
In(hs, c) == {i \in Services : <<c, i>> \in hs}
HostsIn(c, is) == {c} \X is

-----------------------------------------------------------------------------
(* Karmada. *)

Propagated(c) == {i \in store.svcs : c \in store.pp[i]}

DeliverService(c, i) ==
    /\ (i \in at[c]) # (i \in Propagated(c))
    /\ at' = [at EXCEPT ![c] = IF i \in @ THEN @ \ {i} ELSE @ \cup {i}]
    /\ UNCHANGED <<schedule, control, agg, conf, members, deleting, pods, rs, st>>

DeliverConf(c) ==
    LET new == IF c \in cmTo THEN store.cm ELSE NoConf
    IN /\ conf[c] # new
       /\ conf' = [conf EXCEPT ![c] = new]
       /\ UNCHANGED <<schedule, control, agg, at, members, deleting, pods, rs, st>>

\* A MongoDB that is no longer wanted in c is deleted there; its finalizer
\* holds it, and only then can another one be created.
DeliverMongo(c) ==
    /\ members[c] # weight[c] /\ c \notin deleting
    /\ IF weight[c] = 0
       THEN deleting' = deleting \cup {c} /\ UNCHANGED members
       ELSE members' = [members EXCEPT ![c] = weight[c]] /\ UNCHANGED deleting
    /\ UNCHANGED <<schedule, control, agg, at, conf, pods, rs, st>>

\* The works of the binding come and go with the clusters of the policy.
BindMongo ==
    /\ agg' = [c \in Clusters |-> IF weight[c] = 0 THEN Absent
                                  ELSE IF agg[c] = Absent THEN Nil ELSE agg[c]]
    /\ agg' # agg
    /\ UNCHANGED <<schedule, control, data>>

AggregateStatus(c) ==
    /\ agg[c] # Absent /\ members[c] > 0 /\ c \notin deleting
    /\ agg[c] # st[c]
    /\ agg' = [agg EXCEPT ![c] = st[c]]
    /\ UNCHANGED <<schedule, control, data>>

-----------------------------------------------------------------------------
(* The member operators. *)

\* The pods after SyncMember created stateful sets for the services of the
\* cluster, or removed the surplus in the order the pods happen to be listed.
SyncedPods(c, m) ==
    CASE Cardinality(pods[c]) < m -> {pods[c] \cup at[c]}
      [] Cardinality(pods[c]) = m -> {pods[c]}
      [] OTHER -> IF conf[c] = NoConf THEN {pods[c]} ELSE kSubset(m, pods[c])

\* The replica set may lose hosts, but not the last.
Remove(hs) == rs \ hs # {} /\ rs' = rs \ hs

\* Spec.RsInit, which an override sets for the first cluster of the schedule.
RsInit(c) == \A d \in Clusters : weight[d] <= weight[c] /\ (weight[d] = weight[c] => c <= d)

Healthy(hs) == \A h \in hs : h[2] \in pods'[h[1]] /\ h[2] \in at[h[1]]

Report(c, status) == st' = [st EXCEPT ![c] = status]

\* A pass of the operator of c: PreConfig, Sync, PostConfig, handleReturn.
Sync(c) ==
    /\ members[c] > 0 /\ c \notin deleting
    /\ \E new \in SyncedPods(c, members[c]) :
        LET joined == IF rs = {} THEN IF RsInit(c) THEN conf[c] ELSE {}
                      ELSE (rs \ HostsIn(c, pods[c] \ new))
                               \cup (HostsIn(c, new \cap at[c]) \cap conf[c])
        IN /\ pods' = [pods EXCEPT ![c] = new]
           /\ \/ /\ conf[c] = NoConf \/ Cardinality(new) < members[c]
                 /\ Report(c, [st[c] EXCEPT !.ok = FALSE])
                 /\ rs' = rs \ HostsIn(c, pods[c] \ new)
              \/ /\ conf[c] # NoConf /\ Cardinality(new) >= members[c]
                 /\ rs' = joined
                 /\ Report(c, IF joined # {} /\ Healthy(joined) /\ new \subseteq at[c]
                              THEN [n |-> members[c], hosts |-> In(joined, c), ok |-> TRUE]
                              ELSE [st[c] EXCEPT !.hosts = In(joined, c), !.ok = FALSE])
    /\ UNCHANGED <<schedule, control, agg, at, conf, members, deleting>>

\* The finalizer: scale to no members, which needs the hostconf.
Finalize(c) ==
    /\ c \in deleting
    /\ conf[c] # NoConf
    /\ pods[c] # {} => Remove(HostsIn(c, pods[c]))
    /\ pods[c] = {} => UNCHANGED rs
    /\ pods' = [pods EXCEPT ![c] = {}]
    /\ deleting' = deleting \ {c}
    /\ members' = [members EXCEPT ![c] = 0]
    /\ Report(c, NewStatus)
    /\ UNCHANGED <<schedule, control, agg, at, conf>>

-----------------------------------------------------------------------------
\* Karmada and the informers have nothing left to deliver.
Delivered ==
    /\ cache = store
    /\ \A c \in Clusters : /\ at[c] = Propagated(c)
                           /\ conf[c] = IF c \in cmTo THEN store.cm ELSE NoConf

\* Everything between the annotation and the replica set has come to rest.
Settled ==
    /\ Delivered
    /\ rs = store.cm
    /\ rs = {h \in Hosts : h[2] \in pods[h[1]] /\ h[2] \in at[h[1]]}
    /\ \A c \in Clusters : Cardinality(pods[c]) = IF c \in DOMAIN target THEN target[c] ELSE 0
    /\ \A c \in Active(target) : c \in DOMAIN result /\ result[c].n = target[c]
                                     /\ result[c].hosts = pods[c]
    /\ state = "Health"

\* The state of a deployment that has reached the schedule s, each cluster
\* running the pods 0 to s[c] - 1.
Deployed(s) ==
    LET on(i) == {c \in DOMAIN s : i < s[c]}
        hosts == {h \in Hosts : h[1] \in on(h[2])}
        size(c) == IF c \in DOMAIN s THEN s[c] ELSE 0
        status(c) == [n |-> size(c), hosts |-> In(hosts, c), ok |-> TRUE]
    IN /\ target = s
       /\ store = [svcs |-> {i \in Services : on(i) # {}}, pp |-> [i \in Services |-> on(i)],
                   cm |-> hosts]
       /\ cmTo = Active(s)
       /\ weight = [c \in Clusters |-> size(c)]
       /\ result = [c \in Active(s) |-> [n |-> s[c], hosts |-> In(hosts, c)]]
       /\ state = "Health"
       /\ agg = [c \in Clusters |-> IF size(c) = 0 THEN Absent ELSE status(c)]
       /\ at = [c \in Clusters |-> In(hosts, c)]
       /\ conf = [c \in Clusters |-> IF size(c) = 0 THEN NoConf ELSE hosts]
       /\ members = weight
       /\ pods = at
       /\ rs = hosts
       /\ st = [c \in Clusters |-> IF size(c) = 0 THEN NewStatus ELSE status(c)]

\* Nothing but the MultiCloudMongoDB and its annotation exists.
Fresh ==
    /\ target \in Schedules
    /\ store = [svcs |-> {}, pp |-> NoPolicies, cm |-> NoConf]
    /\ cmTo = {}
    /\ weight = [c \in Clusters |-> 0]
    /\ result = Topology({})
    /\ state = ""
    /\ agg = [c \in Clusters |-> Absent]
    /\ at = [c \in Clusters |-> {}]
    /\ conf = [c \in Clusters |-> NoConf]
    /\ members = weight
    /\ pods = at
    /\ rs = {}
    /\ st = [c \in Clusters |-> NewStatus]

Init == /\ Fresh \/ \E s \in Schedules : Deployed(s)
        /\ changes = 0
        /\ cache = store
        /\ rec = Idle
        /\ faults = 0
        /\ deleting = {}

Controller == /\ Handlers
              /\ UNCHANGED <<schedule, agg, data>>

Informer(k) == /\ CacheSync(k)
               /\ UNCHANGED <<schedule, agg, data>>

Operator(c) == Sync(c) \/ Finalize(c)

Disturbance == /\ \/ Fail /\ UNCHANGED schedule
                  \/ Reschedule /\ (Patient => Settled)
               /\ UNCHANGED <<agg, data>>

Next == \/ Controller \/ Disturbance \/ BindMongo
        \/ \E k \in Kinds : Informer(k)
        \/ \E c \in Clusters :
               \/ DeliverConf(c) \/ DeliverMongo(c) \/ AggregateStatus(c) \/ Operator(c)
               \/ \E i \in Services : DeliverService(c, i)

Spec == Init /\ [][Next]_vars

\* Controllers requeue 5 seconds after an error and 15 or 60 after a success;
\* Karmada and the informers deliver what they have not delivered yet.
FairSpec ==
    /\ Spec
    /\ WF_vars(Controller) /\ WF_vars(BindMongo)
    /\ \A k \in Kinds : WF_vars(Informer(k))
    /\ \A c \in Clusters :
           /\ WF_vars(DeliverConf(c)) /\ WF_vars(DeliverMongo(c))
           /\ WF_vars(AggregateStatus(c)) /\ WF_vars(Operator(c))
           /\ \A i \in Services : WF_vars(DeliverService(c, i))

-----------------------------------------------------------------------------
TypeOK ==
    /\ ControlTypeOK
    /\ agg \in [Clusters -> {Absent, Nil} \cup MongoStatus]
    /\ at \in [Clusters -> SUBSET Services]
    /\ conf \in [Clusters -> {NoConf} \cup SUBSET Hosts]
    /\ members \in [Clusters -> 0 .. MaxSize]
    /\ deleting \subseteq Clusters
    /\ pods \in [Clusters -> SUBSET Services]
    /\ rs \subseteq Hosts
    /\ st \in [Clusters -> MongoStatus]

\* A member of the replica set that is being served keeps its service: no
\* handler withdraws from a cluster that is to keep pods the service of a
\* member of the set, also when another cluster is given up.
ServedWhileMember ==
    \A h \in rs : h[1] \in Active(target) => h[2] \in Propagated(h[1])

\* "Waiting for member clusters to undergo capacity reduction": services and
\* policies are cleaned only when no cluster that stays runs more pods than
\* it is to.
CleanAfterShrink ==
    rec.pc \in {"clean", "prune"} =>
        \A c \in Active(rec.goal) : Cardinality(pods[c]) <= rec.goal[c]

\* As long as no cluster is given up, the reconciliations end with every
\* cluster running what the last schedule gives it, all of them in one replica
\* set, and with Status saying so.
Converges == []( Active(target) = Clusters ) => <>[]Settled

\* "Health: services can be provided, and the actual state of the service is
\* as expected": what StatusHandler calls healthy has the expected members.
HealthIsExpected ==
    [][rec.pc = "status" /\ rec.fresh /\ rec'.pc = "idle" /\ state' = "Health" =>
           \A c \in Active(rec.goal) : /\ c \in DOMAIN result'
                                       /\ result'[c].n = rec.goal[c]]_vars
=============================================================================
