------------------------------ MODULE Arbiter ------------------------------
(***************************************************************************)
(* The arbiter of a deployment: one mongod without data in the first       *)
(* cluster of the schedule.  UpsertArbiterHandler and the arbiter's share  *)
(* of HostConfigMapHandler (pkg/controller/multicloudmongodb/core.go) keep  *)
(* an override policy that marks the MongoDB of one cluster, a service with *)
(* a node port, the policy of the service, and the line "arbiters" of the   *)
(* hostconf.  Karmada delivers them one by one.  The operator of a cluster   *)
(* whose MongoDB is marked runs the arbiter, the operator of any other       *)
(* removes its own (pkg/controller/mongodb/core/sync.go).                   *)
(*                                                                         *)
(* Abstractions.  The set of active clusters is fixed, and data members     *)
(* are left out, as are the races of operators about the replica set        *)
(* document (ReplSetConfig).  Services of one name are told apart by their   *)
(* node ports, counted up; the host VIP:nodePort is <<cluster, port>>.  A    *)
(* write meets a conflict exactly when the cache shows another value than    *)
(* the one stored.  An arbiter outside the configuration names no host.      *)
(***************************************************************************)
EXTENDS Integers, FiniteSets, SequencesExt

CONSTANTS Clusters,
          Orders,      \* the schedules: the clusters, the largest first
          None,        \* an object that does not exist
          Lagging,     \* the kinds the informer cache may show late
          MaxChanges,  \* bound on changes of Config.Arbiter or the schedule
          MaxFaults    \* bound on failed calls and operator restarts

Kinds == {"op", "svc", "pp", "cm"}
Ports == 1 .. MaxChanges + 1
Hosts == Clusters \X Ports
Wishes == [arbiter : BOOLEAN, order : Orders]

ASSUME OrdersAssumption ==
    \A o \in Orders : o \in Seq(Clusters) /\ o # <<>> /\ ToSet(o) = Clusters
ASSUME NoneAssumption == None \notin Clusters \cup Ports
ASSUME LaggingAssumption == Lagging \subseteq Kinds
ASSUME BoundsAssumption == {MaxChanges, MaxFaults} \subseteq Nat

VARIABLES want,      \* Spec.Config.Arbiter and the annotation schedulerResult
          changes,
          hasty,     \* a change was made before the last one had settled
          store,     \* override policy, service, its policy, line "arbiters"
          cache,     \* the same as the informer cache shows them
          nextPort,  \* the node port of the next service
          rec,       \* the reconciliation in progress
          marked,    \* clusters whose MongoDB has spec.arbiter
          at,        \* at[c]: node port of the arbiter service in c
          conf,      \* conf[c]: the arbiters in the hostconf in c
          sts,       \* clusters with a stateful set for an arbiter
          leaving,   \* clusters whose operator has removed its arbiter's host
          rs,        \* the arbiters in the replica set configuration
          faults

wishes == <<want, changes, hasty>>
objects == <<store, cache, nextPort>>
delivered == <<marked, at, conf>>
arbiters == <<sts, leaving, rs>>
vars == <<wishes, objects, rec, delivered, arbiters, faults>>

-----------------------------------------------------------------------------
(* The control plane.                                                      *)

\* The schedule is sorted by size: its first cluster has the arbiter.
ArbiterCluster(order) == Head(order)

Idle == [pc |-> "idle", goal |-> <<>>]
Return == rec' = Idle
Goto(pc) == rec' = [rec EXCEPT !.pc = pc]
Observe == cache' = [k \in Kinds |-> IF k \in Lagging THEN cache[k] ELSE store'[k]]

Reconcile ==
    /\ rec.pc = "idle"
    /\ rec' = [pc |-> "op", goal |-> want]
    /\ UNCHANGED <<wishes, objects, delivered, arbiters, faults>>

\* A call fails when it updates a newer object or one that is gone, or creates
\* one that is there.
Write(k, value, next) ==
    /\ IF cache[k] = store[k]
       THEN store' = [store EXCEPT ![k] = value] /\ Goto(next)
       ELSE Return /\ UNCHANGED store
    /\ Observe

Upsert_Once(k, value, next) ==
    IF cache[k] = None THEN Write(k, value, next)
                       ELSE Goto(next) /\ UNCHANGED <<store, cache>>

\* UpsertOpEnsure, UpsertPPEnsure and EnsureConfigMapUpdate.
Upsert(k, value, next) ==
    \/ cache[k] = value /\ Goto(next) /\ UNCHANGED <<store, cache>>
    \/ cache[k] # value /\ Write(k, value, next)

\* IsExistAndDeleted: a deletion names no version, but fails on what is gone.
Delete(k, next) ==
    \/ cache[k] = None /\ Goto(next) /\ UNCHANGED <<store, cache>>
    \/ /\ cache[k] # None
       /\ store' = [store EXCEPT ![k] = None]
       /\ IF store[k] = None THEN Return ELSE Goto(next)
       /\ Observe

\* UpsertArbiterHandler: the override policy /spec/arbiter.
OverridePolicy ==
    /\ rec.pc = "op"
    /\ IF rec.goal.arbiter THEN Upsert("op", ArbiterCluster(rec.goal.order), "svc")
                           ELSE Delete("op", "svc")
    /\ UNCHANGED <<wishes, nextPort, delivered, arbiters, faults>>

Service_Replaced ==
    /\ rec.pc = "svc"
    /\ \/ /\ rec.goal.arbiter
          /\ Write("svc", nextPort, "pp") /\ nextPort' = nextPort + 1
       \/ /\ ~rec.goal.arbiter
          /\ Delete("svc", "pp") /\ UNCHANGED nextPort
    /\ UNCHANGED <<wishes, delivered, arbiters, faults>>

\* UpsertArbiterHandler: the service.  One the cache still shows is not created.
Service ==
    /\ rec.pc = "svc"
    /\ \/ /\ rec.goal.arbiter /\ cache.svc # None
          /\ Goto("pp") /\ UNCHANGED objects
       \/ /\ rec.goal.arbiter /\ cache.svc = None
          /\ Write("svc", nextPort, "pp")
          /\ nextPort' = IF store.svc = None THEN nextPort + 1 ELSE nextPort
       \/ /\ ~rec.goal.arbiter
          /\ Delete("svc", "pp") /\ UNCHANGED nextPort
    /\ UNCHANGED <<wishes, delivered, arbiters, faults>>

\* UpsertArbiterHandler: the policy of the service.
ServicePolicy ==
    /\ rec.pc = "pp"
    /\ IF rec.goal.arbiter THEN Upsert("pp", ArbiterCluster(rec.goal.order), "hostconf")
                           ELSE Delete("pp", "clear")
    /\ UNCHANGED <<wishes, nextPort, delivered, arbiters, faults>>

\* UpsertConfigMapDeleteArbiter writes whatever the cache shows.
ClearArbiters ==
    /\ rec.pc = "clear"
    /\ Write("cm", {}, "hostconf")
    /\ UNCHANGED <<wishes, nextPort, delivered, arbiters, faults>>

\* HostConfigMapHandler, the line "arbiters"; there must be a service for it.
HostConf ==
    /\ rec.pc = "hostconf"
    /\ IF rec.goal.arbiter /\ cache.svc = None
       THEN Return /\ UNCHANGED <<store, cache>>
       ELSE Upsert("cm", IF rec.goal.arbiter
                         THEN {<<ArbiterCluster(rec.goal.order), cache.svc>>} ELSE {},
                   "idle")
    /\ UNCHANGED <<wishes, nextPort, delivered, arbiters, faults>>

Handlers == \/ Reconcile \/ OverridePolicy \/ Service \/ ServicePolicy
            \/ ClearArbiters \/ HostConf

\* A call fails, or the operator restarts between two calls.
Fail ==
    /\ rec.pc # "idle" /\ faults < MaxFaults
    /\ faults' = faults + 1
    /\ Return
    /\ UNCHANGED <<wishes, objects, delivered, arbiters>>

CacheSync(k) ==
    /\ cache[k] # store[k]
    /\ cache' = [cache EXCEPT ![k] = store[k]]
    /\ UNCHANGED <<wishes, store, nextPort, rec, delivered, arbiters, faults>>

-----------------------------------------------------------------------------
(* Karmada.                                                                *)

ServiceIn(c) == IF store.pp = c THEN store.svc ELSE None
MarkedIn(c) == store.op = c

DeliverService(c) ==
    /\ at[c] # ServiceIn(c)
    /\ at' = [at EXCEPT ![c] = ServiceIn(c)]
    /\ UNCHANGED <<wishes, objects, rec, marked, conf, arbiters, faults>>

DeliverConf(c) ==
    /\ conf[c] # store.cm
    /\ conf' = [conf EXCEPT ![c] = store.cm]
    /\ UNCHANGED <<wishes, objects, rec, marked, at, arbiters, faults>>

DeliverMongo(c) ==
    /\ (c \in marked) # MarkedIn(c)
    /\ marked' = IF MarkedIn(c) THEN marked \cup {c} ELSE marked \ {c}
    /\ UNCHANGED <<wishes, objects, rec, at, conf, arbiters, faults>>

-----------------------------------------------------------------------------
(* The member operators.                                                   *)

HostsOf(c) == {h \in rs : h[1] = c}

\* SyncMember creates the stateful set of the arbiter.
EnsureSts(c) ==
    /\ c \in marked \ sts
    /\ sts' = sts \cup {c}
    /\ UNCHANGED <<wishes, objects, rec, delivered, leaving, rs, faults>>

\* MongoEnsureMemberConfig: the host is made of the cluster's VIP and the node
\* port of the service in the cluster, and must be in the hostconf.
Join(c) ==
    /\ c \in marked \cap sts
    /\ <<c, at[c]>> \in conf[c] \ rs
    /\ rs' = rs \cup {<<c, at[c]>>}
    /\ UNCHANGED <<wishes, objects, rec, delivered, sts, leaving, faults>>

Removed_InHostconf(c) == conf[c]

\* The host to remove is what the arbiter's pod calls itself, not what the
\* hostconf says, which may name the next arbiter by now.
Removed(c) == IF HostsOf(c) = {} THEN {} ELSE {CHOOSE h \in HostsOf(c) : TRUE}

\* scaleDownArbiterNode up to MongoRemoveMember.
Leave(c) ==
    /\ c \in sts \ (marked \cup leaving)
    /\ rs' = rs \ Removed(c)
    /\ leaving' = leaving \cup {c}
    /\ UNCHANGED <<wishes, objects, rec, delivered, sts, faults>>

DeleteSts_First(c) ==
    /\ c \in sts \ marked
    /\ sts' = sts \ {c}
    /\ UNCHANGED <<wishes, objects, rec, delivered, leaving, rs, faults>>

\* The stateful set is deleted after the host has been removed.
DeleteSts(c) ==
    /\ c \in leaving
    /\ sts' = sts \ {c} /\ leaving' = leaving \ {c}
    /\ UNCHANGED <<wishes, objects, rec, delivered, rs, faults>>

\* The operator fails between the removal and the deletion.
Interrupt(c) ==
    /\ c \in leaving /\ faults < MaxFaults
    /\ faults' = faults + 1
    /\ leaving' = leaving \ {c}
    /\ UNCHANGED <<wishes, objects, rec, delivered, sts, rs>>

\* One reconciliation at a time: while an arbiter is leaving, nothing else runs.
Operator(c) == \/ DeleteSts(c)
               \/ c \notin leaving /\ (EnsureSts(c) \/ Join(c) \/ Leave(c))

-----------------------------------------------------------------------------
\* The arbiters there are to be.
Expected == IF want.arbiter THEN {<<ArbiterCluster(want.order), store.svc>>} ELSE {}

Settled ==
    /\ store.cm = Expected /\ rs = Expected
    /\ sts = {h[1] : h \in rs} /\ marked = sts
    /\ \A c \in Clusters : at[c] = ServiceIn(c) /\ conf[c] = store.cm

\* The user switches the arbiter on or off, or the schedule changes.
Change ==
    /\ changes < MaxChanges
    /\ changes' = changes + 1
    /\ \/ want' = [want EXCEPT !.arbiter = ~@]
       \/ \E o \in Orders \ {want.order} : want' = [want EXCEPT !.order = o]
    /\ hasty' = (hasty \/ ~Settled)
    /\ UNCHANGED <<objects, rec, delivered, arbiters, faults>>

\* A deployment with its data members, whose arbiter is still to be set up.
Init ==
    /\ want \in Wishes
    /\ changes = 0 /\ hasty = FALSE
    /\ store = [op |-> None, svc |-> None, pp |-> None, cm |-> {}]
    /\ cache = store
    /\ nextPort = 1
    /\ rec = Idle
    /\ marked = {}
    /\ at = [c \in Clusters |-> None]
    /\ conf = [c \in Clusters |-> {}]
    /\ sts = {} /\ leaving = {} /\ rs = {}
    /\ faults = 0

Next == \/ Handlers \/ Fail \/ Change
        \/ \E k \in Kinds : CacheSync(k)
        \/ \E c \in Clusters : \/ DeliverService(c) \/ DeliverConf(c) \/ DeliverMongo(c)
                               \/ Operator(c) \/ Interrupt(c)

Spec == Init /\ [][Next]_vars

\* Controllers requeue after errors and successes alike; Karmada and the
\* informers deliver what they have not delivered yet.
FairSpec ==
    /\ Spec /\ WF_vars(Handlers)
    /\ \A k \in Kinds : WF_vars(CacheSync(k))
    /\ \A c \in Clusters :
          /\ WF_vars(DeliverService(c)) /\ WF_vars(DeliverConf(c))
          /\ WF_vars(DeliverMongo(c)) /\ WF_vars(Operator(c))

-----------------------------------------------------------------------------
PCs == {"idle", "op", "svc", "pp", "clear", "hostconf"}
Objects == [op : Clusters \cup {None}, svc : Ports \cup {None},
            pp : Clusters \cup {None}, cm : SUBSET Hosts]

TypeOK ==
    /\ want \in Wishes /\ changes \in 0 .. MaxChanges /\ hasty \in BOOLEAN
    /\ store \in Objects /\ cache \in Objects
    /\ nextPort \in 1 .. MaxChanges + 2
    /\ rec \in [pc : PCs, goal : Wishes \cup {<<>>}]
    /\ marked \subseteq Clusters
    /\ at \in [Clusters -> Ports \cup {None}]
    /\ conf \in [Clusters -> SUBSET Hosts]
    /\ sts \subseteq Clusters /\ leaving \subseteq sts
    /\ rs \subseteq Hosts
    /\ faults \in 0 .. MaxFaults

\* As long as no change is hasty, an arbiter of the replica set has a stateful
\* set in its cluster, wherever the arbiter moves and whichever call fails: an
\* operator removes the host before the pod, and only its own host.
ArbiterHasPod == ~hasty => \A h \in rs : h[1] \in sts

\* Whatever changes and whenever, the arbiter that is wanted in the end joins
\* the replica set from the first cluster of the schedule and stays.
ArbiterArrives ==
    <>[](want.arbiter => /\ ArbiterCluster(want.order) \in sts
                         /\ Expected \subseteq rs)

\* When no change is hasty, the replica set has in the end the arbiter that is
\* wanted and no other, and nothing of an earlier one is left.
ArbiterAlone == [](~hasty) => <>[]Settled
=============================================================================
