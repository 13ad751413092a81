---------------------------- MODULE ControlPlane ----------------------------
(***************************************************************************)
(* The handler chain of the MultiCloudMongoDB controller                   *)
(* (pkg/controller/multicloudmongodb/core.go) over the Karmada API server:  *)
(* the services of the pods, the PropagationPolicies that say which         *)
(* clusters a service goes to, the hostconf config map, the weights of the  *)
(* MongoDB resource and the status of the MultiCloudMongoDB.  One           *)
(* reconciliation is a walk through the handlers; the schedule may change    *)
(* and a call may fail between any two of its steps.                        *)
(*                                                                         *)
(* Abstractions.  Service <name>-mongodb-i and its PropagationPolicy are     *)
(* the index i; the host VIP:nodePort of a pod is the pair <<cluster, i>>,    *)
(* because VIPs name clusters and node ports name services.  Lists whose     *)
(* order the code takes from a Go map are sets.  Karmada divides the replicas *)
(* of the MongoDB as the schedule does: UpsertPPEnsure renews the weights of   *)
(* MongoPP only when its list of clusters, which is sorted by size, changes,   *)
(* so a change that keeps the list must keep the proportions.  Arbiters, the *)
(* custom config map, override policies and conditions are left out.        *)
(***************************************************************************)
EXTENDS Integers, FiniteSets, FiniteSetsExt

CONSTANTS Clusters,        \* a set of naturals: the order of their names
          MaxSize,         \* bound on the pods of one cluster
          Schedules,       \* the values of the annotation schedulerResult
          Changes,         \* the pairs of schedules one of which follows the other
          Lagging,         \* the kinds the informer cache may show late
          MaxReschedules,  \* bound on the changes of the annotation
          MaxFaults,       \* bound on failed calls and operator restarts
          NoConf,          \* there is no hostconf
          Absent, Nil      \* no aggregated status; one without a value

Services == 0 .. MaxSize - 1

ASSUME ClustersAssumption == Clusters \subseteq Nat /\ IsFiniteSet(Clusters)
ASSUME SizeAssumption == MaxSize \in Nat \ {0}
ASSUME BoundsAssumption == {MaxReschedules, MaxFaults} \subseteq Nat
ASSUME SchedulesAssumption ==
    \A s \in Schedules : /\ DOMAIN s \subseteq Clusters
                         /\ \A c \in DOMAIN s : s[c] \in 0 .. MaxSize
                         /\ \E c \in DOMAIN s : s[c] > 0
ASSUME ChangesAssumption == Changes \subseteq Schedules \X Schedules
ASSUME NoConfAssumption == \A hs \in SUBSET (Clusters \X Services) : NoConf # hs

Kinds == {"svcs", "pp", "cm"}

VARIABLES target,   \* replicas per cluster, from the annotation
          changes,  \* times the annotation changed
          store,    \* services, policies (a cluster set, or {}) and hostconf
          cache,    \* the same as the informer cache shows them
          cmTo,     \* clusters the hostconf is propagated to
          weight,   \* weight[c]: the replicas MongoPP gives cluster c
          result,   \* Status.Result: members and hosts per cluster
          state,    \* Status.State
          rec,      \* the reconciliation in progress
          faults,
          agg       \* AggregatedStatus of the MongoDB's ResourceBinding

control == <<store, cache, cmTo, weight, result, state, rec, faults>>

Hosts == Clusters \X Services

Stored == [svcs : SUBSET Services,
           pp   : [Services -> SUBSET Clusters],
           cm   : {NoConf} \cup SUBSET Hosts]

-----------------------------------------------------------------------------
(* The rules of ClusterScaleHandler and ScaleDownCleaner. *)

\* ActiveCluster: the clusters that are to have pods.
Active(goal) == {c \in DOMAIN goal : goal[c] > 0}

\* hostWithSize: the hosts of cluster c in the hostconf.
SizeIn(cm, c) == Cardinality({h \in cm : h[1] = c})

ClustersToScaleUp(goal, cm) ==
    {c \in Active(goal) : cm = NoConf \/ goal[c] > SizeIn(cm, c)}

ClustersToScaleDown(goal, cm) ==
    {c \in DOMAIN goal : cm # NoConf /\ goal[c] < SizeIn(cm, c)}

\* Only the results that are there can object.
ScaleDownOk_Always(goal, down, res) == TRUE

ScaleDownOk(goal, down, res) ==
    \A c \in down \cap DOMAIN res : res[c].n = goal[c]

\* upsertCluster[i]: services are counted from 0 on every cluster.
UpsertClusters_Last(goal, up, i) ==
    {c \in up : i < goal[c] /\ \A d \in up : i < goal[d] => d <= c}

UpsertClusters(goal, up, i) == {c \in up : i < goal[c]}

\* The services some cluster reports a replica set member for.
EffectServices(res) == UNION {res[c].hosts : c \in DOMAIN res}

\* The clusters a policy keeps: those that report a member for its service.
KeptClusters_All(res, to, i) == IF i \in EffectServices(res) THEN to ELSE {}

KeptClusters(res, to, i) == {c \in to : c \in DOMAIN res /\ i \in res[c].hosts}

-----------------------------------------------------------------------------
(* The API server.  Reads come from the cache; an update carries the        *)
(* resource version of the object read, so it fails on a newer object.      *)

Observe == cache' = [k \in Kinds |-> IF k \in Lagging THEN cache[k] ELSE store'[k]]

NoPolicies == [i \in Services |-> {}]
Idle == [pc |-> "idle", goal |-> <<>>, up |-> {}, todo |-> {},
         list |-> NoPolicies, fresh |-> FALSE]

\* Every handler returns its error: nothing more happens until the requeue.
Return == rec' = Idle
Goto(pc) == rec' = [rec EXCEPT !.pc = pc]
Panic == rec' = [Idle EXCEPT !.pc = "panic"]

\* UpsertPPEnsure: nil if there is nothing to write or nothing newer to lose.
\* A policy is its ClusterNames here, one of the two fields the code compares;
\* the other, ResourceSelectors, is the same in all policies of a service.
UpsertOk(i, to) == \/ cache.pp[i] = store.pp[i]
                   \/ cache.pp[i] # {} /\ cache.pp[i] = to

UpsertPP(i, to) ==
    [store.pp EXCEPT ![i] = IF cache.pp[i] = store.pp[i] THEN to ELSE @]

\* ListService and GetServiceByNodePort: the services are in the list.
Listed(is) == is \subseteq cache.svcs

\* EnsureConfigMapUpdate: an update of the hostconf, or nothing to write.
ConfOk(new) == cache.cm = store.cm \/ cache.cm = new

PCs == {"idle", "clean", "prune", "upsert", "hostconf", "mongo", "status", "panic"}
-----------------------------------------------------------------------------

\* GetScheduleStatus, VIPAllocator and ClusterScale up to its first write.
Reconcile ==
    LET up   == ClustersToScaleUp(target, cache.cm)
        down == ClustersToScaleDown(target, cache.cm)
        upsert == {i \in Services : UpsertClusters(target, up, i) # {}}
    IN /\ rec.pc = "idle"
       /\ \/ cache.cm = {} /\ Panic   \* strings.Split("", "host:'")[1]
          \/ /\ cache.cm # {} /\ down = {}
             /\ rec' = [Idle EXCEPT !.pc = "upsert", !.goal = target, !.fresh = TRUE,
                                    !.up = up, !.todo = upsert]
          \/ /\ cache.cm # {} /\ down # {}
             /\ rec' = [Idle EXCEPT !.pc = IF ScaleDownOk(target, down, result)
                                           THEN "clean" ELSE "hostconf",
                                    !.goal = target, !.fresh = TRUE,
                                    !.list = cache.pp]
       /\ UNCHANGED <<store, cache, cmTo, weight, result, state, faults>>

\* ScaleDownCleaner up to the policies.  A host whose service is not listed
\* is an error, and so is a service that is already gone.
CleanServices ==
    LET used == EffectServices(result)
        dead == cache.svcs \ used
    IN /\ rec.pc = "clean"
       /\ IF Listed(used)
          THEN /\ store' = [store EXCEPT !.svcs = @ \ dead]
               /\ IF dead \subseteq store.svcs
                  THEN rec' = [rec EXCEPT !.pc = "prune",
                                  !.todo = {i \in Services : rec.list[i] # {}}]
                  ELSE Return
          ELSE Return /\ UNCHANGED store
       /\ Observe
       /\ UNCHANGED <<cmTo, weight, result, state, faults>>

\* ScaleDownCleaner, one policy.  After deleting one it goes on to update it,
\* which fails: the policies that follow wait for the next reconciliation.
PrunePolicy(i) ==
    LET kept == KeptClusters(result, rec.list[i], i)
    IN /\ rec.pc = "prune" /\ i \in rec.todo
       /\ \/ /\ kept = {}
             /\ store' = [store EXCEPT !.pp[i] = {}]
             /\ Return
          \/ /\ kept # {} /\ kept = rec.list[i]
             /\ rec' = [rec EXCEPT !.todo = @ \ {i}]
             /\ UNCHANGED store
          \/ /\ kept # {} /\ kept # rec.list[i]
             /\ IF cache.pp[i] # {} /\ UpsertOk(i, kept)
                THEN /\ store' = [store EXCEPT !.pp = UpsertPP(i, kept)]
                     /\ rec' = [rec EXCEPT !.todo = @ \ {i}]
                ELSE Return /\ UNCHANGED store
       /\ Observe
       /\ UNCHANGED <<cmTo, weight, result, state, faults>>

\* ClusterScale, one service: create it if it is missing and let its policy
\* name the clusters that scale up, and no other.
UpsertService(i) ==
    LET to == UpsertClusters(rec.goal, rec.up, i)
        created == i \in cache.svcs \/ i \notin store.svcs
    IN /\ rec.pc = "upsert" /\ i \in rec.todo
       /\ \A j \in rec.todo : i <= j
       /\ store' = IF created
                   THEN [store EXCEPT !.pp = UpsertPP(i, to),
                                      !.svcs = IF i \in cache.svcs THEN @ ELSE @ \cup {i}]
                   ELSE store
       /\ IF created /\ UpsertOk(i, to)
          THEN rec' = [rec EXCEPT !.todo = @ \ {i}] ELSE Return
       /\ Observe
       /\ UNCHANGED <<cmTo, weight, result, state, faults>>

\* HostConfigMapHandler: a host for every cluster of every policy.
HostConf ==
    LET new == {h \in Hosts : h[1] \in cache.pp[h[2]]}
        ok == Listed({i \in Services : cache.pp[i] # {}}) /\ ConfOk(new)
    IN /\ rec.pc \in {"prune", "upsert", "hostconf"} /\ rec.todo = {}
       /\ \/ /\ ok
             /\ store' = IF cache.cm = store.cm THEN [store EXCEPT !.cm = new] ELSE store
             /\ cmTo' = Active(rec.goal)
             /\ Goto("mongo")
          \/ /\ ~ok
             /\ Return
             /\ UNCHANGED <<store, cmTo>>
       /\ Observe
       /\ UNCHANGED <<weight, result, state, faults>>

\* GenerateMongoPP: the replicas of a cluster are its weight.
Weight_WithArbiter(goal, c) == IF c \in Active(goal) THEN goal[c] + 1 ELSE 0

Weight(goal, c) == IF c \in Active(goal) THEN goal[c] ELSE 0

\* MongoHandler: the total of the MongoDB (Spec.Replicaset, which the annotation
\* is taken to add up to) and the weights of its policy, by which Karmada
\* divides it.
Mongo ==
    /\ rec.pc = "mongo"
    /\ weight' = [c \in Clusters |-> Weight(rec.goal, c)]
    /\ Goto("status")
    /\ UNCHANGED <<store, cache, cmTo, result, state, faults>>

-----------------------------------------------------------------------------
\* AggregatedStatus lists a cluster as soon as the work for it exists, with
\* a nil status until the member cluster has reported one.
Present == {c \in Clusters : agg[c] # Absent}
Reported == {c \in Present : agg[c] # Nil}

\* Too few entries for the result to say anything: it is written as zeros.
Incomplete(goal) == Cardinality(Present) < Cardinality(Active(goal))

\* Clusters whose entry Status.Result[i] lies beyond the results so far,
\* because a nil status before them (in the order of names) was skipped.
Misplaced == {c \in Reported : /\ agg[c].hosts # {}
                               /\ \E d \in Present \ Reported : d < c}

\* The status is written with the resource version of the object read by
\* Reconcile; a change of the annotation since then loses the write.
WriteStatus(res, st) ==
    IF rec.fresh THEN result' = res /\ state' = st ELSE UNCHANGED <<result, state>>

Topology(S) == [c \in S |-> [n |-> agg[c].n, hosts |-> agg[c].hosts]]

\* StatusHandler.
Status ==
    /\ rec.pc = "status"
    /\ \/ /\ Present = {}           \* the ResourceBinding is not there yet
          /\ Return /\ UNCHANGED <<result, state>>
       \/ /\ Incomplete(rec.goal)
          /\ WriteStatus([c \in DOMAIN rec.goal |-> [n |-> 0, hosts |-> {}]], "UnKnown")
          /\ Return
       \/ /\ ~Incomplete(rec.goal)
          /\ IF Misplaced = {}
             THEN /\ WriteStatus(Topology(Reported),
                                 IF Present = Reported /\ \A c \in Present : agg[c].ok
                                 THEN "Health" ELSE "UnHealth")
                  /\ Return
             ELSE LET last == Min(Misplaced) IN
                  /\ WriteStatus([Topology({c \in Reported : c <= last})
                                      EXCEPT ![last].hosts = {}], "UnKnown")
                  /\ Panic
    /\ UNCHANGED <<store, cache, cmTo, weight, faults>>

\* The process restarts after a panic.
Restart ==
    /\ rec.pc = "panic"
    /\ Return
    /\ UNCHANGED <<store, cache, cmTo, weight, result, state, faults>>

\* What a handler whose second or later call fails has already written.
PartlyWritten ==
    {store}
    \cup {[store EXCEPT !.svcs = @ \ part] :
             part \in IF rec.pc = "clean" /\ Listed(EffectServices(result))
                      THEN SUBSET (cache.svcs \ EffectServices(result)) ELSE {}}
    \cup {[store EXCEPT !.svcs = @ \cup {i}] :
             i \in {j \in rec.todo : rec.pc = "upsert" /\ \A k \in rec.todo : j <= k}}

\* Any call may fail, or the operator may be restarted between two calls.
Fail ==
    /\ rec.pc \notin {"idle", "panic"}
    /\ faults < MaxFaults
    /\ faults' = faults + 1
    /\ store' \in PartlyWritten
    /\ Return
    /\ Observe
    /\ UNCHANGED <<cmTo, weight, result, state>>

\* The informer catches up on one kind.
CacheSync(k) ==
    /\ cache[k] # store[k]
    /\ cache' = [cache EXCEPT ![k] = store[k]]
    /\ UNCHANGED <<store, cmTo, weight, result, state, rec, faults>>

Handlers == \/ Reconcile \/ CleanServices \/ HostConf \/ Mongo \/ Status \/ Restart
            \/ \E i \in Services : PrunePolicy(i) \/ UpsertService(i)

\* The scheduler writes a new annotation.
Reschedule ==
    /\ changes < MaxReschedules
    /\ changes' = changes + 1
    /\ \E s \in Schedules : <<target, s>> \in Changes /\ target' = s
    /\ rec' = [rec EXCEPT !.fresh = FALSE]
    /\ UNCHANGED <<store, cache, cmTo, weight, result, state, faults>>

ControlTypeOK ==
    /\ target \in Schedules
    /\ changes \in 0 .. MaxReschedules
    /\ store \in Stored /\ cache \in Stored
    /\ cmTo \subseteq Clusters
    /\ weight \in [Clusters -> 0 .. MaxSize]
    /\ \E S \in SUBSET Clusters :
           result \in [S -> [n : 0 .. MaxSize, hosts : SUBSET Services]]
    /\ state \in {"", "UnKnown", "UnHealth", "Health"}
    /\ rec \in [pc : PCs, goal : Schedules \cup {<<>>}, up : SUBSET Clusters,
                todo : SUBSET Services, list : [Services -> SUBSET Clusters],
                fresh : BOOLEAN]
    /\ faults \in 0 .. MaxFaults
=============================================================================
