------------------------------ MODULE Deletion ------------------------------
(***************************************************************************)
(* Taking a deployment away from one cluster or from all.  The control      *)
(* plane's finalizer (deleteExternalResources of                            *)
(* controllers/multicloudmongodb_controller.go) deletes the objects kind by  *)
(* kind; Karmada withdraws the copies; the finalizer of each MongoDB         *)
(* (controllers/mongodb_controller.go) sets Spec.Members to 0 in memory and   *)
(* runs Sync, which takes the hosts out of the replica set one by one and     *)
(* needs the hostconf of its cluster for that.                              *)
(*                                                                         *)
(* One step of an operator is one call that another process may come before. *)
(* Its reconciliation knows the object twice: the caller updates the one it   *)
(* has read, SyncMember reads Spec.Members of the one it works on, and a       *)
(* status write replaces the contents of the latter by what is stored.        *)
(*                                                                         *)
(* Abstractions.  Spec.Members is the number of data pods at the start, so    *)
(* deployments that are scaling are Federation's subject.  Writes of the       *)
(* replica set configuration do not overlap (ReplSetConfig).  Users and        *)
(* services play no part here.                                              *)
(***************************************************************************)
EXTENDS Integers, FiniteSets, Sequences

CONSTANTS Clusters, Hosts,
          Owner,       \* Owner[h]: the cluster with the pod of h
          Arbiters,    \* the host of the arbiter, if there is one
          None,        \* no primary
          MaxTroubles  \* bound on failed calls, restarts of operators and pods,
                       \* and changes of a MongoDB by others

ASSUME HostsAssumption == IsFiniteSet(Hosts)
ASSUME OwnerAssumption == Owner \in [Hosts -> Clusters]
ASSUME ArbitersAssumption == Arbiters \subseteq Hosts
ASSUME NoneAssumption == None \notin Hosts
ASSUME MaxTroublesAssumption == MaxTroubles \in Nat

VARIABLES
    kinds,     \* the kinds of objects left in the control plane
    deleteAt,  \* the next kind to delete, 0: the deployment is not deleted
    confTo,    \* clusters the policies of the hostconf
    mongoTo,   \* and of the MongoDB name
    conf,      \* clusters with a copy of the hostconf
    mongo,     \* mongo[c]: "live", "deleted" or "gone"
    state,     \* state[c]: Status.State of c's MongoDB
    op,        \* op[c]: the reconciliation of c's MongoDB
    sts,       \* hosts with a stateful set
    away,      \* hosts whose pod is terminating or not created again yet
    rs,        \* hosts in the replica set configuration
    primary,
    troubles,
    restarted  \* a pod has gone away for a time

plane == <<kinds, deleteAt, confTo, mongoTo>>
copies == <<conf, mongo>>
pods == <<sts, away, rs, primary>>
bounds == <<troubles, restarted>>
vars == <<plane, copies, state, op, pods, bounds>>

Data(c) == {h \in Hosts \ Arbiters : Owner[h] = c}
HasArbiter(c) == \E h \in Arbiters : Owner[h] = c

\* The pods ListPod returns: those that are terminating are left out.
PodsOf(c) == {h \in sts \ away : Owner[h] = c}

Trouble == troubles < MaxTroubles /\ troubles' = troubles + 1

Electable_Any(hosts) == hosts \ Arbiters

\* The members mongod may elect.
Electable(hosts) == (hosts \ Arbiters) \cap (sts \ away)
NextPrimary(hosts) == IF hosts = {} THEN {None} ELSE hosts

-----------------------------------------------------------------------------
(* The control plane.                                                      *)

\* Kinds in the order in which deleteExternalResources deletes them.
DeleteOrder == <<"policy", "service", "hostconf", "mongo", "override">>

DeleteDeployment ==
    /\ deleteAt = 0
    /\ deleteAt' = 1
    /\ UNCHANGED <<kinds, confTo, mongoTo, copies, state, op, pods, bounds>>

\* DeleteAllOf has nothing to do and succeeds if all is gone; after the last
\* kind the finalizer of the MultiCloudMongoDB is removed.
DeleteKind ==
    /\ deleteAt \in 1 .. Len(DeleteOrder)
    /\ kinds' = kinds \ {DeleteOrder[deleteAt]}
    /\ deleteAt' = deleteAt + 1
    /\ UNCHANGED <<confTo, mongoTo, copies, state, op, pods, bounds>>

\* A deletion fails: the next reconciliation starts with the first kind.
DeleteFails ==
    /\ deleteAt \in 1 .. Len(DeleteOrder) /\ Trouble
    /\ deleteAt' = 1
    /\ UNCHANGED <<kinds, confTo, mongoTo, copies, state, op, pods, restarted>>

\* The schedule gives a cluster up: HostConfigMapHandler takes it out of one
\* policy, MongoHandler out of the other.
DrainConf(c) ==
    /\ deleteAt = 0 /\ confTo = mongoTo /\ c \in confTo /\ confTo # {c}
    /\ confTo' = confTo \ {c}
    /\ UNCHANGED <<kinds, deleteAt, mongoTo, copies, state, op, pods, bounds>>

DrainMongo ==
    /\ deleteAt = 0 /\ mongoTo # confTo
    /\ mongoTo' = confTo
    /\ UNCHANGED <<kinds, deleteAt, confTo, copies, state, op, pods, bounds>>

\* Karmada withdraws the copies, in any order.
WithdrawConf(c) ==
    /\ c \in conf /\ ("hostconf" \notin kinds \/ c \notin confTo)
    /\ conf' = conf \ {c}
    /\ UNCHANGED <<plane, mongo, state, op, pods, bounds>>

WithdrawMongo(c) ==
    /\ mongo[c] = "live" /\ ("mongo" \notin kinds \/ c \notin mongoTo)
    /\ mongo' = [mongo EXCEPT ![c] = "deleted"]
    /\ UNCHANGED <<plane, conf, state, op, pods, bounds>>

\* Karmada or the aggregation of the status touches the object.
Touch(c) ==
    /\ op[c].pc # "idle" /\ Trouble
    /\ op' = [op EXCEPT ![c].stale = TRUE]
    /\ UNCHANGED <<plane, copies, state, pods, restarted>>

-----------------------------------------------------------------------------
(* The finalizer of a MongoDB.  stale: the caller's object is not the stored *)
(* one; members: Spec.Members of the object SyncMember works on; todo: the    *)
(* pods still to remove, the first of them at present.                       *)
Idle == [pc |-> "idle", stale |-> FALSE, members |-> 0, todo |-> {}, pod |-> None]
GiveUp(c) == op' = [op EXCEPT ![c] = Idle]

Reconcile(c) ==
    /\ op[c].pc = "idle" /\ mongo[c] = "deleted"
    /\ op' = [op EXCEPT ![c] = [Idle EXCEPT !.pc = "sync"]]
    /\ UNCHANGED <<plane, copies, state, pods, bounds>>

\* The number to scale down to, read before the status is written.
Surplus_Reread(c) == IF state[c] = "Reconciling" THEN PodsOf(c) \ Arbiters ELSE {}

Surplus(c) == PodsOf(c) \ Arbiters

\* SyncMember: the status is written if there are stateful sets to remove.  A
\* write with a stale object is lost; one way or the other the object has its
\* stored number of members again.
SyncMember(c) ==
    /\ op[c].pc = "sync"
    /\ LET write == sts \cap Data(c) # {} /\ state[c] # "Reconciling"
       IN /\ state' = IF write /\ ~op[c].stale
                      THEN [state EXCEPT ![c] = "Reconciling"] ELSE state
          /\ op' = [op EXCEPT ![c] =
                [@ EXCEPT !.members = IF write THEN Cardinality(Data(c)) ELSE 0,
                          !.todo = Surplus(c), !.pc = "next"]]
    /\ UNCHANGED <<plane, copies, pods, bounds>>

Successors_Same(h) == {primary}

\* Who may be primary when the host is removed: StepDown asks it to give way to
\* another data member.
Successors(h) == IF h = primary THEN Electable(rs) \ {h} ELSE {primary}

\* scaleDownDataNode takes the next pod.  It fails if the pod has gone away
\* meanwhile, or is the primary and nobody can take over.
NextPod(c) ==
    /\ op[c].pc = "next"
    /\ \E h \in op[c].todo :
          \/ /\ h \in away \/ Successors(h) = {}
             /\ GiveUp(c) /\ UNCHANGED primary
          \/ /\ h \notin away
             /\ primary' \in Successors(h)
             /\ op' = [op EXCEPT ![c].pod = h, ![c].pc = "remove"]
    /\ UNCHANGED <<plane, copies, state, sts, away, rs, bounds>>

\* MongoRemoveMember: needs the hostconf, and mongod keeps its last member.
RemoveMember(c) ==
    /\ op[c].pc = "remove"
    /\ IF c \in conf /\ rs # {op[c].pod}
       THEN /\ rs' = rs \ {op[c].pod}
            /\ primary' \in IF primary = op[c].pod THEN NextPrimary(Electable(rs'))
                                                   ELSE {primary}
            /\ op' = [op EXCEPT ![c].pc = "delete"]
       ELSE GiveUp(c) /\ UNCHANGED <<rs, primary>>
    /\ UNCHANGED <<plane, copies, state, sts, away, bounds>>

DeleteSts(c) ==
    /\ op[c].pc = "delete"
    /\ sts' = sts \ {op[c].pod}
    /\ away' = away \ {op[c].pod}
    /\ op' = [op EXCEPT ![c].todo = op[c].todo \ {op[c].pod}, ![c].pod = None,
                        ![c].pc = "next"]
    /\ UNCHANGED <<plane, copies, state, rs, primary, bounds>>

\* InitializationMongoCheck waits for as many pods as the object has members.
Enough_Stored(c) == Cardinality(PodsOf(c)) >= Cardinality(Data(c))

Enough(c) == Cardinality(PodsOf(c)) >= op[c].members

\* The rest of SyncMember: scaleDownArbiterNode reads the hostconf even if there
\* is no arbiter to remove, and EnsureMembers reads it if there is one to keep.
Check(c) ==
    /\ op[c].pc = "next" /\ op[c].todo = {}
    /\ \/ c \in conf /\ Enough(c) /\ op' = [op EXCEPT ![c].pc = "finish"]
       \/ (c \notin conf \/ ~Enough(c)) /\ GiveUp(c)
    /\ UNCHANGED <<plane, copies, state, pods, bounds>>

\* The update that removes the finalizer is refused to a stale object.  The
\* stateful sets that are left are collected with their owner.
RemoveFinalizer(c) ==
    /\ op[c].pc = "finish"
    /\ IF op[c].stale THEN UNCHANGED <<mongo, sts, away>>
       ELSE /\ mongo' = [mongo EXCEPT ![c] = "gone"]
            /\ sts' = {h \in sts : Owner[h] # c}
            /\ away' = away \cap sts'
    /\ UNCHANGED <<plane, conf, state, rs, bounds>>
    /\ primary' \in IF primary \in sts' THEN {primary} ELSE NextPrimary(Electable(rs)')
    /\ GiveUp(c)

Fail(c) ==
    /\ op[c].pc # "idle" /\ Trouble
    /\ GiveUp(c)
    /\ UNCHANGED <<plane, copies, state, pods, restarted>>

Operator(c) == \/ Reconcile(c) \/ SyncMember(c) \/ NextPod(c) \/ RemoveMember(c)
               \/ DeleteSts(c) \/ Check(c) \/ RemoveFinalizer(c)

-----------------------------------------------------------------------------
(* Pods and elections.                                                     *)

PodLeaves(h) ==
    /\ h \in sts \ away /\ Trouble
    /\ restarted' = TRUE
    /\ away' = away \cup {h}
    /\ primary' \in IF primary = h THEN NextPrimary(Electable(rs) \ {h}) ELSE {primary}
    /\ UNCHANGED <<plane, copies, state, op, sts, rs>>

PodReturns(h) ==
    /\ h \in away
    /\ away' = away \ {h}
    /\ primary' = IF primary = None /\ h \in rs \ Arbiters THEN h ELSE primary
    /\ UNCHANGED <<plane, copies, state, op, sts, rs, bounds>>

-----------------------------------------------------------------------------
Init ==
    /\ kinds = {DeleteOrder[i] : i \in 1 .. Len(DeleteOrder)} /\ deleteAt = 0
    /\ confTo = Clusters /\ mongoTo = Clusters
    /\ conf = Clusters /\ mongo = [c \in Clusters |-> "live"]
    /\ state = [c \in Clusters |-> "Running"]
    /\ op = [c \in Clusters |-> Idle]
    /\ sts = Hosts /\ away = {} /\ rs = Hosts
    /\ primary \in Hosts \ Arbiters
    /\ troubles = 0 /\ restarted = FALSE

Next == \/ DeleteDeployment \/ DeleteKind \/ DeleteFails \/ DrainMongo
        \/ \E c \in Clusters : \/ DrainConf(c) \/ WithdrawConf(c) \/ WithdrawMongo(c)
                               \/ Touch(c) \/ Operator(c) \/ Fail(c)
        \/ \E h \in Hosts : PodLeaves(h) \/ PodReturns(h)

Spec == Init /\ [][Next]_vars

\* Every error requeues the object; Karmada deletes the MongoDB that is no longer
\* wanted, and nothing is said of when it withdraws the hostconf; a stateful set
\* creates its pod again.
FairSpec ==
    /\ Spec /\ WF_vars(DeleteKind) /\ WF_vars(DrainMongo)
    /\ \A c \in Clusters : WF_vars(WithdrawMongo(c)) /\ WF_vars(Operator(c))
    /\ \A h \in Hosts : WF_vars(PodReturns(h))

-----------------------------------------------------------------------------
PCs == {"idle", "sync", "next", "remove", "delete", "finish"}
Ops == [pc : PCs, stale : BOOLEAN, members : 0 .. Cardinality(Hosts),
        todo : SUBSET Hosts, pod : Hosts \cup {None}]

TypeOK ==
    /\ kinds \subseteq {"policy", "service", "hostconf", "mongo", "override"}
    /\ deleteAt \in 0 .. Len(DeleteOrder) + 1
    /\ mongoTo \subseteq Clusters /\ confTo \subseteq mongoTo
    /\ conf \subseteq Clusters
    /\ mongo \in [Clusters -> {"live", "deleted", "gone"}]
    /\ state \in [Clusters -> {"Running", "Reconciling"}]
    /\ op \in [Clusters -> Ops]
    /\ sts \subseteq Hosts /\ away \subseteq sts /\ rs \subseteq Hosts
    /\ primary \in (rs \cap sts) \cup {None}
    /\ troubles \in 0 .. MaxTroubles /\ restarted \in BOOLEAN

\* As long as no pod restarts, a MongoDB is gone only when the replica set has
\* none of its data hosts: the finalizer outlives every failed call and every
\* write whose answer puts Spec.Members back.
GoneIsClean ==
    ~restarted => \A c \in Clusters : mongo[c] = "gone" => rs \cap Data(c) = {}

\* A host is never taken out of the configuration while it is the primary, as
\* long as no pod restarts and no other cluster is being removed, whose primary
\* steps down in favour of the host.
Lone(c) == ~restarted /\ \A d \in Clusters \ {c} : mongo[d] = "live"

PrimaryStepsDown ==
    [][\A h \in rs \ rs' : Lone(Owner[h]) => h # primary]_vars

\* A cluster that is given up gets rid of its MongoDB, if it keeps the hostconf
\* for as long and another cluster has data members that stay.
DrainEnds ==
    \A c \in Clusters :
        []((mongo[c] # "gone" => c \in conf) /\ \E d \in Clusters \ {c} : mongo[d] = "live" /\ Data(d) # {})
            => (mongo[c] = "deleted" ~> mongo[c] = "gone")

\* Deleting a deployment deletes the MongoDB of every cluster.
DeletionEnds == deleteAt > 0 ~> \A c \in Clusters : mongo[c] = "gone"
=============================================================================
