# A verification development for fedstate

fedstate runs one MongoDB replica set over several Kubernetes clusters. A
*control plane* operator turns a schedule (how many pods in which cluster) into
services, propagation policies, a config map of hosts and a `MongoDB` resource
on a Karmada API server; Karmada copies them to the clusters; a *member*
operator in each cluster runs the pods and configures the replica set that all
of them share. This directory holds TLA+ models of that protocol, the TLC runs
that check them and machine-checked proofs: every invariant, every action property and the refinement that a
run finds to hold are theorems too, for any number of clusters, pods and faults, under
conditions that section 5 names. Paths below are relative to the repository root.

## 1. Inventory

| Component | Code | State it keeps | Operations |
|---|---|---|---|
| Handler chain of the MultiCloudMongoDB controller | `pkg/controller/multicloudmongodb/core.go`, `controllers/multicloudmongodb_controller.go` | services, PropagationPolicies, OverridePolicies, hostconf, `MongoDB`, `Status.Result`, `Status.State` | one reconciliation: GetScheduleStatus, VIPAllocator, CheckClusterStatus, ClusterScale, UpsertArbiter, HostConfigMap, Mongo, Status |
| ScaleDownCleaner | `pkg/driver/k8s/client.go` | none of its own | delete unused services, prune policies |
| Karmada | external (policies built in `pkg/driver/karmada/obj.go`) | copies per cluster, ResourceBinding | propagate, revise replicas, aggregate status |
| Member operator | `controllers/mongodb_controller.go`, `mode/replica/replica.go`, `core/sync.go`, `core/status.go` | stateful sets, `MongoDB.Status`, finalizer | one pass: PreConfig, Sync, PostConfig, Restart, handleReturn, deletion |
| Replica set configuration | `pkg/driver/mgo/mongo.go`, `member.go`, `core/mongo_config.go`, `core/replset_member.go` | the document in mongod | initiate, add, remove; restore, which finds nothing to do |
| Rolling restart | `controllers/mongodb_controller.go` checkRestart, `replica.go` Restart, `core/restart.go` | `RestartState`, `CurrentInfo.Resources` | secondaries, step-down, primary |
| Users | `core/mongo_user.go` | users in mongod, conditions, `CurrentInfo.DBUserPassword` | create root, cluster and database users, change the password |
| Status store | `core/status.go` WriteStatus | the in-memory copy of the object | write, fall back, refresh |
| Arbiter | `core.go` UpsertArbiterHandler and HostConfigMapHandler, `core/sync.go` | override policy, service, its policy, a line of the hostconf; a stateful set and a host | place, move, remove |
| Deletion | `controllers/multicloudmongodb_controller.go`, `controllers/mongodb_controller.go` | two finalizers | delete the external resources; scale a cluster down to nothing |
| Webhooks and generation | `api/v1alpha1/*_webhook.go`, `driver/k8s/obj.go`, `client.go` | none | default, validate, generate and update the `MongoDB` |
| Builders, labels, secrets, pod classification, logging, metrics, events, configuration | `core/resource_builder.go`, `driver/k8s/label.go`, ... | none | construction and I/O |

**How they interact.** The control plane reads and writes the Karmada API
server only: reads through the informer cache, writes with the resource version
of the object it read. It never calls a member cluster. Karmada delivers each
object to each cluster on its own, so a cluster may have the `MongoDB` before
the services or the hostconf. Member operators meet in one place, mongod: they
read the replica set configuration, change it in memory and write all of it back
with `force: true`. Their statuses travel back through the ResourceBinding's
AggregatedStatus, one cluster at a time, and the next reconciliation of the
control plane takes its decisions from them.

**What is hard here.** Lost updates between operators (the forced write);
decisions on stale reads (informer cache, status of an earlier schedule);
several writes of one handler of which the last fails; panics that the
operator meets again after every restart; objects that arrive in any order;
elections between two phases of a restart; status writes that are lost while
the caller sees success, or whose answer overwrites what the caller changed in
memory; finalizers that need objects another controller withdraws. `PROJECT.json` lists these as hazards, each at its line
with the properties that would catch it.

**What makes each component correct.**
- Configuration: unique ids and hosts, a host has left before its pod goes, the
  majority stays up, every pod is in it in the end.
- Control plane: no member loses its service, nothing is cleaned before the
  shrinking clusters have shrunk, every schedule is reached, "Health" is true.
- Restart: every pod gets the new resources, the primary last and never deleted
  while in office, every restart ends.
- Arbiter: it is where the schedule wants it, there is no other, and none without
  a pod.
- Deletion: a finalizer takes all hosts of its cluster out first, the primary not
  before it has stepped down, and every deletion ends.
- Webhooks: what arrives in a cluster is one version the user asked for.
- Users: what is recorded as created exists, everything gets recorded, the last
  password is the one in the database.

## 2. Modules

| Module | Models | Composes |
|---|---|---|
| `ReplSetConfig` | the concurrent read-modify-write of the configuration | instantiates `Membership` |
| `Membership` | what the configuration promises: one host joins or leaves at a time, joins only with a pod, and has left before the pod is deleted, until an update is lost | - |
| `ReplSetConfigProofs` | theorems about `ReplSetConfig` | extends it and TLAPS |
| `ControlPlane` | the handler chain and the cleaner over API server and informer cache | - |
| `Federation` | Karmada and the member operators around the control plane | extends `ControlPlane` |
| `FederationProofs` | types of `Federation`, and what each handler and operator may change | extends it and TLAPS |
| `ChangeProofs` | theorems about a deployment that is built and changed | extends `FederationProofs` |
| `RollingRestart` | checkRestart and Restart in one cluster | - |
| `RollingRestartProofs` | theorems about `RollingRestart` | extends it and TLAPS |
| `Arbiter` | the arbiter from the control plane to the replica set | - |
| `ArbiterProofs` | theorems about `Arbiter` | extends it and TLAPS |
| `Deletion` | both finalizers, withdrawal by Karmada, pods | - |
| `DeletionProofs` | theorems about `Deletion` | extends it and TLAPS |
| `Admission` | both webhooks and the generated `MongoDB` | - |
| `AdmissionProofs` | theorems about `Admission` | extends it and TLAPS |
| `Provisioning` | rs.initiate, users, conditions, password, by all member operators | - |
| `ProvisioningProofs` | theorems about `Provisioning` | extends it and TLAPS |
| `MC*` | the small instances that TLC checks | extend the module they name |

Operators whose names have an underscore (`NextId_Count`, `NeedUpdate_Never`)
are variants with a plausible bug. No specification uses them: each is there to
show that one property notices it (`PROJECT.json`, "mutants").

### ReplSetConfig

`config` is the set of members in mongod's document, `wanted` the hosts whose
stateful set exists; `pc`, `arg` and `snap` are the position of each operator in
`MongoEnsureMemberConfig` or `MongoRemoveMemberAndDeleteSts`, the host it works
on and the document it read. `EnsureMember` and `ScaleDown` start an operation,
`ReadConfig`, `WriteAdd` and `WriteRemove` are `Client.AddMembers` and
`Client.RemoveMembers`, `DeleteSts` follows a removal, `Abandon` is an error or a
restart anywhere. Votes, priorities, tags and the version number are left out:
under `force: true` the version decides nothing.

Three things are mongod's. A command goes to the primary, and there is one while a
majority of the members has its pod, one with data among them (`HasPrimary`); reads fail
without it. Any of these may be primary when a document is written, and the one that
executes the command must be in the new document; `Compatible` is the check of the
document itself, which `force` does not waive either. Where one of them fails the
command may be refused (`WriteRefused`), and the handler ends with an error. `lost` records that a
document was replaced which its writer had not read: the update of another operator is gone.

### ControlPlane and Federation

A reconciliation is `rec`: its position in the chain, the schedule it took from
the annotation, and what it still has to write. One action per handler, and one
per service or policy where the handler loops, so that the schedule may change
(`Reschedule`), a call may fail (`Fail`, which leaves what was written before)
and caches may catch up (`CacheSync`) in between. `store` and `cache` hold the
same three kinds of object, as stored and as the informer shows them; `Lagging`
says which kinds may lag. A pod of cluster *c* behind service *i* is the host
`<<c, i>>`. `Reconcile` covers the chain up to its first write, with the panic on
an empty hostconf; `Status` has the panic on an out-of-range result.

A policy of a service is the list of its clusters, one of the two fields
`UpsertPPEnsure` compares (`client.go:269`); the other is constant. For MongoPP, the
policy of the `MongoDB`, this means more: its weights are not compared, so they are renewed only when its list
of clusters, which is sorted by size, changes. `weight` is what Karmada
makes of them and of `Spec.Replicaset`, and the model lets it be the schedule in
every pass: that is so for changes that keep the proportions (1/1 to 2/2) or change the
list (2/1 to 2/0), as those of `federation` do. After another change, 3/1 to 2/2 for example, the
old weights stay, and Karmada divides by them; what it does then is not modelled.

`Federation` adds `at`, `conf` and `members` (what Karmada has delivered to each
cluster), `pods`, the replica set `rs`, the status `st` of each `MongoDB` and
`agg`, the statuses as aggregated. A pass of a member operator is one step
(`Sync`, `Finalize`), since what operators do to each other inside a pass is the
subject of `ReplSetConfig`. A pod whose service is missing is not joined in a pass; the code
also leaves out the pods after it in the list (`sync.go:174`), which
a later pass joins. A failure between two members of one pass is in `ReplSetConfig`, `Arbiter` and
`Deletion`. `Settled` is a deployment at rest: everybody runs and knows what the
schedule says, and Karmada and the informers have nothing left to deliver (`Delivered`). With
`Patient = TRUE` the schedule changes only then.

Left out: override policies beyond the choice of the initiating cluster,
custom config maps, conditions, Pause, CheckClusterStatus; the arbiter has a module of
its own. The
MultiCloudMongoDB and the list of clusters the hostconf is sent to do not lag.
The two writes of MongoHandler, the total and the weights, are one step.

### RollingRestart

Resources are version numbers. `op` is the operator's pass with its in-memory
object, `fresh` says whether that is still the latest; a status write with a
stale object takes the fallback of `WriteStatus`, which refreshes the object and
loses the status without an error. `seen` is the pod cache. Elections happen
when the primary loses its majority or resigns, and up to `MaxElections` times
without such a cause. Members in other clusters always run: `Others` is how many.

A pod is gone, starting or ready (`pod`). `Restart` lists those that are there, and goes
on when as many are ready as `Spec.Members` says (`replica.go:167`, `pod.go:40`). One of the
pods may be the arbiter's (`arbiters`): it votes, is never primary, is deleted
with the secondaries, and counts towards a number that does not include it, since it has
the role label and the container of the others (`sync.go:117`). So in its cluster a restart goes
on with one data pod missing or not ready (`AllReady`).

### Provisioning

`op[o]` is the pass of operator *o* through PostConfig with its copy of the
object. Conditions are the set of those that are True. Every call to mongod and
every status write is a step of its own; parts whose condition is already True
are passed over (`Skip`); `WriteStatus` has the same fallback as above. A password
is a number; with `Reuse = FALSE` every change is to one that was not in use
before. `clusterMonitor` is created like `clusterAdmin` and not modelled again.

### Arbiter

`want` is what the user and the scheduler say: an arbiter or none, and the schedule,
whose first cluster has it. One action per object the two handlers write, in their
order: `OverridePolicy` (which marks one cluster's `MongoDB`), `Service`, `ServicePolicy`,
`ClearArbiters` and `HostConf`, each through the cache (`Upsert`, `Delete`, `Write`), with a
conflict when the cache is behind. Node ports are counted up, so that a service deleted
and created again has another. `DeliverService`, `DeliverConf` and `DeliverMongo` are Karmada.
In a cluster `EnsureSts` and `Join` run a marked arbiter; `Leave` and `DeleteSts` remove the
one of a cluster that is no longer marked, `Interrupt` is a failure between the two.
`hasty` remembers that a change was made before the one before had settled.

### Deletion

`kinds` and `deleteAt` are the progress of `deleteExternalResources`, which starts over
after an error; `confTo` and `mongoTo` are the clusters the two policies name, which differ
while a cluster is being drained; `conf` and `mongo` are the copies in the clusters.
`op[c]` is the reconciliation of *c*'s `MongoDB` in its finalizer, one call at a time:
`SyncMember` writes the status, `NextPod` asks the pod and makes a primary step down,
`RemoveMember` and `DeleteSts` follow, `Check` is the rest of `SyncMember`, `RemoveFinalizer` the
update that lets the object go. Two facts about the object are kept apart: `stale`
(someone has touched it, so that the update will be refused) and `members`, the
`Spec.Members` that `SyncMember` sees, 0 in memory until a status write fetches the stored
number back. `away` are pods that are terminating, which `ListPod` leaves out.

### Admission

`cr`, `template` and `member` are the deployment, the `MongoDB` in the control plane and
the one in a member cluster. `Defaulted`, `ValidateUpdate`, `Default` and `Allowed` are the two
webhooks, `GenerateMongo` and `Upserted` what lies between them. A setting stands for each
way a field is treated: compared and mutable (`replicas`, `resources`), mutable but not
compared (`image`), immutable in the member (`password`), on for good (`export`).
`versions` is what the user has asked for so far; `disputed` says that an update was
accepted which the member's webhook refuses.

## 3. Runs

All instances have two clusters (`RollingRestart`: the pods of one; `Admission`: one).
`CHECK_DEADLOCK` is off where everything may be done: `ReplSetConfig`, `RollingRestart`,
`Deletion` and `Admission`. Every other model always has a next reconciliation.

| Run | Asks | Bounds | Answer |
|---|---|---|---|
| `config_shared` | `TypeOK`, `ConfigWellFormed`, `HarmlessUntilLost`, `MembersConverge`, refinement of `Membership`, with two operators | 3 hosts, one an arbiter; 3 starts, 3 removals, 2 handlers abandoned | hold |
| `config_ghost` | `NoGhostMember` with two operators | 3 hosts; 1 start, 1 removal, nothing abandoned | violated: finding |
| `federation` | `TypeOK`, `ServedWhileMember`, `CleanAfterShrink`, `Converges` | 1/1 to 2/2 and back, 2/1 to 2/0; 1 change, 1 failure, late services and hostconf | hold |
| `uneven` | `Converges` | 1/1 to 2/1 | violated: finding |
| `restart` | `TypeOK`, `RestartEnds`, `Restarted`, `PrimaryLast`, `PrimarySpared` | 3 pods, one the arbiter's or none, majority with those elsewhere; 2 changes, 1 election, 1 crash, with a late cache two of these | hold |
| `restart_arbiter` | `SecondariesFirst` | 3 pods, one the arbiter's; 1 change, nothing else | violated: finding |
| `provisioning` | `TypeOK`, `RecordedUsersExist`, `UsersConverge`, `LaterPasswordConverges` | from nothing and from a finished setup; 2 changes, 1 failure or move of the primary | hold |
| `provisioning_early` | `PasswordConverges` | from nothing, 1 change | violated: finding |
| `arbiter` | `TypeOK`, `ArbiterHasPod`, `ArbiterArrives`, `ArbiterAlone` | two orders of the schedule, 2 changes, 1 failure, late service | hold |
| `deletion` | `TypeOK`, `GoneIsClean`, `PrimaryStepsDown`, `DrainEnds` | 3 data hosts and an arbiter; 1 failed call, touched object or restarted pod | hold |
| `deletion_stuck` | `DeletionEnds` | as `deletion`, no trouble | violated: finding |
| `admission` | `TypeOK`, `NoMixture`, `ScaleArrives` | 0 to 2 replicas, two values of every setting, 2 updates | hold |

**Why these bounds are enough to be worth something.** Two clusters are what a
lost update, a stale status of the other cluster and an order of delivery need;
two pods per cluster are what counting services from 0 needs to differ from
adding one. In `config_shared` each pod can go and come back while the other operator is
at work, the arbiter included, and both can give up in the middle; its three hosts lose
their majority, so that commands fail. In `RollingRestart` three pods are a primary, a
secondary and an arbiter, or two secondaries, and two members elsewhere leave a majority with
any single pod. Two changes let the
arbiter be moved and moved back, or moved and switched off, while the first is under
way; in `Deletion` one cluster has two data hosts, so that a finalizer can fail
between them, and the other has one and the arbiter. Every bound is a
constant that limits disturbances only (changes, failures, elections, pods
started and removed), never the work that answers them.

**What the passing runs do not say.** The conditions of each are part of its
meaning, and leaving one of them out breaks the property. Each of the following
changes one or two lines of the `.cfg`, or the definition of the schedules it names, with
the named property as the only one checked (some of the others fail as well):

| Run | Change | What TLC finds |
|---|---|---|
| `config_shared` | `MembersConverge` without `<>[]HasPrimary` | two removals overlap and the second brings an arbiter back whose pod is then deleted; with the next loss one of two members is up, there is no primary, and nothing can be written any more: a lost update may cost the replica set for good |
| `federation` | `Patient = FALSE`, `MaxReschedules = 2` | `CleanAfterShrink`: `scaleDownOk` (`core.go:404`) starts as true and a missing result, or one of an earlier schedule, does not refute it, so services are cleaned while pods still run |
| `federation` | one cluster, 3 pods to 1 to 2, `MaxSize = 3`, `MaxReschedules = 2`, nothing late, no failure | `CleanAfterShrink`: which pods a shrink removes depends on the order they are listed in; if it keeps pod 2, the growth creates a stateful set for each of the two services it is given (`sync.go:93`), three pods run, Status says two, and `scaleDownOk` believes it |
| `federation` | `<<0, 2>>` to `<<1, 1>>`, nothing late, no failure | `ServedWhileMember`: the new cluster comes first and has no status, so the results are shorter than the index used on them (`core.go:889`, `core.go:897`); before the panic a result without the second cluster's hosts is written, and the next pass cleans with no service in use |
| `federation` | three clusters, `<<0, 2, 2>>` to `<<1, 1, 1>>`, nothing late, no failure | `CleanAfterShrink`, for the same reason |
| `federation` | `Lagging = {"pp"}` | `Converges`: a hostconf written while the cache shows no policy is empty, and every later reconciliation panics on it (`core.go:360`) |
| `federation` | `HealthIsExpected` as the property | State becomes Health (`core.go:910`) as soon as every status is Running, of whichever schedule; `multicloudmongodb_types.go:29` says that Health means that the state is as expected |
| `restart` | `Others = 0`, no change but one, no election or crash | `Restarted`: without its secondaries the primary of a single cluster loses its majority, another may be elected, and the second phase (`replica.go:219`) restarts that one again |
| `restart` | `Restarted` without `Calm` | the phases of a restart do not remember which resources they are for, nor which primary |
| `restart` | `PrimaryLast` without `~lagging` | pods just deleted still count as ready |
| `restart` | `PrimarySpared` with `elections = 0 /\ ~lagging` for `Steady` | in the arbiter's cluster a restart that begins over, after a failure or for a second change, lists a data pod that is not ready; when the pods before it have been deleted a primary elsewhere resigns, the pod becomes ready, is elected, and is deleted as a secondary |
| `provisioning` | `Reuse = TRUE` | `LaterPasswordConverges`: a change back to the recorded password, made before the change away from it is recorded, is no change for `needUpdate` |
| `arbiter` | `ArbiterAlone` without `~hasty` | switched off and on again before the member has noticed, the arbiter gets another node port and joins a second time; the old host stays |
| `arbiter` | `ArbiterHasPod` without `~hasty`, `MaxChanges = 3` | switched off after that, the pod takes one of its two hosts along and leaves the other |
| `deletion` | `GoneIsClean` for all hosts of the cluster | a cluster drained with the arbiter leaves the arbiter's host behind: `SyncMember` removes an arbiter only if it is no longer wanted (`sync.go:126`) |
| `deletion` | `GoneIsClean` without `~restarted` | a pod that is terminating while the finalizer lists the pods keeps its host in the configuration (`pod.go:24`) |

## 4. Fairness

Weak fairness, on the program and the infrastructure and never on a disturbance.
- A controller's pass: both controllers requeue 5 seconds after an error and 15
  or 60 seconds after success (`multicloudmongodb_controller.go` Reconcile,
  `mongodb_controller.go` handleReturn), run one pass at a time
  (`MaxConcurrentReconciles: 1`), and the kubelet restarts a process that
  panicked.
- Karmada's deliveries and aggregation, informers, deleted pods coming back
  (stateful sets) and elections with a majority: each eventually happens, in any
  order.

- In `Deletion` Karmada's withdrawal of the hostconf has no fairness: nothing says when
  it happens, and `DrainEnds` must not depend on it. Its withdrawal of the `MongoDB` has.
- In `Admission` the scheduler answers every change of the replicas with its annotation,
  as `GetScheduleStatusHandler` expects (`core.go:53`).

In `ReplSetConfig` the fairness is on the work of an operator without the
decision to scale, which the user takes; `Abandon` needs no fairness.

## 5. Proofs

Eight modules prove, for every value of the constants that meets the assumptions:

| Module | Theorem | States | Conditions |
|---|---|---|---|
| `ReplSetConfigProofs` | `TypeCorrect` | `Spec => []TypeOK` | |
| | `WellFormedCorrect` | `Spec => []ConfigWellFormed` | |
| | `HarmlessUntilLostCorrect` | `Spec => []HarmlessUntilLost` | |
| | `MembershipCorrect` | `Spec => MembershipSpec` | |
| | `AloneNoGhostMember` | `Spec => []NoGhostMember` | one operator |
| `FederationProofs` | `TypeCorrect` | `Spec => []TypeOK` | |
| `ChangeProofs` | `CleanAfterShrinkCorrect` | `Spec => []CleanAfterShrink` | `Patient`, `OneChange`, `NoNewcomer`, policies not late |
| | `ServedWhileMemberCorrect` | `Spec => []ServedWhileMember` | `Patient`, `OneChange`, `OneWay`, policies not late |
| `RollingRestartProofs` | `TypeCorrect` | `Spec => []TypeOK` | |
| | `PrimarySparedCorrect`, `PrimaryLastCorrect`, `RestartedCorrect` | `Spec => PrimarySpared`, `Spec => PrimaryLast`, `Spec => Restarted` | `OneLeft` |
| `ArbiterProofs` | `TypeCorrect`, `ArbiterHasPodCorrect` | `Spec => []TypeOK`, `Spec => []ArbiterHasPod` | |
| `DeletionProofs` | `TypeCorrect`, `GoneIsCleanCorrect` | `Spec => []TypeOK`, `Spec => []GoneIsClean` | |
| | `PrimaryStepsDownCorrect` | `Spec => PrimaryStepsDown` | |
| `AdmissionProofs` | `TypeCorrect`, `NoMixtureCorrect` | `Spec => []TypeOK`, `Spec => []NoMixture` | |
| `ProvisioningProofs` | `TypeCorrect`, `RecordedUsersExistCorrect` | `Spec => []TypeOK`, `Spec => []RecordedUsersExist` | |

**Assumptions.** Those the modules state of their constants: in `ReplSetConfig` each host
belongs to an operator (`OwnerAssumption`), `ArbiterAssumption`, `NoHostAssumption`, and that
the initial hosts are finitely many, one with data among them, which `Init` states; in
`Deletion` a finite set of hosts with owners; finite sets of clusters and pods; schedules that
give each cluster at most `MaxSize` pods; an order of the arbiter that names every cluster;
what section 2 says of the weights of MongoPP, for `FederationProofs` and `ChangeProofs`;
everywhere natural bounds, and that `None`, `Nil` and the like are none of the values they
stand beside.

**Conditions.** A theorem whose property fails without a condition states it as its
hypothesis, and section 3 shows what happens otherwise. The instance of the run that checks
the property satisfies it; `AloneNoGhostMember` is about the property that `config_ghost` refutes.

| Condition | Says | Without it |
|---|---|---|
| one operator | a single member operator manages all hosts | the finding `config_ghost` |
| until an update is lost (`lost`, in the properties) | no write has replaced a document its writer had not read | the finding `config_ghost` |
| in calm, or steady (`Calm`, `Steady`, in the properties) | nothing but one change; or no election without a cause, no late cache, no arbiter | section 3, the rows of `restart` |
| `OneLeft` | the other clusters' members and one pod are a majority | section 3, `Others = 0` |
| policies not late | `"pp" \notin Lagging` | section 3, `Lagging = {"pp"}` |
| `Patient` | a change is made to a deployment at rest | section 3, `Patient = FALSE` |
| `OneChange` | the schedule changes at most once | section 3, 3 to 1 to 2 |
| `NoNewcomer` | no cluster gets pods that had none | section 3, `<<0, 2, 2>>` to `<<1, 1, 1>>` |
| `OneWay` | no cluster gets more pods, or every cluster that has some does and no other | section 3, `<<0, 2>>` to `<<1, 1>>`; the finding `uneven` |

The code promises none of these conditions; they are the deployments for which its promise
holds.

### ReplSetConfigProofs

**The argument.** `ConfigWellFormed` speaks of what mongod holds, but what it will
hold is what some operator has in memory. The inductive invariant `IInv` is
therefore `Control` (where operators are, and that one in the middle of an
operation has a host) and `Documents`: the stored document *and every snapshot* is
a `Document`, that is of the right type, well formed, and with bounded ids. The
bound is needed because `MaxId` is a CHOOSE: on a set with unbounded ids it
names nothing. Two lemmas on `member.go` carry the step: `AddMemberDocument` (the
new id is above every id *of the document it is added to*, whichever that is) and
`RemoveMemberDocument` (a subset of a document is one). `WriteConfigDocument` then
says that writing any held document is safe, so stale snapshots cannot hurt.

Until an update is lost every snapshot about to be written is the configuration itself, or
its write loses one. So what a removal has taken out stays out: `Sound` says that every member
has a pod, that one of them has data (mongod takes no document without the primary), and
that the host an operator is about to stop is not in the configuration (`Settled`, each operator
working on hosts of its own). From it follow `HarmlessUntilLost` (all members are up, a
majority in particular) and the step simulation for the refinement, for any number of
operators. With a single one nothing is ever lost (`Reading`), hence `AloneNoGhostMember`;
with two it is false, as `config_ghost` shows.

### DeletionProofs

`GoneIsClean` speaks of the moment the finalizer goes; what makes it true is what the
finalizer has listed before. The invariant `Covered` says, as long as no pod restarts:
every data host of the configuration has a stateful set; while the finalizer of *c* works,
the configuration's hosts of *c* are among those it has still to remove (`todo`); at
`"finish"`, and once the object is gone, there are none. It holds at the start because
the pods listed are all the pods there are, and is kept because a pod leaves `todo` only
in `DeleteSts`, where `OperatorOK` says that its host has left the configuration, and
because nothing but a removal changes the configuration. Giving up empties `todo` but
also returns to `"idle"`, where nothing is claimed. The number `members`, which the status
write may put back, occurs in none of this: it can delay the finalizer, not mislead it.

`PrimaryStepsDown` adds two facts. `Working`: only the operator of a `MongoDB` that is being
deleted does anything. `SteppedDown`: an operator of a `Lone` cluster that is about to remove a
host has seen that it is not the primary, or made it step down. Nothing brings the office back
in between: as long as no pod restarts only working operators move it, and no other one works.

### AdmissionProofs

`NoMixture` is about the member; inductive is that the template, too, is generated as a
whole from a version asked for, that `cr` is one of these, and that what the member
already runs stays among the versions, which only grow.

### ProvisioningProofs

What an operator records is what its pass holds in memory plus what it has just seen, so
the invariant `Records` speaks of all three: every stored status *and every status held
by a pass* is true of the users, and a pass that is about to record a user (`"rootDone"`,
`"adminDone"`, `"dbDone"`) has seen it. Users are only ever created (`Kept`). The lemma
`WriteStatusRecords` covers the fallback of `WriteStatus`, whose refreshed status is a
stored one, hence true.

### RollingRestartProofs

The three action properties speak of one moment of a restart; what makes them true lies
several passes back, so `IInv` says at every place of the pass what the pods look like there.
`Office`, as long as it is `Steady`: the pods still to be deleted are ready and the leader is not
among them (`Deleting`), when the leader is asked to step down it is primary and enough pods are
ready, and after it the primary is another one (`SteppingDown`). What "enough" means is counted in
two lemmas: every pod (`EveryPodReady`) where there is no arbiter, all but one per arbiter
(`ArbitersMakeUp`) where there is. Where there is one, the pods to delete are ready
only because, in calm, nothing was deleted before the first phase (`InFirst`). `Progress`, in calm: before the change nothing is
under way; afterwards the object in memory is the stored one (`UpToDate`), which makes the
phases what they are for; in the first phase the pods with old resources (`Old`) are those still to be
deleted and the leader, in the second at most the primary, in the third none. `OneLeft`
enters in one place (`Majority` is kept while secondaries are down), but everything rests on
it: a primary that resigns in the middle of the first phase is replaced by a pod that has
been restarted already, and the one that was spared is never asked for again.
`Restarted` and `PrimaryLast` speak of the pods that are there: one that is gone when the restart goes
on without it comes back from the new template.

### ArbiterProofs

That an operator removes the host before the pod is not enough: if its cluster had two
hosts, it would remove one, the one its pod tells (`AllRemoved` says there is no other). There is one
because all arbiters and everything that leads to one carry the same node port (`OnePort`), and a
second port comes into being only with a new service. So the proof is about when the control
plane may create one: `Wanted` and `Unwanted` say, for each wish and for a pass that began
before it changed, that a missing service means that no arbiter is left, and that a service to be
deleted is one that the cache shows; `Seen` adds that a hostconf with the arbiter was written from the
service in the cache. All this is claimed until the first hasty change only (`Patient`); `PortsInOrder`
bounds the ports in every case, which `TypeOK` needs: there is a change for every service.

### FederationProofs

Besides `TypeOK`, whose only difficulty is that a pass has a schedule (`PassOK`), this module
says once what each handler, the cache, Karmada and the operators may change, whatever the
state they start from: the result of a call is the stored object as it was or as the call
leaves it, and the cache is the old one or the stored one (`ObserveType`, and a result
lemma for each handler), how many services a schedule has in a cluster, and what pods a
`Sync` may leave (`SyncedPodsFrom`). `ChangeProofs` cites these lemmas instead of the handlers.

### ChangeProofs

`CleanAfterShrink` depends on a number that travels from the operator through Karmada into
`Status.Result` and that `scaleDownOk` compares with the schedule. The invariant follows a
deployment through its life: `Before` the change every number on the way is 0 or what
the schedule says (`BeforeData`), and handlers only build (`Building`), so that at the moment of
the change, with `Settled`, all of them are equal. `After` it, for each cluster
that shrinks, one of two things holds: its pods are the old ones, and then status,
aggregated status, result, policies and hostconf all still say so and no pass is at a place
where it removes anything (`Unshrunk`); or it runs as many as it is to. The step from the
one to the other is the operator's `Sync`, and no other step leads from the first. What makes the
first stable is that a pass that began before the change writes what is stored already (`OldPass`),
and that the result has an entry for the cluster, for which `NoNewcomer` and the aggregated
statuses (never `Nil` after the change) are needed.

`ServedWhileMember` adds what each party knows of hosts. As long as nothing is removed, a host
is known only once its service and policy exist, and stays served (`AllServed`); the hosts in
the result are among those of the aggregated status, these among those of the status, and these in
the replica set (`Known`). While clusters grow, the same holds with the first schedule in the
place of nothing (`Growing`: the policies written for the second are supersets only because
every cluster grows, which is why `uneven` fails). While clusters shrink, a cluster's pods
are its members, every status down the line names them, and their services and
policies stay (`Keeping`), so that the cleaner, which takes the union of the hosts in the
result, finds each of them in use.

**Only model-checked**: all liveness, since the prover handles neither ENABLED nor fairness:
`MembersConverge`, `Converges`, `RestartEnds`, `UsersConverge`, `LaterPasswordConverges`,
`ArbiterArrives`, `ArbiterAlone` (an eventuality too), `DrainEnds` and `ScaleArrives`; and
the refuted properties, of course. What is proved of a `violation` run is its opposite
side: the conditions under which the property holds.

## 6. Findings

Each violation run checks one statement of the repository's own documentation or
comments; `PROJECT.json` quotes it. In short: forced writes undo each other
(`config_ghost`); a cluster that scales up alone takes services from the others
(`uneven`); a password changed during setup never arrives (`provisioning_early`); a
deployment cannot be deleted, since the hostconf goes before the finalizers that read
it and the last member cannot leave (`deletion_stuck`); the primary steps down before the
secondaries are back where the arbiter's pod counts for one of them (`restart_arbiter`). The table of section 3 lists what
else the models show.

## 7. Not modelled, and why

- Conditions (`api/v1alpha1/condition.go`): written for display; those that decide
  about users are in `Provisioning`.
- Resource builders, labels, secrets: layout of Kubernetes objects. The facts with
  behaviour are modelled: stateful sets updated `OnDelete` (`RollingRestart`), the fields
  of the generated `MongoDB` (`Admission`), the labels that tell arbiters from data pods
  (`Deletion`).
- RestoreReplSet (`core/mongo_config.go:376`), which `handleReturn` calls after most errors. Its
  comments say that it removes the members whose node has no role from the configuration (:398),
  each broken one on a healthy member (:416, :422), and adds them again (:431). It never does: line 421 compares
  the *name of a pod* with the unhealthy members, which `CheckMemberStatus` (`pkg/driver/mgo/mongo.go:223`) returns
  as hosts `VIP:nodePort`, so no pod matches and `RemoveNodeToMember` and `AddNodeToMember` have
  no other caller. A model of it has no step and a property of it would hold by that
  comparison alone, so there is none: a broken member stays in the document until its pod is well or
  its cluster scales down.
- `PodClassify` and most pod filters: nothing that runs calls them.
- Pause, CheckClusterStatus, custom config maps, the addresses in a status: they
  change no state that others read.
- Process start, logging, metrics, events, configuration, generated deep copies:
  I/O and wiring.
- Interactions across the modules: the finalizer of `Deletion` assumes that writes of the
  configuration do not overlap (they do, as `config_ghost` shows), and the arbiter's moves
  are modelled with the data members standing still.

## 8. Plan

1. *(done)* `ReplSetConfig`, `Membership`, their runs and proofs; `ControlPlane`,
   `Federation`; `RollingRestart`; `Provisioning`.
2. *(done)* `Arbiter`; `Deletion` with both finalizers over the status store;
   `Admission`; proofs about `Deletion`, `Admission` and
   `Provisioning`.
3. *(done)* mongod's refusals and lost updates in `ReplSetConfig`; the arbiter's pod in
   `RollingRestart`.
4. *(done)* Proofs: types of `RollingRestart`, `Arbiter` and `Federation`; the action
   properties of `RollingRestart` and `Deletion`; `ArbiterHasPod`; `CleanAfterShrink` and
   `ServedWhileMember`.
5. Model: weights of MongoPP that stay while the schedule changes, with Karmada's division of
   the replicas.
6. Model: an abstract deployment that `Federation` implements under the conditions of its
   passing run.
