---------------------------- MODULE ChangeProofs ----------------------------
(***************************************************************************)
(* A schedule that changes once, as soon as the deployment is what the       *)
(* schedule says.  Before the change every handler builds, from the services  *)
(* up, what the schedule says.  After it                                     *)
(*   - a cluster that is to shrink keeps its pods, its policies and its hosts, *)
(*     and Status does not say otherwise, until its operator has removed the  *)
(*     surplus: cleaning waits (CleanAfterShrink);                            *)
(*   - clusters that shrink keep the services of all their pods, which are     *)
(*     their members of the replica set, and clusters that grow are built      *)
(*     like before: every member is served (ServedWhileMember).               *)
(***************************************************************************)
EXTENDS FederationProofs

-----------------------------------------------------------------------------
(* Before the one change of the schedule and after it.                      *)

InPass == rec.pc \notin {"idle", "panic"}

\* From the policies old and the hostconf cm the handlers build what the schedule
\* says, from the services up, and remove nothing.
Building(old, cm) ==
    /\ \A i \in Services : store.pp[i] \in {old[i], On(target, i)}
    /\ {store.cm, cache.cm} \subseteq {cm, Full(target)}
    /\ Full(target) \in {store.cm, cache.cm} => \A i \in Services : store.pp[i] = On(target, i)
    /\ InPass /\ rec.goal = target =>
          /\ rec.pc \in {"upsert", "mongo", "status"}
          /\ rec.todo # {} => rec.up = Active(target)
          /\ rec.pc = "upsert" => \A i \in Services \ rec.todo : store.pp[i] = On(target, i)

\* Before the change they begin with nothing.
BeforeControl == Building(NoPolicies, NoConf) /\ (InPass => rec.goal = target)

\* Numbers of members are nothing yet or what the first schedule says.
BeforeData ==
    /\ deleting = {}
    /\ \A c \in Clusters :
        /\ {weight[c], members[c], st[c].n} \subseteq {0, Replicas(target, c)}
        /\ members[c] # 0 => weight[c] # 0
        /\ pods[c] # {} => members[c] # 0
        /\ at[c] \cup pods[c] \subseteq Below(Replicas(target, c))
        /\ agg[c] # Absent => weight[c] # 0
        /\ Real(c) => agg[c].n \in {0, Replicas(target, c)}
        /\ c \in DOMAIN result => /\ result[c].n \in {0, Replicas(target, c)}
                                  /\ result[c].n # 0 => Real(c)

Before == changes = 0 /\ BeforeControl /\ BeforeData

\* A pass that began before the change of schedule s.
OldPass(s) ==
    /\ rec.goal = s /\ ~rec.fresh /\ rec.pc \in {"upsert", "mongo", "status"}
    /\ rec.todo # {} => rec.up = Active(s)
    /\ weight = Sizes(s)

\* A pass that may take a cluster out of a policy.
Removing == rec.goal = target /\ (\/ rec.pc \in {"clean", "prune"}
                                  \/ rec.pc = "upsert" /\ rec.todo # {})

\* As long as c runs the pods of s, nothing says that it runs fewer.
Unshrunk(s, c) ==
    /\ st[c].n # target[c] /\ agg[c].n # target[c]
    /\ c \in DOMAIN result /\ result[c].n # target[c]
    /\ \A i \in Below(Replicas(s, c)) : c \in store.pp[i] /\ <<c, i>> \in store.cm \cap cache.cm
    /\ ~Removing

AfterControl(s) ==
    /\ store.cm # NoConf /\ cache.cm # NoConf
    /\ InPass => OldPass(s) \/ (rec.goal = target /\ rec.up \subseteq Active(target))
    /\ \A c \in Clusters, i \in Services :
          c \in store.pp[i] \/ (rec.pc \in {"clean", "prune"} /\ c \in rec.list[i])
              => i < Replicas(s, c) \/ i < Replicas(target, c)
    /\ weight \in {Sizes(s), Sizes(target)}
    /\ \A c \in Clusters : agg[c] # Nil /\ (weight[c] # 0 => agg[c] # Absent)

Shrinking(s) == {c \in Active(target) : target[c] < Replicas(s, c)}

AfterData(s) ==
    /\ \A c \in deleting : Replicas(target, c) = 0
    /\ \A c \in Clusters :
          at[c] \cup pods[c] \subseteq Below(Replicas(s, c)) \cup Below(Replicas(target, c))
    /\ \A c \in Shrinking(s) :
        /\ members[c] \in {Replicas(s, c), target[c]}
        /\ members[c] = target[c] => weight = Sizes(target)
        /\ \/ Cardinality(pods[c]) = Replicas(s, c) /\ Unshrunk(s, c)
           \/ Cardinality(pods[c]) = target[c] /\ members[c] = target[c]

After(s) == /\ changes = 1 /\ <<s, target>> \in Changes
            /\ AfterControl(s) /\ AfterData(s)

IInv == /\ TypeOK /\ PassOK
        /\ cache.pp = store.pp
        /\ Before \/ \E s \in Schedules : After(s)

-----------------------------------------------------------------------------
(* Before the change.                                                       *)

\* A schedule that every cluster of it is still to be built for.
Unbuilt(old, cm) ==
    /\ ClustersToScaleUp(target, cm) = Active(target)
    /\ ClustersToScaleDown(target, cm) = {}
    /\ \A i \in Services : old[i] \subseteq On(target, i)

\* Nothing is taken from a cluster.
OnlyMore ==
    /\ store.svcs \subseteq store'.svcs
    /\ \A i \in Services : store.pp[i] \subseteq store'.pp[i]

LEMMA BuildingReconcile ==
    ASSUME TypeOK, PassOK, NEW old, NEW cm, Building(old, cm), Unbuilt(old, cm),
           Reconcile, UNCHANGED target
    PROVE  Building(old, cm)' /\ (InPass' => rec'.goal = target) /\ OnlyMore
<1> DEFINE up   == ClustersToScaleUp(target, cache.cm)
           down == ClustersToScaleDown(target, cache.cm)
<1>0. target \in Schedules
  BY TypeParts
<1>1. cache.cm \in {cm, Full(target)}
  BY DEF Building
<1>2. down = {} /\ (cache.cm # cm => up = {}) /\ (cache.cm = cm => up = Active(target))
  <2>1. \A c \in DOMAIN target : c \in Clusters /\ target[c] = Replicas(target, c)
                                 /\ Replicas(target, c) \in Nat
    BY <1>0, SchedulesAssumption, ReplicasType DEF Replicas
  <2>2. \A c \in DOMAIN target : SizeIn(Full(target), c) = target[c] /\ target[c] \in Nat
    BY <1>0, <2>1, SizeInFull
  <2>3. CASE cache.cm = cm
    BY <2>3 DEF Unbuilt
  <2>4. CASE cache.cm = Full(target) /\ cache.cm # cm
    BY <2>2, <2>4, FullType DEF ClustersToScaleUp, ClustersToScaleDown, Active
  <2>5. QED
    BY <1>1, <2>3, <2>4
<1> HIDE DEF up, down
<1>3. UNCHANGED <<store, cache>>
  BY ReconcileResult DEF Reconcile
<1>4. CASE Panic
  BY <1>3, <1>4, IdleType DEF Building, Panic, InPass, Passes, OnlyMore
<1>5. CASE ~Panic
  <2>1. /\ rec'.pc = "upsert" /\ rec'.goal = target /\ rec'.up = up
        /\ rec'.todo = {i \in Services : UpsertClusters(target, up, i) # {}}
    BY <1>2, <1>5, ReconcileResult DEF up, down
  <2>2. rec'.todo # {} => rec'.up = Active(target)
    BY <1>2, <2>1 DEF UpsertClusters
  <2>3. ASSUME NEW i \in Services \ rec'.todo PROVE store.pp[i] = On(target, i)
    <3>1. CASE cache.cm = cm
      <4>1. On(target, i) = {}
        BY <1>0, <1>2, <2>1, <2>3, <3>1, ActiveOn
      <4>2. store.pp[i] = {}
        BY <4>1 DEF Building, Unbuilt
      <4>3. QED
        BY <4>1, <4>2
    <3>2. CASE cache.cm # cm
      BY <1>1, <3>2 DEF Building
    <3>3. QED
      BY <3>1, <3>2
  <2>4. QED
    BY <1>3, <2>1, <2>2, <2>3 DEF Building, InPass, OnlyMore
<1>6. QED
  BY <1>4, <1>5

LEMMA BuildingUpsertService ==
    ASSUME TypeOK, PassOK, cache.pp = store.pp, "pp" \notin Lagging,
           NEW old, NEW cm, Building(old, cm), Unbuilt(old, cm), InPass => rec.goal = target,
           NEW i \in Services, UpsertService(i), UNCHANGED target
    PROVE  Building(old, cm)' /\ (InPass' => rec'.goal = target) /\ OnlyMore
<1>0. target \in Schedules /\ ControlOK
  BY TypeParts
<1>1. /\ store'.cm = store.cm /\ store.svcs \subseteq store'.svcs /\ Observe
      /\ rec.pc = "upsert" /\ i \in rec.todo
      /\ \/ store'.pp = store.pp /\ Return
         \/ /\ store'.pp = [store.pp EXCEPT ![i] = UpsertClusters(rec.goal, rec.up, i)]
            /\ rec' = [rec EXCEPT !.todo = @ \ {i}]
  BY <1>0, UpsertServiceResult
<1>2. cache'.cm \in {cache.cm, store.cm}
  BY <1>1, ObserveResult
<1>3. InPass /\ rec.goal = target /\ rec.up = Active(target)
  BY <1>1 DEF Building, InPass
<1>4. UpsertClusters(rec.goal, rec.up, i) = On(target, i)
  BY <1>0, <1>3, ActiveOn
<1>5. CASE store'.pp = store.pp /\ Return
  BY <1>1, <1>2, <1>5, IdleType DEF Building, InPass, Return, OnlyMore
<1>6. CASE /\ store'.pp = [store.pp EXCEPT ![i] = UpsertClusters(rec.goal, rec.up, i)]
           /\ rec' = [rec EXCEPT !.todo = @ \ {i}]
  <2>1. \A j \in Services : store'.pp[j] = IF j = i THEN On(target, i) ELSE store.pp[j]
    BY <1>0, <1>4, <1>6 DEF ControlOK, Stored
  <2>2. rec' \in Passes /\ rec'.todo = rec.todo \ {i} /\ rec'.pc = rec.pc /\ rec'.goal = rec.goal
        /\ rec'.up = rec.up
    BY <1>0, <1>6 DEF ControlOK, Passes
  <2>3. OnlyMore
    BY <1>1, <2>1 DEF Building, Unbuilt, OnlyMore
  <2>4. QED
    BY <1>1, <1>2, <1>3, <2>1, <2>2, <2>3 DEF Building, InPass
<1>7. QED
  BY <1>1, <1>5, <1>6

LEMMA BuildingHostConf ==
    ASSUME TypeOK, PassOK, cache.pp = store.pp, "pp" \notin Lagging,
           NEW old, NEW cm, Building(old, cm), InPass => rec.goal = target,
           HostConf, UNCHANGED target
    PROVE  Building(old, cm)' /\ (InPass' => rec'.goal = target) /\ OnlyMore
<1> DEFINE new == {h \in Hosts : h[1] \in cache.pp[h[2]]}
<1>0. target \in Schedules /\ ControlOK
  BY TypeParts
<1>1. /\ store'.pp = store.pp /\ store'.svcs = store.svcs /\ Observe
      /\ rec.pc \in {"prune", "upsert", "hostconf"} /\ rec.todo = {}
      /\ store'.cm \in {store.cm, new}
      /\ Return \/ rec' = [rec EXCEPT !.pc = "mongo"]
  BY <1>0, HostConfResult
<1>2. InPass /\ rec.goal = target /\ \A i \in Services : store.pp[i] = On(target, i)
  BY <1>1 DEF Building, InPass
<1>3. new = Full(target)
  BY <1>2 DEF Full, Hosts
<1> HIDE DEF new
<1>4. cache'.cm \in {cache.cm, store'.cm}
  BY <1>1, ObserveResult
<1>5. rec'.pc = "idle" \/ (rec'.pc = "mongo" /\ rec'.goal = rec.goal /\ rec'.todo = {})
  BY <1>0, <1>1, IdleType DEF Return, ControlOK, Passes
<1>6. QED
  BY <1>1, <1>2, <1>3, <1>4, <1>5 DEF Building, InPass, OnlyMore

LEMMA BuildingOther ==
    ASSUME TypeOK, PassOK, cache.pp = store.pp, "pp" \notin Lagging,
           NEW old, NEW cm, Building(old, cm), InPass => rec.goal = target, UNCHANGED target,
           \/ Mongo \/ Status \/ Restart \/ Fail \/ \E k \in Kinds : CacheSync(k)
    PROVE  Building(old, cm)' /\ (InPass' => rec'.goal = target) /\ OnlyMore
<1>0. ControlOK
  BY TypeParts
<1>1. CASE Mongo \/ Status \/ Restart
  <2>1. UNCHANGED <<store, cache>>
    BY <1>1 DEF Mongo, Status, Restart
  <2>2. \/ rec'.pc \in {"idle", "panic"}
        \/ rec'.pc = "status" /\ rec.pc = "mongo" /\ rec'.goal = rec.goal
           /\ rec'.todo = rec.todo /\ rec'.up = rec.up
    BY <1>0, <1>1, IdleType DEF Mongo, Status, Restart, Goto, Return, Panic, ControlOK, Passes
  <2>3. QED
    BY <2>1, <2>2 DEF Building, InPass, OnlyMore
<1>2. CASE Fail
  <2>1. rec.pc # "clean"
    BY <1>2 DEF Building, InPass, Fail
  <2>2. QED
    BY <1>0, <1>2, <2>1, FailResult, ObserveResult, IdleType DEF Building, InPass, Return, OnlyMore
<1>3. ASSUME NEW k \in Kinds, CacheSync(k)
      PROVE  Building(old, cm)' /\ (InPass' => rec'.goal = target) /\ OnlyMore
  <2>1. store' = store /\ rec' = rec /\ cache' = [cache EXCEPT ![k] = store[k]]
    BY <1>3 DEF CacheSync
  <2>2. cache'.cm \in {cache.cm, store.cm}
    BY <1>0, <2>1 DEF ControlOK, Stored, Kinds
  <2>3. QED
    BY <2>1, <2>2 DEF Building, InPass, OnlyMore
<1>4. QED
  BY <1>1, <1>2, <1>3

\* A pass that builds cleans nothing.
LEMMA BuildingStep ==
    ASSUME TypeOK, PassOK, cache.pp = store.pp, "pp" \notin Lagging,
           NEW old, NEW cm, Building(old, cm), Unbuilt(old, cm), InPass => rec.goal = target,
           UNCHANGED target, Handlers \/ Fail \/ \E k \in Kinds : CacheSync(k)
    PROVE  Building(old, cm)' /\ (InPass' => rec'.goal = target) /\ OnlyMore
<1>1. ~CleanServices /\ \A i \in Services : ~PrunePolicy(i)
  BY DEF Building, InPass, CleanServices, PrunePolicy
<1>2. QED
  BY <1>1, BuildingReconcile, BuildingUpsertService, BuildingHostConf, BuildingOther DEF Handlers

LEMMA NothingBuilt == Unbuilt(NoPolicies, NoConf)
  BY DEF Unbuilt, ClustersToScaleUp, ClustersToScaleDown, NoPolicies

LEMMA BeforeDataControl ==
    ASSUME TypeOK, PassOK, BeforeControl, BeforeData, Handlers \/ Fail \/ \E k \in Kinds : CacheSync(k),
           UNCHANGED <<target, agg, data>>
    PROVE  BeforeData'
<1>0. ControlOK /\ target \in Schedules
  BY TypeParts
<1>1. UNCHANGED <<agg, at, members, deleting, pods, st>>
  BY DEF data
<1>2. CASE UNCHANGED <<weight, result>>
  BY <1>1, <1>2 DEF BeforeData, Real
<1>3. CASE Mongo
  <2>1. rec.goal = target /\ UNCHANGED result
    BY <1>3 DEF Mongo, BeforeControl, Building, InPass
  <2>2. \A c \in Clusters : weight'[c] = Replicas(target, c)
    BY <1>0, <1>3, <2>1, ReplicasType DEF Mongo
  <2>3. \A c \in Clusters : weight[c] # 0 => weight'[c] # 0
    BY <2>2 DEF BeforeData
  <2>4. QED
    BY <1>1, <2>1, <2>2, <2>3 DEF BeforeData, Real
<1>4. CASE Status
  <2>1. UNCHANGED weight
    BY <1>4 DEF Status
  <2>2. ASSUME NEW c \in Clusters, c \in DOMAIN result'
        PROVE  result'[c].n \in {0, Replicas(target, c)} /\ (result'[c].n # 0 => Real(c))
    BY <1>0, <1>4, <2>2, StatusResult DEF BeforeData
  <2>3. QED
    BY <1>1, <2>1, <2>2 DEF BeforeData, Real
<1>5. QED
  BY <1>2, <1>3, <1>4
     DEF Handlers, Fail, CacheSync, Reconcile, CleanServices, HostConf, Restart,
         PrunePolicy, UpsertService

LEMMA BeforeDataStep ==
    ASSUME TypeOK, PassOK, BeforeControl, BeforeData,
           NEW c \in Clusters,
           \/ DeliverConf(c) \/ DeliverMongo(c) \/ AggregateStatus(c) \/ Operator(c)
           \/ \E i \in Services : DeliverService(c, i)
    PROVE  BeforeData'
<1>0. DataOK /\ ControlOK /\ target \in Schedules
  BY TypeParts
<1>1. CASE DeliverConf(c)
  BY <1>1 DEF DeliverConf, schedule, control, BeforeData, Real
<1>2. CASE DeliverMongo(c)
  <2>1. UNCHANGED <<target, weight, result, agg, at, pods, st>>
    BY <1>2 DEF DeliverMongo, schedule, control
  <2>2. weight[c] # 0
    BY <1>2 DEF DeliverMongo, BeforeData
  <2>3. members' = [members EXCEPT ![c] = weight[c]] /\ UNCHANGED deleting
    BY <1>2, <2>2 DEF DeliverMongo
  <2>4. \A d \in Clusters : members'[d] = IF d = c THEN weight[c] ELSE members[d]
    BY <1>0, <2>3 DEF DataOK
  <2>5. QED
    BY <2>1, <2>2, <2>3, <2>4 DEF BeforeData, Real
<1>3. CASE AggregateStatus(c)
  <2>1. UNCHANGED <<target, weight, result, members, deleting, at, pods, st>>
    BY <1>3 DEF AggregateStatus, schedule, control, data
  <2>2. agg[c] # Absent /\ \A d \in Clusters : agg'[d] = IF d = c THEN st[c] ELSE agg[d]
    BY <1>0, <1>3 DEF AggregateStatus, DataOK
  <2>3. \A d \in Clusters : agg'[d] # Absent => agg[d] # Absent
    BY <2>2
  <2>4. ASSUME NEW d \in Clusters, Real(d)' PROVE agg'[d].n \in {0, Replicas(target, d)}
    BY <2>2, <2>4 DEF BeforeData, Real
  <2>5. ASSUME NEW d \in Clusters, Real(d) PROVE Real(d)'
    BY <1>0, <2>2, <2>5, StatusesAssumption DEF Real, DataOK
  <2>6. QED
    BY <2>1, <2>3, <2>4, <2>5 DEF BeforeData
<1>4. CASE \E i \in Services : DeliverService(c, i)
  <2>1. PICK i \in Services : DeliverService(c, i)
    BY <1>4
  <2>2. UNCHANGED <<target, weight, result, agg, members, deleting, pods, st>>
    BY <2>1 DEF DeliverService, schedule, control
  <2>3. \A d \in Clusters : at'[d] = IF d = c THEN IF i \in at[c] THEN at[c] \ {i} ELSE at[c] \cup {i}
                                              ELSE at[d]
    BY <1>0, <2>1 DEF DeliverService, DataOK
  <2>4. i \notin at[c] => i \in Below(Replicas(target, c))
    <3>1. i \notin at[c] => c \in store.pp[i]
      BY <2>1 DEF DeliverService, Propagated
    <3>2. c \in store.pp[i] => c \in On(target, i)
      BY DEF BeforeControl, Building, NoPolicies
    <3>3. QED
      BY <3>1, <3>2 DEF On, Below, Replicas
  <2>5. QED
    BY <2>2, <2>3, <2>4 DEF BeforeData, Real
<1>5. CASE Sync(c)
  <2>1. PICK new \in SyncedPods(c, members[c]), status \in MongoStatus :
              /\ members[c] > 0 /\ c \notin deleting
              /\ pods' = [pods EXCEPT ![c] = new] /\ st' = [st EXCEPT ![c] = status]
              /\ \/ status.n = st[c].n
                 \/ status.n = members[c] /\ conf[c] # NoConf
              /\ UNCHANGED <<schedule, control, agg, at, conf, members, deleting>>
    BY <1>0, <1>5, SyncResult
  <2>2. \A d \in Clusters : /\ pods'[d] = IF d = c THEN new ELSE pods[d]
                            /\ st'[d] = IF d = c THEN status ELSE st[d]
    BY <1>0, <2>1 DEF DataOK
  <2>3. new \subseteq pods[c] \cup at[c] /\ members[c] # 0
    BY <1>0, <2>1, SyncedPodsFrom
  <2>4. UNCHANGED <<target, weight, result>>
    BY <2>1 DEF schedule, control
  <2>5. QED
    BY <2>1, <2>2, <2>3, <2>4 DEF BeforeData, Real
<1>6. CASE Finalize(c)
  BY <1>6 DEF Finalize, BeforeData
<1>7. QED
  BY <1>1, <1>2, <1>3, <1>4, <1>5, <1>6 DEF Operator

LEMMA BeforeBind ==
    ASSUME TypeOK, PassOK, BeforeData, BindMongo PROVE BeforeData'
<1>0. DataOK
  BY TypeParts
<1>1. UNCHANGED <<target, weight, result, members, deleting, at, pods, st>>
  BY DEF BindMongo, schedule, control, data
<1>2. \A c \in Clusters : agg'[c] = IF weight[c] = 0 THEN Absent
                                    ELSE IF agg[c] = Absent THEN Nil ELSE agg[c]
  BY DEF BindMongo
<1>3. ASSUME NEW c \in Clusters
      PROVE  /\ agg'[c] # Absent => weight[c] # 0
             /\ Real(c)' => agg'[c] = agg[c] /\ Real(c)
             /\ Real(c) => Real(c)'
  BY <1>2 DEF Real, BeforeData
<1>4. QED
  BY <1>1, <1>3 DEF BeforeData

LEMMA InitBefore ==
    Init => TypeOK /\ PassOK /\ cache.pp = store.pp /\ Before
<1> SUFFICES ASSUME Init PROVE cache.pp = store.pp /\ Before
  BY InitType
<1>0. DataOK /\ ControlOK /\ target \in Schedules
  BY InitType, TypeParts
<1>1. changes = 0 /\ cache = store /\ ~InPass /\ deleting = {}
  BY IdleType DEF Init, InPass
<1>2. CASE Fresh
  <2>1. /\ store.pp = NoPolicies /\ store.cm = NoConf
        /\ DOMAIN result = {} /\ \A c \in Clusters : /\ weight[c] = 0 /\ members[c] = 0
                                                     /\ at[c] = {} /\ pods[c] = {}
                                                     /\ agg[c] = Absent /\ st[c].n = 0
    BY <1>2 DEF Fresh, Topology, NewStatus
  <2>2. BeforeControl
    BY <1>1, <2>1, FullType DEF BeforeControl, Building, Building, NoPolicies
  <2>3. BeforeData
    BY <1>1, <2>1 DEF BeforeData, Real
  <2>4. QED
    BY <1>1, <2>2, <2>3 DEF Before
<1>3. ASSUME NEW s \in Schedules, Deployed(s) PROVE Before
  <2> DEFINE on(i) == {c \in DOMAIN s : i < s[c]}
             hosts == {h \in Hosts : h[1] \in on(h[2])}
             size(c) == IF c \in DOMAIN s THEN s[c] ELSE 0
             status(c) == [n |-> size(c), hosts |-> In(hosts, c), ok |-> TRUE]
  <2>1. /\ target = s
        /\ store = [svcs |-> {i \in Services : on(i) # {}}, pp |-> [i \in Services |-> on(i)],
                    cm |-> hosts]
        /\ weight = [c \in Clusters |-> size(c)]
        /\ result = [c \in Active(s) |-> [n |-> s[c], hosts |-> In(hosts, c)]]
        /\ agg = [c \in Clusters |-> IF size(c) = 0 THEN Absent ELSE status(c)]
        /\ at = [c \in Clusters |-> In(hosts, c)]
        /\ members = weight /\ pods = at
        /\ st = [c \in Clusters |-> IF size(c) = 0 THEN NewStatus ELSE status(c)]
    BY <1>3 DEF Deployed
  <2>2. hosts = Full(s)
    BY DEF Full, On
  <2>3. \A c \in Clusters : size(c) = Replicas(s, c) /\ size(c) \in Nat
    BY ReplicasType DEF Replicas
  <2>4. \A c \in Clusters : In(hosts, c) \subseteq Below(Replicas(s, c))
    BY DEF In, Below, Replicas
  <2>5. \A i \in Services : store.pp[i] = On(s, i)
    BY <2>1 DEF On
  <2>6. store.cm = hosts
    BY <2>1
  <2>7. BeforeControl
    BY <1>1, <2>1, <2>2, <2>5, <2>6 DEF BeforeControl, Building
  <2>8. ASSUME NEW c \in Clusters
        PROVE  /\ {weight[c], members[c], st[c].n} \subseteq {0, Replicas(target, c)}
               /\ members[c] # 0 => weight[c] # 0
               /\ pods[c] # {} => members[c] # 0
               /\ at[c] \cup pods[c] \subseteq Below(Replicas(target, c))
               /\ agg[c] # Absent => weight[c] # 0
               /\ Real(c) => agg[c].n \in {0, Replicas(target, c)}
               /\ c \in DOMAIN result => /\ result[c].n \in {0, Replicas(target, c)}
                                         /\ result[c].n # 0 => Real(c)
    <3>1. weight[c] = Replicas(s, c) /\ members[c] = Replicas(s, c) /\ at[c] = In(hosts, c)
          /\ pods[c] = In(hosts, c)
      BY <2>1, <2>3
    <3>2. st[c].n = Replicas(s, c)
      BY <2>1, <2>3 DEF NewStatus
    <3>3. Real(c) => agg[c].n = Replicas(s, c)
      BY <2>1, <2>3 DEF Real
    <3>4. pods[c] # {} => Replicas(s, c) # 0
      BY <2>3, <2>4, <3>1, SizeAssumption DEF Below, Services
    <3>5. agg[c] # Absent => Replicas(s, c) # 0
      BY <2>1, <2>3
    <3>6. c \in DOMAIN result => result[c].n = Replicas(s, c)
      BY <2>1, ReplicasType
    <3>7. Replicas(s, c) # 0 => Real(c)
      <4>1. Replicas(s, c) # 0 => agg[c] = status(c)
        BY <2>1, <2>3
      <4>2. status(c) \in MongoStatus
        BY <2>3, ReplicasType DEF MongoStatus, In
      <4> HIDE DEF status
      <4>3. QED
        BY <4>1, <4>2, StatusesAssumption DEF Real
    <3>8. QED
      BY <2>1, <2>4, <3>1, <3>2, <3>3, <3>4, <3>5, <3>6, <3>7
  <2>9. BeforeData
    BY <1>1, <2>8 DEF BeforeData
  <2>10. QED
    BY <1>1, <2>7, <2>9 DEF Before
<1>4. QED
  BY <1>1, <1>2, <1>3 DEF Init

\* The policies are never seen late.
LEMMA PoliciesSeen ==
    ASSUME TypeOK, PassOK, cache.pp = store.pp, "pp" \notin Lagging, [Next]_vars
    PROVE  cache'.pp = store'.pp
<1>0. ControlOK
  BY TypeParts
<1>1. CASE UNCHANGED <<store, cache>>
  BY <1>1
<1>2. CASE Observe
  BY <1>2, ObserveResult
<1>3. ASSUME NEW k \in Kinds, CacheSync(k) PROVE cache'.pp = store'.pp
  <2>1. store' = store /\ cache' = [cache EXCEPT ![k] = store[k]]
    BY <1>3 DEF CacheSync
  <2>2. cache'.pp = IF k = "pp" THEN store[k] ELSE cache.pp
    BY <1>0, <2>1 DEF ControlOK, Stored
  <2>3. QED
    BY <2>1, <2>2
<1>4. QED
  BY <1>1, <1>2, <1>3
     DEF Next, vars, control, Controller, Handlers, Reconcile, CleanServices, PrunePolicy,
         UpsertService, HostConf, Mongo, Status, Restart, Disturbance, Fail, Reschedule,
         BindMongo, Informer, DeliverService, DeliverConf, DeliverMongo, AggregateStatus,
         Operator, Sync, Finalize

LEMMA BeforeNext ==
    ASSUME TypeOK, PassOK, cache.pp = store.pp, "pp" \notin Lagging, Before, [Next]_vars
    PROVE  Before' \/ (Disturbance /\ Reschedule)
<1>1. CASE UNCHANGED vars
  BY <1>1, Zenon DEF Before, BeforeControl, Building, BeforeData, InPass, Real, vars, schedule, control, data
<1>2. CASE Controller
  <2>1. Handlers /\ UNCHANGED <<target, changes, agg, data>>
    BY <1>2 DEF Controller, schedule
  <2>2. BeforeControl'
    BY <2>1, BuildingStep, NothingBuilt DEF Before, BeforeControl
  <2>3. BeforeData'
    BY <2>1, BeforeDataControl DEF Before
  <2>4. QED
    BY <2>1, <2>2, <2>3 DEF Before
<1>3. CASE Disturbance
  <2>1. CASE Fail /\ UNCHANGED schedule
    <3>1. UNCHANGED <<target, changes, agg, data>>
      BY <1>3, <2>1 DEF Disturbance, schedule
    <3>2. BeforeControl' /\ BeforeData'
      BY <2>1, <3>1, BuildingStep, NothingBuilt, BeforeDataControl DEF Before, BeforeControl
    <3>3. QED
      BY <3>1, <3>2 DEF Before
  <2>2. QED
    BY <1>3, <2>1 DEF Disturbance
<1>4. CASE BindMongo
  <2>1. UNCHANGED <<target, changes, store, cache, rec>>
    BY <1>4 DEF BindMongo, schedule, control
  <2>2. BeforeControl'
    BY <2>1 DEF Before, BeforeControl, Building, InPass
  <2>3. QED
    BY <1>4, <2>1, <2>2, BeforeBind DEF Before
<1>5. CASE \E k \in Kinds : Informer(k)
  <2>1. PICK k \in Kinds : CacheSync(k)
    BY <1>5 DEF Informer
  <2>2. UNCHANGED <<target, changes, agg, data>>
    BY <1>5 DEF Informer, schedule
  <2>3. BeforeControl' /\ BeforeData'
    BY <2>1, <2>2, BuildingStep, NothingBuilt, BeforeDataControl DEF Before, BeforeControl
  <2>4. QED
    BY <2>2, <2>3 DEF Before
<1>6. ASSUME NEW c \in Clusters,
             \/ DeliverConf(c) \/ DeliverMongo(c) \/ AggregateStatus(c) \/ Operator(c)
             \/ \E i \in Services : DeliverService(c, i)
      PROVE  Before'
  <2>1. UNCHANGED <<target, changes, store, cache, rec>>
    BY <1>6 DEF DeliverConf, DeliverMongo, AggregateStatus, Operator, Sync, Finalize,
                DeliverService, schedule, control
  <2>2. BeforeControl'
    BY <2>1 DEF Before, BeforeControl, Building, InPass
  <2>3. BeforeData'
    BY <1>6, BeforeDataStep DEF Before
  <2>4. QED
    BY <2>1, <2>2, <2>3 DEF Before
<1>7. QED
  BY <1>1, <1>2, <1>3, <1>4, <1>5, <1>6 DEF Next

-----------------------------------------------------------------------------
(* The change.                                                              *)

\* The annotation does not change more than once ...
OneChange == MaxReschedules <= 1

\* ... and no cluster is to have pods that had none before.
NoNewcomer == \A p \in Changes : Active(p[2]) \subseteq Active(p[1])

\* A cluster that shrinks keeps some pods and gives up others.
LEMMA ShrinkingSizes ==
    ASSUME target \in Schedules, NEW s \in Schedules, NEW c \in Shrinking(s)
    PROVE  /\ c \in Clusters /\ c \in Active(target) /\ c \in Active(s)
           /\ target[c] = Replicas(target, c)
           /\ target[c] \in Nat /\ 0 < target[c] /\ target[c] < Replicas(s, c)
           /\ Replicas(s, c) \in Nat /\ s # target
<1>1. c \in Clusters /\ c \in Active(target)
  BY ActiveType DEF Shrinking
<1>2. target[c] = Replicas(target, c) /\ Replicas(target, c) \in Nat /\ 0 < Replicas(target, c)
  BY <1>1, ReplicasType
<1>3. Replicas(s, c) \in Nat /\ target[c] < Replicas(s, c)
  BY <1>1, ReplicasType DEF Shrinking
<1>4. c \in Active(s)
  BY <1>1, <1>2, <1>3, ReplicasType
<1>5. QED
  BY <1>1, <1>2, <1>3, <1>4

\* In a deployment that has settled, every cluster of the schedule has its weight and
\* has reported its status.
LEMMA SettledBefore ==
    ASSUME TypeOK, PassOK, Before, Settled, NEW c \in Clusters
    PROVE  /\ weight[c] = Replicas(target, c) /\ members[c] = Replicas(target, c)
           /\ Cardinality(pods[c]) = Replicas(target, c)
           /\ agg[c] # Nil
           /\ c \in Active(target) =>
                 /\ c \in DOMAIN result /\ result[c].n = target[c] /\ Real(c)
                 /\ agg[c].n \in {0, target[c]}
<1>0. target \in Schedules
  BY TypeParts
<1>1. /\ Replicas(target, c) \in Nat /\ (c \in Active(target) <=> Replicas(target, c) > 0)
      /\ (c \in Active(target) => Replicas(target, c) = target[c])
  BY <1>0, ReplicasType
<1>2. Cardinality(pods[c]) = Replicas(target, c)
  BY DEF Settled, Replicas
<1>3. CASE c \in Active(target)
  <2>1. pods[c] # {}
    BY <1>1, <1>2, <1>3, FS_EmptySet
  <2>2. weight[c] # 0 /\ members[c] # 0
    BY <2>1 DEF Before, BeforeData
  <2>3. c \in DOMAIN result /\ result[c].n = target[c]
    BY <1>3 DEF Settled
  <2>4. Real(c)
    BY <1>1, <1>3, <2>3 DEF Before, BeforeData
  <2>5. QED
    BY <1>1, <1>2, <1>3, <2>2, <2>3, <2>4 DEF Before, BeforeData, Real
<1>4. CASE c \notin Active(target)
  <2>1. Replicas(target, c) = 0
    BY <1>1, <1>4
  <2>2. weight[c] = 0 /\ members[c] = 0
    BY <2>1 DEF Before, BeforeData
  <2>3. agg[c] = Absent
    BY <2>2 DEF Before, BeforeData
  <2>4. QED
    BY <1>2, <1>4, <2>1, <2>2, <2>3, StatusesAssumption
<1>5. QED
  BY <1>3, <1>4

LEMMA ChangeAfter ==
    ASSUME TypeOK, PassOK, Before, Settled, Reschedule, UNCHANGED <<agg, data>>
    PROVE  \E s \in Schedules : s = target /\ After(s)' /\ (InPass' => OldPass(s)')
<1>0. target \in Schedules /\ ControlOK /\ DataOK
  BY TypeParts
<1>1. PICK s \in Schedules : s = target
  BY <1>0
<1>2. /\ changes' = 1 /\ <<s, target'>> \in Changes /\ target' \in Schedules
      /\ rec' = [rec EXCEPT !.fresh = FALSE]
      /\ UNCHANGED <<store, cache, weight, result>>
  BY <1>1, ChangesAssumption DEF Reschedule, Before
<1>3. UNCHANGED <<agg, at, conf, members, deleting, pods, st>>
  BY DEF data
<1>4. /\ rec'.goal = rec.goal /\ rec'.pc = rec.pc /\ rec'.up = rec.up /\ rec'.todo = rec.todo
      /\ rec'.fresh = FALSE
  BY <1>0, <1>2 DEF ControlOK, Passes
<1>5. store.cm = Full(s) /\ cache.cm = Full(s)
  <2>1. store.cm # NoConf /\ cache = store
    BY <1>0, NoConfAssumption DEF Settled, Delivered, DataOK, Hosts
  <2>2. QED
    BY <1>1, <2>1 DEF Before, BeforeControl, Building
<1>6. \A i \in Services : store.pp[i] = On(s, i)
  BY <1>1, <1>5 DEF Before, BeforeControl, Building
<1>7. weight = Sizes(s)
  BY <1>1, <1>0, SettledBefore DEF Sizes, ControlOK
<1>8. InPass => rec.goal = s /\ rec.pc \in {"upsert", "mongo", "status"}
                /\ (rec.todo # {} => rec.up = Active(s))
  BY <1>1 DEF Before, BeforeControl, Building
<1>9. \A c \in Clusters, i \in Services : c \in On(s, i) <=> i \in Below(Replicas(s, c))
  <2>1. \A i \in Services : i \in Nat
    BY DEF Services
  <2>2. QED
    BY <2>1 DEF On, Replicas, Below
<1>10. InPass' => OldPass(s)'
  BY <1>2, <1>4, <1>7, <1>8 DEF InPass, OldPass
<1>11. AfterControl(s)'
  <2>1. store'.cm # NoConf /\ cache'.cm # NoConf
    BY <1>2, <1>5, FullType
  <2>2. ASSUME NEW c \in Clusters, NEW i \in Services,
               c \in store'.pp[i] \/ (rec'.pc \in {"clean", "prune"} /\ c \in rec'.list[i])
        PROVE  i < Replicas(s, c)
    BY <1>2, <1>4, <1>6, <1>8, <1>9, <2>2 DEF InPass, Below
  <2>3. \A c \in Clusters : agg'[c] # Nil /\ (weight'[c] # 0 => agg'[c] # Absent)
    BY <1>0, <1>2, <1>3, SettledBefore, ReplicasType DEF Real
  <2>4. QED
    BY <1>2, <1>7, <1>10, <2>1, <2>2, <2>3 DEF AfterControl
<1>12. AfterData(s)'
  <2>1. deleting' = {}
    BY <1>3 DEF Before, BeforeData
  <2>2. \A c \in Clusters : at'[c] \cup pods'[c] \subseteq Below(Replicas(s, c))
    BY <1>1, <1>3 DEF Before, BeforeData
  <2>3. ASSUME NEW c \in Shrinking(s)'
        PROVE  /\ members'[c] = Replicas(s, c) /\ members'[c] # target'[c]
               /\ Cardinality(pods'[c]) = Replicas(s, c) /\ Unshrunk(s, c)'
    <3>1. /\ c \in Clusters /\ c \in Active(s) /\ target'[c] \in Nat
          /\ 0 < target'[c] /\ target'[c] < Replicas(s, c) /\ s # target'
          /\ Replicas(s, c) \in Nat /\ s[c] = Replicas(s, c)
      <4>1. c \in Active(target') /\ c \in Clusters
        BY <1>2, <2>3, ActiveType DEF Shrinking
      <4>2. target'[c] \in Nat /\ 0 < target'[c] /\ target'[c] < Replicas(s, c)
        BY <1>2, <2>3, <4>1, ReplicasType DEF Shrinking
      <4>3. Replicas(s, c) \in Nat
        BY <1>0, <4>1, ReplicasType
      <4>4. c \in Active(s) /\ s[c] = Replicas(s, c)
        BY <1>0, <4>1, <4>2, <4>3, ReplicasType
      <4>5. s # target'
        <5>1. target' \in Schedules /\ c \in Active(target')
          BY <1>2, <4>1
        <5>2. Replicas(target', c) = target'[c]
          BY <4>1, <5>1, ReplicasType
        <5>3. QED
          BY <4>2, <4>3, <5>2
      <4>6. QED
        BY <4>1, <4>2, <4>3, <4>4, <4>5
    <3>2. members'[c] = Replicas(s, c) /\ Cardinality(pods'[c]) = Replicas(s, c)
      BY <1>1, <1>3, <3>1, SettledBefore
    <3>3. st'[c].n # target'[c]
      BY <1>1, <1>3, <3>1 DEF Before, BeforeData
    <3>4. /\ agg'[c].n # target'[c]
          /\ c \in DOMAIN result' /\ result'[c].n # target'[c]
      BY <1>1, <1>2, <1>3, <3>1, SettledBefore
    <3>5. \A i \in Below(Replicas(s, c)) :
             c \in store'.pp[i] /\ <<c, i>> \in store'.cm \cap cache'.cm
      BY <1>2, <1>5, <1>6, <1>9, <3>1 DEF Full, Hosts, Below
    <3>6. ~Removing'
      BY <1>4, <1>8, <3>1 DEF Removing, InPass
    <3>7. QED
      BY <3>1, <3>2, <3>3, <3>4, <3>5, <3>6 DEF Unshrunk
  <2>4. QED
    BY <2>1, <2>2, <2>3 DEF AfterData
<1>13. QED
  BY <1>0, <1>1, <1>2, <1>10, <1>11, <1>12 DEF After

-----------------------------------------------------------------------------
(* After the change: the handlers.                                          *)

\* What the shape of AfterControl and AfterData leaves to show of a handler.
LEMMA AfterKept ==
    ASSUME NEW s \in Schedules, After(s), UNCHANGED <<target, changes, agg, data>>,
           weight' \in {weight, Sizes(target)}, AfterControl(s)',
           \A c \in Shrinking(s) : Unshrunk(s, c) => Unshrunk(s, c)'
    PROVE  After(s)'
<1>1. UNCHANGED <<agg, at, members, deleting, pods, st>>
  BY DEF data
<1>2. Shrinking(s)' = Shrinking(s)
  BY DEF Shrinking
<1>3. \A c \in Shrinking(s) : members'[c] = target'[c] => weight' = Sizes(target')
  BY <1>1 DEF After, AfterData
<1>4. AfterData(s)'
  BY <1>1, <1>2, <1>3 DEF After, AfterData
<1>5. QED
  BY <1>4 DEF After

LEMMA AfterReconcile ==
    ASSUME TypeOK, PassOK, cache.pp = store.pp, NEW s \in Schedules, After(s), Reconcile,
           UNCHANGED <<target, changes, agg, data>>
    PROVE  After(s)'
<1> DEFINE up   == ClustersToScaleUp(target, cache.cm)
           down == ClustersToScaleDown(target, cache.cm)
<1>0. target \in Schedules /\ ControlOK
  BY TypeParts
<1>1. /\ UNCHANGED <<store, cache, weight, result>>
      /\ \/ rec'.pc = "panic"
         \/ /\ rec'.goal = target /\ rec'.up \subseteq Active(target)
            /\ \/ down = {} /\ rec'.pc = "upsert"
               \/ down # {} /\ rec'.pc = "hostconf"
               \/ down # {} /\ rec'.pc = "clean" /\ rec'.list = cache.pp
                  /\ ScaleDownOk(target, down, result)
  <2>1. up \subseteq Active(target)
    BY DEF ClustersToScaleUp
  <2>2. Panic => rec'.pc = "panic"
    BY IdleType DEF Panic, Passes
  <2>3. rec'.pc # "upsert" => Panic \/ rec'.up = {}
    BY DEF Reconcile, Idle
  <2> HIDE DEF up, down
  <2>4. QED
    BY <2>1, <2>2, <2>3, ReconcileResult DEF up, down
<1>2. ASSUME NEW c \in Shrinking(s), Unshrunk(s, c)
      PROVE  c \in down /\ ~ScaleDownOk(target, down, result)
  <2>1. /\ c \in Clusters /\ target[c] \in Nat /\ target[c] < Replicas(s, c)
        /\ Replicas(s, c) \in 0 .. MaxSize /\ Replicas(s, c) \in Nat
        /\ c \in DOMAIN target
    BY <1>0, <1>2, ShrinkingSizes, ReplicasType DEF Active
  <2>2. cache.cm # NoConf /\ cache.cm \in SUBSET Hosts
    BY <1>0 DEF After, AfterControl, ControlOK, Stored
  <2>3. \A i \in Below(Replicas(s, c)) : <<c, i>> \in cache.cm
    BY <1>2 DEF Unshrunk
  <2>4. SizeIn(cache.cm, c) \in Nat /\ Replicas(s, c) <= SizeIn(cache.cm, c)
    BY <2>1, <2>2, <2>3, SizeInLeast
  <2>5. c \in down
    BY <2>1, <2>2, <2>4 DEF ClustersToScaleDown
  <2>6. c \in DOMAIN result /\ result[c].n # target[c]
    BY <1>2 DEF Unshrunk
  <2> HIDE DEF down
  <2>7. QED
    BY <2>5, <2>6 DEF ScaleDownOk
<1>3. AfterControl(s)'
  <2>1. \A c \in Clusters, i \in Services :
           c \in store'.pp[i] \/ (rec'.pc \in {"clean", "prune"} /\ c \in rec'.list[i])
               => i < Replicas(s, c) \/ i < Replicas(target', c)
    <3> HIDE DEF down
    <3>1. rec'.pc \in {"clean", "prune"} => rec'.list = store.pp
      BY <1>1
    <3>2. QED
      BY <1>1, <3>1 DEF After, AfterControl
  <2>2. InPass' => rec'.goal = target' /\ rec'.up \subseteq Active(target')
    BY <1>1 DEF InPass
  <2>3. QED
    BY <1>1, <2>1, <2>2 DEF After, AfterControl
<1>4. ASSUME NEW c \in Shrinking(s), Unshrunk(s, c) PROVE Unshrunk(s, c)'
  <2>1. rec'.pc \in {"panic", "hostconf"}
    BY <1>1, <1>2, <1>4
  <2>2. ~Removing'
    BY <2>1 DEF Removing
  <2>3. st' = st
    BY DEF data
  <2>4. QED
    BY <1>1, <1>4, <2>2, <2>3 DEF Unshrunk
<1>5. QED
  BY <1>1, <1>3, <1>4, AfterKept

LEMMA AfterCleanServices ==
    ASSUME TypeOK, PassOK, cache.pp = store.pp, "pp" \notin Lagging,
           NEW s \in Schedules, After(s), CleanServices,
           UNCHANGED <<target, changes, agg, data>>
    PROVE  After(s)'
<1>0. target \in Schedules /\ ControlOK
  BY TypeParts
<1>1. /\ store'.pp = store.pp /\ store'.cm = store.cm /\ Observe
      /\ UNCHANGED <<weight, result>> /\ rec.pc = "clean"
      /\ \/ rec'.pc = "idle"
         \/ /\ rec'.pc = "prune" /\ rec'.goal = rec.goal /\ rec'.list = rec.list
            /\ rec'.up = rec.up
  <2>1. Return => rec'.pc = "idle"
    BY IdleType DEF Return
  <2>2. ~Return => rec'.up = rec.up
    BY <1>0 DEF CleanServices, ControlOK, Passes
  <2>3. QED
    BY <1>0, <2>1, <2>2, CleanServicesResult
<1>2. Removing /\ rec.up \subseteq Active(target)
  BY <1>1 DEF After, AfterControl, OldPass, InPass, Removing
<1>3. cache'.cm \in {cache.cm, store.cm}
  BY <1>1, ObserveResult
<1>4. AfterControl(s)'
  BY <1>1, <1>2, <1>3 DEF After, AfterControl, InPass, Removing
<1>5. QED
  BY <1>1, <1>2, <1>4, AfterKept DEF Unshrunk

LEMMA AfterPrunePolicy ==
    ASSUME TypeOK, PassOK, cache.pp = store.pp, "pp" \notin Lagging,
           NEW s \in Schedules, After(s), NEW i \in Services, PrunePolicy(i),
           UNCHANGED <<target, changes, agg, data>>
    PROVE  After(s)'
<1>0. target \in Schedules /\ ControlOK
  BY TypeParts
<1>1. /\ store'.cm = store.cm /\ Observe
      /\ UNCHANGED <<weight, result>> /\ rec.pc = "prune"
      /\ \A j \in Services : store'.pp[j] \subseteq store.pp[j] \cup rec.list[j]
      /\ \/ rec'.pc = "idle"
         \/ /\ rec'.pc = "prune" /\ rec'.goal = rec.goal /\ rec'.list = rec.list
            /\ rec'.up = rec.up
  <2>1. Return => rec'.pc = "idle"
    BY IdleType DEF Return
  <2>2. ~Return => rec'.up = rec.up
    BY <1>0 DEF PrunePolicy, ControlOK, Passes
  <2>3. QED
    BY <1>0, <2>1, <2>2, PrunePolicyResult
<1>2. Removing /\ rec.up \subseteq Active(target)
  BY <1>1 DEF After, AfterControl, OldPass, InPass, Removing
<1>3. cache'.cm \in {cache.cm, store.cm}
  BY <1>1, ObserveResult
<1>4. AfterControl(s)'
  <2>1. ASSUME NEW c \in Clusters, NEW j \in Services,
               c \in store'.pp[j] \/ (rec'.pc \in {"clean", "prune"} /\ c \in rec'.list[j])
        PROVE  j < Replicas(s, c) \/ j < Replicas(target, c)
    <3>1. c \in store.pp[j] \/ c \in rec.list[j]
      BY <1>1, <2>1
    <3>2. QED
      BY <1>1, <3>1 DEF After, AfterControl
  <2>2. QED
    BY <1>1, <1>2, <1>3, <2>1 DEF After, AfterControl, InPass, Removing
<1>5. QED
  BY <1>1, <1>2, <1>4, AfterKept DEF Unshrunk

LEMMA AfterUpsertService ==
    ASSUME TypeOK, PassOK, cache.pp = store.pp, "pp" \notin Lagging,
           NEW s \in Schedules, After(s), NEW i \in Services, UpsertService(i),
           UNCHANGED <<target, changes, agg, data>>
    PROVE  After(s)'
<1> DEFINE to == UpsertClusters(rec.goal, rec.up, i)
<1>0. target \in Schedules /\ ControlOK
  BY TypeParts
<1>1. /\ store'.cm = store.cm /\ Observe
      /\ UNCHANGED <<weight, result>> /\ rec.pc = "upsert" /\ i \in rec.todo
      /\ \/ store'.pp = store.pp /\ Return
         \/ /\ store'.pp = [store.pp EXCEPT ![i] = to]
            /\ rec' = [rec EXCEPT !.todo = @ \ {i}]
  BY <1>0, UpsertServiceResult
<1>2. cache'.cm \in {cache.cm, store.cm}
  BY <1>1, ObserveResult
<1>3. OldPass(s) \/ (rec.goal = target /\ rec.up \subseteq Active(target))
  BY <1>1 DEF After, AfterControl, InPass
<1>4. OldPass(s) => to = On(s, i)
  BY <1>1, ActiveOn DEF OldPass
<1>5. \A c \in to : i < Replicas(s, c) \/ i < Replicas(target, c)
  BY <1>3, <1>4 DEF UpsertClusters, On, Replicas, Active
<1> HIDE DEF to
<1>6. \A j \in Services : \/ store'.pp[j] = store.pp[j]
                          \/ j = i /\ store'.pp[j] = to
  BY <1>0, <1>1 DEF ControlOK, Stored
<1>7. \/ rec'.pc = "idle"
      \/ /\ rec'.pc = "upsert" /\ rec'.goal = rec.goal /\ rec'.up = rec.up
         /\ rec'.fresh = rec.fresh /\ rec'.todo \subseteq rec.todo
  BY <1>0, <1>1, IdleType DEF Return, ControlOK, Passes
<1>8. AfterControl(s)'
  <2>1. InPass' => OldPass(s)' \/ (rec'.goal = target' /\ rec'.up \subseteq Active(target'))
    BY <1>1, <1>3, <1>7 DEF InPass, OldPass
  <2>2. ASSUME NEW c \in Clusters, NEW j \in Services, c \in store'.pp[j]
        PROVE  j < Replicas(s, c) \/ j < Replicas(target, c)
    BY <1>5, <1>6, <2>2 DEF After, AfterControl
  <2>3. QED
    BY <1>1, <1>2, <1>7, <2>1, <2>2 DEF After, AfterControl
<1>9. ASSUME NEW c \in Shrinking(s), Unshrunk(s, c) PROVE Unshrunk(s, c)'
  <2>1. OldPass(s) /\ s # target
    BY <1>0, <1>1, <1>3, <1>9, ShrinkingSizes DEF Unshrunk, Removing
  <2>2. ~Removing'
    BY <1>7, <2>1 DEF Removing, OldPass
  <2>3. \A j \in Below(Replicas(s, c)) : c \in store'.pp[j]
    <3>1. c \in Clusters /\ c \in DOMAIN s
      BY <1>0, <1>9, ShrinkingSizes DEF Active
    <3>2. i \in Below(Replicas(s, c)) => c \in to
      BY <1>4, <2>1, <3>1 DEF Below, On, Replicas
    <3>3. QED
      BY <1>6, <1>9, <3>2 DEF Unshrunk, Below
  <2>4. st' = st
    BY DEF data
  <2>5. QED
    BY <1>1, <1>2, <1>9, <2>2, <2>3, <2>4 DEF Unshrunk
<1>10. QED
  BY <1>1, <1>8, <1>9, AfterKept

LEMMA AfterHostConf ==
    ASSUME TypeOK, PassOK, cache.pp = store.pp, "pp" \notin Lagging,
           NEW s \in Schedules, After(s), HostConf,
           UNCHANGED <<target, changes, agg, data>>
    PROVE  After(s)'
<1> DEFINE new == {h \in Hosts : h[1] \in cache.pp[h[2]]}
<1>0. target \in Schedules /\ ControlOK
  BY TypeParts
<1>1. /\ store'.pp = store.pp /\ Observe /\ UNCHANGED <<weight, result>>
      /\ rec.pc \in {"prune", "upsert", "hostconf"} /\ rec.todo = {}
      /\ store'.cm \in {store.cm, new}
      /\ Return \/ rec' = [rec EXCEPT !.pc = "mongo"]
  BY <1>0, HostConfResult
<1>2. cache'.cm \in {cache.cm, store'.cm}
  BY <1>1, ObserveResult
<1>3. new # NoConf
  BY NoConfAssumption DEF Hosts
<1>4. ASSUME NEW c \in Shrinking(s), Unshrunk(s, c), NEW i \in Below(Replicas(s, c))
      PROVE  <<c, i>> \in new
  <2>1. c \in Clusters /\ i \in Services /\ c \in cache.pp[i]
    BY <1>0, <1>4, ShrinkingSizes DEF Unshrunk, Below
  <2>2. <<c, i>> \in Hosts
    BY <2>1 DEF Hosts
  <2>3. QED
    BY <2>1, <2>2
<1> HIDE DEF new
<1>5. \/ rec'.pc = "idle"
      \/ /\ rec'.pc = "mongo" /\ rec'.goal = rec.goal /\ rec'.up = rec.up
         /\ rec'.fresh = rec.fresh /\ rec'.todo = {}
  BY <1>0, <1>1, IdleType DEF Return, ControlOK, Passes
<1>6. InPass' => OldPass(s)' \/ (rec'.goal = target' /\ rec'.up \subseteq Active(target'))
  BY <1>1, <1>5 DEF After, AfterControl, InPass, OldPass
<1>7. AfterControl(s)'
  BY <1>1, <1>2, <1>3, <1>5, <1>6 DEF After, AfterControl
<1>8. ASSUME NEW c \in Shrinking(s), Unshrunk(s, c) PROVE Unshrunk(s, c)'
  <2>1. ~Removing'
    BY <1>5 DEF Removing
  <2>2. \A i \in Below(Replicas(s, c)) : <<c, i>> \in store'.cm /\ <<c, i>> \in cache'.cm
    BY <1>1, <1>2, <1>4, <1>8 DEF Unshrunk
  <2>3. st' = st
    BY DEF data
  <2>4. QED
    BY <1>1, <1>8, <2>1, <2>2, <2>3 DEF Unshrunk
<1>9. QED
  BY <1>1, <1>7, <1>8, AfterKept

\* The weights of the change leave no cluster without a status: none is new.
LEMMA AfterMongo ==
    ASSUME TypeOK, PassOK, NoNewcomer, NEW s \in Schedules, After(s), Mongo,
           UNCHANGED <<target, changes, agg, data>>
    PROVE  After(s)'
<1>0. target \in Schedules /\ ControlOK
  BY TypeParts
<1>1. /\ UNCHANGED <<store, cache, result>> /\ rec.pc = "mongo"
      /\ rec'.pc = "status" /\ rec'.goal = rec.goal /\ rec'.up = rec.up
      /\ rec'.todo = rec.todo /\ rec'.fresh = rec.fresh
  BY <1>0 DEF Mongo, Goto, ControlOK, Passes
<1>2. OldPass(s) \/ (rec.goal = target /\ rec.up \subseteq Active(target))
  BY <1>1 DEF After, AfterControl, InPass
<1>3. rec.goal \in Schedules /\ weight' = Sizes(rec.goal)
  <2>1. rec.goal \in Schedules
    BY <1>1 DEF PassOK
  <2>2. \A c \in Clusters : Weight(rec.goal, c) = Replicas(rec.goal, c)
    BY <2>1, ReplicasType
  <2>3. QED
    BY <2>1, <2>2 DEF Mongo, Sizes
<1>4. OldPass(s) => weight' = Sizes(s) /\ weight = Sizes(s)
  BY <1>3 DEF OldPass
<1>5. ASSUME NEW c \in Clusters, weight'[c] # 0 PROVE agg[c] # Absent
  <2>1. weight[c] # 0 => agg[c] # Absent
    BY DEF After, AfterControl
  <2>2. CASE weight' = weight
    BY <1>5, <2>1, <2>2
  <2>3. CASE weight' # weight
    <3>1. weight' = Sizes(target) /\ weight = Sizes(s)
      BY <1>2, <1>3, <1>4, <2>3 DEF After, AfterControl
    <3>2. c \in Active(target)
      BY <1>0, <1>5, <3>1, SizesType, ReplicasType
    <3>3. c \in Active(s)
      BY <3>2 DEF After, NoNewcomer
    <3>4. weight[c] # 0
      BY <3>1, <3>3, SizesType, ReplicasType
    <3>5. QED
      BY <2>1, <3>4
  <2>4. QED
    BY <2>2, <2>3
<1>6. weight' \in {weight, Sizes(target)}
  BY <1>2, <1>3, <1>4
<1>7. AfterControl(s)'
  <2>1. InPass' => OldPass(s)' \/ (rec'.goal = target' /\ rec'.up \subseteq Active(target'))
    BY <1>1, <1>2, <1>4 DEF InPass, OldPass
  <2>2. weight' \in {Sizes(s), Sizes(target)}
    BY <1>6 DEF After, AfterControl
  <2>3. QED
    BY <1>1, <1>5, <2>1, <2>2 DEF After, AfterControl
<1>8. ASSUME NEW c \in Shrinking(s), Unshrunk(s, c) PROVE Unshrunk(s, c)'
  <2>1. ~Removing' /\ st' = st
    BY <1>1 DEF Removing, data
  <2>2. QED
    BY <1>1, <1>8, <2>1 DEF Unshrunk
<1>9. QED
  BY <1>6, <1>7, <1>8, AfterKept

\* A cluster that still shrinks has a status.
LEMMA ShrinkingReal ==
    ASSUME target \in Schedules, NEW s \in Schedules, After(s), NEW c \in Shrinking(s)
    PROVE  weight[c] # 0 /\ Real(c)
<1>1. weight[c] # 0
  BY ShrinkingSizes, SizesType DEF After, AfterControl
<1>2. QED
  BY <1>1, ShrinkingSizes DEF After, AfterControl, Real

LEMMA AfterStatus ==
    ASSUME TypeOK, PassOK, NEW s \in Schedules, After(s), Status,
           UNCHANGED <<target, changes, agg, data>>
    PROVE  After(s)'
<1>0. target \in Schedules /\ ControlOK
  BY TypeParts
<1>1. UNCHANGED <<store, cache, weight>> /\ rec.pc = "status" /\ rec'.pc \in {"idle", "panic"}
  BY <1>0, IdleType DEF Status, Return, Panic, Passes
<1>2. AfterControl(s)'
  BY <1>1 DEF After, AfterControl, InPass
<1>3. ASSUME NEW c \in Shrinking(s), Unshrunk(s, c) PROVE Unshrunk(s, c)'
  <2>1. c \in Clusters /\ c \in DOMAIN s /\ c \in DOMAIN target /\ target[c] # 0 /\ Real(c)
    BY <1>0, ShrinkingSizes, ShrinkingReal DEF Active
  <2>2. c \in DOMAIN rec.goal
    BY <1>1, <2>1 DEF After, AfterControl, InPass, OldPass
  <2>3. Present = Reported
    BY DEF Reported, Present, After, AfterControl
  <2>4. c \in DOMAIN result'
    BY <1>3, <2>1, <2>2, <2>3, StatusKeeps DEF Unshrunk
  <2>5. result'[c].n # target[c]
    BY <1>0, <1>3, <2>1, <2>4, StatusResult DEF Unshrunk
  <2>6. ~Removing' /\ st' = st
    BY <1>1 DEF Removing, data
  <2>7. QED
    BY <1>1, <1>3, <2>4, <2>5, <2>6 DEF Unshrunk
<1>4. QED
  BY <1>1, <1>2, <1>3, AfterKept

LEMMA AfterOther ==
    ASSUME TypeOK, PassOK, "pp" \notin Lagging, NEW s \in Schedules, After(s),
           Restart \/ Fail \/ \E k \in Kinds : CacheSync(k),
           UNCHANGED <<target, changes, agg, data>>
    PROVE  After(s)'
<1>0. ControlOK
  BY TypeParts
<1>1. /\ store'.pp = store.pp /\ store'.cm = store.cm /\ cache'.cm \in {cache.cm, store.cm}
      /\ UNCHANGED <<weight, result>> /\ (rec' = rec \/ rec'.pc = "idle")
  <2>1. CASE Restart
    BY <2>1, IdleType DEF Restart, Return
  <2>2. CASE Fail
    BY <1>0, <2>2, FailResult, ObserveResult, IdleType DEF Return
  <2>3. ASSUME NEW k \in Kinds, CacheSync(k)
        PROVE  store' = store /\ cache'.cm \in {cache.cm, store.cm}
               /\ UNCHANGED <<weight, result, rec>>
    BY <1>0, <2>3 DEF CacheSync, ControlOK, Stored, Kinds
  <2>4. QED
    BY <2>1, <2>2, <2>3
<1>2. AfterControl(s)'
  <2>1. InPass' => OldPass(s)' \/ (rec'.goal = target' /\ rec'.up \subseteq Active(target'))
    BY <1>1 DEF After, AfterControl, InPass, OldPass
  <2>2. ASSUME rec'.pc \in {"clean", "prune"} PROVE rec'.pc = rec.pc /\ rec'.list = rec.list
    BY <1>1, <2>2
  <2>3. QED
    BY <1>1, <2>1, <2>2 DEF After, AfterControl
<1>3. ASSUME NEW c \in Shrinking(s), Unshrunk(s, c) PROVE Unshrunk(s, c)'
  <2>1. ~Removing' /\ st' = st
    BY <1>1, <1>3 DEF Unshrunk, Removing, data
  <2>2. QED
    BY <1>1, <1>3, <2>1 DEF Unshrunk
<1>4. QED
  BY <1>1, <1>2, <1>3, AfterKept

-----------------------------------------------------------------------------
(* After the change: Karmada and the member operators.                      *)

LEMMA AfterDeliver ==
    ASSUME TypeOK, PassOK, NoNewcomer, NEW s \in Schedules, After(s), NEW c \in Clusters,
           \/ DeliverConf(c) \/ DeliverMongo(c) \/ \E i \in Services : DeliverService(c, i)
    PROVE  After(s)'
<1>0. DataOK /\ ControlOK /\ target \in Schedules
  BY TypeParts
<1>1. UNCHANGED <<target, changes, store, cache, weight, result, rec, agg, pods, st>>
  BY DEF DeliverConf, DeliverMongo, DeliverService, schedule, control
<1>2. AfterControl(s)'
  BY <1>1 DEF After, AfterControl, InPass, OldPass
<1>3. \A d \in Shrinking(s)' : d \in Shrinking(s) /\ (Unshrunk(s, d) => Unshrunk(s, d)')
  BY <1>1 DEF Shrinking, Unshrunk, Removing
<1>4. AfterData(s)'
  <2>1. CASE DeliverConf(c)
    BY <1>1, <1>3, <2>1 DEF DeliverConf, After, AfterData
  <2>2. CASE DeliverMongo(c) /\ weight[c] = 0
    <3>1. deleting' = deleting \cup {c} /\ UNCHANGED <<at, members>>
      BY <2>2 DEF DeliverMongo
    <3>2. Replicas(target, c) = 0
      <4>1. CASE weight = Sizes(target)
        BY <1>0, <2>2, <4>1, SizesType
      <4>2. CASE weight = Sizes(s)
        <5>1. Replicas(s, c) = 0
          BY <2>2, <4>2, SizesType
        <5>2. c \notin Active(s)
          BY <5>1, ReplicasType
        <5>3. c \notin Active(target)
          BY <5>2 DEF After, NoNewcomer
        <5>4. QED
          BY <1>0, <5>3, ReplicasType
      <4>3. QED
        BY <4>1, <4>2 DEF After, AfterControl
    <3>3. QED
      BY <1>1, <1>3, <3>1, <3>2 DEF After, AfterData
  <2>3. CASE DeliverMongo(c) /\ weight[c] # 0
    <3>1. members' = [members EXCEPT ![c] = weight[c]] /\ UNCHANGED <<at, deleting>>
          /\ members[c] # weight[c]
      BY <2>3 DEF DeliverMongo
    <3>2. \A d \in Clusters : members'[d] = IF d = c THEN weight[c] ELSE members[d]
      BY <1>0, <3>1 DEF DataOK
    <3>3. ASSUME NEW d \in Shrinking(s)
          PROVE  /\ members'[d] \in {Replicas(s, d), target[d]}
                 /\ members'[d] = target[d] => weight = Sizes(target)
                 /\ \/ Cardinality(pods[d]) = Replicas(s, d) /\ Unshrunk(s, d)
                    \/ Cardinality(pods[d]) = target[d] /\ members'[d] = target[d]
      <4>1. /\ d \in Clusters /\ target[d] = Replicas(target, d) /\ target[d] \in Nat
            /\ target[d] < Replicas(s, d) /\ Replicas(s, d) \in Nat
        BY <1>0, <3>3, ShrinkingSizes
      <4>2. \/ weight[d] = Replicas(s, d) /\ weight = Sizes(s)
            \/ weight[d] = target[d] /\ weight = Sizes(target)
        BY <1>0, <4>1, SizesType DEF After, AfterControl
      <4>3. CASE d # c
        BY <3>2, <3>3, <4>1, <4>3 DEF After, AfterData
      <4>4. CASE d = c
        <5>1. members'[d] = weight[d] /\ members[d] # weight[d]
          BY <3>1, <3>2, <4>1, <4>4
        <5>2. members[d] # target[d]
          BY <3>3, <4>1, <4>2, <5>1, <1>0, SizesType DEF After, AfterData
        <5>3. QED
          BY <3>3, <4>1, <4>2, <5>1, <5>2 DEF After, AfterData
      <4>5. QED
        BY <4>3, <4>4
    <3>4. QED
      BY <1>1, <1>3, <3>1, <3>3 DEF After, AfterData
  <2>4. ASSUME NEW i \in Services, DeliverService(c, i) PROVE AfterData(s)'
    <3>1. UNCHANGED <<members, deleting>>
      BY <2>4 DEF DeliverService
    <3>2. \A d \in Clusters :
             at'[d] = IF d = c THEN IF i \in at[c] THEN at[c] \ {i} ELSE at[c] \cup {i} ELSE at[d]
      BY <1>0, <2>4 DEF DeliverService, DataOK
    <3>3. i \notin at[c] => i \in Below(Replicas(s, c)) \cup Below(Replicas(target, c))
      <4>1. i \notin at[c] => c \in store.pp[i]
        BY <2>4 DEF DeliverService, Propagated
      <4>2. QED
        BY <4>1 DEF After, AfterControl, Below
    <3>4. QED
      BY <1>1, <1>3, <3>1, <3>2, <3>3 DEF After, AfterData
  <2>5. QED
    BY <2>1, <2>2, <2>3, <2>4
<1>5. QED
  BY <1>1, <1>2, <1>4 DEF After

LEMMA AfterStatuses ==
    ASSUME TypeOK, PassOK, NEW s \in Schedules, After(s),
           BindMongo \/ \E c \in Clusters : AggregateStatus(c)
    PROVE  After(s)'
<1>0. DataOK /\ ControlOK /\ target \in Schedules
  BY TypeParts
<1>1. UNCHANGED <<target, changes, store, cache, weight, result, rec, at, members, deleting,
                  pods, st>>
  BY DEF BindMongo, AggregateStatus, schedule, control, data
<1>2. \A d \in Clusters : \/ agg'[d] = agg[d]
                          \/ agg'[d] = Absent /\ weight[d] = 0
                          \/ agg'[d] = st[d]
  <2>1. CASE BindMongo
    <3>1. \A d \in Clusters : agg'[d] = IF weight[d] = 0 THEN Absent
                                        ELSE IF agg[d] = Absent THEN Nil ELSE agg[d]
      BY <2>1 DEF BindMongo
    <3>2. QED
      BY <3>1 DEF After, AfterControl
  <2>2. ASSUME NEW c \in Clusters, AggregateStatus(c)
        PROVE  \A d \in Clusters : agg'[d] = agg[d] \/ agg'[d] = st[d]
    BY <1>0, <2>2 DEF AggregateStatus, DataOK
  <2>3. QED
    BY <2>1, <2>2
<1>3. \A d \in Clusters : st[d] \notin {Absent, Nil}
  BY <1>0, StatusesAssumption DEF DataOK
<1>4. \A d \in Clusters : agg'[d] # Nil /\ (weight[d] # 0 => agg'[d] # Absent)
  BY <1>2, <1>3, StatusesAssumption DEF After, AfterControl
<1>5. AfterControl(s)'
  BY <1>1, <1>4 DEF After, AfterControl, InPass, OldPass
<1>6. ASSUME NEW c \in Shrinking(s), Unshrunk(s, c) PROVE Unshrunk(s, c)'
  <2>1. c \in Clusters /\ weight[c] # 0
    BY <1>0, ShrinkingSizes, ShrinkingReal
  <2>2. agg'[c].n # target[c]
    BY <1>2, <1>6, <2>1 DEF Unshrunk
  <2>3. QED
    BY <1>1, <1>6, <2>2 DEF Unshrunk, Removing
<1>7. Shrinking(s)' = Shrinking(s)
  BY <1>1 DEF Shrinking
<1>8. AfterData(s)'
  BY <1>1, <1>6, <1>7 DEF After, AfterData
<1>9. QED
  BY <1>1, <1>5, <1>8 DEF After

\* An operator removes the surplus of its cluster at once, or nothing.
LEMMA AfterOperator ==
    ASSUME TypeOK, PassOK, NEW s \in Schedules, After(s), NEW c \in Clusters, Operator(c)
    PROVE  After(s)'
<1>0. DataOK /\ ControlOK /\ target \in Schedules
  BY TypeParts
<1>1. UNCHANGED <<target, changes, store, cache, weight, result, rec, agg, at, conf>>
  BY DEF Operator, Sync, Finalize, schedule, control
<1>2. AfterControl(s)'
  BY <1>1 DEF After, AfterControl, InPass, OldPass
<1>3. Shrinking(s)' = Shrinking(s)
  BY <1>1 DEF Shrinking
<1>4. ASSUME NEW d \in Shrinking(s), Unshrunk(s, d), st'[d].n # target[d] PROVE Unshrunk(s, d)'
  BY <1>1, <1>4 DEF Unshrunk, Removing
<1>5. CASE Sync(c)
  <2>1. PICK new \in SyncedPods(c, members[c]), status \in MongoStatus :
              /\ members[c] > 0 /\ c \notin deleting
              /\ pods' = [pods EXCEPT ![c] = new] /\ st' = [st EXCEPT ![c] = status]
              /\ \/ status.n = st[c].n
                 \/ status.n = members[c] /\ conf[c] # NoConf
              /\ UNCHANGED <<schedule, control, agg, at, conf, members, deleting>>
    BY <1>0, <1>5, SyncResult
  <2>2. \A d \in Clusters : /\ pods'[d] = IF d = c THEN new ELSE pods[d]
                            /\ st'[d] = IF d = c THEN status ELSE st[d]
    BY <1>0, <2>1 DEF DataOK
  <2>3. new \subseteq pods[c] \cup at[c]
    BY <1>0, <2>1, SyncedPodsFrom
  <2>4. ASSUME NEW d \in Shrinking(s)
        PROVE  \/ Cardinality(pods'[d]) = Replicas(s, d) /\ Unshrunk(s, d)'
               \/ Cardinality(pods'[d]) = target[d] /\ members[d] = target[d]
    <3>1. /\ d \in Clusters /\ target[d] \in Nat /\ target[d] < Replicas(s, d)
          /\ Replicas(s, d) \in Nat
      BY <1>0, <2>4, ShrinkingSizes
    <3>2. /\ members[d] \in {Replicas(s, d), target[d]}
          /\ \/ Cardinality(pods[d]) = Replicas(s, d) /\ Unshrunk(s, d)
             \/ Cardinality(pods[d]) = target[d] /\ members[d] = target[d]
      BY <2>4 DEF After, AfterData
    <3>3. CASE d # c
      BY <1>4, <2>2, <2>4, <3>1, <3>2, <3>3 DEF Unshrunk
    <3>4. CASE d = c /\ Cardinality(pods[d]) = members[d]
      <4>1. new = pods[d]
        BY <2>1, <3>1, <3>2, <3>4 DEF SyncedPods
      <4>2. Unshrunk(s, d) /\ members[d] = Replicas(s, d) => Unshrunk(s, d)'
        BY <1>4, <2>1, <2>2, <2>4, <3>1, <3>4 DEF Unshrunk
      <4>3. QED
        BY <2>2, <3>1, <3>2, <3>4, <4>1, <4>2
    <3>5. CASE d = c /\ Cardinality(pods[d]) # members[d]
      <4>1. /\ members[d] = target[d] /\ Cardinality(pods[d]) = Replicas(s, d)
            /\ Unshrunk(s, d)
        BY <3>1, <3>2, <3>5
      <4>2. ~(Cardinality(pods[c]) < members[c]) /\ Cardinality(pods[c]) # members[c]
        BY <3>1, <3>5, <4>1
      <4>3. new \in IF conf[c] = NoConf THEN {pods[c]} ELSE kSubset(members[c], pods[c])
        BY <2>1, <4>2 DEF SyncedPods
      <4>4. CASE conf[c] = NoConf
        <5>1. pods'[d] = pods[d] /\ st'[d].n = st[d].n
          BY <2>1, <2>2, <3>1, <3>5, <4>3, <4>4
        <5>2. QED
          BY <1>4, <2>4, <4>1, <5>1 DEF Unshrunk
      <4>5. CASE conf[c] # NoConf
        <5>1. Cardinality(new) = members[c]
          BY <4>3, <4>5 DEF kSubset
        <5>2. QED
          BY <2>2, <3>1, <3>5, <4>1, <5>1
      <4>6. QED
        BY <4>4, <4>5
    <3>6. QED
      BY <3>3, <3>4, <3>5
  <2>5. AfterData(s)'
    BY <1>1, <1>3, <2>1, <2>2, <2>3, <2>4 DEF After, AfterData
  <2>6. QED
    BY <1>1, <1>2, <2>5 DEF After
<1>6. CASE Finalize(c)
  <2>1. c \in deleting /\ Replicas(target, c) = 0
    BY <1>6 DEF Finalize, After, AfterData
  <2>2. /\ deleting' = deleting \ {c}
        /\ \A d \in Clusters : /\ pods'[d] = IF d = c THEN {} ELSE pods[d]
                               /\ members'[d] = IF d = c THEN 0 ELSE members[d]
                               /\ st'[d] = IF d = c THEN NewStatus ELSE st[d]
    BY <1>0, <1>6 DEF Finalize, Report, DataOK
  <2>3. \A d \in Shrinking(s) : d \in Clusters /\ d # c
    BY <1>0, <2>1, ShrinkingSizes
  <2>4. \A d \in Shrinking(s) : Unshrunk(s, d) => Unshrunk(s, d)'
    BY <1>4, <2>2, <2>3 DEF Unshrunk
  <2>5. AfterData(s)'
    BY <1>1, <1>3, <2>2, <2>3, <2>4 DEF After, AfterData
  <2>6. QED
    BY <1>1, <1>2, <2>5 DEF After
<1>7. QED
  BY <1>5, <1>6 DEF Operator

-----------------------------------------------------------------------------
LEMMA AfterNext ==
    ASSUME TypeOK, PassOK, cache.pp = store.pp, "pp" \notin Lagging, OneChange, NoNewcomer,
           NEW s \in Schedules, After(s), [Next]_vars
    PROVE  After(s)'
<1>1. CASE UNCHANGED vars
  BY <1>1, Zenon DEF After, AfterControl, AfterData, OldPass, Removing, Unshrunk, Shrinking,
                     InPass, vars, schedule, control, data
<1>2. CASE Controller
  <2>1. Handlers /\ UNCHANGED <<target, changes, agg, data>>
    BY <1>2 DEF Controller, schedule
  <2>2. QED
    BY <2>1, AfterReconcile, AfterCleanServices, AfterPrunePolicy, AfterUpsertService,
       AfterHostConf, AfterMongo, AfterStatus, AfterOther DEF Handlers
<1>3. CASE Disturbance
  <2>1. CASE Fail /\ UNCHANGED schedule
    <3>1. UNCHANGED <<target, changes, agg, data>>
      BY <1>3, <2>1 DEF Disturbance, schedule
    <3>2. QED
      BY <2>1, <3>1, AfterOther
  <2>2. ~Reschedule
    <3>1. MaxReschedules \in Nat /\ MaxReschedules <= 1
      BY BoundsAssumption DEF OneChange
    <3>2. QED
      BY <3>1 DEF Reschedule, After
  <2>3. QED
    BY <1>3, <2>1, <2>2 DEF Disturbance
<1>4. CASE BindMongo
  BY <1>4, AfterStatuses
<1>5. CASE \E k \in Kinds : Informer(k)
  <2>1. \E k \in Kinds : CacheSync(k)
    BY <1>5 DEF Informer
  <2>2. UNCHANGED <<target, changes, agg, data>>
    BY <1>5 DEF Informer, schedule
  <2>3. QED
    BY <2>1, <2>2, AfterOther
<1>6. ASSUME NEW c \in Clusters,
             \/ DeliverConf(c) \/ DeliverMongo(c) \/ AggregateStatus(c) \/ Operator(c)
             \/ \E i \in Services : DeliverService(c, i)
      PROVE  After(s)'
  BY <1>6, AfterDeliver, AfterStatuses, AfterOperator
<1>7. QED
  BY <1>1, <1>2, <1>3, <1>4, <1>5, <1>6 DEF Next

LEMMA InitIInv == Init => IInv
  BY InitBefore DEF IInv

LEMMA NextIInv ==
    ASSUME "pp" \notin Lagging, OneChange, NoNewcomer, Patient
    PROVE  IInv /\ [Next]_vars => IInv'
<1> SUFFICES ASSUME IInv, [Next]_vars PROVE IInv'
  OBVIOUS
<1>1. TypeOK /\ PassOK /\ cache.pp = store.pp
  BY DEF IInv
<1>2. TypeOK' /\ PassOK'
  BY <1>1, NextType
<1>3. cache'.pp = store'.pp
  BY <1>1, PoliciesSeen
<1>4. CASE Before
  <2>1. CASE Disturbance /\ Reschedule
    <3>1. changes = 0 /\ changes' = 1
      BY <1>4, <2>1 DEF Before, Reschedule
    <3>2. UNCHANGED <<agg, data>> /\ Settled
      BY <2>1, <3>1 DEF Disturbance, schedule
    <3>3. QED
      BY <1>1, <1>2, <1>3, <1>4, <2>1, <3>2, ChangeAfter DEF IInv
  <2>2. CASE ~(Disturbance /\ Reschedule)
    <3>1. Before'
      BY <1>1, <1>4, <2>2, BeforeNext
    <3>2. QED
      BY <1>2, <1>3, <3>1, Zenon DEF IInv
  <2>3. QED
    BY <2>1, <2>2
<1>5. ASSUME NEW s \in Schedules, After(s) PROVE IInv'
  <2>1. After(s)'
    BY <1>1, <1>5, AfterNext
  <2>2. QED
    BY <1>2, <1>3, <2>1, Zenon DEF IInv
<1>6. QED
  BY <1>4, <1>5 DEF IInv

\* A cluster that does not shrink never runs more pods than it is to, one that shrinks
\* is waited for.
LEMMA IInvClean == IInv => CleanAfterShrink
<1> SUFFICES ASSUME IInv, rec.pc \in {"clean", "prune"}, NEW c \in Active(rec.goal)
             PROVE  Cardinality(pods[c]) <= rec.goal[c]
  BY DEF CleanAfterShrink
<1>1. target \in Schedules /\ DataOK
  BY TypeParts DEF IInv
<1>2. PICK s \in Schedules : After(s)
  BY DEF IInv, Before, BeforeControl, Building, InPass
<1>3. rec.goal = target /\ Removing
  BY <1>2 DEF After, AfterControl, InPass, OldPass, Removing
<1>4. /\ c \in Clusters /\ target[c] = Replicas(target, c) /\ target[c] \in 0 .. MaxSize
      /\ target[c] \in Nat /\ Replicas(s, c) \in Nat
  BY <1>1, <1>3, ActiveType, ReplicasType
<1>5. CASE c \in Shrinking(s)
  BY <1>2, <1>3, <1>4, <1>5 DEF After, AfterData, Unshrunk
<1>6. CASE c \notin Shrinking(s)
  <2>1. Replicas(s, c) <= target[c]
    BY <1>3, <1>4, <1>6 DEF Shrinking
  <2>2. pods[c] \subseteq Below(Replicas(s, c)) \cup Below(target[c])
    BY <1>2, <1>4 DEF After, AfterData
  <2>3. \A i \in Services : i \in Nat
    BY DEF Services
  <2>4. Below(Replicas(s, c)) \subseteq Below(target[c])
    BY <1>4, <2>1, <2>3 DEF Below
  <2>5. pods[c] \in SUBSET Below(target[c])
    BY <2>2, <2>4
  <2>6. Cardinality(pods[c]) <= Cardinality(Below(target[c]))
    BY <1>4, <2>5, BelowSize, FS_Subset
  <2>7. QED
    BY <1>3, <1>4, <2>6, BelowSize
<1>7. QED
  BY <1>5, <1>6

\* ScaleDownCleaner waits for the capacity reduction: with policies that are never seen
\* late, a schedule that changes once, as soon as the deployment has reached it, and
\* no cluster in the new one that is not in the old, services and policies are cleaned
\* only when every cluster that stays runs no more pods than it is to, whatever calls
\* fail, however late services and hostconf are seen, delivered and reported.
THEOREM CleanAfterShrinkCorrect ==
    ASSUME "pp" \notin Lagging, OneChange, NoNewcomer, Patient
    PROVE  Spec => []CleanAfterShrink
<1>1. Spec => []IInv
  BY InitIInv, NextIInv, PTL DEF Spec
<1>2. QED
  BY <1>1, IInvClean, PTL

-----------------------------------------------------------------------------
(* The members of the replica set that are being served.                    *)

Served(h) == h[2] \in store.svcs /\ h[1] \in store.pp[h[2]]

\* As long as nothing is taken away: a host is known once it is served.
AllServed ==
    /\ cache.svcs \subseteq store.svcs
    /\ \A h \in rs : Served(h)
    /\ store.cm # NoConf => \A h \in store.cm : Served(h)
    /\ \A c \in Clusters : conf[c] # NoConf => \A h \in conf[c] : Served(h)

\* Before the change, what is known of the members of a cluster is no more than what
\* there is.
Known ==
    \A c \in Clusters :
        /\ st[c].hosts \subseteq In(rs, c)
        /\ Real(c) => agg[c].hosts \subseteq st[c].hosts
        /\ c \in DOMAIN result /\ result[c].hosts # {}
               => Real(c) /\ result[c].hosts \subseteq agg[c].hosts

\* Two kinds of changes: no cluster gets more pods; every cluster does that is to
\* have some, and these are those that have some.
Shrinks(s, t) == \A c \in Clusters : Replicas(t, c) <= Replicas(s, c)
Grows(s, t) == /\ Active(s) = Active(t)
               /\ \A c \in Active(t) : Replicas(s, c) < Replicas(t, c)

OneWay == \A p \in Changes : Shrinks(p[1], p[2]) \/ Grows(p[1], p[2])

\* While clusters grow, the handlers go from the first schedule to the second.
Growing(s) ==
    /\ Grows(s, target)
    /\ Building([i \in Services |-> On(s, i)], Full(s))
    /\ InPass => rec.goal = target \/ \A i \in Services : store.pp[i] = On(s, i)
    /\ AllServed

\* While clusters shrink, the pods of a cluster are its members of the replica set, every
\* status names them, and neither their services nor their policies are touched.
Kept(s, c) ==
    /\ In(rs, c) = pods[c]
    /\ target[c] <= members[c] /\ members[c] <= Cardinality(pods[c])
    /\ pods[c] \subseteq st[c].hosts \cap agg[c].hosts
    /\ c \in DOMAIN result /\ pods[c] \subseteq result[c].hosts
    /\ \A i \in pods[c] : /\ Served(<<c, i>>) /\ <<c, i>> \in store.cm \cap cache.cm
                          /\ rec.pc \in {"clean", "prune"} => c \in rec.list[i]

Keeping(s) ==
    /\ Shrinks(s, target)
    /\ InPass /\ rec.goal = target /\ rec.pc = "upsert" => OldPass(s) \/ rec.todo = {}
    /\ \A c \in Active(target) : Kept(s, c)

SInv == /\ TypeOK /\ PassOK
        /\ cache.pp = store.pp
        /\ \/ Before /\ AllServed /\ Known
           \/ \E s \in Schedules : After(s) /\ (Keeping(s) \/ Growing(s))

-----------------------------------------------------------------------------
(* While nothing is taken away.                                             *)

LEMMA ServicesSeen ==
    ASSUME TypeOK, PassOK, cache.svcs \subseteq store.svcs, store.svcs \subseteq store'.svcs,
           [Next]_vars
    PROVE  cache'.svcs \subseteq store'.svcs
<1>0. ControlOK
  BY TypeParts
<1>1. CASE UNCHANGED cache
  BY <1>1
<1>2. CASE Observe
  <2>1. cache'.svcs \in {cache.svcs, store'.svcs}
    BY <1>2 DEF Observe, Kinds
  <2>2. QED
    BY <2>1
<1>3. ASSUME NEW k \in Kinds, CacheSync(k) PROVE cache'.svcs \subseteq store'.svcs
  <2>1. store' = store /\ cache' = [cache EXCEPT ![k] = store[k]]
    BY <1>3 DEF CacheSync
  <2>2. cache'.svcs = IF k = "svcs" THEN store[k] ELSE cache.svcs
    BY <1>0, <2>1 DEF ControlOK, Stored
  <2>3. QED
    BY <2>1, <2>2
<1>4. QED
  BY <1>1, <1>2, <1>3
     DEF Next, vars, control, Controller, Handlers, Reconcile, CleanServices, PrunePolicy,
         UpsertService, HostConf, Mongo, Status, Restart, Disturbance, Fail, Reschedule,
         BindMongo, Informer, DeliverService, DeliverConf, DeliverMongo, AggregateStatus,
         Operator, Sync, Finalize

\* A hostconf is written from policies of services that are there.
LEMMA ConfServed ==
    ASSUME ControlOK, cache.pp = store.pp, cache.svcs \subseteq store.svcs, HostConf,
           store.cm # NoConf => \A h \in store.cm : Served(h),
           store'.cm # NoConf, NEW h \in store'.cm
    PROVE  Served(h)
<1> DEFINE new == {g \in Hosts : g[1] \in cache.pp[g[2]]}
<1>1. CASE store'.cm = store.cm
  BY <1>1
<1>2. CASE store'.cm # store.cm
  <2>1. store' = [store EXCEPT !.cm = new] /\ Listed({i \in Services : cache.pp[i] # {}})
    BY <1>2 DEF HostConf
  <2>2. store'.cm = new
    BY <2>1 DEF ControlOK, Stored
  <2>3. h \in Hosts /\ h[1] \in cache.pp[h[2]] /\ h[2] \in Services
    BY <2>2 DEF Hosts
  <2>4. h[2] \in cache.svcs
    BY <2>1, <2>3 DEF Listed
  <2>5. QED
    BY <2>3, <2>4 DEF Served
<1>3. QED
  BY <1>1, <1>2

LEMMA AllServedNext ==
    ASSUME TypeOK, PassOK, cache.pp = store.pp, AllServed, OnlyMore, [Next]_vars
    PROVE  AllServed'
<1>0. ControlOK /\ DataOK
  BY TypeParts
<1>1. cache'.svcs \subseteq store'.svcs
  BY ServicesSeen DEF AllServed, OnlyMore
<1>2. \A h \in Hosts : Served(h) => Served(h)'
  BY DEF Served, OnlyMore, Hosts
<1>3. ASSUME store'.cm # NoConf, NEW h \in store'.cm PROVE Served(h)
  <2>1. CASE store'.cm = store.cm
    BY <1>3, <2>1 DEF AllServed
  <2>2. CASE HostConf
    BY <1>0, <1>3, <2>2, ConfServed DEF AllServed
  <2>3. store'.cm = store.cm \/ HostConf
    <3>1. \A i \in Services : UpsertService(i) \/ PrunePolicy(i) => store'.cm = store.cm
      BY <1>0, UpsertServiceResult, PrunePolicyResult
    <3>2. CleanServices \/ Fail => store'.cm = store.cm
      BY <1>0, CleanServicesResult, FailResult
    <3>3. QED
      BY <3>1, <3>2
         DEF Next, vars, control, Controller, Handlers, Reconcile, Mongo, Status, Restart,
             Disturbance, Reschedule, BindMongo, Informer, CacheSync, DeliverService, DeliverConf,
             DeliverMongo, AggregateStatus, Operator, Sync, Finalize
  <2>4. QED
    BY <2>1, <2>2, <2>3
<1>4. ASSUME NEW h \in rs' PROVE Served(h)
  <2>1. CASE rs' \subseteq rs
    BY <1>4, <2>1 DEF AllServed
  <2>2. ASSUME NEW c \in Clusters, Sync(c) PROVE Served(h)
    <3>1. rs' \subseteq rs \/ (conf[c] # NoConf /\ rs' \subseteq rs \cup conf[c])
      BY <1>0, <2>2, SyncResult DEF Joined
    <3>2. QED
      BY <1>4, <3>1 DEF AllServed
  <2>3. rs' \subseteq rs \/ \E c \in Clusters : Sync(c)
    BY DEF Next, vars, data, Controller, Disturbance, BindMongo, Informer, DeliverService,
           DeliverConf, DeliverMongo, AggregateStatus, Operator, Finalize, Remove
  <2>4. QED
    BY <2>1, <2>2, <2>3
<1>5. ASSUME NEW c \in Clusters, conf'[c] # NoConf, NEW h \in conf'[c] PROVE Served(h)
  <2>1. CASE conf' = conf
    BY <1>5, <2>1 DEF AllServed
  <2>2. ASSUME NEW d \in Clusters, DeliverConf(d) PROVE Served(h)
    <3>1. conf'[c] \in {conf[c], store.cm, NoConf}
      BY <1>0, <2>2 DEF DeliverConf, DataOK
    <3>2. QED
      BY <1>5, <3>1 DEF AllServed
  <2>3. conf' = conf \/ \E d \in Clusters : DeliverConf(d)
    BY DEF Next, vars, data, Controller, Disturbance, BindMongo, Informer, DeliverService,
           DeliverMongo, AggregateStatus, Operator, Finalize, Sync
  <2>4. QED
    BY <2>1, <2>2, <2>3
<1>6. TypeOK' /\ PassOK'
  BY NextType
<1>7. store'.cm # NoConf => store'.cm \subseteq Hosts
  BY <1>6, TypeParts DEF TypeOK, ControlTypeOK, Stored
<1>8. rs' \subseteq Hosts /\ \A c \in Clusters : conf'[c] # NoConf => conf'[c] \subseteq Hosts
  BY <1>6 DEF TypeOK
<1>9. QED
  BY <1>1, <1>2, <1>3, <1>4, <1>5, <1>7, <1>8 DEF AllServed

\* Before the change nothing is taken away.
LEMMA BeforeOnlyMore ==
    ASSUME TypeOK, PassOK, cache.pp = store.pp, "pp" \notin Lagging, Before, [Next]_vars
    PROVE  OnlyMore
<1>1. CASE store' = store
  BY <1>1 DEF OnlyMore
<1>2. CASE Controller
  BY <1>2, BuildingStep, NothingBuilt DEF Before, BeforeControl, Controller, schedule
<1>3. CASE Fail /\ UNCHANGED schedule
  BY <1>3, BuildingStep, NothingBuilt DEF Before, BeforeControl, schedule
<1>4. QED
  BY <1>1, <1>2, <1>3
     DEF Next, vars, control, Disturbance, Reschedule, BindMongo, Informer, CacheSync,
         DeliverService, DeliverConf, DeliverMongo, AggregateStatus, Operator, Sync, Finalize

LEMMA InitServed == Init => AllServed /\ Known
<1> SUFFICES ASSUME Init PROVE AllServed /\ Known
  OBVIOUS
<1>0. DataOK /\ target \in Schedules
  BY InitType, TypeParts
<1>1. CASE Fresh
  <2>1. /\ cache = store /\ store.cm = NoConf /\ rs = {} /\ DOMAIN result = {}
        /\ \A c \in Clusters : conf[c] = NoConf /\ agg[c] = Absent /\ st[c].hosts = {}
    BY <1>1 DEF Init, Fresh, Topology, NewStatus
  <2>2. QED
    BY <2>1 DEF AllServed, Known, Real
<1>2. ASSUME NEW s \in Schedules, Deployed(s) PROVE AllServed /\ Known
  <2> DEFINE on(i) == {c \in DOMAIN s : i < s[c]}
             hosts == {h \in Hosts : h[1] \in on(h[2])}
             size(c) == IF c \in DOMAIN s THEN s[c] ELSE 0
             status(c) == [n |-> size(c), hosts |-> In(hosts, c), ok |-> TRUE]
  <2>1. /\ store = [svcs |-> {i \in Services : on(i) # {}}, pp |-> [i \in Services |-> on(i)],
                    cm |-> hosts]
        /\ result = [c \in Active(s) |-> [n |-> s[c], hosts |-> In(hosts, c)]]
        /\ agg = [c \in Clusters |-> IF size(c) = 0 THEN Absent ELSE status(c)]
        /\ conf = [c \in Clusters |-> IF size(c) = 0 THEN NoConf ELSE hosts]
        /\ rs = hosts
        /\ st = [c \in Clusters |-> IF size(c) = 0 THEN NewStatus ELSE status(c)]
    BY <1>2 DEF Deployed
  <2>2. \A h \in hosts : Served(h)
    <3>1. \A h \in hosts : h[2] \in Services /\ h[1] \in on(h[2])
      BY DEF Hosts
    <3>2. store.svcs = {i \in Services : on(i) # {}} /\ store.pp = [i \in Services |-> on(i)]
      BY <2>1
    <3> HIDE DEF on, hosts
    <3>3. QED
      BY <3>1, <3>2 DEF Served
  <2>3. AllServed
    <3>1. cache = store
      BY DEF Init
    <3>2. store.cm = hosts /\ rs = hosts /\ \A c \in Clusters : conf[c] \in {NoConf, hosts}
      BY <2>1
    <3> HIDE DEF hosts
    <3>3. QED
      BY <2>2, <3>1, <3>2 DEF AllServed
  <2>4. ASSUME NEW c \in Clusters
        PROVE  /\ st[c].hosts \subseteq In(rs, c)
               /\ Real(c) => agg[c].hosts \subseteq st[c].hosts
               /\ c \in DOMAIN result /\ result[c].hosts # {}
                      => Real(c) /\ result[c].hosts \subseteq agg[c].hosts
    <3>1. size(c) = Replicas(s, c)
      BY DEF Replicas
    <3>2. CASE size(c) = 0
      <4>1. c \notin Active(s)
        BY <3>1, <3>2, ReplicasType
      <4>2. st[c] = NewStatus /\ agg[c] = Absent /\ c \notin DOMAIN result
        BY <2>1, <3>2, <4>1
      <4>3. QED
        BY <4>2 DEF NewStatus, Real
    <3>3. CASE size(c) # 0
      <4>1. st[c] = status(c) /\ agg[c] = status(c) /\ rs = hosts
        BY <2>1, <3>3
      <4>2. status(c).hosts = In(hosts, c)
        OBVIOUS
      <4>3. c \in DOMAIN result => result[c].hosts = In(hosts, c)
        BY <2>1
      <4>4. agg[c] \notin {Absent, Nil}
        BY <1>0, <4>1, StatusesAssumption DEF DataOK
      <4> HIDE DEF status, hosts
      <4>5. QED
        BY <4>1, <4>2, <4>3, <4>4 DEF Real
    <3>4. QED
      BY <3>2, <3>3
  <2>5. QED
    BY <2>3, <2>4 DEF Known
<1>3. QED
  BY <1>1, <1>2 DEF Init

\* An operator that adds pods removes no member.
LEMMA SyncAdds ==
    ASSUME TypeOK, PassOK, BeforeData, NEW c \in Clusters, Sync(c), NEW d \in Clusters
    PROVE  In(rs, d) \subseteq In(rs', d)
<1>0. DataOK /\ target \in Schedules
  BY TypeParts
<1>1. PICK new \in SyncedPods(c, members[c]) :
         /\ members[c] > 0
         /\ rs' = rs \ HostsIn(c, pods[c] \ new) \/ rs' = Joined(c, new)
  BY <1>0, SyncResult
<1>2. pods[c] \subseteq new
  <2>1. /\ members[c] = Replicas(target, c) /\ members[c] \in 0 .. MaxSize
        /\ pods[c] \in SUBSET Below(members[c])
    BY <1>0, <1>1 DEF BeforeData, DataOK
  <2>2. /\ IsFiniteSet(pods[c]) /\ Cardinality(pods[c]) <= members[c]
        /\ Cardinality(pods[c]) \in Nat /\ members[c] \in Nat
    BY <2>1, BelowSize, FS_Subset, FS_CardinalityType
  <2>3. CASE Cardinality(pods[c]) < members[c]
    BY <1>1, <2>3 DEF SyncedPods
  <2>4. CASE Cardinality(pods[c]) = members[c]
    BY <1>1, <2>2, <2>4 DEF SyncedPods
  <2>5. QED
    BY <2>2, <2>3, <2>4
<1>3. HostsIn(c, pods[c] \ new) = {}
  BY <1>2 DEF HostsIn
<1>4. rs \subseteq rs'
  BY <1>1, <1>3 DEF Joined
<1>5. QED
  BY <1>4 DEF In

LEMMA KnownNext ==
    ASSUME TypeOK, PassOK, Before, Known, [Next]_vars
    PROVE  Known'
<1>0. DataOK /\ ControlOK
  BY TypeParts
<1>1. CASE UNCHANGED <<agg, rs, st, result>>
  BY <1>1 DEF Known, Real
<1>2. CASE Status /\ UNCHANGED <<agg, rs, st>>
  <2>1. ASSUME NEW c \in Clusters, c \in DOMAIN result', result'[c].hosts # {}
        PROVE  Real(c) /\ result'[c].hosts \subseteq agg[c].hosts
    <3>1. \/ c \in DOMAIN result /\ result'[c] = result[c]
          \/ Real(c) /\ result'[c].hosts = agg[c].hosts
      BY <1>0, <1>2, <2>1, StatusResult
    <3>2. QED
      BY <2>1, <3>1 DEF Known
  <2>2. QED
    BY <1>2, <2>1 DEF Known, Real
<1>3. CASE BindMongo
  <2>1. UNCHANGED <<rs, st, result>>
    BY <1>3 DEF BindMongo, data, control
  <2>2. \A c \in Clusters : agg'[c] = IF weight[c] = 0 THEN Absent
                                      ELSE IF agg[c] = Absent THEN Nil ELSE agg[c]
    BY <1>3 DEF BindMongo
  <2>3. ASSUME NEW c \in Clusters
        PROVE  /\ Real(c)' => agg'[c] = agg[c] /\ Real(c)
               /\ Real(c) => Real(c)' /\ agg'[c] = agg[c]
    BY <2>2 DEF Real, Before, BeforeData
  <2>4. QED
    BY <2>1, <2>3 DEF Known
<1>4. ASSUME NEW c \in Clusters, AggregateStatus(c) PROVE Known'
  <2>1. UNCHANGED <<rs, st, result>>
    BY <1>4 DEF AggregateStatus, data, control
  <2>2. \A d \in Clusters : agg'[d] = IF d = c THEN st[c] ELSE agg[d]
    BY <1>0, <1>4 DEF AggregateStatus, DataOK
  <2>3. \A d \in Clusters : Real(d) => Real(d)'
    BY <1>0, <2>2, StatusesAssumption DEF Real, DataOK
  <2>4. \A d \in Clusters : Real(d)' => agg'[d].hosts \subseteq st[d].hosts
    BY <2>2 DEF Real, Known
  <2>5. \A d \in Clusters : Real(d) => agg[d].hosts \subseteq agg'[d].hosts
    BY <2>2 DEF Known
  <2>6. ASSUME NEW d \in Clusters, d \in DOMAIN result, result[d].hosts # {}
        PROVE  Real(d)' /\ result[d].hosts \subseteq agg'[d].hosts
    BY <2>3, <2>5, <2>6 DEF Known
  <2>7. QED
    BY <2>1, <2>4, <2>6 DEF Known
<1>5. ASSUME NEW c \in Clusters, Sync(c) PROVE Known'
  <2>1. PICK new \in SyncedPods(c, members[c]), status \in MongoStatus :
          /\ st' = [st EXCEPT ![c] = status]
          /\ status.hosts = st[c].hosts \/ status.hosts = In(rs', c)
          /\ UNCHANGED <<control, agg>>
    BY <1>0, <1>5, SyncResult
  <2>2. \A d \in Clusters : st'[d] = IF d = c THEN status ELSE st[d]
    BY <1>0, <2>1 DEF DataOK
  <2>3. \A d \in Clusters : In(rs, d) \subseteq In(rs', d)
    BY <1>5, SyncAdds DEF Before
  <2>4. \A d \in Clusters : st[d].hosts \subseteq st'[d].hosts /\ st'[d].hosts \subseteq In(rs', d)
    BY <2>1, <2>2, <2>3 DEF Known
  <2>5. UNCHANGED <<agg, result>>
    BY <2>1 DEF control
  <2>6. QED
    BY <2>4, <2>5 DEF Known, Real
<1>6. \A c \in Clusters : ~Finalize(c)
  BY DEF Finalize, Before, BeforeData
<1>7. QED
  BY <1>1, <1>2, <1>3, <1>4, <1>5, <1>6
     DEF Next, vars, control, data, Controller, Handlers, Reconcile, CleanServices, PrunePolicy,
         UpsertService, HostConf, Mongo, Status, Restart, Disturbance, Fail, Reschedule,
         Informer, CacheSync, DeliverService, DeliverConf, DeliverMongo, Operator


-----------------------------------------------------------------------------
(* The members across the change.                                           *)

\* A cluster of the schedule that has settled runs its pods as members of the replica set.
LEMMA SettledMembers ==
    ASSUME TypeOK, PassOK, Before, Settled, NEW c \in Clusters
    PROVE  In(rs, c) = pods[c] /\ \A i \in pods[c] : <<c, i>> \in rs
<1>0. target \in Schedules /\ DataOK
  BY TypeParts
<1>1. rs = {h \in Hosts : h[2] \in pods[h[1]] /\ h[2] \in at[h[1]]} /\ rs = store.cm /\ cache = store
  BY DEF Settled, Delivered
<1>2. rs = Full(target)
  <2>1. store.cm # NoConf
    BY <1>1, NoConfAssumption DEF Hosts
  <2>2. QED
    BY <1>1, <2>1 DEF Before, BeforeControl, Building
<1>3. pods[c] \subseteq Below(Replicas(target, c)) /\ pods[c] \subseteq Services
  BY <1>0 DEF Before, BeforeData, DataOK
<1>4. ASSUME NEW i \in pods[c] PROVE <<c, i>> \in rs
  <2>1. i \in Services /\ i < Replicas(target, c) /\ <<c, i>> \in Hosts
    BY <1>3, <1>4 DEF Below, Hosts
  <2>2. c \in On(target, i)
    <3>1. i \in Nat
      BY <2>1 DEF Services
    <3>2. QED
      BY <2>1, <3>1 DEF On, Replicas
  <2>3. QED
    BY <1>2, <2>1, <2>2 DEF Full
<1>5. In(rs, c) \subseteq pods[c]
  BY <1>1 DEF In
<1>6. QED
  BY <1>3, <1>4, <1>5 DEF In

LEMMA ChangeKeeping ==
    ASSUME TypeOK, PassOK, Before, AllServed, Known, Settled, Reschedule, UNCHANGED <<agg, data>>,
           NEW s \in Schedules, s = target, target' \in Schedules, Shrinks(s, target'),
           InPass' => OldPass(s)'
    PROVE  Keeping(s)'
<1>0. target \in Schedules /\ DataOK
  BY TypeParts
<1>1. UNCHANGED <<store, cache, result, agg, members, pods, rs, st>>
  BY DEF Reschedule, data
<1>2. rec'.pc \notin {"clean", "prune"}
  BY DEF InPass, OldPass
<1>3. ASSUME NEW c \in Active(target') PROVE Kept(s, c)'
  <2>1. c \in Clusters /\ c \in Active(s) /\ Replicas(target', c) = target'[c]
        /\ target'[c] <= Replicas(s, c) /\ Replicas(s, c) \in Nat /\ target'[c] \in Nat
        /\ Replicas(s, c) > 0
    <3>1. c \in Clusters
      BY <1>3, ActiveType
    <3>2. Replicas(target', c) = target'[c] /\ Replicas(target', c) \in Nat /\ Replicas(target', c) > 0
      BY <1>3, <3>1, ReplicasType
    <3>3. Replicas(target', c) <= Replicas(s, c) /\ Replicas(s, c) \in Nat
      BY <3>1, ReplicasType DEF Shrinks
    <3>4. QED
      BY <3>1, <3>2, <3>3, ReplicasType
  <2>2. In(rs, c) = pods[c] /\ \A i \in pods[c] : <<c, i>> \in rs
    BY <2>1, SettledMembers
  <2>3. members[c] = Replicas(s, c) /\ Cardinality(pods[c]) = Replicas(s, c)
    BY <2>1, SettledBefore
  <2>4. c \in DOMAIN result /\ result[c].hosts = pods[c]
    BY <2>1 DEF Settled
  <2>5. pods[c] # {}
    BY <2>1, <2>3, FS_EmptySet
  <2>6. pods[c] \subseteq st[c].hosts \cap agg[c].hosts
    BY <2>1, <2>4, <2>5 DEF Known
  <2>7. \A i \in pods[c] : Served(<<c, i>>) /\ <<c, i>> \in store.cm \cap cache.cm
    BY <2>2 DEF AllServed, Settled, Delivered
  <2>8. QED
    BY <1>1, <1>2, <2>1, <2>2, <2>3, <2>4, <2>6, <2>7 DEF Kept, Served
<1>4. QED
  BY <1>3 DEF Keeping, OldPass

LEMMA GrowsSizes ==
    ASSUME NEW s \in Schedules, NEW t \in Schedules, Grows(s, t)
    PROVE  /\ Full(t) # Full(s) /\ s # t
           /\ \A i \in Services : On(s, i) \subseteq On(t, i)
           /\ \A c \in Clusters : Replicas(s, c) <= Replicas(t, c)
<1>1. PICK c \in DOMAIN t : t[c] > 0
  BY SchedulesAssumption
<1>2. c \in Active(t) /\ c \in Clusters
  BY <1>1, SchedulesAssumption DEF Active
<1>3. Replicas(s, c) < Replicas(t, c) /\ Replicas(s, c) \in Nat /\ Replicas(t, c) \in Nat
  BY <1>2, ReplicasType DEF Grows
<1>4. SizeIn(Full(s), c) = Replicas(s, c) /\ SizeIn(Full(t), c) = Replicas(t, c)
  BY <1>2, SizeInFull
<1>5. \A d \in Clusters : Replicas(s, d) <= Replicas(t, d)
  <2>1. ASSUME NEW d \in Clusters PROVE Replicas(s, d) <= Replicas(t, d)
    <3>1. Replicas(s, d) \in Nat /\ Replicas(t, d) \in Nat
      BY ReplicasType
    <3>2. CASE d \in Active(t)
      BY <3>1, <3>2 DEF Grows
    <3>3. CASE d \notin Active(t)
      BY <3>1, <3>3, ReplicasType DEF Grows
    <3>4. QED
      BY <3>2, <3>3
  <2>2. QED
    BY <2>1
<1>6. ASSUME NEW i \in Services, NEW d \in On(s, i) PROVE d \in On(t, i)
  <2>1. d \in DOMAIN s /\ i < s[d] /\ d \in Clusters /\ i \in Nat /\ s[d] \in Nat
    BY <1>6, SchedulesAssumption, SizeAssumption DEF On, Services
  <2>2. Replicas(s, d) = s[d] /\ d \in Active(s)
    BY <2>1 DEF Replicas, Active
  <2>3. d \in DOMAIN t /\ Replicas(t, d) = t[d] /\ Replicas(t, d) \in Nat
    BY <2>1, <2>2, ReplicasType DEF Grows, Active
  <2>4. QED
    BY <1>5, <2>1, <2>2, <2>3 DEF On
<1>7. QED
  BY <1>3, <1>4, <1>5, <1>6

LEMMA ChangeGrowing ==
    ASSUME TypeOK, PassOK, cache.pp = store.pp, Before, AllServed, Settled, Reschedule,
           [Next]_vars, UNCHANGED <<agg, data>>,
           NEW s \in Schedules, s = target, target' \in Schedules, Grows(s, target'),
           InPass' => OldPass(s)'
    PROVE  Growing(s)'
<1>0. target \in Schedules /\ DataOK
  BY TypeParts
<1>1. UNCHANGED <<store, cache>>
  BY DEF Reschedule
<1>2. store.cm # NoConf /\ cache = store
  BY NoConfAssumption DEF Settled, Delivered, Hosts
<1>3. store.cm = Full(s) /\ cache.cm = Full(s) /\ \A i \in Services : store.pp[i] = On(s, i)
  BY <1>2 DEF Before, BeforeControl, Building
<1>4. Full(target') # Full(s) /\ s # target'
  BY GrowsSizes
<1>5. Building([i \in Services |-> On(s, i)], Full(s))'
  <2>1. InPass' => rec'.goal = s
    BY DEF OldPass
  <2>2. QED
    BY <1>1, <1>3, <1>4, <2>1 DEF Building
<1>6. OnlyMore
  BY <1>1 DEF OnlyMore
<1>7. AllServed'
  BY <1>6, AllServedNext
<1>8. QED
  BY <1>1, <1>3, <1>5, <1>7 DEF Growing


-----------------------------------------------------------------------------
(* The members of clusters that grow.                                       *)

LEMMA GrowsUnbuilt ==
    ASSUME TypeOK, PassOK, NEW s \in Schedules, Grows(s, target)
    PROVE  Unbuilt([i \in Services |-> On(s, i)], Full(s))
<1>0. target \in Schedules
  BY TypeParts
<1>1. ASSUME NEW c \in DOMAIN target
      PROVE  /\ c \in Clusters /\ target[c] = Replicas(target, c)
             /\ target[c] \in Nat /\ Replicas(s, c) \in Nat
             /\ SizeIn(Full(s), c) = Replicas(s, c) /\ Replicas(s, c) <= target[c]
             /\ c \in Active(target) => Replicas(s, c) < target[c]
  <2>1. c \in Clusters
    BY <1>0, SchedulesAssumption
  <2>2. target[c] = Replicas(target, c)
    BY DEF Replicas
  <2>3. QED
    BY <1>0, <2>1, <2>2, ReplicasType, SizeInFull, GrowsSizes DEF Grows
<1>2. ClustersToScaleUp(target, Full(s)) = Active(target)
  BY <1>1 DEF ClustersToScaleUp, Active
<1>3. ClustersToScaleDown(target, Full(s)) = {}
  BY <1>1 DEF ClustersToScaleDown
<1>4. QED
  BY <1>0, <1>2, <1>3, GrowsSizes DEF Unbuilt

\* A pass that began before the change writes what there is.
LEMMA OldPassStep ==
    ASSUME TypeOK, PassOK, cache.pp = store.pp, "pp" \notin Lagging,
           NEW s \in Schedules, Grows(s, target), OldPass(s),
           Building([i \in Services |-> On(s, i)], Full(s)),
           \A i \in Services : store.pp[i] = On(s, i),
           UNCHANGED target, Handlers \/ Fail \/ \E k \in Kinds : CacheSync(k)
    PROVE  /\ Building([i \in Services |-> On(s, i)], Full(s))'
           /\ \A i \in Services : store'.pp[i] = On(s, i)
           /\ OnlyMore
<1>0. target \in Schedules /\ ControlOK
  BY TypeParts
<1>1. Full(target) # Full(s) /\ s # target
  BY <1>0, GrowsSizes
<1>2. rec.pc \in {"upsert", "mongo", "status"} /\ rec.goal = s
  BY DEF OldPass
<1> DEFINE Same == /\ \A i \in Services : store'.pp[i] = store.pp[i]
                   /\ store.svcs \subseteq store'.svcs
                   /\ store'.cm \in {store.cm, Full(s)} /\ cache'.cm \in {cache.cm, store'.cm}
                   /\ rec'.goal = s \/ rec'.pc \in {"idle", "panic"}
<1>3. ASSUME Same
      PROVE  /\ Building([i \in Services |-> On(s, i)], Full(s))'
             /\ \A i \in Services : store'.pp[i] = On(s, i)
             /\ OnlyMore
  <2>1. InPass' => rec'.goal # target
    BY <1>1, <1>3 DEF InPass
  <2>2. {store'.cm, cache'.cm} \subseteq {Full(s), Full(target)}
    BY <1>3 DEF Building
  <2>3. Full(target) \in {store'.cm, cache'.cm} => Full(target) \in {store.cm, cache.cm}
    BY <1>1, <1>3
  <2>4. OnlyMore
    BY <1>3 DEF OnlyMore
  <2>5. QED
    BY <1>3, <2>1, <2>2, <2>3, <2>4 DEF Building
<1>4. CASE Reconcile \/ CleanServices \/ \E i \in Services : PrunePolicy(i)
  BY <1>2, <1>4 DEF Reconcile, CleanServices, PrunePolicy
<1>5. ASSUME NEW i \in Services, UpsertService(i) PROVE Same
  <2>1. /\ store'.cm = store.cm /\ store.svcs \subseteq store'.svcs /\ Observe
        /\ rec.pc = "upsert" /\ i \in rec.todo
        /\ \/ store'.pp = store.pp /\ Return
           \/ /\ store'.pp = [store.pp EXCEPT ![i] = UpsertClusters(rec.goal, rec.up, i)]
              /\ rec' = [rec EXCEPT !.todo = @ \ {i}]
    BY <1>0, <1>5, UpsertServiceResult
  <2>2. UpsertClusters(rec.goal, rec.up, i) = On(s, i)
    BY <1>2, <2>1, ActiveOn DEF OldPass
  <2>3. \A j \in Services : store'.pp[j] = store.pp[j]
    BY <1>0, <2>1, <2>2 DEF ControlOK, Stored
  <2>4. rec'.goal = s \/ rec'.pc \in {"idle", "panic"}
    BY <1>0, <1>2, <2>1, IdleType DEF Return, ControlOK, Passes
  <2>5. cache'.cm \in {cache.cm, store'.cm}
    BY <2>1, ObserveResult
  <2>6. QED
    BY <2>1, <2>3, <2>4, <2>5
<1>6. ASSUME HostConf PROVE Same
  <2> DEFINE new == {h \in Hosts : h[1] \in cache.pp[h[2]]}
  <2>1. /\ store'.pp = store.pp /\ store'.svcs = store.svcs /\ Observe
        /\ store'.cm \in {store.cm, new}
        /\ Return \/ rec' = [rec EXCEPT !.pc = "mongo"]
    BY <1>0, <1>6, HostConfResult
  <2>2. new = Full(s)
    BY DEF Full, Hosts
  <2> HIDE DEF new
  <2>3. rec'.goal = s \/ rec'.pc \in {"idle", "panic"}
    BY <1>0, <1>2, <2>1, IdleType DEF Return, ControlOK, Passes
  <2>4. cache'.cm \in {cache.cm, store'.cm}
    BY <2>1, ObserveResult
  <2>5. QED
    BY <2>1, <2>2, <2>3, <2>4
<1>7. ASSUME Mongo \/ Status \/ Restart PROVE Same
  <2>1. UNCHANGED <<store, cache>>
    BY <1>7 DEF Mongo, Status, Restart
  <2>2. rec'.goal = s \/ rec'.pc \in {"idle", "panic"}
    BY <1>0, <1>2, <1>7, IdleType DEF Mongo, Status, Restart, Goto, Return, Panic, ControlOK, Passes
  <2>3. QED
    BY <2>1, <2>2
<1>8. ASSUME Fail PROVE Same
  BY <1>0, <1>2, <1>8, FailResult, ObserveResult, IdleType DEF Return
<1>9. ASSUME NEW k \in Kinds, CacheSync(k) PROVE Same
  <2>1. store' = store /\ rec' = rec /\ cache' = [cache EXCEPT ![k] = store[k]]
    BY <1>9 DEF CacheSync
  <2>2. cache'.cm \in {cache.cm, store.cm}
    BY <1>0, <2>1 DEF ControlOK, Stored, Kinds
  <2>3. QED
    BY <1>2, <2>1, <2>2
<1>10. QED
  BY <1>3, <1>4, <1>5, <1>6, <1>7, <1>8, <1>9 DEF Handlers

LEMMA GrowingNext ==
    ASSUME TypeOK, PassOK, cache.pp = store.pp, "pp" \notin Lagging,
           NEW s \in Schedules, After(s), Growing(s), [Next]_vars, ~Reschedule
    PROVE  Growing(s)'
<1> DEFINE old == [i \in Services |-> On(s, i)]
<1>1. CASE UNCHANGED <<target, store, cache, rec>>
  <2>1. OnlyMore
    BY <1>1 DEF OnlyMore
  <2>2. AllServed'
    BY <2>1, AllServedNext DEF Growing
  <2>3. Building(old, Full(s))'
    BY <1>1 DEF Growing, Building, InPass
  <2>4. QED
    BY <1>1, <2>2, <2>3 DEF Growing, InPass
<1>2. CASE UNCHANGED target /\ (Handlers \/ Fail \/ \E k \in Kinds : CacheSync(k))
  <2>1. /\ Building(old, Full(s))' /\ OnlyMore
        /\ InPass' => rec'.goal = target \/ \A i \in Services : store'.pp[i] = On(s, i)
    <3>1. CASE InPass => rec.goal = target
      <4>1. Unbuilt(old, Full(s)) /\ Building(old, Full(s))
        BY GrowsUnbuilt DEF Growing
      <4> HIDE DEF old
      <4>2. QED
        BY <1>2, <3>1, <4>1, BuildingStep
    <3>2. CASE InPass /\ rec.goal # target
      <4>1. OldPass(s) /\ \A i \in Services : store.pp[i] = On(s, i)
        BY <3>2 DEF After, AfterControl, Growing
      <4>2. QED
        BY <1>2, <4>1, OldPassStep DEF Growing
    <3>3. QED
      BY <3>1, <3>2
  <2>2. AllServed'
    BY <2>1, AllServedNext DEF Growing
  <2>3. QED
    BY <1>2, <2>1, <2>2 DEF Growing
<1>3. QED
  BY <1>1, <1>2
     DEF Next, vars, schedule, control, Controller, Disturbance, BindMongo, Informer,
         DeliverService, DeliverConf, DeliverMongo, AggregateStatus, Operator, Sync, Finalize


-----------------------------------------------------------------------------
(* The members of clusters that shrink.                                     *)

\* The hosts of a cluster that stays are still known and served.
Untouched(c) ==
    /\ c \in DOMAIN result /\ pods[c] \subseteq result[c].hosts
    /\ \A i \in pods[c] : /\ Served(<<c, i>>) /\ <<c, i>> \in store.cm \cap cache.cm
                          /\ rec.pc \in {"clean", "prune"} => c \in rec.list[i]

LEMMA KeptUntouched == \A s, c : Kept(s, c) => Untouched(c)
  BY DEF Kept, Untouched

LEMMA KeepingSizes ==
    ASSUME TypeOK, PassOK, NEW s \in Schedules, After(s), Keeping(s), NEW c \in Active(target)
    PROVE  /\ c \in Clusters /\ c \in Active(s) /\ c \in DOMAIN s /\ c \in DOMAIN target
           /\ target[c] = Replicas(target, c) /\ target[c] \in Nat /\ 0 < target[c]
           /\ Replicas(s, c) \in Nat /\ target[c] <= Replicas(s, c)
           /\ Real(c) /\ weight[c] \in {target[c], Replicas(s, c)} /\ weight[c] \in Nat
           /\ pods[c] \in SUBSET Below(Replicas(s, c)) /\ pods[c] \in SUBSET Services
           /\ IsFiniteSet(pods[c]) /\ Cardinality(pods[c]) \in Nat
<1>0. target \in Schedules /\ DataOK
  BY TypeParts
<1>1. c \in Clusters
  BY <1>0, ActiveType
<1>2. target[c] = Replicas(target, c) /\ Replicas(target, c) \in Nat /\ 0 < Replicas(target, c)
  BY <1>0, <1>1, ReplicasType
<1>3. Replicas(s, c) \in Nat /\ Replicas(target, c) <= Replicas(s, c) /\ Replicas(s, c) \in 0 .. MaxSize
  BY <1>1, ReplicasType DEF Keeping, Shrinks
<1>4. c \in Active(s)
  BY <1>1, <1>2, <1>3, ReplicasType
<1>5. weight[c] \in {Replicas(target, c), Replicas(s, c)}
  BY <1>0, <1>1, SizesType DEF After, AfterControl
<1>6. Real(c)
  BY <1>1, <1>2, <1>3, <1>5 DEF After, AfterControl, Real
<1>7. pods[c] \subseteq Below(Replicas(s, c)) \cup Below(Replicas(target, c))
  BY <1>1 DEF After, AfterData
<1>8. Below(Replicas(target, c)) \subseteq Below(Replicas(s, c))
  <2>1. \A i \in Services : i \in Nat
    BY DEF Services
  <2>2. QED
    BY <1>2, <1>3, <2>1 DEF Below
<1>9. pods[c] \in SUBSET Below(Replicas(s, c))
  BY <1>7, <1>8
<1>10. IsFiniteSet(pods[c]) /\ Cardinality(pods[c]) \in Nat
  BY <1>3, <1>9, BelowSize, FS_Subset, FS_CardinalityType
<1>11. QED
  BY <1>0, <1>1, <1>2, <1>3, <1>4, <1>5, <1>6, <1>9, <1>10 DEF Active, DataOK

\* What the shape of Keeping leaves to show of a handler.
LEMMA KeepingKept ==
    ASSUME NEW s \in Schedules, Keeping(s), UNCHANGED <<target, agg, data>>,
           rec'.pc = "upsert" => OldPass(s)' \/ rec'.todo = {},
           \A c \in Active(target) : Untouched(c)'
    PROVE  Keeping(s)'
<1>1. UNCHANGED <<agg, members, pods, rs, st>>
  BY DEF data
<1>2. ASSUME NEW c \in Active(target) PROVE Kept(s, c)'
  BY <1>1, <1>2 DEF Keeping, Kept, Untouched
<1>3. QED
  BY <1>2 DEF Keeping

LEMMA KeepingReconcile ==
    ASSUME TypeOK, PassOK, cache.pp = store.pp, NEW s \in Schedules, After(s), Keeping(s),
           Reconcile, UNCHANGED <<target, agg, data>>
    PROVE  Keeping(s)'
<1> DEFINE up   == ClustersToScaleUp(target, cache.cm)
           down == ClustersToScaleDown(target, cache.cm)
<1>0. ControlOK /\ DataOK
  BY TypeParts
<1>1. up = {}
  <2>1. ASSUME NEW c \in Active(target) PROVE c \notin up
    <3>1. c \in Clusters /\ target[c] \in Nat /\ pods[c] \in SUBSET Services
          /\ target[c] <= members[c] /\ members[c] <= Cardinality(pods[c]) /\ members[c] \in Nat
      BY <1>0, <2>1, KeepingSizes DEF Keeping, Kept, DataOK
    <3>2. cache.cm # NoConf /\ cache.cm \in SUBSET Hosts
      BY <1>0 DEF After, AfterControl, ControlOK, Stored
    <3>3. \A i \in pods[c] : <<c, i>> \in cache.cm
      BY <2>1 DEF Keeping, Kept
    <3>4. SizeIn(cache.cm, c) \in Nat /\ Cardinality(pods[c]) \in Nat
          /\ Cardinality(pods[c]) <= SizeIn(cache.cm, c)
      BY <3>1, <3>2, <3>3, SizeInSubset
    <3>5. QED
      BY <3>1, <3>2, <3>4 DEF ClustersToScaleUp
  <2>2. QED
    BY <2>1 DEF ClustersToScaleUp
<1>2. /\ UNCHANGED <<store, cache, weight, result>> /\ rec.pc = "idle"
      /\ \/ rec'.pc = "panic"
         \/ rec'.pc = "upsert" /\ rec'.todo = {}
         \/ rec'.list = cache.pp /\ rec'.pc \in {"clean", "hostconf"}
  <2>1. \A i \in Services : UpsertClusters(target, {}, i) = {}
    BY DEF UpsertClusters
  <2>2. Panic => rec'.pc = "panic"
    BY IdleType DEF Panic, Passes
  <2> HIDE DEF up, down
  <2>3. QED
    BY <1>1, <2>1, <2>2, ReconcileResult DEF up, down
<1>3. ASSUME NEW c \in Active(target) PROVE Untouched(c)'
  <2>1. UNCHANGED <<store, cache, result, pods>>
    BY <1>2 DEF data
  <2>2. Untouched(c) /\ \A i \in pods[c] : c \in cache.pp[i]
    BY <1>3, KeptUntouched DEF Keeping, Untouched, Served
  <2>3. QED
    BY <1>2, <2>1, <2>2 DEF Untouched, Served
<1>4. QED
  BY <1>2, <1>3, KeepingKept

LEMMA KeepingClean ==
    ASSUME TypeOK, PassOK, cache.pp = store.pp, "pp" \notin Lagging,
           NEW s \in Schedules, After(s), Keeping(s),
           CleanServices \/ \E i \in Services : PrunePolicy(i), UNCHANGED <<target, agg, data>>
    PROVE  Keeping(s)'
<1>0. ControlOK /\ UNCHANGED pods
  BY TypeParts DEF data
<1>1. Return => rec'.pc = "idle"
  BY IdleType DEF Return
<1>2. \A c \in Active(target) : Untouched(c)
  BY KeptUntouched DEF Keeping
<1>3. CASE CleanServices
  <2>1. /\ store'.pp = store.pp /\ store'.cm = store.cm /\ Observe
        /\ store.svcs \cap EffectServices(result) \subseteq store'.svcs
        /\ result' = result /\ rec.pc = "clean"
        /\ rec'.pc = "idle" \/ (rec'.pc = "prune" /\ rec'.list = rec.list)
    BY <1>0, <1>1, <1>3, CleanServicesResult
  <2>2. cache'.cm \in {cache.cm, store.cm}
    BY <2>1, ObserveResult
  <2>3. \A c \in Active(target) : pods[c] \subseteq EffectServices(result)
    BY <1>2 DEF Untouched, EffectServices
  <2>4. \A c \in Active(target) : Untouched(c)'
    BY <1>0, <1>2, <2>1, <2>2, <2>3 DEF Untouched, Served
  <2>5. QED
    BY <2>1, <2>4, KeepingKept
<1>4. ASSUME NEW i \in Services, PrunePolicy(i) PROVE Keeping(s)'
  <2>1. /\ store'.cm = store.cm /\ store'.svcs = store.svcs
        /\ Observe /\ result' = result /\ rec.pc = "prune"
        /\ \A j \in Services :
              store.pp[j] \cap KeptClusters(result, rec.list[j], j) \subseteq store'.pp[j]
        /\ rec'.pc = "idle" \/ (rec'.pc = "prune" /\ rec'.list = rec.list)
    BY <1>0, <1>1, <1>4, PrunePolicyResult
  <2>2. cache'.cm \in {cache.cm, store.cm}
    BY <2>1, ObserveResult
  <2>3. ASSUME NEW c \in Active(target), NEW j \in pods[c] PROVE c \in store'.pp[j]
    <3>1. c \in KeptClusters(result, rec.list[j], j) /\ c \in store.pp[j]
      BY <1>2, <2>1, <2>3 DEF Untouched, Served, KeptClusters
    <3>2. j \in Services
      BY <2>3, KeepingSizes
    <3>3. QED
      BY <2>1, <3>1, <3>2
  <2>4. \A c \in Active(target) : Untouched(c)'
    BY <1>0, <1>2, <2>1, <2>2, <2>3 DEF Untouched, Served
  <2>5. QED
    BY <2>1, <2>4, KeepingKept
<1>5. QED
  BY <1>3, <1>4


\* Only a pass that began before the change still writes policies.
LEMMA KeepingUpsertService ==
    ASSUME TypeOK, PassOK, cache.pp = store.pp, "pp" \notin Lagging,
           NEW s \in Schedules, After(s), Keeping(s),
           NEW i \in Services, UpsertService(i), UNCHANGED <<target, agg, data>>
    PROVE  Keeping(s)'
<1>0. ControlOK /\ UNCHANGED pods
  BY TypeParts DEF data
<1>1. /\ store'.cm = store.cm /\ store.svcs \subseteq store'.svcs
      /\ Observe /\ UNCHANGED <<weight, result>>
      /\ rec.pc = "upsert" /\ i \in rec.todo
      /\ \/ store'.pp = store.pp /\ Return
         \/ /\ store'.pp = [store.pp EXCEPT ![i] = UpsertClusters(rec.goal, rec.up, i)]
            /\ rec' = [rec EXCEPT !.todo = @ \ {i}]
  BY <1>0, UpsertServiceResult
<1>2. cache'.cm \in {cache.cm, store.cm}
  BY <1>1, ObserveResult
<1>3. OldPass(s)
  BY <1>1 DEF Keeping, After, AfterControl, InPass
<1>4. UpsertClusters(rec.goal, rec.up, i) = On(s, i)
  BY <1>1, <1>3, ActiveOn DEF OldPass
<1>5. \A j \in Services : store'.pp[j] = store.pp[j] \/ (j = i /\ store'.pp[j] = On(s, i))
  BY <1>0, <1>1, <1>4 DEF ControlOK, Stored
<1>6. rec'.pc = "idle" \/ (rec'.pc = "upsert" /\ OldPass(s)')
  <2>1. CASE Return
    BY <2>1, IdleType DEF Return
  <2>2. CASE rec' = [rec EXCEPT !.todo = @ \ {i}]
    <3>1. /\ rec'.pc = rec.pc /\ rec'.goal = rec.goal /\ rec'.fresh = rec.fresh
          /\ rec'.up = rec.up /\ rec'.todo \subseteq rec.todo
      BY <1>0, <2>2 DEF ControlOK, Passes
    <3>2. QED
      BY <1>1, <1>3, <3>1 DEF OldPass
  <2>3. QED
    BY <1>1, <2>1, <2>2
<1>7. ASSUME NEW c \in Active(target), NEW j \in pods[c] PROVE c \in store'.pp[j]
  <2>1. c \in DOMAIN s /\ j \in Services /\ j < Replicas(s, c)
    BY <1>7, KeepingSizes DEF Below
  <2>2. c \in On(s, j)
    BY <2>1 DEF On, Replicas
  <2>3. c \in store.pp[j]
    BY <1>7, KeptUntouched DEF Keeping, Untouched, Served
  <2>4. QED
    BY <1>5, <2>1, <2>2, <2>3
<1>8. \A c \in Active(target) : Untouched(c)'
  BY <1>0, <1>1, <1>2, <1>6, <1>7, KeptUntouched DEF Keeping, Untouched, Served
<1>9. QED
  BY <1>6, <1>8, KeepingKept

LEMMA KeepingHostConf ==
    ASSUME TypeOK, PassOK, cache.pp = store.pp, "pp" \notin Lagging,
           NEW s \in Schedules, After(s), Keeping(s),
           HostConf, UNCHANGED <<target, agg, data>>
    PROVE  Keeping(s)'
<1> DEFINE new == {h \in Hosts : h[1] \in cache.pp[h[2]]}
<1>0. ControlOK /\ UNCHANGED pods
  BY TypeParts DEF data
<1>1. /\ store'.pp = store.pp /\ store'.svcs = store.svcs /\ Observe /\ result' = result
      /\ store'.cm \in {store.cm, new}
      /\ Return \/ rec' = [rec EXCEPT !.pc = "mongo"]
  BY <1>0, HostConfResult
<1>2. rec'.pc \in {"idle", "mongo"}
  BY <1>0, <1>1, IdleType DEF Return, ControlOK, Passes
<1>3. cache'.cm \in {cache.cm, store'.cm}
  BY <1>1, ObserveResult
<1>4. ASSUME NEW c \in Active(target), NEW i \in pods[c] PROVE <<c, i>> \in new
  <2>1. c \in Clusters /\ i \in Services
    BY <1>4, KeepingSizes
  <2>2. c \in store.pp[i]
    BY <1>4, KeptUntouched DEF Keeping, Untouched, Served
  <2>3. QED
    BY <2>1, <2>2 DEF Hosts
<1> HIDE DEF new
<1>5. ASSUME NEW c \in Active(target) PROVE Untouched(c)'
  <2>1. Untouched(c)
    BY <1>5, KeptUntouched DEF Keeping
  <2>2. \A i \in pods[c] : <<c, i>> \in store'.cm \cap cache'.cm
    BY <1>1, <1>3, <1>4, <1>5, <2>1 DEF Untouched
  <2>3. QED
    BY <1>0, <1>1, <1>2, <2>1, <2>2 DEF Untouched, Served
<1>6. QED
  BY <1>2, <1>5, KeepingKept

\* Every status that Status takes over names the pods of its cluster.
LEMMA KeepingStatus ==
    ASSUME TypeOK, PassOK, NEW s \in Schedules, After(s), Keeping(s),
           Status, UNCHANGED <<target, agg, data>>
    PROVE  Keeping(s)'
<1>0. ControlOK /\ UNCHANGED pods
  BY TypeParts DEF data
<1>1. UNCHANGED <<store, cache>> /\ rec.pc = "status" /\ rec'.pc \in {"idle", "panic"}
  BY <1>0, IdleType DEF Status, Return, Panic, Passes
<1>2. Present = Reported
  BY DEF Reported, Present, After, AfterControl
<1>3. ASSUME rec.fresh, NEW c \in Active(target)
      PROVE  c \in DOMAIN result' /\ pods[c] \subseteq result'[c].hosts
  <2>1. rec.goal = target
    BY <1>1, <1>3 DEF After, AfterControl, InPass, OldPass
  <2>2. Active(target) \in SUBSET Present
    BY KeepingSizes DEF Present, Real
  <2>3. IsFiniteSet(Present)
    BY ClustersAssumption, FS_Subset DEF Present
  <2>4. Cardinality(Active(target)) <= Cardinality(Present) /\ Cardinality(Active(target)) \in Nat
        /\ Cardinality(Present) \in Nat
    BY <2>2, <2>3, FS_Subset, FS_CardinalityType
  <2>5. ~Incomplete(rec.goal)
    BY <2>1, <2>4 DEF Incomplete
  <2>6. c \in Clusters /\ Real(c) /\ c \in DOMAIN target
    BY <1>3, KeepingSizes
  <2>7. c \in DOMAIN result /\ pods[c] \subseteq result[c].hosts /\ pods[c] \subseteq agg[c].hosts
    BY <1>3 DEF Keeping, Kept
  <2>8. c \in DOMAIN result'
        /\ result'[c] \in {result[c], [n |-> agg[c].n, hosts |-> agg[c].hosts]}
    BY <1>2, <2>1, <2>5, <2>6, <2>7, StatusKeeps
  <2>9. QED
    BY <2>7, <2>8
<1>4. ~rec.fresh => result' = result
  BY DEF Status, WriteStatus
<1>5. \A c \in Active(target) : Untouched(c)'
  BY <1>0, <1>1, <1>3, <1>4, KeptUntouched DEF Keeping, Untouched, Served
<1>6. QED
  BY <1>1, <1>5, KeepingKept

LEMMA KeepingOther ==
    ASSUME TypeOK, PassOK, "pp" \notin Lagging, NEW s \in Schedules, After(s), Keeping(s),
           Mongo \/ Restart \/ Fail \/ \E k \in Kinds : CacheSync(k),
           UNCHANGED <<target, agg, data>>
    PROVE  Keeping(s)'
<1>0. ControlOK /\ UNCHANGED pods
  BY TypeParts DEF data
<1>1. \A c \in Active(target) : Untouched(c)
  BY KeptUntouched DEF Keeping
<1>2. CASE Mongo \/ Restart
  <2>1. UNCHANGED <<store, cache, result>> /\ rec'.pc \in {"status", "idle"}
    BY <1>0, <1>2, IdleType DEF Mongo, Restart, Return, Goto, ControlOK, Passes
  <2>2. \A c \in Active(target) : Untouched(c)'
    BY <1>0, <1>1, <2>1 DEF Untouched, Served
  <2>3. QED
    BY <2>1, <2>2, KeepingKept
<1>3. CASE Fail
  <2>1. /\ store'.pp = store.pp /\ store'.cm = store.cm /\ Observe
        /\ store.svcs \cap EffectServices(result) \subseteq store'.svcs
        /\ result' = result /\ rec'.pc = "idle"
    BY <1>0, <1>3, FailResult, IdleType DEF Return
  <2>2. cache'.cm \in {cache.cm, store.cm}
    BY <2>1, ObserveResult
  <2>3. \A c \in Active(target) : pods[c] \subseteq EffectServices(result)
    BY <1>1 DEF Untouched, EffectServices
  <2>4. \A c \in Active(target) : Untouched(c)'
    BY <1>0, <1>1, <2>1, <2>2, <2>3 DEF Untouched, Served
  <2>5. QED
    BY <2>1, <2>4, KeepingKept
<1>4. ASSUME NEW k \in Kinds, CacheSync(k) PROVE Keeping(s)'
  <2>1. /\ UNCHANGED <<store, result, rec, weight>> /\ cache'.cm \in {cache.cm, store.cm}
    BY <1>0, <1>4 DEF CacheSync, ControlOK, Stored, Kinds
  <2>2. \A c \in Active(target) : Untouched(c)'
    BY <1>0, <1>1, <2>1 DEF Untouched, Served
  <2>3. rec.pc = "upsert" => OldPass(s) \/ rec.todo = {}
    BY DEF Keeping, After, AfterControl, InPass
  <2>4. rec'.pc = "upsert" => OldPass(s)' \/ rec'.todo = {}
    BY <2>1, <2>3 DEF OldPass
  <2>5. QED
    BY <2>2, <2>4, KeepingKept
<1>5. QED
  BY <1>2, <1>3, <1>4


\* Karmada and the operators leave the handlers' part of Keeping alone.
LEMMA KeepingData ==
    ASSUME NEW s \in Schedules, Keeping(s), UNCHANGED <<target, store, cache, weight, result, rec>>,
           \A c \in Active(target) :
               /\ In(rs, c)' = pods'[c]
               /\ target[c] <= members'[c] /\ members'[c] <= Cardinality(pods'[c])
               /\ pods'[c] \subseteq pods[c] \cap st'[c].hosts \cap agg'[c].hosts
    PROVE  Keeping(s)'
<1>1. ASSUME NEW c \in Active(target) PROVE Kept(s, c)'
  <2>1. Kept(s, c)
    BY <1>1 DEF Keeping
  <2>2. \A i \in pods'[c] : i \in pods[c]
    BY <1>1
  <2>3. QED
    BY <1>1, <2>1, <2>2 DEF Kept, Served
<1>2. InPass' /\ rec'.goal = target' /\ rec'.pc = "upsert" => OldPass(s)' \/ rec'.todo = {}
  BY DEF Keeping, InPass, OldPass
<1>3. QED
  BY <1>1, <1>2 DEF Keeping

LEMMA KeepingDeliver ==
    ASSUME TypeOK, PassOK, NEW s \in Schedules, After(s), Keeping(s), NEW c \in Clusters,
           DeliverConf(c) \/ DeliverMongo(c) \/ \E i \in Services : DeliverService(c, i)
    PROVE  Keeping(s)'
<1>0. DataOK
  BY TypeParts
<1>1. UNCHANGED <<target, store, cache, weight, result, rec, agg, rs, pods, st>>
  BY DEF DeliverConf, DeliverMongo, DeliverService, schedule, control
<1>2. ASSUME NEW d \in Active(target)
      PROVE  target[d] <= members'[d] /\ members'[d] <= Cardinality(pods[d])
  <2>1. Kept(s, d)
    BY <1>2 DEF Keeping
  <2>2. CASE members'[d] = members[d]
    BY <2>1, <2>2 DEF Kept
  <2>3. CASE members'[d] # members[d]
    <3>1. DeliverMongo(c) /\ d = c /\ members'[d] = weight[d]
      <4>1. DeliverMongo(c)
        BY <2>3 DEF DeliverConf, DeliverService
      <4>2. weight[c] # 0 /\ members' = [members EXCEPT ![c] = weight[c]]
        BY <2>3, <4>1 DEF DeliverMongo
      <4>3. QED
        BY <1>0, <2>3, <4>1, <4>2 DEF DataOK
    <3>2. /\ target[d] \in Nat /\ Replicas(s, d) \in Nat /\ target[d] <= Replicas(s, d)
          /\ weight[d] \in {target[d], Replicas(s, d)} /\ Cardinality(pods[d]) \in Nat
          /\ d \in Clusters /\ target[d] = Replicas(target, d)
      BY <1>2, KeepingSizes
    <3>3. target[d] <= Cardinality(pods[d])
      BY <1>0, <2>1, <3>2 DEF Kept, DataOK
    <3>4. CASE d \notin Shrinking(s)
      <4>1. Replicas(s, d) = target[d]
        BY <1>2, <3>2, <3>4 DEF Shrinking
      <4>2. QED
        BY <3>1, <3>2, <3>3, <4>1
    <3>5. CASE d \in Shrinking(s)
      <4>1. \/ Cardinality(pods[d]) = Replicas(s, d)
            \/ weight = Sizes(target)
        BY <3>5 DEF After, AfterData
      <4>2. weight = Sizes(target) => weight[d] = target[d]
        BY <3>2 DEF Sizes
      <4>3. QED
        BY <3>1, <3>2, <3>3, <4>1, <4>2
    <3>6. QED
      BY <3>4, <3>5
  <2>4. QED
    BY <2>2, <2>3
<1>3. \A d \in Active(target) : /\ In(rs, d)' = pods[d]
                               /\ pods[d] \subseteq st[d].hosts \cap agg[d].hosts
  BY <1>1 DEF Keeping, Kept, In
<1>4. QED
  BY <1>1, <1>2, <1>3, KeepingData

LEMMA KeepingStatuses ==
    ASSUME TypeOK, PassOK, NEW s \in Schedules, After(s), Keeping(s),
           BindMongo \/ \E c \in Clusters : AggregateStatus(c)
    PROVE  Keeping(s)'
<1>0. DataOK
  BY TypeParts
<1>1. UNCHANGED <<target, store, cache, weight, result, rec, members, rs, pods, st>>
  BY DEF BindMongo, AggregateStatus, schedule, control, data
<1>2. ASSUME NEW d \in Active(target) PROVE pods[d] \subseteq agg'[d].hosts
  <2>1. /\ d \in Clusters /\ weight[d] # 0 /\ Real(d)
    BY <1>2, KeepingSizes
  <2>2. pods[d] \subseteq agg[d].hosts /\ pods[d] \subseteq st[d].hosts
    BY <1>2 DEF Keeping, Kept
  <2>3. CASE BindMongo
    BY <2>1, <2>2, <2>3 DEF BindMongo, Real
  <2>4. ASSUME NEW c \in Clusters, AggregateStatus(c) PROVE pods[d] \subseteq agg'[d].hosts
    BY <1>0, <2>1, <2>2, <2>4 DEF AggregateStatus, DataOK
  <2>5. QED
    BY <2>3, <2>4
<1>3. \A d \in Active(target) : /\ In(rs, d)' = pods[d]
                               /\ target[d] <= members[d] /\ members[d] <= Cardinality(pods[d])
                               /\ pods[d] \subseteq st[d].hosts
  BY <1>1 DEF Keeping, Kept, In
<1>4. QED
  BY <1>1, <1>2, <1>3, KeepingData

\* An operator removes a member of the replica set together with its pod.
LEMMA KeepingSync ==
    ASSUME TypeOK, PassOK, NEW s \in Schedules, After(s), Keeping(s), NEW c \in Clusters, Sync(c)
    PROVE  Keeping(s)'
<1>0. DataOK
  BY TypeParts
<1>1. PICK new \in SyncedPods(c, members[c]), status \in MongoStatus :
         /\ members[c] > 0 /\ c \notin deleting
         /\ pods' = [pods EXCEPT ![c] = new] /\ st' = [st EXCEPT ![c] = status]
         /\ \/ /\ status.hosts = st[c].hosts /\ rs' = rs \ HostsIn(c, pods[c] \ new)
            \/ /\ rs' = Joined(c, new) /\ status.hosts = In(rs', c)
         /\ UNCHANGED <<schedule, control, agg, at, conf, members, deleting>>
  BY <1>0, SyncResult
<1>2. UNCHANGED <<target, store, cache, weight, result, rec, agg, members>>
  BY <1>1 DEF schedule, control
<1>3. \A d \in Clusters : /\ pods'[d] = IF d = c THEN new ELSE pods[d]
                         /\ st'[d] = IF d = c THEN status ELSE st[d]
  BY <1>0, <1>1 DEF DataOK
<1>4. ASSUME NEW d \in Active(target)
      PROVE  /\ In(rs', d) = pods'[d]
             /\ target[d] <= members[d] /\ members[d] <= Cardinality(pods'[d])
             /\ pods'[d] \subseteq pods[d] \cap st'[d].hosts \cap agg[d].hosts
  <2>1. /\ d \in Clusters /\ target[d] \in Nat /\ 0 < target[d]
        /\ pods[d] \in SUBSET Services /\ IsFiniteSet(pods[d]) /\ Cardinality(pods[d]) \in Nat
    BY <1>4, KeepingSizes
  <2>2. /\ In(rs, d) = pods[d] /\ members[d] \in Nat
        /\ target[d] <= members[d] /\ members[d] <= Cardinality(pods[d])
        /\ pods[d] \subseteq st[d].hosts \cap agg[d].hosts
    BY <1>0, <1>4, <2>1 DEF Keeping, Kept, DataOK
  <2>3. rs # {}
    <3>1. pods[d] # {}
      BY <2>1, <2>2, FS_EmptySet
    <3>2. QED
      BY <2>2, <3>1 DEF In
  <2>4. \/ rs' = rs \ HostsIn(c, pods[c] \ new)
        \/ rs' = (rs \ HostsIn(c, pods[c] \ new)) \cup (HostsIn(c, new \cap at[c]) \cap conf[c])
    BY <1>1, <2>3 DEF Joined
  <2>5. CASE d # c
    <3>1. In(rs', d) = In(rs, d)
      BY <2>4, <2>5 DEF In, HostsIn
    <3>2. QED
      BY <1>3, <2>1, <2>2, <2>5, <3>1
  <2>6. CASE d = c
    <3>1. new \subseteq pods[c] /\ members[c] <= Cardinality(new)
      <4>1. CASE Cardinality(pods[c]) = members[c]
        <5>1. ~(Cardinality(pods[c]) < members[c])
          BY <2>1, <2>2, <2>6, <4>1
        <5>2. new = pods[c]
          BY <1>1, <4>1, <5>1 DEF SyncedPods
        <5>3. QED
          BY <2>2, <2>6, <5>2
      <4>2. CASE Cardinality(pods[c]) # members[c]
        <5>1. ~(Cardinality(pods[c]) < members[c])
          BY <2>1, <2>2, <2>6
        <5>2. new \in IF conf[c] = NoConf THEN {pods[c]} ELSE kSubset(members[c], pods[c])
          BY <1>1, <4>2, <5>1 DEF SyncedPods
        <5>3. new = pods[c] \/ (new \subseteq pods[c] /\ Cardinality(new) = members[c])
          BY <5>2 DEF kSubset
        <5>4. QED
          BY <2>2, <2>6, <5>3
      <4>3. QED
        BY <4>1, <4>2
    <3>2. In(rs', c) = new
      BY <2>1, <2>2, <2>4, <2>6, <3>1 DEF In, HostsIn
    <3>3. new \subseteq status.hosts
      BY <1>1, <2>2, <2>6, <3>1, <3>2
    <3>4. QED
      BY <1>3, <2>1, <2>2, <2>6, <3>1, <3>2, <3>3
  <2>7. QED
    BY <2>5, <2>6
<1>5. QED
  BY <1>2, <1>4, KeepingData DEF In

LEMMA KeepingFinalize ==
    ASSUME TypeOK, PassOK, NEW s \in Schedules, After(s), Keeping(s), NEW c \in Clusters, Finalize(c)
    PROVE  Keeping(s)'
<1>0. DataOK
  BY TypeParts
<1>1. /\ UNCHANGED <<target, store, cache, weight, result, rec, agg>>
      /\ rs' = rs \/ rs' = rs \ HostsIn(c, pods[c])
      /\ \A d \in Clusters \ {c} : /\ pods'[d] = pods[d] /\ members'[d] = members[d]
                                  /\ st'[d] = st[d]
  BY <1>0 DEF Finalize, Remove, Report, schedule, control, DataOK
<1>2. Replicas(target, c) = 0
  BY DEF Finalize, After, AfterData
<1>3. ASSUME NEW d \in Active(target)
      PROVE  /\ In(rs', d) = pods'[d]
             /\ target[d] <= members'[d] /\ members'[d] <= Cardinality(pods'[d])
             /\ pods'[d] \subseteq pods[d] \cap st'[d].hosts \cap agg[d].hosts
  <2>1. d \in Clusters \ {c}
    BY <1>2, <1>3, KeepingSizes
  <2>2. In(rs', d) = In(rs, d)
    BY <1>1, <2>1 DEF In, HostsIn
  <2>3. QED
    BY <1>1, <1>3, <2>1, <2>2 DEF Keeping, Kept
<1>4. QED
  BY <1>1, <1>3, KeepingData DEF In


LEMMA KeepingNext ==
    ASSUME TypeOK, PassOK, cache.pp = store.pp, "pp" \notin Lagging,
           NEW s \in Schedules, After(s), Keeping(s),
           [Next]_vars, ~Reschedule
    PROVE  Keeping(s)'
<1>1. CASE UNCHANGED vars
  <2>1. UNCHANGED <<target, store, cache, weight, result, rec, agg, members, pods, rs, st>>
    BY <1>1 DEF vars, schedule, control, data
  <2>2. QED
    BY <2>1 DEF Keeping, Kept, In, Served, OldPass, InPass
<1>2. CASE (Handlers \/ Fail \/ \E k \in Kinds : CacheSync(k)) /\ UNCHANGED <<target, agg, data>>
  BY <1>2, KeepingReconcile, KeepingClean, KeepingUpsertService, KeepingHostConf, KeepingStatus,
     KeepingOther DEF Handlers
<1>3. CASE BindMongo
  BY <1>3, KeepingStatuses
<1>4. ASSUME NEW c \in Clusters,
             \/ DeliverConf(c) \/ DeliverMongo(c) \/ AggregateStatus(c) \/ Operator(c)
             \/ \E i \in Services : DeliverService(c, i)
      PROVE  Keeping(s)'
  BY <1>4, KeepingDeliver, KeepingStatuses, KeepingSync, KeepingFinalize DEF Operator
<1>5. QED
  BY <1>1, <1>2, <1>3, <1>4 DEF Next, Controller, Disturbance, Informer, schedule

-----------------------------------------------------------------------------
LEMMA OneWayChange == OneWay => NoNewcomer
<1> SUFFICES ASSUME OneWay, NEW p \in Changes, NEW c \in Active(p[2]) PROVE c \in Active(p[1])
  BY DEF NoNewcomer
<1>1. p[1] \in Schedules /\ p[2] \in Schedules
  BY ChangesAssumption
<1>2. c \in Clusters
  BY <1>1, ActiveType
<1>3. CASE Grows(p[1], p[2])
  BY <1>3 DEF Grows
<1>4. CASE Shrinks(p[1], p[2])
  <2>1. Replicas(p[2], c) <= Replicas(p[1], c)
    BY <1>2, <1>4 DEF Shrinks
  <2>2. Replicas(p[2], c) > 0 /\ Replicas(p[2], c) \in Nat /\ Replicas(p[1], c) \in Nat
    BY <1>1, <1>2, ReplicasType
  <2>3. QED
    BY <1>1, <1>2, <2>1, <2>2, ReplicasType
<1>5. QED
  BY <1>3, <1>4 DEF OneWay

LEMMA InitSInv == Init => SInv
  BY InitBefore, InitServed DEF SInv

LEMMA NextSInv ==
    ASSUME "pp" \notin Lagging, OneChange, OneWay, Patient
    PROVE  SInv /\ [Next]_vars => SInv'
<1> SUFFICES ASSUME SInv, [Next]_vars PROVE SInv'
  OBVIOUS
<1>1. TypeOK /\ PassOK /\ cache.pp = store.pp
  BY DEF SInv
<1>2. TypeOK' /\ PassOK'
  BY <1>1, NextType
<1>3. cache'.pp = store'.pp
  BY <1>1, PoliciesSeen
<1>4. CASE Before /\ AllServed /\ Known
  <2>1. CASE Disturbance /\ Reschedule
    <3>1. changes = 0 /\ changes' = 1
      BY <1>4, <2>1 DEF Before, Reschedule
    <3>2. UNCHANGED <<agg, data>> /\ Settled
      BY <2>1, <3>1 DEF Disturbance, schedule
    <3>3. PICK s \in Schedules : s = target /\ After(s)' /\ (InPass' => OldPass(s)')
      BY <1>1, <1>4, <2>1, <3>2, ChangeAfter
    <3>4. target' \in Schedules
      BY <1>2, TypeParts DEF TypeOK, ControlTypeOK
    <3>5. Shrinks(s, target') \/ Grows(s, target')
      <4>1. <<s, target'>> \in Changes
        BY <3>3 DEF After
      <4>2. QED
        BY <4>1 DEF OneWay
    <3>6. Keeping(s)' \/ Growing(s)'
      BY <1>1, <1>4, <2>1, <3>2, <3>3, <3>4, <3>5, ChangeKeeping, ChangeGrowing
    <3>7. QED
      BY <1>2, <1>3, <3>3, <3>6, Zenon DEF SInv
  <2>2. CASE ~(Disturbance /\ Reschedule)
    <3>1. Before'
      BY <1>1, <1>4, <2>2, BeforeNext
    <3>2. AllServed'
      BY <1>1, <1>4, BeforeOnlyMore, AllServedNext
    <3>3. Known'
      BY <1>1, <1>4, KnownNext
    <3>4. QED
      BY <1>2, <1>3, <3>1, <3>2, <3>3, Zenon DEF SInv
  <2>3. QED
    BY <2>1, <2>2
<1>5. ASSUME NEW s \in Schedules, After(s), Keeping(s) \/ Growing(s) PROVE SInv'
  <2>1. After(s)'
    BY <1>1, <1>5, OneWayChange, AfterNext
  <2>2. ~Reschedule
    <3>1. MaxReschedules \in Nat /\ MaxReschedules <= 1
      BY BoundsAssumption DEF OneChange
    <3>2. QED
      BY <1>5, <3>1 DEF Reschedule, After
  <2>3. Keeping(s)' \/ Growing(s)'
    BY <1>1, <1>5, <2>2, KeepingNext, GrowingNext
  <2>4. QED
    BY <1>2, <1>3, <2>1, <2>3, Zenon DEF SInv
<1>6. QED
  BY <1>4, <1>5 DEF SInv

LEMMA SInvServed == SInv => ServedWhileMember
<1> SUFFICES ASSUME SInv, NEW h \in rs, h[1] \in Active(target) PROVE h[2] \in Propagated(h[1])
  BY DEF ServedWhileMember
<1>0. rs \subseteq Hosts
  BY TypeParts DEF SInv, TypeOK
<1>1. Served(h)
  <2>1. CASE AllServed
    BY <2>1 DEF AllServed
  <2>2. ASSUME NEW s \in Schedules, Keeping(s) PROVE Served(h)
    <3>1. h[1] \in Clusters /\ h[2] \in Services /\ h = <<h[1], h[2]>>
      BY <1>0 DEF Hosts
    <3>2. h[2] \in pods[h[1]]
      BY <2>2, <3>1 DEF Keeping, Kept, In
    <3>3. QED
      BY <2>2, <3>1, <3>2 DEF Keeping, Kept
  <2>3. QED
    BY <2>1, <2>2 DEF SInv, Growing
<1>2. QED
  BY <1>1 DEF Served, Propagated

\* No handler withdraws the service of a member that a cluster is to keep: with policies
\* that are never seen late and a schedule that changes once, as soon as the deployment
\* has reached it, and then either gives no cluster more pods or every one of its
\* clusters, whatever calls fail, however late services and hostconf are seen,
\* delivered and reported.
THEOREM ServedWhileMemberCorrect ==
    ASSUME "pp" \notin Lagging, OneChange, OneWay, Patient
    PROVE  Spec => []ServedWhileMember
<1>1. Spec => []SInv
  BY InitSInv, NextSInv, PTL DEF Spec
<1>2. QED
  BY <1>1, SInvServed, PTL
=============================================================================
