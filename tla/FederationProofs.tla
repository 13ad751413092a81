-------------------------- MODULE FederationProofs --------------------------
(***************************************************************************)
(* Type correctness of Federation, and what each step may do: the facts     *)
(* that ChangeProofs needs of the handlers, the cache and the operators,     *)
(* whatever the state they start from.                                      *)
(***************************************************************************)
EXTENDS Federation, FiniteSetTheorems, TLAPS

Passes == [pc : PCs, goal : Schedules \cup {<<>>}, up : SUBSET Clusters,
           todo : SUBSET Services, list : [Services -> SUBSET Clusters],
           fresh : BOOLEAN]

Topologies == UNION {[S -> [n : 0 .. MaxSize, hosts : SUBSET Services]] : S \in SUBSET Clusters}

\* A pass under way is after some schedule.
PassOK == rec.pc \notin {"idle", "panic"} => rec.goal \in Schedules

-----------------------------------------------------------------------------
LEMMA ResultType ==
    (\E S \in SUBSET Clusters : result \in [S -> [n : 0 .. MaxSize, hosts : SUBSET Services]])
        <=> result \in Topologies
  BY DEF Topologies

LEMMA IdleType == Idle \in Passes /\ Idle.pc = "idle"
  BY DEF Idle, Passes, PCs, NoPolicies

LEMMA StepType ==
    ASSUME rec \in Passes, PassOK, NEW pc \in PCs,
           Return \/ Panic \/ (rec.goal \in Schedules /\ rec' = [rec EXCEPT !.pc = pc])
    PROVE  rec' \in Passes /\ PassOK'
<1>1. CASE Return
  BY <1>1, IdleType DEF Return, PassOK
<1>2. CASE Panic
  BY <1>2, IdleType DEF Panic, PassOK, Passes, PCs
<1>3. CASE rec.goal \in Schedules /\ rec' = [rec EXCEPT !.pc = pc]
  BY <1>3 DEF PassOK, Passes
<1>4. QED
  BY <1>1, <1>2, <1>3

LEMMA ObserveType ==
    ASSUME cache \in Stored, store' \in Stored, Observe
    PROVE  cache' \in Stored
<1>1. cache' = [k \in Kinds |-> IF k \in Lagging THEN cache[k] ELSE store'[k]]
  BY DEF Observe
<1>2. QED
  BY <1>1 DEF Stored, Kinds

LEMMA ActiveType == ASSUME NEW s \in Schedules PROVE Active(s) \subseteq Clusters
  BY SchedulesAssumption DEF Active

LEMMA WeightType ==
    ASSUME NEW s \in Schedules, NEW c \in Clusters PROVE Weight(s, c) \in 0 .. MaxSize
  BY SchedulesAssumption, SizeAssumption DEF Weight, Active

LEMMA UpsertPPType ==
    ASSUME store \in Stored, NEW i \in Services, NEW to \in SUBSET Clusters
    PROVE  UpsertPP(i, to) \in [Services -> SUBSET Clusters]
  BY DEF UpsertPP, Stored

ControlOK ==
    /\ store \in Stored /\ cache \in Stored
    /\ cmTo \subseteq Clusters
    /\ weight \in [Clusters -> 0 .. MaxSize]
    /\ result \in Topologies
    /\ state \in {"", "UnKnown", "UnHealth", "Health"}
    /\ rec \in Passes /\ PassOK
    /\ faults \in 0 .. MaxFaults

LEMMA ControlParts ==
    ControlTypeOK /\ PassOK <=> target \in Schedules /\ changes \in 0 .. MaxReschedules /\ ControlOK
  BY ResultType DEF ControlTypeOK, ControlOK, Passes

LEMMA ReconcileType ==
    ASSUME ControlOK, target \in Schedules, Reconcile PROVE ControlOK'
<1> DEFINE up   == ClustersToScaleUp(target, cache.cm)
           down == ClustersToScaleDown(target, cache.cm)
           upsert == {i \in Services : UpsertClusters(target, up, i) # {}}
<1>1. up \subseteq Clusters /\ upsert \subseteq Services
  BY ActiveType DEF ClustersToScaleUp
<1>2. cache.pp \in [Services -> SUBSET Clusters]
  BY DEF ControlOK, Stored
<1>3. UNCHANGED <<store, cache, cmTo, weight, result, state, faults>>
  BY DEF Reconcile
<1>4. rec' \in Passes /\ PassOK'
  <2>1. CASE Panic
    BY <2>1, IdleType DEF Panic, Passes, PCs, PassOK
  <2>2. CASE rec' = [Idle EXCEPT !.pc = "upsert", !.goal = target, !.fresh = TRUE,
                                 !.up = up, !.todo = upsert]
    BY <1>1, <2>2, IdleType DEF Passes, PCs, PassOK
  <2>3. ASSUME NEW pc \in {"clean", "hostconf"},
               rec' = [Idle EXCEPT !.pc = pc, !.goal = target, !.fresh = TRUE,
                                   !.list = cache.pp]
        PROVE  rec' \in Passes /\ PassOK'
    BY <1>2, <2>3, IdleType DEF Passes, PCs, PassOK
  <2>4. QED
    BY <2>1, <2>2, <2>3 DEF Reconcile
<1>5. QED
  BY <1>3, <1>4 DEF ControlOK

LEMMA CleanServicesType == ASSUME ControlOK, CleanServices PROVE ControlOK'
<1> DEFINE used == EffectServices(result)
           dead == cache.svcs \ used
<1>1. UNCHANGED <<cmTo, weight, result, state, faults>> /\ rec.pc = "clean" /\ Observe
  BY DEF CleanServices
<1>2. store' = [store EXCEPT !.svcs = @ \ dead] \/ store' = store
  BY DEF CleanServices
<1>3. store' \in Stored
  BY <1>2 DEF ControlOK, Stored
<1>4. cache' \in Stored
  BY <1>1, <1>3, ObserveType DEF ControlOK
<1>5. rec.goal \in Schedules
  BY <1>1 DEF ControlOK, PassOK
<1>6. rec' \in Passes /\ PassOK'
  <2>1. CASE Return
    BY <2>1, IdleType DEF Return, PassOK
  <2>2. CASE rec' = [rec EXCEPT !.pc = "prune", !.todo = {i \in Services : rec.list[i] # {}}]
    BY <1>5, <2>2 DEF ControlOK, Passes, PCs, PassOK
  <2>3. QED
    BY <2>1, <2>2 DEF CleanServices
<1>7. QED
  BY <1>1, <1>3, <1>4, <1>6 DEF ControlOK

LEMMA PrunePolicyType ==
    ASSUME ControlOK, NEW i \in Services, PrunePolicy(i) PROVE ControlOK'
<1> DEFINE kept == KeptClusters(result, rec.list[i], i)
<1>1. /\ UNCHANGED <<cmTo, weight, result, state, faults>>
      /\ rec.pc = "prune" /\ i \in rec.todo /\ Observe
  BY DEF PrunePolicy
<1>2. kept \in SUBSET Clusters
  BY DEF KeptClusters, ControlOK, Passes
<1>3. UpsertPP(i, kept) \in [Services -> SUBSET Clusters]
  BY <1>2, UpsertPPType DEF ControlOK
<1>4. \/ store' = [store EXCEPT !.pp[i] = {}] \/ store' = store
      \/ store' = [store EXCEPT !.pp = UpsertPP(i, kept)]
  BY DEF PrunePolicy
<1>5. store' \in Stored
  <2>1. CASE store' = [store EXCEPT !.pp[i] = {}]
    <3>1. [store.pp EXCEPT ![i] = {}] \in [Services -> SUBSET Clusters]
      BY DEF ControlOK, Stored
    <3>2. store' = [store EXCEPT !.pp = [store.pp EXCEPT ![i] = {}]]
      BY <2>1 DEF ControlOK, Stored
    <3>3. QED
      BY <3>1, <3>2 DEF ControlOK, Stored
  <2>2. CASE store' # [store EXCEPT !.pp[i] = {}]
    BY <1>3, <1>4, <2>2 DEF ControlOK, Stored
  <2>3. QED
    BY <2>1, <2>2
<1>6. cache' \in Stored
  BY <1>1, <1>5, ObserveType DEF ControlOK
<1>7. rec.goal \in Schedules
  BY <1>1 DEF ControlOK, PassOK
<1>8. rec' \in Passes /\ PassOK'
  <2>1. CASE Return
    BY <2>1, IdleType DEF Return, PassOK
  <2>2. CASE rec' = [rec EXCEPT !.todo = @ \ {i}]
    BY <1>7, <2>2 DEF ControlOK, Passes, PassOK
  <2>3. QED
    BY <2>1, <2>2 DEF PrunePolicy
<1>9. QED
  BY <1>1, <1>5, <1>6, <1>8 DEF ControlOK

LEMMA UpsertServiceType ==
    ASSUME ControlOK, NEW i \in Services, UpsertService(i) PROVE ControlOK'
<1> DEFINE to == UpsertClusters(rec.goal, rec.up, i)
<1>1. /\ UNCHANGED <<cmTo, weight, result, state, faults>>
      /\ rec.pc = "upsert" /\ i \in rec.todo /\ Observe
  BY DEF UpsertService
<1>2. to \in SUBSET Clusters
  BY DEF UpsertClusters, ControlOK, Passes
<1>3. UpsertPP(i, to) \in [Services -> SUBSET Clusters]
  BY <1>2, UpsertPPType DEF ControlOK
<1>4. store' \in Stored
  <2>1. CASE store' = store
    BY <2>1 DEF ControlOK
  <2>2. CASE store' = [store EXCEPT !.pp = UpsertPP(i, to),
                                    !.svcs = IF i \in cache.svcs THEN @ ELSE @ \cup {i}]
    BY <1>3, <2>2 DEF ControlOK, Stored
  <2>3. QED
    BY <2>1, <2>2 DEF UpsertService
<1>5. cache' \in Stored
  BY <1>1, <1>4, ObserveType DEF ControlOK
<1>6. rec.goal \in Schedules
  BY <1>1 DEF ControlOK, PassOK
<1>7. rec' \in Passes /\ PassOK'
  <2>1. CASE Return
    BY <2>1, IdleType DEF Return, PassOK
  <2>2. CASE rec' = [rec EXCEPT !.todo = @ \ {i}]
    BY <1>6, <2>2 DEF ControlOK, Passes, PassOK
  <2>3. QED
    BY <2>1, <2>2 DEF UpsertService
<1>8. QED
  BY <1>1, <1>4, <1>5, <1>7 DEF ControlOK

LEMMA HostConfType == ASSUME ControlOK, HostConf PROVE ControlOK'
<1> DEFINE new == {h \in Hosts : h[1] \in cache.pp[h[2]]}
<1>1. /\ UNCHANGED <<weight, result, state, faults>>
      /\ rec.pc \in {"prune", "upsert", "hostconf"} /\ Observe
  BY DEF HostConf
<1>2. store' = store \/ store' = [store EXCEPT !.cm = new]
  BY DEF HostConf
<1>3. store' \in Stored
  BY <1>2 DEF ControlOK, Stored
<1>4. cache' \in Stored
  BY <1>1, <1>3, ObserveType DEF ControlOK
<1>5. rec.goal \in Schedules
  BY <1>1 DEF ControlOK, PassOK
<1>6. cmTo' \subseteq Clusters
  BY <1>5, ActiveType DEF HostConf, ControlOK
<1>7. rec' \in Passes /\ PassOK'
  <2>1. CASE Return
    BY <2>1, IdleType DEF Return, PassOK
  <2>2. CASE rec' = [rec EXCEPT !.pc = "mongo"]
    BY <1>5, <2>2 DEF ControlOK, Passes, PCs, PassOK
  <2>3. QED
    BY <2>1, <2>2 DEF HostConf, Goto
<1>8. QED
  BY <1>1, <1>3, <1>4, <1>6, <1>7 DEF ControlOK

LEMMA MongoType == ASSUME ControlOK, Mongo PROVE ControlOK'
<1>1. rec.goal \in Schedules
  BY DEF Mongo, ControlOK, PassOK
<1>2. weight' \in [Clusters -> 0 .. MaxSize]
  BY <1>1, WeightType DEF Mongo
<1>3. rec' \in Passes /\ PassOK'
  BY <1>1 DEF Mongo, Goto, ControlOK, Passes, PCs, PassOK
<1>4. QED
  BY <1>2, <1>3 DEF Mongo, ControlOK

LEMMA ReportedType ==
    ASSUME agg \in [Clusters -> {Absent, Nil} \cup MongoStatus], NEW S \in SUBSET Reported
    PROVE  Topology(S) \in [S -> [n : 0 .. MaxSize, hosts : SUBSET Services]]
<1>1. \A c \in S : agg[c] \in MongoStatus
  BY DEF Reported, Present
<1>2. \A c \in S : [n |-> agg[c].n, hosts |-> agg[c].hosts]
                       \in [n : 0 .. MaxSize, hosts : SUBSET Services]
  BY <1>1 DEF MongoStatus
<1>3. QED
  BY <1>2 DEF Topology

LEMMA WriteStatusType ==
    ASSUME result \in Topologies, state \in {"", "UnKnown", "UnHealth", "Health"},
           NEW S \in SUBSET Clusters, NEW res \in [S -> [n : 0 .. MaxSize, hosts : SUBSET Services]],
           NEW s \in {"UnKnown", "UnHealth", "Health"}, WriteStatus(res, s)
    PROVE  result' \in Topologies /\ state' \in {"", "UnKnown", "UnHealth", "Health"}
<1>1. res \in Topologies
  BY DEF Topologies
<1>2. QED
  BY <1>1 DEF WriteStatus

LEMMA StatusType ==
    ASSUME ControlOK, agg \in [Clusters -> {Absent, Nil} \cup MongoStatus], Status
    PROVE  ControlOK'
<1>1. UNCHANGED <<store, cache, cmTo, weight, faults>> /\ rec.pc = "status"
  BY DEF Status
<1>2. rec.goal \in Schedules
  BY <1>1 DEF ControlOK, PassOK
<1>3. Reported \subseteq Clusters
  BY DEF Reported, Present
<1>4. result' \in Topologies /\ state' \in {"", "UnKnown", "UnHealth", "Health"}
  <2>1. CASE UNCHANGED <<result, state>>
    BY <2>1 DEF ControlOK
  <2>2. CASE WriteStatus([c \in DOMAIN rec.goal |-> [n |-> 0, hosts |-> {}]], "UnKnown")
    <3>1. DOMAIN rec.goal \in SUBSET Clusters
      BY <1>2, SchedulesAssumption
    <3>2. [c \in DOMAIN rec.goal |-> [n |-> 0, hosts |-> {}]]
              \in [DOMAIN rec.goal -> [n : 0 .. MaxSize, hosts : SUBSET Services]]
      BY SizeAssumption
    <3>3. QED
      BY <2>2, <3>1, <3>2, WriteStatusType DEF ControlOK
  <2>3. CASE \E s \in {"UnHealth", "Health"} : WriteStatus(Topology(Reported), s)
    BY <1>3, <2>3, ReportedType, WriteStatusType DEF ControlOK
  <2> DEFINE last == Min(Misplaced)
             kept == {c \in Reported : c <= last}
  <2>4. CASE WriteStatus([Topology(kept) EXCEPT ![last].hosts = {}], "UnKnown")
    <3>1. WriteStatus([Topology(kept) EXCEPT ![last].hosts = {}], "UnKnown")
      BY <2>4
    <3>2. Topology(kept) \in [kept -> [n : 0 .. MaxSize, hosts : SUBSET Services]]
      BY ReportedType
    <3>3. [Topology(kept) EXCEPT ![last].hosts = {}]
              \in [kept -> [n : 0 .. MaxSize, hosts : SUBSET Services]]
      <4> DEFINE f == Topology(kept)
      <4> HIDE DEF f, kept, last
      <4>1. \A c \in kept : [f[c] EXCEPT !.hosts = {}] \in [n : 0 .. MaxSize, hosts : SUBSET Services]
        BY <3>2 DEF f
      <4>2. QED
        BY <3>2, <4>1 DEF f
    <3>4. kept \in SUBSET Clusters
      BY <1>3
    <3> HIDE DEF kept, last
    <3>5. QED
      BY <3>1, <3>3, <3>4, WriteStatusType DEF ControlOK
  <2>5. QED
    BY <2>1, <2>2, <2>3, <2>4 DEF Status
<1>5. Return \/ Panic
  BY DEF Status
<1>6. rec' \in Passes /\ PassOK'
  BY <1>5, StepType DEF ControlOK, PCs
<1>7. QED
  BY <1>1, <1>4, <1>6 DEF ControlOK

LEMMA RestartType == ASSUME ControlOK, Restart PROVE ControlOK'
  BY IdleType DEF Restart, Return, ControlOK, PassOK

LEMMA FailType == ASSUME ControlOK, Fail PROVE ControlOK'
<1>1. UNCHANGED <<cmTo, weight, result, state>> /\ Return /\ Observe
  BY DEF Fail
<1>2. faults' \in 0 .. MaxFaults
  <2>1. MaxFaults \in Nat
    BY BoundsAssumption
  <2>2. faults < MaxFaults /\ faults' = faults + 1
    BY DEF Fail
  <2>3. faults \in 0 .. MaxFaults
    BY DEF ControlOK
  <2>4. QED
    BY <2>1, <2>2, <2>3
<1>3. store' \in Stored
  <2>1. store' \in PartlyWritten
    BY DEF Fail
  <2>2. \E svcs \in SUBSET Services : store' = store \/ store' = [store EXCEPT !.svcs = svcs]
    <3>1. CASE \E part \in SUBSET (cache.svcs \ EffectServices(result)) :
                   store' = [store EXCEPT !.svcs = @ \ part]
      <4>1. PICK part : store' = [store EXCEPT !.svcs = @ \ part]
        BY <3>1
      <4>2. store' = [store EXCEPT !.svcs = store.svcs \ part] /\ store.svcs \ part \in SUBSET Services
        BY <4>1 DEF ControlOK, Stored
      <4>3. QED
        BY <4>2
    <3>2. CASE \E i \in rec.todo : store' = [store EXCEPT !.svcs = @ \cup {i}]
      <4>1. PICK i \in rec.todo : store' = [store EXCEPT !.svcs = @ \cup {i}]
        BY <3>2
      <4>2. /\ store' = [store EXCEPT !.svcs = store.svcs \cup {i}]
            /\ store.svcs \cup {i} \in SUBSET Services
        BY <4>1 DEF ControlOK, Stored, Passes
      <4>3. QED
        BY <4>2
    <3>3. CASE store' = store
      BY <3>3
    <3>4. QED
      BY <2>1, <3>1, <3>2, <3>3 DEF PartlyWritten
  <2>3. QED
    BY <2>2 DEF ControlOK, Stored
<1>4. cache' \in Stored
  BY <1>1, <1>3, ObserveType DEF ControlOK
<1>5. QED
  BY <1>1, <1>2, <1>3, <1>4, IdleType DEF Return, ControlOK, PassOK

LEMMA CacheSyncType ==
    ASSUME ControlOK, NEW k \in Kinds, CacheSync(k) PROVE ControlOK'
<1>1. cache' \in Stored
  BY DEF CacheSync, ControlOK, Stored, Kinds
<1>2. QED
  BY <1>1 DEF CacheSync, ControlOK, PassOK

-----------------------------------------------------------------------------
DataOK ==
    /\ agg \in [Clusters -> {Absent, Nil} \cup MongoStatus]
    /\ at \in [Clusters -> SUBSET Services]
    /\ conf \in [Clusters -> {NoConf} \cup SUBSET Hosts]
    /\ members \in [Clusters -> 0 .. MaxSize]
    /\ deleting \subseteq Clusters
    /\ pods \in [Clusters -> SUBSET Services]
    /\ rs \subseteq Hosts
    /\ st \in [Clusters -> MongoStatus]

LEMMA TypeParts ==
    TypeOK /\ PassOK <=> /\ target \in Schedules /\ changes \in 0 .. MaxReschedules
                         /\ ControlOK /\ DataOK
  BY ControlParts, Zenon DEF TypeOK, DataOK

\* The pods of a cluster after a pass of its operator.
LEMMA SyncedPodsType ==
    ASSUME DataOK, NEW c \in Clusters, NEW m, NEW new \in SyncedPods(c, m)
    PROVE  new \in SUBSET Services
<1>1. pods[c] \in SUBSET Services /\ at[c] \in SUBSET Services
  BY DEF DataOK
<1>2. CASE Cardinality(pods[c]) < m
  BY <1>1, <1>2 DEF SyncedPods
<1>3. CASE Cardinality(pods[c]) = m /\ ~(Cardinality(pods[c]) < m)
  BY <1>1, <1>3 DEF SyncedPods
<1>4. CASE Cardinality(pods[c]) # m /\ ~(Cardinality(pods[c]) < m)
  BY <1>1, <1>4 DEF SyncedPods, kSubset
<1>5. QED
  BY <1>2, <1>3, <1>4

LEMMA SyncType ==
    ASSUME DataOK, NEW c \in Clusters, Sync(c) PROVE DataOK'
<1>1. UNCHANGED <<agg, at, conf, members, deleting>>
  BY DEF Sync
<1>2. PICK new \in SyncedPods(c, members[c]) :
        LET joined == IF rs = {} THEN IF RsInit(c) THEN conf[c] ELSE {}
                      ELSE (rs \ HostsIn(c, pods[c] \ new))
                               \cup (HostsIn(c, new \cap at[c]) \cap conf[c])
        IN /\ pods' = [pods EXCEPT ![c] = new]
           /\ \/ /\ conf[c] = NoConf \/ Cardinality(new) < members[c]
                 /\ Report(c, [st[c] EXCEPT !.ok = FALSE])
                 /\ rs' = rs \ HostsIn(c, pods[c] \ new)
              \/ /\ conf[c] # NoConf /\ Cardinality(new) >= members[c]
                 /\ rs' = joined
                 /\ Report(c, IF joined # {} /\ Healthy(joined) /\ new \subseteq at[c]
                              THEN [n |-> members[c], hosts |-> In(joined, c), ok |-> TRUE]
                              ELSE [st[c] EXCEPT !.hosts = In(joined, c), !.ok = FALSE])
  BY DEF Sync
<1> DEFINE joined == IF rs = {} THEN IF RsInit(c) THEN conf[c] ELSE {}
                     ELSE (rs \ HostsIn(c, pods[c] \ new))
                              \cup (HostsIn(c, new \cap at[c]) \cap conf[c])
<1>3. new \in SUBSET Services
  BY SyncedPodsType
<1>4. conf[c] # NoConf => joined \subseteq Hosts
  BY <1>3 DEF DataOK, HostsIn, Hosts
<1>5. rs' \subseteq Hosts
  BY <1>2, <1>4 DEF DataOK
<1>6. pods' \in [Clusters -> SUBSET Services]
  BY <1>2, <1>3 DEF DataOK
<1>7. st' \in [Clusters -> MongoStatus]
  <2>1. st[c] \in MongoStatus /\ members[c] \in 0 .. MaxSize
    BY DEF DataOK
  <2>2. In(joined, c) \in SUBSET Services
    BY DEF In
  <2>3. [st[c] EXCEPT !.ok = FALSE] \in MongoStatus
    BY <2>1 DEF MongoStatus
  <2>4. [n |-> members[c], hosts |-> In(joined, c), ok |-> TRUE] \in MongoStatus
    BY <2>1, <2>2 DEF MongoStatus
  <2>5. [st[c] EXCEPT !.hosts = In(joined, c), !.ok = FALSE] \in MongoStatus
    BY <2>1, <2>2 DEF MongoStatus
  <2> HIDE DEF joined
  <2>6. PICK s \in MongoStatus : Report(c, s)
    BY <1>2, <2>3, <2>4, <2>5 DEF joined
  <2>7. QED
    BY <2>6 DEF Report, DataOK
<1>8. QED
  BY <1>1, <1>5, <1>6, <1>7 DEF DataOK

LEMMA FinalizeType ==
    ASSUME DataOK, NEW c \in Clusters, Finalize(c) PROVE DataOK'
<1>1. rs' \subseteq Hosts
  BY DEF Finalize, Remove, DataOK
<1>2. NewStatus \in MongoStatus
  BY SizeAssumption DEF NewStatus, MongoStatus
<1>3. st' \in [Clusters -> MongoStatus]
  BY <1>2 DEF Finalize, Report, DataOK
<1>4. members' \in [Clusters -> 0 .. MaxSize]
  BY SizeAssumption DEF Finalize, DataOK
<1>5. QED
  BY <1>1, <1>3, <1>4 DEF Finalize, DataOK

LEMMA DeliverType ==
    ASSUME ControlOK, DataOK, NEW c \in Clusters,
           DeliverConf(c) \/ DeliverMongo(c) \/ AggregateStatus(c)
             \/ \E i \in Services : DeliverService(c, i)
    PROVE  DataOK' /\ UNCHANGED control
<1>1. CASE DeliverConf(c)
  BY <1>1 DEF DeliverConf, ControlOK, Stored, DataOK
<1>2. CASE DeliverMongo(c)
  BY <1>2 DEF DeliverMongo, ControlOK, DataOK
<1>3. CASE AggregateStatus(c)
  BY <1>3 DEF AggregateStatus, data, DataOK
<1>4. CASE \E i \in Services : DeliverService(c, i)
  <2>1. PICK i \in Services : DeliverService(c, i)
    BY <1>4
  <2>2. PICK is \in SUBSET Services : at' = [at EXCEPT ![c] = is]
    <3>1. at[c] \in SUBSET Services
      BY DEF DataOK
    <3>2. QED
      BY <2>1, <3>1 DEF DeliverService
  <2>3. QED
    BY <2>1, <2>2 DEF DeliverService, DataOK
<1>5. QED
  BY <1>1, <1>2, <1>3, <1>4

LEMMA BindMongoType == ASSUME DataOK, BindMongo PROVE DataOK' /\ UNCHANGED control
<1>1. agg' \in [Clusters -> {Absent, Nil} \cup MongoStatus]
  BY DEF BindMongo, DataOK
<1>2. QED
  BY <1>1 DEF BindMongo, data, DataOK

-----------------------------------------------------------------------------
LEMMA DeployedType ==
    ASSUME NEW s \in Schedules, Deployed(s), cache = store, rec = Idle, faults = 0, deleting = {}
    PROVE  ControlOK /\ DataOK
<1> DEFINE on(i) == {c \in DOMAIN s : i < s[c]}
           hosts == {h \in Hosts : h[1] \in on(h[2])}
           size(c) == IF c \in DOMAIN s THEN s[c] ELSE 0
           status(c) == [n |-> size(c), hosts |-> In(hosts, c), ok |-> TRUE]
<1>1. \A c \in Clusters : size(c) \in 0 .. MaxSize
  BY SchedulesAssumption, SizeAssumption
<1>2. \A i : on(i) \in SUBSET Clusters
  BY SchedulesAssumption
<1>3. \A c : In(hosts, c) \in SUBSET Services
  BY DEF In
<1>4. \A c \in Clusters : status(c) \in MongoStatus
  BY <1>1, <1>3 DEF MongoStatus
<1>5. NewStatus \in MongoStatus
  BY SizeAssumption DEF NewStatus, MongoStatus
<1>6. Active(s) \in SUBSET Clusters /\ \A c \in Active(s) : s[c] \in 0 .. MaxSize
  BY ActiveType, SchedulesAssumption DEF Active
<1>7. hosts \subseteq Hosts
  OBVIOUS
<1>8. /\ store = [svcs |-> {i \in Services : on(i) # {}}, pp |-> [i \in Services |-> on(i)],
                  cm |-> hosts]
      /\ cmTo = Active(s)
      /\ weight = [c \in Clusters |-> size(c)]
      /\ result = [c \in Active(s) |-> [n |-> s[c], hosts |-> In(hosts, c)]]
      /\ state = "Health"
      /\ agg = [c \in Clusters |-> IF size(c) = 0 THEN Absent ELSE status(c)]
      /\ at = [c \in Clusters |-> In(hosts, c)]
      /\ conf = [c \in Clusters |-> IF size(c) = 0 THEN NoConf ELSE hosts]
      /\ members = weight /\ pods = at /\ rs = hosts
      /\ st = [c \in Clusters |-> IF size(c) = 0 THEN NewStatus ELSE status(c)]
  BY DEF Deployed
<1> HIDE DEF on, hosts, size, status
<1>9. store \in Stored
  BY <1>2, <1>7, <1>8 DEF Stored
<1>10. result \in Topologies
  <2>1. result \in [Active(s) -> [n : 0 .. MaxSize, hosts : SUBSET Services]]
    BY <1>3, <1>6, <1>8
  <2>2. QED
    BY <1>6, <2>1 DEF Topologies
<1>11. ControlOK
  BY <1>1, <1>6, <1>8, <1>9, <1>10, IdleType, BoundsAssumption DEF ControlOK, PassOK
<1>12. QED
  BY <1>1, <1>3, <1>4, <1>5, <1>7, <1>8, <1>11 DEF DataOK

LEMMA FreshType ==
    ASSUME Fresh, cache = store, rec = Idle, faults = 0, deleting = {}
    PROVE  ControlOK /\ DataOK
<1>1. store \in Stored
  BY DEF Fresh, Stored, NoPolicies
<1>2. result \in Topologies
  <2>1. result \in [{} -> [n : 0 .. MaxSize, hosts : SUBSET Services]]
    BY DEF Fresh, Topology
  <2>2. QED
    BY <2>1 DEF Topologies
<1>3. weight \in [Clusters -> 0 .. MaxSize] /\ NewStatus \in MongoStatus
  <2>1. 0 \in 0 .. MaxSize
    BY SizeAssumption
  <2>2. weight = [c \in Clusters |-> 0]
    BY DEF Fresh
  <2>3. QED
    BY <2>1, <2>2 DEF NewStatus, MongoStatus
<1>4. ControlOK
  <2>1. cmTo = {} /\ state = ""
    BY DEF Fresh
  <2>2. rec \in Passes /\ PassOK
    BY IdleType DEF PassOK
  <2>3. faults \in 0 .. MaxFaults
    BY BoundsAssumption
  <2>4. QED
    BY <1>1, <1>2, <1>3, <2>1, <2>2, <2>3 DEF ControlOK
<1>5. QED
  BY <1>3, <1>4 DEF Fresh, DataOK

LEMMA InitType == Init => TypeOK /\ PassOK
<1> SUFFICES ASSUME Init PROVE TypeOK /\ PassOK
  OBVIOUS
<1>1. ControlOK /\ DataOK /\ target \in Schedules
  BY DeployedType, FreshType DEF Init, Deployed, Fresh
<1>2. changes \in 0 .. MaxReschedules
  BY BoundsAssumption DEF Init
<1>3. QED
  BY <1>1, <1>2, TypeParts

LEMMA NextType == TypeOK /\ PassOK /\ [Next]_vars => TypeOK' /\ PassOK'
<1> SUFFICES ASSUME TypeOK, PassOK, [Next]_vars PROVE (TypeOK /\ PassOK)'
  OBVIOUS
<1>1. target \in Schedules /\ changes \in 0 .. MaxReschedules /\ ControlOK /\ DataOK
  BY TypeParts
<1>0. ASSUME target' \in Schedules, changes' \in 0 .. MaxReschedules, ControlOK', DataOK'
      PROVE  (TypeOK /\ PassOK)'
  <2>1. \E S \in SUBSET Clusters : result' \in [S -> [n : 0 .. MaxSize, hosts : SUBSET Services]]
    BY <1>0 DEF ControlOK, Topologies
  <2>2. ControlTypeOK' /\ PassOK'
    BY <1>0, <2>1, Zenon DEF ControlTypeOK, ControlOK, Passes
  <2>3. QED
    BY <1>0, <2>2, Zenon DEF TypeOK, DataOK
<1>2. ASSUME UNCHANGED <<schedule, control>>, DataOK' PROVE (TypeOK /\ PassOK)'
  <2>1. ControlOK'
    BY <1>1, <1>2 DEF control, ControlOK, PassOK
  <2>2. QED
    BY <1>0, <1>1, <1>2, <2>1 DEF schedule
<1>3. ASSUME UNCHANGED <<agg, data>>, ControlOK', target' \in Schedules,
             changes' \in 0 .. MaxReschedules
      PROVE  (TypeOK /\ PassOK)'
  <2>1. DataOK'
    BY <1>1, <1>3 DEF data, DataOK
  <2>2. QED
    BY <1>0, <1>3, <2>1
<1>4. CASE UNCHANGED vars
  BY <1>1, <1>2, <1>4 DEF vars, data, DataOK
<1>5. CASE Controller
  <2>1. UNCHANGED <<schedule, agg, data>> /\ Handlers
    BY <1>5 DEF Controller
  <2>2. ControlOK'
    BY <1>1, <2>1, ReconcileType, CleanServicesType, HostConfType, MongoType, StatusType,
       RestartType, PrunePolicyType, UpsertServiceType DEF Handlers, DataOK
  <2>3. QED
    BY <1>1, <1>3, <2>1, <2>2 DEF schedule
<1>6. CASE Disturbance
  <2>1. CASE Fail /\ UNCHANGED schedule
    BY <1>1, <1>3, <1>6, <2>1, FailType DEF Disturbance, schedule
  <2>2. CASE Reschedule
    <3>1. UNCHANGED <<store, cache, cmTo, weight, result, state, faults>>
      BY <2>2 DEF Reschedule
    <3>2. rec' \in Passes /\ PassOK'
      BY <1>1, <2>2 DEF Reschedule, ControlOK, Passes, PassOK
    <3>3. ControlOK'
      BY <1>1, <3>1, <3>2 DEF ControlOK
    <3>4. target' \in Schedules
      BY <2>2, ChangesAssumption DEF Reschedule
    <3>5. changes' \in 0 .. MaxReschedules
      <4>1. MaxReschedules \in Nat
        BY BoundsAssumption
      <4>2. changes < MaxReschedules /\ changes' = changes + 1
        BY <2>2 DEF Reschedule
      <4>3. QED
        BY <1>1, <4>1, <4>2
    <3>6. QED
      BY <1>3, <1>6, <3>3, <3>4, <3>5 DEF Disturbance
  <2>3. QED
    BY <1>6, <2>1, <2>2 DEF Disturbance
<1>7. CASE BindMongo
  BY <1>1, <1>2, <1>7, BindMongoType DEF BindMongo
<1>8. CASE \E k \in Kinds : Informer(k)
  BY <1>1, <1>3, <1>8, CacheSyncType DEF Informer, schedule
<1>9. ASSUME NEW c \in Clusters, \/ DeliverConf(c) \/ DeliverMongo(c) \/ AggregateStatus(c)
                                 \/ \E i \in Services : DeliverService(c, i)
      PROVE  (TypeOK /\ PassOK)'
  <2>1. UNCHANGED schedule
    BY <1>9 DEF DeliverConf, DeliverMongo, AggregateStatus, DeliverService
  <2>2. QED
    BY <1>1, <1>2, <1>9, <2>1, DeliverType
<1>10. ASSUME NEW c \in Clusters, Operator(c) PROVE (TypeOK /\ PassOK)'
  <2>1. UNCHANGED <<schedule, control>>
    BY <1>10 DEF Operator, Sync, Finalize
  <2>2. QED
    BY <1>1, <1>2, <1>10, <2>1, SyncType, FinalizeType DEF Operator
<1>11. QED
  BY <1>4, <1>5, <1>6, <1>7, <1>8, <1>9, <1>10 DEF Next

\* Every object of the control plane, of Karmada and of the member clusters keeps
\* its type: no handler, no panic and no call that fails half-way leaves a service,
\* a policy, a host or a status that the next one could not read.
THEOREM TypeCorrect == Spec => []TypeOK
<1>1. Spec => [](TypeOK /\ PassOK)
  BY InitType, NextType, PTL DEF Spec
<1>2. QED
  BY <1>1, PTL

-----------------------------------------------------------------------------
(* Schedules and what they make of a deployment.                            *)

\* What the deployment with schedule s consists of.
Replicas(s, c) == IF c \in DOMAIN s THEN s[c] ELSE 0
Sizes(s) == [c \in Clusters |-> Replicas(s, c)]
On(s, i) == {c \in DOMAIN s : i < s[c]}
Full(s) == {h \in Hosts : h[1] \in On(s, h[2])}
Below(n) == {i \in Services : i < n}

Real(c) == agg[c] \notin {Absent, Nil}

LEMMA ReplicasType ==
    ASSUME NEW s \in Schedules, NEW c \in Clusters
    PROVE  /\ Replicas(s, c) \in 0 .. MaxSize
           /\ Replicas(s, c) \in Nat /\ Weight(s, c) = Replicas(s, c)
           /\ c \in Active(s) <=> Replicas(s, c) > 0
           /\ c \in Active(s) => Replicas(s, c) = s[c]
  BY SchedulesAssumption, SizeAssumption DEF Replicas, Weight, Active

\* The first n services.
LEMMA BelowSize ==
    ASSUME NEW n \in 0 .. MaxSize
    PROVE  IsFiniteSet(Below(n)) /\ Cardinality(Below(n)) = n
<1>1. n \in Nat /\ MaxSize \in Nat
  BY SizeAssumption
<1>2. Below(n) = 0 .. n - 1
  BY <1>1 DEF Below, Services
<1>3. QED
  BY <1>1, <1>2, FS_Interval

LEMMA BelowAll == Below(MaxSize) = Services
  BY SizeAssumption DEF Below, Services

\* Their hosts in one cluster.
LEMMA HostsSize ==
    ASSUME NEW c, NEW n \in 0 .. MaxSize
    PROVE  IsFiniteSet({c} \X Below(n)) /\ Cardinality({c} \X Below(n)) = n
<1>1. IsFiniteSet(Below(n)) /\ Cardinality(Below(n)) = n /\ n \in Nat
  BY BelowSize
<1>2. IsFiniteSet({c}) /\ Cardinality({c}) = 1
  BY FS_Singleton
<1>3. /\ IsFiniteSet({c} \X Below(n))
      /\ Cardinality({c} \X Below(n)) = Cardinality({c}) * Cardinality(Below(n))
  BY <1>1, <1>2, FS_Product
<1>4. QED
  BY <1>1, <1>2, <1>3

\* A hostconf has a host for every service that it is known to have one for.
LEMMA SizeInSubset ==
    ASSUME NEW cm \in SUBSET Hosts, NEW c \in Clusters, NEW S \in SUBSET Services,
           \A i \in S : <<c, i>> \in cm
    PROVE  /\ SizeIn(cm, c) \in Nat /\ Cardinality(S) \in Nat
           /\ Cardinality(S) <= SizeIn(cm, c)
<1> DEFINE hs == {h \in cm : h[1] = c}
<1>1. MaxSize \in 0 .. MaxSize
  BY SizeAssumption
<1>2. hs \in SUBSET ({c} \X Below(MaxSize))
  BY BelowAll DEF Hosts
<1>3. IsFiniteSet(hs)
  BY <1>1, <1>2, HostsSize, FS_Subset
<1>4. IsFiniteSet(S)
  BY <1>1, BelowAll, BelowSize, FS_Subset
<1>5. {c} \X S \in SUBSET hs
  OBVIOUS
<1>6. Cardinality({c} \X S) <= Cardinality(hs)
  BY <1>3, <1>5, FS_Subset
<1>7. Cardinality(hs) \in Nat /\ Cardinality(S) \in Nat
  BY <1>3, <1>4, FS_CardinalityType
<1>8. Cardinality({c} \X S) = Cardinality({c}) * Cardinality(S)
  BY <1>4, FS_Singleton, FS_Product
<1>9. Cardinality({c}) = 1
  BY FS_Singleton
<1>10. QED
  BY <1>6, <1>7, <1>8, <1>9 DEF SizeIn

LEMMA SizeInLeast ==
    ASSUME NEW cm \in SUBSET Hosts, NEW c \in Clusters, NEW n \in 0 .. MaxSize,
           \A i \in Below(n) : <<c, i>> \in cm
    PROVE  SizeIn(cm, c) \in Nat /\ n <= SizeIn(cm, c)
<1>1. Below(n) \in SUBSET Services
  BY DEF Below
<1>2. QED
  BY <1>1, SizeInSubset, BelowSize

LEMMA SizeInFull ==
    ASSUME NEW s \in Schedules, NEW c \in Clusters
    PROVE  SizeIn(Full(s), c) = Replicas(s, c)
<1>1. {h \in Full(s) : h[1] = c} = {c} \X Below(Replicas(s, c))
  BY SchedulesAssumption DEF Full, On, Hosts, Below, Replicas, Services
<1>2. QED
  BY <1>1, HostsSize, ReplicasType DEF SizeIn

LEMMA FullType == ASSUME NEW s PROVE Full(s) \in SUBSET Hosts /\ Full(s) # NoConf
  BY NoConfAssumption DEF Full, Hosts

LEMMA SizesType ==
    ASSUME NEW s \in Schedules, NEW c \in Clusters
    PROVE  Sizes(s)[c] = Replicas(s, c) /\ Replicas(s, c) \in Nat
  BY ReplicasType DEF Sizes

LEMMA ActiveOn ==
    ASSUME NEW s \in Schedules, NEW i \in Services
    PROVE  UpsertClusters(s, Active(s), i) = On(s, i)
  BY SchedulesAssumption, SizeAssumption DEF UpsertClusters, Active, On, Services

-----------------------------------------------------------------------------
(* The steps of a pass.                                                     *)

\* A policy is never seen late, a hostconf may be.
LEMMA ObserveResult ==
    ASSUME "pp" \notin Lagging, Observe
    PROVE  cache'.pp = store'.pp /\ cache'.cm \in {cache.cm, store'.cm}
<1>1. cache' = [k \in Kinds |-> IF k \in Lagging THEN cache[k] ELSE store'[k]]
  BY DEF Observe
<1>2. QED
  BY <1>1 DEF Kinds

LEMMA CleanServicesResult ==
    ASSUME ControlOK, CleanServices
    PROVE  /\ store'.pp = store.pp /\ store'.cm = store.cm /\ Observe
           /\ store.svcs \cap EffectServices(result) \subseteq store'.svcs
           /\ UNCHANGED <<weight, result>> /\ rec.pc = "clean"
           /\ \/ Return
              \/ /\ rec'.pc = "prune" /\ rec'.goal = rec.goal /\ rec'.list = rec.list
<1>1. store'.pp = store.pp /\ store'.cm = store.cm
      /\ store.svcs \cap EffectServices(result) \subseteq store'.svcs
  BY DEF CleanServices, ControlOK, Stored
<1>2. QED
  BY <1>1 DEF CleanServices, ControlOK, Passes

LEMMA PrunePolicyResult ==
    ASSUME ControlOK, cache.pp = store.pp, NEW i \in Services, PrunePolicy(i)
    PROVE  /\ store'.cm = store.cm /\ store'.svcs = store.svcs
           /\ Observe /\ UNCHANGED <<weight, result>> /\ rec.pc = "prune"
           /\ \A j \in Services : /\ store'.pp[j] \subseteq store.pp[j] \cup rec.list[j]
                                 /\ store.pp[j] \cap KeptClusters(result, rec.list[j], j)
                                        \subseteq store'.pp[j]
           /\ \/ Return
              \/ rec'.pc = "prune" /\ rec'.goal = rec.goal /\ rec'.list = rec.list
<1> DEFINE kept == KeptClusters(result, rec.list[i], i)
<1>1. kept \subseteq rec.list[i]
  BY DEF KeptClusters
<1>2. \/ store' = [store EXCEPT !.pp[i] = {}] \/ store' = store
      \/ store' = [store EXCEPT !.pp = UpsertPP(i, kept)]
  BY DEF PrunePolicy
<1>3. store'.cm = store.cm /\ store'.svcs = store.svcs
  BY <1>2 DEF ControlOK, Stored
<1>4. \A j \in Services : store'.pp[j] = store.pp[j] \/ (j = i /\ store'.pp[j] = kept)
  <2>1. CASE kept = {} /\ store' = [store EXCEPT !.pp[i] = {}]
    <3>1. store'.pp = [store.pp EXCEPT ![i] = {}]
      BY <2>1 DEF ControlOK, Stored
    <3>2. QED
      BY <2>1, <3>1 DEF ControlOK, Stored
  <2>2. CASE store' = store
    BY <2>2
  <2>3. CASE store' = [store EXCEPT !.pp = UpsertPP(i, kept)]
    <3> HIDE DEF kept
    <3>1. store'.pp = [store.pp EXCEPT ![i] = kept]
      BY <2>3 DEF ControlOK, Stored, UpsertPP
    <3>2. QED
      BY <3>1 DEF ControlOK, Stored
  <2>4. QED
    BY <2>1, <2>2, <2>3 DEF PrunePolicy
<1>5. Return \/ rec' = [rec EXCEPT !.todo = @ \ {i}]
  BY DEF PrunePolicy
<1>6. \A j \in Services : /\ store'.pp[j] \subseteq store.pp[j] \cup rec.list[j]
                         /\ store.pp[j] \cap KeptClusters(result, rec.list[j], j) \subseteq store'.pp[j]
  BY <1>1, <1>4
<1>7. QED
  BY <1>3, <1>5, <1>6 DEF PrunePolicy, ControlOK, Passes

LEMMA UpsertServiceResult ==
    ASSUME ControlOK, cache.pp = store.pp, NEW i \in Services, UpsertService(i)
    PROVE  /\ store'.cm = store.cm /\ store.svcs \subseteq store'.svcs
           /\ Observe /\ UNCHANGED <<weight, result>>
           /\ rec.pc = "upsert" /\ i \in rec.todo
           /\ \/ store'.pp = store.pp /\ Return
              \/ /\ store'.pp = [store.pp EXCEPT ![i] = UpsertClusters(rec.goal, rec.up, i)]
                 /\ rec' = [rec EXCEPT !.todo = @ \ {i}]
<1> DEFINE to == UpsertClusters(rec.goal, rec.up, i)
           created == i \in cache.svcs \/ i \notin store.svcs
<1>1. UpsertOk(i, to) /\ UpsertPP(i, to) = [store.pp EXCEPT ![i] = to]
  BY DEF UpsertOk, UpsertPP, ControlOK, Stored
<1>2. CASE created
  <2>1. store' = [store EXCEPT !.pp = UpsertPP(i, to),
                               !.svcs = IF i \in cache.svcs THEN @ ELSE @ \cup {i}]
    BY <1>2 DEF UpsertService
  <2>2. store'.pp = UpsertPP(i, to) /\ store'.cm = store.cm /\ store.svcs \subseteq store'.svcs
    BY <2>1 DEF ControlOK, Stored
  <2>3. rec' = [rec EXCEPT !.todo = @ \ {i}]
    BY <1>1, <1>2 DEF UpsertService
  <2>4. QED
    BY <1>1, <2>2, <2>3 DEF UpsertService
<1>3. CASE ~created
  BY <1>3 DEF UpsertService
<1>4. QED
  BY <1>2, <1>3

LEMMA HostConfResult ==
    ASSUME ControlOK, HostConf
    PROVE  /\ store'.pp = store.pp /\ store'.svcs = store.svcs
           /\ Observe /\ UNCHANGED <<weight, result>>
           /\ rec.pc \in {"prune", "upsert", "hostconf"} /\ rec.todo = {}
           /\ store'.cm \in {store.cm, {h \in Hosts : h[1] \in cache.pp[h[2]]}}
           /\ Return \/ rec' = [rec EXCEPT !.pc = "mongo"]
<1>1. /\ store'.pp = store.pp /\ store'.svcs = store.svcs
      /\ store'.cm \in {store.cm, {h \in Hosts : h[1] \in cache.pp[h[2]]}}
  BY DEF HostConf, ControlOK, Stored
<1>2. QED
  BY <1>1 DEF HostConf, Goto

LEMMA FailResult ==
    ASSUME ControlOK, Fail
    PROVE  /\ store'.pp = store.pp /\ store'.cm = store.cm /\ Observe
           /\ store.svcs \cap EffectServices(result) \subseteq store'.svcs
           /\ rec.pc # "clean" => store.svcs \subseteq store'.svcs
           /\ UNCHANGED <<weight, result>> /\ Return
<1>1. store' \in PartlyWritten
  BY DEF Fail
<1>2. CASE store' = store
  BY <1>2 DEF Fail
<1>3. CASE \E part \in SUBSET (cache.svcs \ EffectServices(result)) :
              rec.pc = "clean" /\ store' = [store EXCEPT !.svcs = @ \ part]
  BY <1>3 DEF Fail, ControlOK, Stored
<1>4. CASE \E i \in rec.todo : store' = [store EXCEPT !.svcs = @ \cup {i}]
  BY <1>4 DEF Fail, ControlOK, Stored
<1>5. QED
  BY <1>1, <1>2, <1>3, <1>4 DEF PartlyWritten

\* What a pass may write into Status.Result.
LEMMA StatusResult ==
    ASSUME ControlOK, Status, NEW c \in Clusters, c \in DOMAIN result'
    PROVE  \/ c \in DOMAIN result /\ result'[c] = result[c]
           \/ rec.fresh /\ result'[c].n = 0 /\ result'[c].hosts = {}
           \/ /\ rec.fresh /\ Real(c) /\ result'[c].n = agg[c].n
              /\ result'[c].hosts \in {{}, agg[c].hosts}
<1> DEFINE zeros == [d \in DOMAIN rec.goal |-> [n |-> 0, hosts |-> {}]]
           last == Min(Misplaced)
           kept == {d \in Reported : d <= last}
<1>1. CASE UNCHANGED <<result, state>>
  BY <1>1
<1>2. CASE rec.fresh /\ result' = zeros
  BY <1>2
<1>3. ASSUME rec.fresh, NEW S \in SUBSET Reported,
             result' = Topology(S) \/ \E d : result' = [Topology(S) EXCEPT ![d].hosts = {}]
      PROVE  Real(c) /\ result'[c].n = agg[c].n /\ result'[c].hosts \in {{}, agg[c].hosts}
  <2>1. DOMAIN Topology(S) = S /\ \A d \in S : Topology(S)[d] = [n |-> agg[d].n, hosts |-> agg[d].hosts]
    BY DEF Topology
  <2>2. c \in S
    BY <1>3, <2>1
  <2>3. Real(c)
    BY <2>2 DEF Real, Reported, Present
  <2>4. CASE result' = Topology(S)
    BY <2>1, <2>2, <2>3, <2>4
  <2>5. ASSUME NEW d, result' = [Topology(S) EXCEPT ![d].hosts = {}]
        PROVE  result'[c].n = agg[c].n /\ result'[c].hosts \in {{}, agg[c].hosts}
    <3>1. result'[c] = IF c = d THEN [Topology(S)[c] EXCEPT !.hosts = {}] ELSE Topology(S)[c]
      <4> DEFINE f == Topology(S)
      <4>1. result' = [f EXCEPT ![d] = [f[d] EXCEPT !.hosts = {}]] /\ DOMAIN f = S
        BY <2>1, <2>5
      <4> HIDE DEF f
      <4>2. result'[c] = IF c = d THEN [f[c] EXCEPT !.hosts = {}] ELSE f[c]
        BY <2>2, <4>1
      <4>3. QED
        BY <4>2 DEF f
    <3>2. Topology(S)[c] = [n |-> agg[c].n, hosts |-> agg[c].hosts]
      BY <2>1, <2>2
    <3>3. QED
      BY <3>1, <3>2
  <2>6. QED
    BY <1>3, <2>3, <2>4, <2>5
<1>4. CASE rec.fresh /\ result' = Topology(Reported)
  BY <1>3, <1>4
<1>5. CASE rec.fresh /\ result' = [Topology(kept) EXCEPT ![last].hosts = {}]
  BY <1>3, <1>5
<1>6. QED
  BY <1>1, <1>2, <1>4, <1>5 DEF Status, WriteStatus

\* When every status has arrived, the result says what they say.
LEMMA StatusKeeps ==
    ASSUME Status, Present = Reported, NEW c \in Clusters, Real(c),
           c \in DOMAIN result, c \in DOMAIN rec.goal
    PROVE  /\ c \in DOMAIN result'
           /\ ~Incomplete(rec.goal) => result'[c] \in {result[c], [n |-> agg[c].n, hosts |-> agg[c].hosts]}
<1>1. Misplaced = {}
  BY DEF Misplaced
<1>2. c \in DOMAIN Topology(Reported) /\ Topology(Reported)[c] = [n |-> agg[c].n, hosts |-> agg[c].hosts]
  BY DEF Topology, Real, Reported, Present
<1>3. \/ UNCHANGED result
      \/ result' = [d \in DOMAIN rec.goal |-> [n |-> 0, hosts |-> {}]] /\ Incomplete(rec.goal)
      \/ result' = Topology(Reported)
  BY <1>1, Zenon DEF Status, WriteStatus
<1>4. QED
  BY <1>2, <1>3

LEMMA ReconcileResult ==
    ASSUME Reconcile, NEW up, up = ClustersToScaleUp(target, cache.cm),
           NEW down, down = ClustersToScaleDown(target, cache.cm)
    PROVE  /\ UNCHANGED <<store, cache, weight, result>> /\ rec.pc = "idle"
           /\ \/ Panic
              \/ /\ down = {} /\ rec'.pc = "upsert" /\ rec'.goal = target /\ rec'.up = up
                 /\ rec'.todo = {i \in Services : UpsertClusters(target, up, i) # {}}
              \/ /\ down # {} /\ rec'.goal = target /\ rec'.todo = {} /\ rec'.list = cache.pp
                 /\ \/ rec'.pc = "hostconf"
                    \/ rec'.pc = "clean" /\ ScaleDownOk(target, down, result)
  BY DEF Reconcile, Idle

\* The replica set after a pass of the operator of c that has found the hostconf.
Joined(c, new) ==
    IF rs = {} THEN IF RsInit(c) THEN conf[c] ELSE {}
    ELSE (rs \ HostsIn(c, pods[c] \ new)) \cup (HostsIn(c, new \cap at[c]) \cap conf[c])

\* What a pass of a member operator does to its pods, the replica set and its status.
LEMMA SyncResult ==
    ASSUME DataOK, NEW c \in Clusters, Sync(c)
    PROVE  \E new \in SyncedPods(c, members[c]), status \in MongoStatus :
              /\ members[c] > 0 /\ c \notin deleting
              /\ pods' = [pods EXCEPT ![c] = new] /\ st' = [st EXCEPT ![c] = status]
              /\ \/ /\ status.n = st[c].n /\ status.hosts = st[c].hosts
                    /\ rs' = rs \ HostsIn(c, pods[c] \ new)
                 \/ /\ status.n \in {st[c].n, members[c]} /\ conf[c] # NoConf
                    /\ rs' = Joined(c, new) /\ status.hosts = In(rs', c)
              /\ UNCHANGED <<schedule, control, agg, at, conf, members, deleting>>
<1>1. PICK new \in SyncedPods(c, members[c]) :
        /\ pods' = [pods EXCEPT ![c] = new]
        /\ \/ /\ conf[c] = NoConf \/ Cardinality(new) < members[c]
              /\ Report(c, [st[c] EXCEPT !.ok = FALSE])
              /\ rs' = rs \ HostsIn(c, pods[c] \ new)
           \/ /\ conf[c] # NoConf /\ Cardinality(new) >= members[c]
              /\ rs' = Joined(c, new)
              /\ Report(c, IF Joined(c, new) # {} /\ Healthy(Joined(c, new)) /\ new \subseteq at[c]
                           THEN [n |-> members[c], hosts |-> In(Joined(c, new), c), ok |-> TRUE]
                           ELSE [st[c] EXCEPT !.hosts = In(Joined(c, new), c), !.ok = FALSE])
  BY DEF Sync, Joined
<1>2. st[c] \in MongoStatus /\ members[c] \in 0 .. MaxSize
  BY DEF DataOK
<1> DEFINE joined == Joined(c, new)
<1>3. In(joined, c) \in SUBSET Services
  BY DEF In
<1> HIDE DEF joined
<1>4. \E status \in MongoStatus :
          /\ Report(c, status)
          /\ \/ /\ status.n = st[c].n /\ status.hosts = st[c].hosts
                /\ rs' = rs \ HostsIn(c, pods[c] \ new)
             \/ /\ status.n \in {st[c].n, members[c]} /\ conf[c] # NoConf
                /\ rs' = joined /\ status.hosts = In(rs', c)
  <2> DEFINE s1 == [st[c] EXCEPT !.ok = FALSE]
             s2 == [n |-> members[c], hosts |-> In(joined, c), ok |-> TRUE]
             s3 == [st[c] EXCEPT !.hosts = In(joined, c), !.ok = FALSE]
  <2>1. s1 \in MongoStatus /\ s1.n = st[c].n /\ s1.hosts = st[c].hosts
    BY <1>2 DEF MongoStatus
  <2>2. s2 \in MongoStatus /\ s2.n = members[c] /\ s2.hosts = In(joined, c)
    BY <1>2, <1>3 DEF MongoStatus
  <2>3. s3 \in MongoStatus /\ s3.n = st[c].n /\ s3.hosts = In(joined, c)
    BY <1>2, <1>3 DEF MongoStatus
  <2>4. \/ Report(c, s1) /\ rs' = rs \ HostsIn(c, pods[c] \ new)
        \/ conf[c] # NoConf /\ rs' = joined /\ (Report(c, s2) \/ Report(c, s3))
    BY <1>1 DEF joined
  <2> HIDE DEF s1, s2, s3
  <2>5. QED
    BY <2>1, <2>2, <2>3, <2>4
<1>5. members[c] > 0 /\ c \notin deleting
      /\ UNCHANGED <<schedule, control, agg, at, conf, members, deleting>>
  BY DEF Sync
<1>6. QED
  BY <1>1, <1>4, <1>5 DEF Report, joined

\* New pods are pods of services that are there.
LEMMA SyncedPodsFrom ==
    ASSUME DataOK, NEW c \in Clusters, NEW m, NEW new \in SyncedPods(c, m)
    PROVE  new \subseteq pods[c] \cup at[c]
<1>1. CASE Cardinality(pods[c]) < m
  BY <1>1 DEF SyncedPods
<1>2. CASE Cardinality(pods[c]) = m /\ ~(Cardinality(pods[c]) < m)
  BY <1>2 DEF SyncedPods
<1>3. CASE Cardinality(pods[c]) # m /\ ~(Cardinality(pods[c]) < m)
  BY <1>3 DEF SyncedPods, kSubset
<1>4. QED
  BY <1>1, <1>2, <1>3
=============================================================================
