---------------------------- MODULE ArbiterProofs ----------------------------
(***************************************************************************)
(* Any number of clusters, changes and faults, and any objects that the       *)
(* informer cache shows late: as long as no change is hasty, an arbiter of     *)
(* the replica set has its stateful set.  An operator removes one host of its   *)
(* cluster before it deletes the stateful set, so a second host of the same     *)
(* cluster would be left behind.  There is none because all arbiters carry the   *)
(* same node port: a new service, hence a new port, is created only when the     *)
(* last arbiter is gone (OnePort).  That in turn follows from what the handlers   *)
(* of the control plane leave to each other, pass by pass, when the wish changes   *)
(* between two passes or in the middle of one (Wanted, Unwanted).                 *)
(***************************************************************************)
EXTENDS Arbiter, TLAPS

\* What the pass in progress, or the next one, is after.
Goal == IF rec.pc = "idle" THEN want.arbiter ELSE rec.goal.arbiter

\* Whether a service may still be created before the next change.
ToCreate == IF (Goal /\ store.svc = None) \/ (want.arbiter /\ ~Goal) THEN 1 ELSE 0

PassOK == /\ rec.pc # "idle" => rec.goal \in Wishes
          /\ rec.pc = "clear" => ~rec.goal.arbiter

\* Ports are given out in order, and there is a change for each but the first.
PortsInOrder ==
    /\ nextPort \in Nat /\ nextPort + ToCreate <= changes + 2
    /\ \A p \in {store.svc, cache.svc} \ {None} : p < nextPort
    /\ \A h \in store.cm : h[2] < nextPort

\* A service that the hostconf names has been seen by the cache.
Seen == store.svc # None /\ (\E c \in Clusters : <<c, store.svc>> \in store.cm)
            => cache.svc = store.svc

\* An arbiter is wanted: a pass that began before removes no service, and a
\* service that is still to be created meets no arbiter.
Wanted ==
    want.arbiter =>
        /\ rec.pc # "idle" /\ ~Goal => store.svc = None
        /\ store.svc = None => rs = {} /\ \A c \in Clusters : at[c] = None

\* None is wanted: a pass that began before creates no service, the cache shows
\* the service that is to be deleted, and the hostconf is cleared after it.
Unwanted ==
    ~want.arbiter =>
        /\ rec.pc # "idle" /\ Goal => store.svc # None
        /\ store.svc # None => cache.svc = store.svc
        /\ ~Goal /\ rec.pc \in {"pp", "clear", "hostconf"} => store.svc = None
        /\ store.cm = {} => store.svc = None /\ ~Goal

\* The node ports in use: of the service, where it is delivered, of arbiters.
Live == {p \in Ports : \/ p = store.svc
                       \/ \E c \in Clusters : at[c] = p \/ <<c, p>> \in rs}

OnePort == \A p, q \in Live : p = q

\* An operator that has removed its arbiter's host has removed all its hosts.
AllRemoved == \A c \in leaving : HostsOf(c) = {}

Patient ==
    ~hasty => /\ Wanted /\ Unwanted /\ OnePort /\ AllRemoved
              /\ \A h \in rs : h[1] \in sts

IInv == TypeOK /\ PassOK /\ PortsInOrder /\ Seen /\ Patient

-----------------------------------------------------------------------------
(* What the calls of the control plane do.                                  *)

LEMMA WriteResult ==
    ASSUME store \in Objects, cache \in Objects, NEW k \in Kinds, NEW v, NEW next,
           [store EXCEPT ![k] = v] \in Objects, Write(k, v, next)
    PROVE  /\ store' \in Objects /\ cache' \in Objects
           /\ \A j \in Kinds : cache'[j] \in {cache[j], store'[j]}
           /\ \/ Return /\ store' = store
              \/ Goto(next) /\ store' = [store EXCEPT ![k] = v] /\ cache[k] = store[k]
<1>1. store' \in Objects
  BY DEF Write
<1>2. cache' = [j \in Kinds |-> IF j \in Lagging THEN cache[j] ELSE store'[j]]
  BY DEF Write, Observe
<1>3. cache' \in Objects
  BY <1>1, <1>2 DEF Objects, Kinds
<1>4. QED
  BY <1>1, <1>2, <1>3 DEF Write

LEMMA UpsertResult ==
    ASSUME store \in Objects, cache \in Objects, NEW k \in Kinds, NEW v, NEW next,
           [store EXCEPT ![k] = v] \in Objects, Upsert(k, v, next)
    PROVE  /\ store' \in Objects /\ cache' \in Objects
           /\ \A j \in Kinds : cache'[j] \in {cache[j], store'[j]}
           /\ \/ Return /\ store' = store
              \/ Goto(next) /\ store' = store /\ cache[k] = v
              \/ Goto(next) /\ store' = [store EXCEPT ![k] = v]
  BY WriteResult DEF Upsert

LEMMA DeleteResult ==
    ASSUME store \in Objects, cache \in Objects, NEW k \in Kinds \ {"cm"}, NEW next,
           Delete(k, next)
    PROVE  /\ store' \in Objects /\ cache' \in Objects
           /\ \A j \in Kinds : cache'[j] \in {cache[j], store'[j]}
           /\ \/ Goto(next) /\ store' = store /\ cache[k] = None
              \/ Return /\ store' = store
              \/ Goto(next) /\ store' = [store EXCEPT ![k] = None]
<1>1. [store EXCEPT ![k] = None] \in Objects
  BY DEF Objects, Kinds
<1>2. CASE cache[k] = None
  BY <1>2 DEF Delete
<1>3. CASE cache[k] # None
  <2>1. store' = [store EXCEPT ![k] = None]
    BY <1>3 DEF Delete
  <2>2. cache' = [j \in Kinds |-> IF j \in Lagging THEN cache[j] ELSE store'[j]]
    BY <1>3 DEF Delete, Observe
  <2>3. cache' \in Objects
    BY <1>1, <2>1, <2>2 DEF Objects, Kinds
  <2>4. store[k] = None => store' = store
    BY <2>1 DEF Objects, Kinds
  <2>5. QED
    BY <1>1, <1>3, <2>1, <2>2, <2>3, <2>4 DEF Delete
<1>4. QED
  BY <1>2, <1>3

LEMMA FirstCluster == ASSUME NEW w \in Wishes PROVE ArbiterCluster(w.order) \in Clusters
<1>1. w.order \in Seq(Clusters) /\ w.order # <<>>
  BY OrdersAssumption DEF Wishes
<1>2. QED
  BY <1>1 DEF ArbiterCluster

Passes == [pc : PCs, goal : Wishes \cup {<<>>}]

LEMMA IdlePass == Idle \in Passes /\ Idle.pc = "idle"
  BY DEF Idle, Passes, PCs

LEMMA GotoPass ==
    ASSUME rec \in Passes, NEW pc \in PCs, Goto(pc)
    PROVE  rec' \in Passes /\ rec'.pc = pc /\ rec'.goal = rec.goal
  BY DEF Goto, Passes

\* What each handler does to the objects and the pass.
LEMMA OverridePolicyResult ==
    ASSUME TypeOK, PassOK, OverridePolicy
    PROVE  /\ store' \in Objects /\ cache' \in Objects
           /\ store'.svc = store.svc /\ store'.cm = store.cm
           /\ cache'.svc \in {cache.svc, store.svc}
           /\ Return \/ Goto("svc")
<1>0. store \in Objects /\ cache \in Objects /\ rec.goal \in Wishes /\ "op" \in Kinds \ {"cm"}
  BY DEF TypeOK, PassOK, OverridePolicy, Kinds
<1>1. CASE rec.goal.arbiter
  <2>1. [store EXCEPT !["op"] = ArbiterCluster(rec.goal.order)] \in Objects
    BY <1>0, FirstCluster DEF Objects
  <2>2. Upsert("op", ArbiterCluster(rec.goal.order), "svc")
    BY <1>1 DEF OverridePolicy
  <2>3. QED
    BY <1>0, <2>1, <2>2, UpsertResult DEF Objects, Kinds
<1>2. CASE ~rec.goal.arbiter
  <2>1. Delete("op", "svc")
    BY <1>2 DEF OverridePolicy
  <2>2. QED
    BY <1>0, <2>1, DeleteResult DEF Objects, Kinds
<1>3. QED
  BY <1>1, <1>2

LEMMA ServicePolicyResult ==
    ASSUME TypeOK, PassOK, ServicePolicy
    PROVE  /\ store' \in Objects /\ cache' \in Objects
           /\ store'.svc = store.svc /\ store'.cm = store.cm
           /\ cache'.svc \in {cache.svc, store.svc}
           /\ \/ Return
              \/ rec.goal.arbiter /\ Goto("hostconf")
              \/ ~rec.goal.arbiter /\ Goto("clear")
<1>0. store \in Objects /\ cache \in Objects /\ rec.goal \in Wishes /\ "pp" \in Kinds \ {"cm"}
  BY DEF TypeOK, PassOK, ServicePolicy, Kinds
<1>1. CASE rec.goal.arbiter
  <2>1. [store EXCEPT !["pp"] = ArbiterCluster(rec.goal.order)] \in Objects
    BY <1>0, FirstCluster DEF Objects
  <2>2. Upsert("pp", ArbiterCluster(rec.goal.order), "hostconf")
    BY <1>1 DEF ServicePolicy
  <2>3. QED
    BY <1>0, <1>1, <2>1, <2>2, UpsertResult DEF Objects, Kinds
<1>2. CASE ~rec.goal.arbiter
  <2>1. Delete("pp", "clear")
    BY <1>2 DEF ServicePolicy
  <2>2. QED
    BY <1>0, <1>2, <2>1, DeleteResult DEF Objects, Kinds
<1>3. QED
  BY <1>1, <1>2

\* The port of the service to create is within the bound: there is a change to
\* pay for it.
LEMMA PortToGive ==
    ASSUME TypeOK, PortsInOrder, rec.pc # "idle", rec.goal.arbiter, store.svc = None
    PROVE  nextPort \in Ports
<1>1. ToCreate = 1
  BY DEF ToCreate, Goal
<1>2. /\ changes \in 0 .. MaxChanges /\ nextPort \in 1 .. MaxChanges + 2
      /\ nextPort + 1 <= changes + 2 /\ MaxChanges \in Nat
  BY <1>1, BoundsAssumption DEF TypeOK, PortsInOrder
<1>3. QED
  BY <1>2 DEF Ports

LEMMA ServiceResult ==
    ASSUME TypeOK, PassOK, PortsInOrder, Service
    PROVE  /\ store' \in Objects /\ cache' \in Objects /\ store'.cm = store.cm
           /\ cache'.svc \in {cache.svc, store'.svc}
           /\ \/ /\ rec.goal.arbiter /\ cache.svc # None /\ Goto("pp")
                 /\ store'.svc = store.svc /\ nextPort' = nextPort
              \/ Return /\ store'.svc = store.svc /\ nextPort' = nextPort
              \/ /\ rec.goal.arbiter /\ store.svc = None /\ Goto("pp")
                 /\ store'.svc = nextPort /\ nextPort' = nextPort + 1
              \/ /\ ~rec.goal.arbiter /\ cache.svc = None /\ Goto("pp")
                 /\ store'.svc = store.svc /\ nextPort' = nextPort
              \/ /\ ~rec.goal.arbiter /\ Goto("pp")
                 /\ store'.svc = None /\ nextPort' = nextPort
<1>0. /\ store \in Objects /\ cache \in Objects /\ rec.goal \in Wishes
      /\ "svc" \in Kinds \ {"cm"} /\ "cm" \in Kinds /\ rec.pc = "svc"
  BY DEF TypeOK, PassOK, Service, Kinds
<1>1. CASE rec.goal.arbiter /\ cache.svc # None
  BY <1>0, <1>1 DEF Service, objects
<1>2. CASE rec.goal.arbiter /\ cache.svc = None
  <2>1. /\ Write("svc", nextPort, "pp")
        /\ nextPort' = IF store.svc = None THEN nextPort + 1 ELSE nextPort
    BY <1>2 DEF Service
  <2>2. CASE store.svc = None
    <3>1. [store EXCEPT !["svc"] = nextPort] \in Objects
      BY <1>0, <1>2, <2>2, PortToGive DEF Objects
    <3>2. cache["svc"] = store["svc"]
      BY <1>0, <1>2, <2>2 DEF Objects
    <3>3. Goto("pp") /\ store' = [store EXCEPT !["svc"] = nextPort]
      BY <2>1, <3>2 DEF Write
    <3>4. QED
      BY <1>0, <1>2, <2>1, <2>2, <3>1, <3>3, WriteResult DEF Objects
  <2>3. CASE store.svc # None
    <3>1. Return /\ store' = store /\ Observe
      BY <1>0, <1>2, <2>1, <2>3 DEF Write, Objects
    <3>2. cache' \in Objects /\ cache'.svc \in {cache.svc, store.svc}
      BY <1>0, <3>1 DEF Observe, Objects, Kinds
    <3>3. QED
      BY <1>0, <2>1, <2>3, <3>1, <3>2
  <2>4. QED
    BY <2>2, <2>3
<1>3. CASE ~rec.goal.arbiter
  <2>1. Delete("svc", "pp") /\ nextPort' = nextPort
    BY <1>3 DEF Service
  <2>2. QED
    BY <1>0, <1>3, <2>1, DeleteResult DEF Objects
<1>4. QED
  BY <1>1, <1>2, <1>3

LEMMA ClearArbitersResult ==
    ASSUME TypeOK, ClearArbiters
    PROVE  /\ store' \in Objects /\ cache' \in Objects /\ store'.svc = store.svc
           /\ cache'.svc \in {cache.svc, store.svc}
           /\ \/ Return /\ store'.cm = store.cm
              \/ Goto("hostconf") /\ store'.cm = {}
<1>0. store \in Objects /\ cache \in Objects /\ "cm" \in Kinds /\ "svc" \in Kinds
  BY DEF TypeOK, Kinds
<1>1. [store EXCEPT !["cm"] = {}] \in Objects
  BY <1>0 DEF Objects
<1>2. Write("cm", {}, "hostconf")
  BY DEF ClearArbiters
<1>3. /\ store' \in Objects /\ cache' \in Objects /\ cache'["svc"] \in {cache["svc"], store'["svc"]}
      /\ \/ Return /\ store' = store
         \/ Goto("hostconf") /\ store' = [store EXCEPT !["cm"] = {}]
  BY <1>0, <1>1, <1>2, WriteResult
<1>4. QED
  BY <1>0, <1>3 DEF Objects

LEMMA HostConfResult ==
    ASSUME TypeOK, PassOK, HostConf
    PROVE  /\ store' \in Objects /\ cache' \in Objects /\ store'.svc = store.svc
           /\ cache'.svc \in {cache.svc, store.svc}
           /\ Return \/ Goto("idle")
           /\ \/ store'.cm = store.cm
              \/ ~rec.goal.arbiter /\ store'.cm = {}
              \/ /\ rec.goal.arbiter /\ cache.svc \in Ports
                 /\ \E c \in Clusters : store'.cm = {<<c, cache.svc>>}
<1>0. /\ store \in Objects /\ cache \in Objects /\ "cm" \in Kinds /\ "svc" \in Kinds
      /\ rec.goal \in Wishes /\ cache.svc \in Ports \cup {None}
  BY DEF TypeOK, PassOK, HostConf, Kinds, Objects
<1>1. CASE rec.goal.arbiter /\ cache.svc = None
  BY <1>0, <1>1 DEF HostConf
<1>2. CASE rec.goal.arbiter /\ cache.svc # None
  <2> DEFINE c == ArbiterCluster(rec.goal.order)
             v == {<<c, cache.svc>>}
  <2>1. c \in Clusters /\ cache.svc \in Ports
    BY <1>0, <1>2, FirstCluster
  <2>2. [store EXCEPT !["cm"] = v] \in Objects
    BY <1>0, <2>1 DEF Objects, Hosts
  <2>3. Upsert("cm", v, "idle")
    BY <1>2 DEF HostConf
  <2> HIDE DEF c, v
  <2>4. /\ store' \in Objects /\ cache' \in Objects
        /\ cache'["svc"] \in {cache["svc"], store'["svc"]}
        /\ Return \/ Goto("idle")
        /\ store' = store \/ store' = [store EXCEPT !["cm"] = v]
    BY <1>0, <2>2, <2>3, UpsertResult
  <2>5. store'.svc = store.svc /\ (store'.cm = store.cm \/ store'.cm = v)
    BY <1>0, <2>4 DEF Objects
  <2>6. cache'.svc \in {cache.svc, store.svc}
    BY <1>0, <2>4, <2>5 DEF Objects
  <2>7. QED
    BY <1>2, <2>1, <2>4, <2>5, <2>6 DEF v
<1>3. CASE ~rec.goal.arbiter
  <2>1. [store EXCEPT !["cm"] = {}] \in Objects
    BY <1>0 DEF Objects
  <2>2. Upsert("cm", {}, "idle")
    BY <1>3 DEF HostConf
  <2>3. /\ store' \in Objects /\ cache' \in Objects
        /\ cache'["svc"] \in {cache["svc"], store'["svc"]}
        /\ Return \/ Goto("idle")
        /\ store' = store \/ store' = [store EXCEPT !["cm"] = {}]
    BY <1>0, <2>1, <2>2, UpsertResult
  <2>4. store'.svc = store.svc /\ (store'.cm = store.cm \/ store'.cm = {})
    BY <1>0, <2>3 DEF Objects
  <2>5. cache'.svc \in {cache.svc, store.svc}
    BY <1>0, <2>3, <2>4 DEF Objects
  <2>6. QED
    BY <1>3, <2>3, <2>4, <2>5
<1>4. QED
  BY <1>1, <1>2, <1>3

-----------------------------------------------------------------------------
(* Types.                                                                  *)

WishTypes == want \in Wishes /\ changes \in 0 .. MaxChanges /\ hasty \in BOOLEAN
ObjectTypes == store \in Objects /\ cache \in Objects /\ nextPort \in 1 .. MaxChanges + 2
DeliveredTypes == /\ marked \subseteq Clusters /\ at \in [Clusters -> Ports \cup {None}]
                  /\ conf \in [Clusters -> SUBSET Hosts]
ArbiterTypes == sts \subseteq Clusters /\ leaving \subseteq sts /\ rs \subseteq Hosts
FaultTypes == faults \in 0 .. MaxFaults

LEMMA TypeParts ==
    /\ TypeOK <=> /\ WishTypes /\ ObjectTypes /\ rec \in Passes
                  /\ DeliveredTypes /\ ArbiterTypes /\ FaultTypes
    /\ TypeOK' <=> /\ WishTypes' /\ ObjectTypes' /\ rec' \in Passes
                   /\ DeliveredTypes' /\ ArbiterTypes' /\ FaultTypes'
  BY Zenon DEF TypeOK, WishTypes, ObjectTypes, Passes, DeliveredTypes, ArbiterTypes, FaultTypes

LEMMA SameTypes ==
    /\ WishTypes /\ UNCHANGED wishes => WishTypes'
    /\ ObjectTypes /\ UNCHANGED objects => ObjectTypes'
    /\ DeliveredTypes /\ UNCHANGED delivered => DeliveredTypes'
    /\ ArbiterTypes /\ UNCHANGED arbiters => ArbiterTypes'
    /\ FaultTypes /\ UNCHANGED faults => FaultTypes'
  BY Zenon DEF WishTypes, ObjectTypes, DeliveredTypes, ArbiterTypes, FaultTypes,
               wishes, objects, delivered, arbiters

\* The control plane goes on with its pass: to a place where the goal fits.
LEMMA PassStep ==
    ASSUME TypeOK, PassOK,
           \/ Return
           \/ \E pc \in PCs :
                 /\ Goto(pc) /\ rec.pc # "idle"
                 /\ pc = "clear" => ~rec.goal.arbiter
    PROVE  rec' \in Passes /\ PassOK'
<1>1. rec \in Passes
  BY TypeParts
<1>2. CASE Return
  BY <1>2, IdlePass DEF Return, PassOK
<1>3. ASSUME NEW pc \in PCs, Goto(pc), rec.pc # "idle", pc = "clear" => ~rec.goal.arbiter
      PROVE  rec' \in Passes /\ PassOK'
  BY <1>1, <1>3, GotoPass DEF PassOK
<1>4. QED
  BY <1>2, <1>3

LEMMA InitType == Init => TypeOK /\ PassOK
<1> SUFFICES ASSUME Init PROVE TypeOK /\ PassOK
  OBVIOUS
<1>1. WishTypes
  <2>1. changes \in 0 .. MaxChanges
    BY BoundsAssumption DEF Init
  <2>2. QED
    BY <2>1, Zenon DEF Init, WishTypes
<1>2. ObjectTypes
  <2>1. store \in Objects
    BY DEF Init, Objects
  <2>2. nextPort \in 1 .. MaxChanges + 2
    BY BoundsAssumption DEF Init
  <2>3. QED
    BY <2>1, <2>2 DEF Init, ObjectTypes
<1>3. rec \in Passes /\ PassOK
  BY IdlePass DEF Init, PassOK
<1>4. DeliveredTypes /\ ArbiterTypes /\ FaultTypes
  BY BoundsAssumption DEF Init, DeliveredTypes, ArbiterTypes, FaultTypes
<1>5. QED
  BY <1>1, <1>2, <1>3, <1>4, TypeParts

LEMMA NextType ==
    ASSUME TypeOK, PassOK, PortsInOrder, [Next]_vars
    PROVE  TypeOK' /\ PassOK'
<1>0. /\ WishTypes /\ ObjectTypes /\ rec \in Passes
      /\ DeliveredTypes /\ ArbiterTypes /\ FaultTypes
  BY TypeParts
<1>1. CASE UNCHANGED vars
  BY <1>0, <1>1, SameTypes, TypeParts DEF vars, PassOK
<1>2. CASE Reconcile
  <2>1. rec' \in Passes /\ PassOK'
    BY <1>0, <1>2 DEF Reconcile, Passes, PCs, PassOK, WishTypes
  <2>2. QED
    BY <1>0, <1>2, <2>1, SameTypes, TypeParts DEF Reconcile
<1>3. CASE OverridePolicy
  <2>1. ObjectTypes'
    BY <1>0, <1>3, OverridePolicyResult DEF OverridePolicy, ObjectTypes
  <2>2. rec' \in Passes /\ PassOK'
    BY <1>3, OverridePolicyResult, PassStep DEF OverridePolicy, PCs
  <2>3. QED
    BY <1>0, <1>3, <2>1, <2>2, SameTypes, TypeParts DEF OverridePolicy
<1>4. CASE Service
  <2>1. nextPort' \in 1 .. MaxChanges + 2
    <3>1. nextPort \in 1 .. MaxChanges + 2 /\ MaxChanges \in Nat
      BY <1>0, BoundsAssumption DEF ObjectTypes
    <3>2. \/ nextPort' = nextPort
          \/ nextPort' = nextPort + 1 /\ rec.goal.arbiter /\ store.svc = None
      BY <1>4, ServiceResult
    <3>3. rec.pc # "idle"
      BY <1>4 DEF Service
    <3>4. QED
      BY <3>1, <3>2, <3>3, PortToGive DEF Ports
  <2>2. ObjectTypes'
    BY <1>4, <2>1, ServiceResult DEF ObjectTypes
  <2>3. rec' \in Passes /\ PassOK'
    <3>1. Return \/ Goto("pp")
      BY <1>4, ServiceResult
    <3>2. QED
      BY <1>4, <3>1, PassStep DEF Service, PCs
  <2>4. QED
    BY <1>0, <1>4, <2>2, <2>3, SameTypes, TypeParts DEF Service
<1>5. CASE ServicePolicy
  <2>1. ObjectTypes'
    BY <1>0, <1>5, ServicePolicyResult DEF ServicePolicy, ObjectTypes
  <2>2. rec' \in Passes /\ PassOK'
    BY <1>5, ServicePolicyResult, PassStep DEF ServicePolicy, PCs
  <2>3. QED
    BY <1>0, <1>5, <2>1, <2>2, SameTypes, TypeParts DEF ServicePolicy
<1>6. CASE ClearArbiters
  <2>1. ObjectTypes'
    BY <1>0, <1>6, ClearArbitersResult DEF ClearArbiters, ObjectTypes
  <2>2. rec' \in Passes /\ PassOK'
    BY <1>6, ClearArbitersResult, PassStep DEF ClearArbiters, PCs
  <2>3. QED
    BY <1>0, <1>6, <2>1, <2>2, SameTypes, TypeParts DEF ClearArbiters
<1>7. CASE HostConf
  <2>1. ObjectTypes'
    BY <1>0, <1>7, HostConfResult DEF HostConf, ObjectTypes
  <2>2. rec' \in Passes /\ PassOK'
    BY <1>7, HostConfResult, PassStep DEF HostConf, PCs
  <2>3. QED
    BY <1>0, <1>7, <2>1, <2>2, SameTypes, TypeParts DEF HostConf
<1>8. CASE Fail
  <2>1. rec' \in Passes /\ PassOK'
    BY <1>8, PassStep DEF Fail
  <2>2. FaultTypes'
    BY <1>0, <1>8, BoundsAssumption DEF Fail, FaultTypes
  <2>3. QED
    BY <1>0, <1>8, <2>1, <2>2, SameTypes, TypeParts DEF Fail
<1>9. CASE Change
  <2>1. want' \in Wishes
    <3>1. want \in [arbiter : BOOLEAN, order : Orders]
      BY <1>0 DEF WishTypes, Wishes
    <3>2. CASE want' = [want EXCEPT !.arbiter = ~@]
      BY <3>1, <3>2 DEF Wishes
    <3>3. CASE \E o \in Orders \ {want.order} : want' = [want EXCEPT !.order = o]
      BY <3>1, <3>3 DEF Wishes
    <3>4. QED
      BY <1>9, <3>2, <3>3 DEF Change
  <2>2. changes' \in 0 .. MaxChanges
    BY <1>0, <1>9, BoundsAssumption DEF Change, WishTypes
  <2>3. hasty' \in BOOLEAN
    BY <1>9, Zenon DEF Change
  <2>4. WishTypes'
    BY <2>1, <2>2, <2>3, Zenon DEF WishTypes
  <2>5. QED
    BY <1>0, <1>9, <2>4, SameTypes, TypeParts DEF Change, PassOK
<1>10. ASSUME NEW k \in Kinds, CacheSync(k) PROVE TypeOK' /\ PassOK'
  <2>1. cache' \in Objects
    BY <1>0, <1>10 DEF CacheSync, ObjectTypes, Objects, Kinds
  <2>2. ObjectTypes'
    BY <1>0, <1>10, <2>1 DEF CacheSync, ObjectTypes
  <2>3. QED
    BY <1>0, <1>10, <2>2, SameTypes, TypeParts DEF CacheSync, PassOK
<1>11. ASSUME NEW c \in Clusters, DeliverService(c) \/ DeliverConf(c) \/ DeliverMongo(c)
       PROVE  TypeOK' /\ PassOK'
  <2>1. ServiceIn(c) \in Ports \cup {None} /\ store.cm \in SUBSET Hosts
    BY <1>0 DEF ObjectTypes, Objects, ServiceIn
  <2>2. DeliveredTypes'
    BY <1>0, <1>11, <2>1 DEF DeliverService, DeliverConf, DeliverMongo, DeliveredTypes
  <2>3. UNCHANGED <<wishes, objects, rec, arbiters, faults>>
    BY <1>11 DEF DeliverService, DeliverConf, DeliverMongo
  <2>4. QED
    BY <1>0, <2>2, <2>3, SameTypes, TypeParts DEF PassOK
<1>12. ASSUME NEW c \in Clusters, Operator(c) \/ Interrupt(c)
       PROVE  TypeOK' /\ PassOK'
  <2>1. ArbiterTypes'
    <3>1. CASE Join(c)
      BY <1>0, <3>1 DEF Join, ArbiterTypes, DeliveredTypes
    <3>2. CASE Leave(c)
      BY <1>0, <3>2 DEF Leave, ArbiterTypes
    <3>3. CASE EnsureSts(c) \/ DeleteSts(c) \/ Interrupt(c)
      BY <1>0, <3>3 DEF EnsureSts, DeleteSts, Interrupt, ArbiterTypes
    <3>4. QED
      BY <1>12, <3>1, <3>2, <3>3 DEF Operator
  <2>2. UNCHANGED <<wishes, objects, rec, delivered>>
    BY <1>12 DEF Operator, EnsureSts, Join, Leave, DeleteSts, Interrupt
  <2>3. FaultTypes'
    BY <1>0, <1>12, BoundsAssumption
       DEF FaultTypes, Operator, EnsureSts, Join, Leave, DeleteSts, Interrupt
  <2>4. QED
    BY <1>0, <2>1, <2>2, <2>3, SameTypes, TypeParts DEF PassOK
<1>13. QED
  BY <1>1, <1>2, <1>3, <1>4, <1>5, <1>6, <1>7, <1>8, <1>9, <1>10, <1>11, <1>12
     DEF Next, Handlers

-----------------------------------------------------------------------------
(* The promise, step by step.                                               *)

\* A pass begins, goes on or ends.
Passing == \/ rec'.pc = "idle"
           \/ rec.pc = "idle" /\ rec'.pc = "op" /\ rec'.goal = want
           \/ rec.pc # "idle" /\ rec'.pc # "idle" /\ rec'.goal = rec.goal

LEMMA PassingGoal ==
    ASSUME Passing, UNCHANGED want
    PROVE  /\ (Goal' <=> want.arbiter) \/ (Goal' <=> Goal)
           /\ rec.pc = "idle" \/ rec'.pc = "idle" => (Goal' <=> want.arbiter)
           /\ rec'.pc # "idle" => (Goal' <=> Goal)
  BY DEF Passing, Goal

\* The service stays as it is; the hostconf may be cleared at the end of a pass
\* that is after no arbiter, or name the service the cache shows.
LEMMA ServiceStays ==
    ASSUME TypeOK, PortsInOrder, Seen, Patient, Passing,
           UNCHANGED <<wishes, nextPort, delivered, arbiters>>,
           store'.svc = store.svc, cache'.svc \in {cache.svc, store.svc},
           \/ store'.cm = store.cm
           \/ store'.cm = {} /\ rec.pc \in {"clear", "hostconf"} /\ ~rec.goal.arbiter
           \/ \E c \in Clusters : store'.cm = {<<c, cache.svc>>} /\ cache.svc \in Ports,
           ~hasty /\ ~want.arbiter /\ ~Goal' /\ rec'.pc \in {"pp", "clear", "hostconf"} =>
               rec.pc \in {"pp", "clear", "hostconf"} \/ store.svc = None
    PROVE  PortsInOrder' /\ Seen' /\ Patient'
<1>1. UNCHANGED <<want, changes, hasty, nextPort, at, rs, sts, leaving>>
  BY DEF wishes, delivered, arbiters
<1>2. PortsInOrder'
  <2>1. ToCreate \in {0, 1} /\ ToCreate' \in {0, 1} /\ (ToCreate' = 1 => ToCreate = 1)
    BY <1>1, PassingGoal DEF ToCreate
  <2>2. nextPort' + ToCreate' <= changes' + 2
    BY <1>1, <2>1 DEF PortsInOrder, TypeOK
  <2>3. \A h \in store'.cm : h[2] < nextPort
    BY NoneAssumption DEF PortsInOrder
  <2>4. QED
    BY <1>1, <2>2, <2>3 DEF PortsInOrder
<1>3. Seen'
  BY DEF Seen
<1>4. ASSUME ~hasty PROVE Wanted' /\ Unwanted'
  <2>1. Wanted /\ Unwanted
    BY <1>4 DEF Patient
  <2>2. Wanted'
    BY <1>1, <2>1, PassingGoal DEF Wanted
  <2>3. Unwanted'
    <3>1. SUFFICES ASSUME ~want.arbiter PROVE Unwanted'
      BY <1>1 DEF Unwanted
    <3>2. rec'.pc # "idle" /\ Goal' => store.svc # None
      BY <1>1, <2>1, <3>1, PassingGoal DEF Unwanted
    <3>3. store.svc # None => cache'.svc = store.svc
      BY <2>1, <3>1 DEF Unwanted
    <3>4. ~Goal' /\ rec'.pc \in {"pp", "clear", "hostconf"} => store.svc = None
      BY <1>1, <1>4, <2>1, <3>1, PassingGoal DEF Unwanted
    <3>5. store'.cm = {} => store.svc = None /\ ~Goal'
      <4>1. CASE store'.cm = store.cm
        BY <1>1, <2>1, <3>1, <4>1, PassingGoal DEF Unwanted
      <4>2. CASE rec.pc \in {"clear", "hostconf"} /\ ~rec.goal.arbiter
        <5>1. ~Goal /\ store.svc = None
          BY <2>1, <3>1, <4>2 DEF Unwanted, Goal
        <5>2. QED
          BY <1>1, <3>1, <5>1, PassingGoal
      <4>3. QED
        BY <4>1, <4>2
    <3>6. QED
      BY <1>1, <3>1, <3>2, <3>3, <3>4, <3>5 DEF Unwanted
  <2>4. QED
    BY <2>2, <2>3
<1>5. ASSUME ~hasty PROVE OnePort' /\ AllRemoved' /\ \A h \in rs' : h[1] \in sts'
  <2>1. Live' = Live /\ OnePort /\ AllRemoved /\ \A h \in rs : h[1] \in sts
    BY <1>1, <1>5 DEF Live, Patient
  <2>2. QED
    BY <1>1, <2>1 DEF OnePort, AllRemoved, HostsOf
<1>6. QED
  BY <1>1, <1>2, <1>3, <1>4, <1>5 DEF Patient

LEMMA ServiceIInv ==
    ASSUME TypeOK, PassOK, PortsInOrder, Seen, Patient, Service
    PROVE  PortsInOrder' /\ Seen' /\ Patient'
<1>0. /\ UNCHANGED <<wishes, delivered, arbiters>> /\ rec.pc = "svc"
      /\ store'.cm = store.cm /\ cache'.svc \in {cache.svc, store'.svc} /\ rec \in Passes
      /\ "pp" \in PCs
  BY ServiceResult, TypeParts DEF Service, PCs
<1>1. UNCHANGED <<want, changes, hasty, at, rs, sts, leaving>>
  BY <1>0 DEF wishes, delivered, arbiters
<1>2. CASE Return /\ store'.svc = store.svc /\ nextPort' = nextPort
  <2>1. rec'.pc = "idle"
    BY <1>2, IdlePass DEF Return
  <2>2. QED
    BY <1>0, <1>2, <2>1, ServiceStays DEF Passing
<1>3. CASE rec.goal.arbiter /\ Goto("pp") /\ store'.svc = store.svc /\ nextPort' = nextPort
  <2>1. rec'.pc = "pp" /\ rec'.goal = rec.goal
    BY <1>0, <1>3, GotoPass
  <2>2. Goal'
    BY <1>3, <2>1 DEF Goal
  <2>3. Passing
    BY <1>0, <2>1 DEF Passing
  <2>4. QED
    BY <1>0, <1>3, <2>2, <2>3, ServiceStays
<1>4. CASE /\ ~rec.goal.arbiter /\ cache.svc = None /\ Goto("pp")
           /\ store'.svc = store.svc /\ nextPort' = nextPort
  <2>1. rec'.pc = "pp" /\ rec'.goal = rec.goal
    BY <1>0, <1>4, GotoPass
  <2>2. Passing
    BY <1>0, <2>1 DEF Passing
  <2>3. ~hasty /\ ~want.arbiter => store.svc = None
    BY <1>4 DEF Patient, Unwanted
  <2>4. QED
    BY <1>0, <1>4, <2>2, <2>3, ServiceStays
<1>5. CASE /\ rec.goal.arbiter /\ store.svc = None /\ Goto("pp")
           /\ store'.svc = nextPort /\ nextPort' = nextPort + 1
  <2>1. rec'.pc = "pp" /\ rec'.goal = rec.goal
    BY <1>0, <1>5, GotoPass
  <2>2. Goal /\ Goal'
    BY <1>0, <1>5, <2>1 DEF Goal
  <2>3. nextPort \in Ports /\ nextPort \in Nat /\ nextPort # None
    BY <1>0, <1>5, PortToGive, NoneAssumption DEF PortsInOrder
  <2>4. ToCreate = 1 /\ ToCreate' = 0
    BY <1>5, <2>2, <2>3 DEF ToCreate
  <2>5. PortsInOrder'
    <3>1. nextPort' + ToCreate' <= changes' + 2 /\ nextPort' \in Nat
      BY <1>1, <1>5, <2>3, <2>4 DEF PortsInOrder, TypeOK
    <3>2. ASSUME NEW p \in {store'.svc, cache'.svc} \ {None} PROVE p < nextPort'
      <4>1. p = nextPort \/ (p = cache.svc /\ cache.svc # None)
        BY <1>0, <1>5, <3>2
      <4>2. p = nextPort \/ (p < nextPort /\ p \in Ports)
        BY <4>1 DEF PortsInOrder, TypeOK, Objects
      <4>3. QED
        BY <1>5, <2>3, <4>2 DEF Ports
    <3>3. ASSUME NEW h \in store'.cm PROVE h[2] < nextPort'
      <4>1. h[2] < nextPort /\ h[2] \in Ports
        BY <1>0, <3>3 DEF PortsInOrder, TypeOK, Objects, Hosts
      <4>2. QED
        BY <1>5, <2>3, <4>1 DEF Ports
    <3>4. QED
      BY <3>1, <3>2, <3>3 DEF PortsInOrder
  <2>6. Seen'
    <3>1. ASSUME NEW c \in Clusters, <<c, nextPort>> \in store.cm PROVE FALSE
      BY <2>3, <3>1 DEF PortsInOrder
    <3>2. QED
      BY <1>0, <1>5, <3>1 DEF Seen
  <2>7. ASSUME ~hasty PROVE Patient'
    <3>1. Wanted /\ Unwanted /\ AllRemoved /\ \A h \in rs : h[1] \in sts
      BY <2>7 DEF Patient
    <3>2. want.arbiter
      BY <1>0, <1>5, <2>2, <3>1 DEF Unwanted
    <3>3. rs = {} /\ \A c \in Clusters : at[c] = None
      BY <1>5, <3>1, <3>2 DEF Wanted
    <3>4. Wanted' /\ Unwanted'
      BY <1>1, <1>5, <2>2, <2>3, <3>2 DEF Wanted, Unwanted
    <3>5. OnePort'
      BY <1>1, <1>5, <2>3, <3>3, NoneAssumption DEF OnePort, Live
    <3>6. QED
      BY <1>1, <3>1, <3>4, <3>5 DEF Patient, AllRemoved, HostsOf
  <2>8. QED
    BY <1>1, <2>5, <2>6, <2>7 DEF Patient
<1>6. CASE /\ ~rec.goal.arbiter /\ Goto("pp")
           /\ store'.svc = None /\ nextPort' = nextPort
  <2>1. rec'.pc = "pp" /\ rec'.goal = rec.goal
    BY <1>0, <1>6, GotoPass
  <2>2. ~Goal /\ ~Goal'
    BY <1>0, <1>6, <2>1 DEF Goal
  <2>3. ToCreate' = ToCreate
    BY <1>1, <2>2 DEF ToCreate
  <2>4. PortsInOrder' /\ Seen'
    BY <1>0, <1>1, <1>6, <2>3 DEF PortsInOrder, Seen
  <2>5. ASSUME ~hasty PROVE Patient'
    <3>1. Wanted /\ Unwanted /\ OnePort /\ AllRemoved /\ \A h \in rs : h[1] \in sts
      BY <2>5 DEF Patient
    <3>2. want.arbiter => store.svc = None
      BY <1>0, <2>2, <3>1 DEF Wanted
    <3>3. Wanted' /\ Unwanted'
      BY <1>1, <1>6, <2>2, <3>1, <3>2 DEF Wanted, Unwanted
    <3>4. OnePort'
      BY <1>1, <1>6, <3>1, NoneAssumption DEF OnePort, Live
    <3>5. QED
      BY <1>1, <3>1, <3>3, <3>4 DEF Patient, AllRemoved, HostsOf
  <2>6. QED
    BY <1>1, <2>4, <2>5 DEF Patient
<1>7. QED
  BY <1>2, <1>3, <1>4, <1>5, <1>6, ServiceResult

\* The other steps of the control plane leave the service as it is.
LEMMA HandlersIInv ==
    ASSUME TypeOK, PassOK, PortsInOrder, Seen, Patient,
           \/ Reconcile \/ OverridePolicy \/ ServicePolicy \/ ClearArbiters \/ HostConf
           \/ Fail \/ \E k \in Kinds : CacheSync(k)
    PROVE  PortsInOrder' /\ Seen' /\ Patient'
<1>0. rec \in Passes /\ {"svc", "hostconf", "clear", "idle"} \subseteq PCs
  BY TypeParts DEF PCs
<1>1. Return => rec'.pc = "idle" /\ Passing
  BY IdlePass DEF Return, Passing
<1>2. \A pc \in PCs : Goto(pc) /\ rec.pc # "idle" =>
                        rec'.pc = pc /\ rec'.goal = rec.goal /\ Passing
  BY <1>0, GotoPass DEF Passing
<1>3. CASE Reconcile
  <2>1. rec'.pc = "op" /\ Passing /\ UNCHANGED <<wishes, objects, delivered, arbiters>>
    BY <1>3 DEF Reconcile, Passing
  <2>2. QED
    BY <2>1, ServiceStays DEF objects
<1>4. CASE OverridePolicy
  <2>1. /\ UNCHANGED <<wishes, nextPort, delivered, arbiters>>
        /\ rec.pc # "idle" /\ store'.svc = store.svc /\ store'.cm = store.cm
        /\ cache'.svc \in {cache.svc, store.svc} /\ (Return \/ Goto("svc"))
    BY <1>4, OverridePolicyResult DEF OverridePolicy
  <2>2. Passing /\ rec'.pc \in {"idle", "svc"}
    BY <1>0, <1>1, <1>2, <2>1
  <2>3. QED
    BY <2>1, <2>2, ServiceStays
<1>5. CASE ServicePolicy
  <2>1. /\ UNCHANGED <<wishes, nextPort, delivered, arbiters>>
        /\ rec.pc = "pp" /\ store'.svc = store.svc /\ store'.cm = store.cm
        /\ cache'.svc \in {cache.svc, store.svc}
        /\ Return \/ Goto("hostconf") \/ Goto("clear")
    BY <1>5, ServicePolicyResult DEF ServicePolicy
  <2>2. Passing
    BY <1>0, <1>1, <1>2, <2>1
  <2>3. QED
    BY <2>1, <2>2, ServiceStays
<1>6. CASE ClearArbiters
  <2>1. /\ UNCHANGED <<wishes, nextPort, delivered, arbiters>>
        /\ rec.pc = "clear" /\ store'.svc = store.svc
        /\ store'.cm = store.cm \/ store'.cm = {}
        /\ cache'.svc \in {cache.svc, store.svc} /\ (Return \/ Goto("hostconf"))
    BY <1>6, ClearArbitersResult DEF ClearArbiters
  <2>2. Passing /\ ~rec.goal.arbiter
    BY <1>0, <1>1, <1>2, <2>1 DEF PassOK
  <2>3. QED
    BY <2>1, <2>2, ServiceStays
<1>7. CASE HostConf
  <2>1. /\ UNCHANGED <<wishes, nextPort, delivered, arbiters>>
        /\ rec.pc = "hostconf" /\ store'.svc = store.svc
        /\ cache'.svc \in {cache.svc, store.svc} /\ (Return \/ Goto("idle"))
    BY <1>7, HostConfResult DEF HostConf
  <2>2. Passing /\ rec'.pc = "idle"
    BY <1>0, <1>1, <1>2, <2>1
  <2>3. QED
    BY <1>7, <2>1, <2>2, HostConfResult, ServiceStays
<1>8. CASE Fail
  <2>1. UNCHANGED <<wishes, objects, delivered, arbiters>> /\ Return
    BY <1>8 DEF Fail
  <2>2. QED
    BY <1>1, <2>1, ServiceStays DEF objects
<1>9. ASSUME NEW k \in Kinds, CacheSync(k) PROVE PortsInOrder' /\ Seen' /\ Patient'
  <2>1. /\ UNCHANGED <<wishes, store, nextPort, rec, delivered, arbiters>>
        /\ cache' = [cache EXCEPT ![k] = store[k]]
    BY <1>9 DEF CacheSync
  <2>2. cache'.svc \in {cache.svc, store.svc}
    BY <2>1 DEF TypeOK, Objects, Kinds
  <2>3. Passing /\ rec'.pc = rec.pc
    BY <2>1 DEF Passing
  <2>4. QED
    BY <2>1, <2>2, <2>3, ServiceStays
<1>10. QED
  BY <1>3, <1>4, <1>5, <1>6, <1>7, <1>8, <1>9

\* The wish changes.  If everything had settled, the service is there when an
\* arbiter was wanted and not when it was not.
LEMMA ChangeIInv ==
    ASSUME TypeOK, PassOK, PortsInOrder, Seen, Patient, Change
    PROVE  PortsInOrder' /\ Seen' /\ Patient'
<1>0. /\ changes' = changes + 1
      /\ UNCHANGED <<store, cache, nextPort, rec, at, conf, marked, sts, leaving, rs>>
      /\ want'.arbiter = ~want.arbiter \/ want'.arbiter = want.arbiter
  <2>1. want \in [arbiter : BOOLEAN, order : Orders]
    BY DEF TypeOK, Wishes
  <2>2. want'.arbiter = ~want.arbiter \/ want'.arbiter = want.arbiter
    <3>1. CASE want' = [want EXCEPT !.arbiter = ~@]
      BY <2>1, <3>1
    <3>2. CASE \E o \in Orders \ {want.order} : want' = [want EXCEPT !.order = o]
      BY <2>1, <3>2
    <3>3. QED
      BY <3>1, <3>2 DEF Change
  <2>3. QED
    BY <2>2 DEF Change, objects, delivered, arbiters
<1>1. PortsInOrder'
  <2>1. /\ ToCreate \in Nat /\ changes \in Nat
        /\ ToCreate' \in Nat /\ ToCreate' <= 1
    BY DEF ToCreate, TypeOK
  <2>2. nextPort \in Nat /\ nextPort + ToCreate <= changes + 2
    BY DEF PortsInOrder
  <2>3. nextPort' = nextPort /\ changes' = changes + 1
    BY <1>0
  <2>4. \A a, b, n, k \in Nat : n + a <= k + 2 /\ b <= 1 => n + b <= k + 1 + 2
    OBVIOUS
  <2>5. nextPort' + ToCreate' <= changes' + 2
    BY <2>1, <2>2, <2>3, <2>4
  <2>6. QED
    BY <1>0, <2>5 DEF PortsInOrder
<1>2. Seen'
  BY <1>0 DEF Seen
<1>3. ASSUME ~hasty' PROVE Patient'
  <2>1. Settled /\ ~hasty
    BY <1>3 DEF Change
  <2>2. /\ Wanted /\ Unwanted /\ OnePort /\ AllRemoved
        /\ \A h \in rs : h[1] \in sts
    BY <2>1 DEF Patient
  <2>3. OnePort' /\ AllRemoved' /\ \A h \in rs' : h[1] \in sts'
    BY <1>0, <2>2 DEF OnePort, Live, AllRemoved, HostsOf
  <2>4. CASE want.arbiter /\ want'.arbiter
    BY <1>0, <2>2, <2>3, <2>4 DEF Patient, Wanted, Unwanted, Goal
  <2>5. CASE ~want.arbiter /\ ~want'.arbiter
    BY <1>0, <2>2, <2>3, <2>5 DEF Patient, Wanted, Unwanted, Goal
  <2>6. CASE ~want.arbiter /\ want'.arbiter
    <3>1. store.cm = {} /\ rs = {}
      BY <2>1, <2>6 DEF Settled, Expected
    <3>2. store.svc = None
      BY <2>2, <2>6, <3>1 DEF Unwanted
    <3>3. \A c \in Clusters : at[c] = None
      BY <2>1, <3>2 DEF Settled, ServiceIn
    <3>4. Wanted' /\ Unwanted'
      BY <1>0, <2>6, <3>1, <3>2, <3>3 DEF Wanted, Unwanted
    <3>5. QED
      BY <2>3, <3>4 DEF Patient
  <2>7. CASE want.arbiter /\ ~want'.arbiter
    <3> DEFINE c == ArbiterCluster(want.order)
    <3>1. c \in Clusters
      BY FirstCluster DEF TypeOK
    <3>2. rs = {<<c, store.svc>>} /\ store.cm = {<<c, store.svc>>}
      BY <2>1, <2>7 DEF Settled, Expected
    <3>3. <<c, store.svc>> \in Clusters \X Ports
      BY <3>2 DEF TypeOK, Hosts
    <3>4. store.svc # None
      BY <3>3, NoneAssumption
    <3>5. cache.svc = store.svc
      BY <3>1, <3>2, <3>4 DEF Seen
    <3>6. rec.pc # "idle" => Goal
      BY <2>2, <2>7, <3>4 DEF Wanted
    <3>7. rec.pc # "idle" => Goal'
      BY <1>0, <3>6 DEF Goal
    <3>8. Wanted' /\ Unwanted'
      BY <1>0, <2>7, <3>2, <3>4, <3>5, <3>7 DEF Wanted, Unwanted
    <3>9. QED
      BY <2>3, <3>8 DEF Patient
  <2>8. QED
    BY <1>0, <2>4, <2>5, <2>6, <2>7
<1>4. QED
  BY <1>1, <1>2, <1>3 DEF Patient

LEMMA DeliverIInv ==
    ASSUME TypeOK, PortsInOrder, Seen, Patient, NEW c \in Clusters,
           DeliverService(c) \/ DeliverConf(c) \/ DeliverMongo(c)
    PROVE  PortsInOrder' /\ Seen' /\ Patient'
<1>0. /\ UNCHANGED <<want, changes, hasty, store, cache, nextPort, rec, sts, leaving, rs>>
      /\ at' = at \/ at' = [at EXCEPT ![c] = ServiceIn(c)]
  BY DEF DeliverService, DeliverConf, DeliverMongo, wishes, objects, arbiters
<1>1. \A d \in Clusters : at'[d] \in {at[d], store.svc, None}
  BY <1>0 DEF TypeOK, ServiceIn
<1>2. PortsInOrder' /\ Seen'
  BY <1>0 DEF PortsInOrder, Seen, ToCreate, Goal
<1>3. ASSUME ~hasty PROVE Patient'
  <2>1. /\ Wanted /\ Unwanted /\ OnePort /\ AllRemoved
        /\ \A h \in rs : h[1] \in sts
    BY <1>3 DEF Patient
  <2>2. Wanted'
    BY <1>0, <1>1, <2>1 DEF Wanted, Goal
  <2>3. Unwanted'
    BY <1>0, <2>1 DEF Unwanted, Goal
  <2>4. OnePort'
    BY <1>0, <1>1, <2>1, NoneAssumption DEF OnePort, Live
  <2>5. QED
    BY <1>0, <2>1, <2>2, <2>3, <2>4 DEF Patient, AllRemoved, HostsOf
<1>4. QED
  BY <1>0, <1>2, <1>3 DEF Patient

\* One port means one host in a cluster.
LEMMA OneHost ==
    ASSUME TypeOK, OnePort, NEW c \in Clusters, NEW g \in HostsOf(c), NEW h \in HostsOf(c)
    PROVE  g = h
<1>1. g \in rs /\ h \in rs /\ g[1] = c /\ h[1] = c /\ rs \subseteq Clusters \X Ports
  BY DEF HostsOf, TypeOK, Hosts
<1>2. g = <<c, g[2]>> /\ h = <<c, h[2]>> /\ g[2] \in Ports /\ h[2] \in Ports
  BY <1>1
<1>3. g[2] \in Live /\ h[2] \in Live
  BY <1>1, <1>2 DEF Live
<1>4. QED
  BY <1>2, <1>3 DEF OnePort

LEMMA OperatorIInv ==
    ASSUME TypeOK, PortsInOrder, Seen, Patient, NEW c \in Clusters, Operator(c) \/ Interrupt(c)
    PROVE  PortsInOrder' /\ Seen' /\ Patient'
<1>0. UNCHANGED <<want, changes, hasty, store, cache, nextPort, rec, at, conf>>
  BY DEF Operator, EnsureSts, Join, Leave, DeleteSts, Interrupt, wishes, objects, delivered
<1>1. PortsInOrder' /\ Seen'
  BY <1>0 DEF PortsInOrder, Seen, ToCreate, Goal
<1>2. SUFFICES ASSUME ~hasty
               PROVE  Wanted' /\ OnePort' /\ AllRemoved' /\ \A h \in rs' : h[1] \in sts'
  <2>1. ~hasty => Unwanted'
    BY <1>0 DEF Patient, Unwanted, Goal
  <2>2. QED
    BY <1>0, <1>1, <1>2, <2>1 DEF Patient
<1>3. /\ Wanted /\ OnePort /\ AllRemoved
      /\ \A h \in rs : h[1] \in sts
  BY <1>2 DEF Patient
<1>4. CASE rs' \subseteq rs
  <2>1. Wanted'
    BY <1>0, <1>3, <1>4 DEF Wanted, Goal
  <2>2. OnePort'
    BY <1>0, <1>3, <1>4 DEF OnePort, Live
  <2>3. CASE EnsureSts(c) \/ Interrupt(c)
    BY <1>3, <1>4, <2>1, <2>2, <2>3 DEF EnsureSts, Interrupt, AllRemoved, HostsOf
  <2>4. CASE DeleteSts(c)
    BY <1>3, <1>4, <2>1, <2>2, <2>4 DEF DeleteSts, AllRemoved, HostsOf
  <2>5. CASE Leave(c)
    <3>1. HostsOf(c)' = {}
      <4>1. rs' = rs \ Removed(c)
        BY <2>5 DEF Leave
      <4>2. CASE HostsOf(c) = {}
        BY <1>4, <4>2 DEF HostsOf
      <4>3. CASE HostsOf(c) # {}
        <5>1. PICK g : g \in HostsOf(c) /\ Removed(c) = {g}
          BY <4>3 DEF Removed
        <5>2. \A h \in HostsOf(c) : h = g
          BY <1>3, <5>1, OneHost
        <5>3. QED
          BY <4>1, <5>1, <5>2 DEF HostsOf
      <4>4. QED
        BY <4>2, <4>3
    <3>2. AllRemoved'
      BY <1>3, <1>4, <2>5, <3>1 DEF Leave, AllRemoved, HostsOf
    <3>3. QED
      BY <1>3, <1>4, <2>1, <2>2, <2>5, <3>2 DEF Leave
  <2>6. CASE Join(c)
    BY <1>4, <2>6 DEF Join
  <2>7. QED
    BY <2>3, <2>4, <2>5, <2>6 DEF Operator
<1>5. CASE ~(rs' \subseteq rs)
  <2>1. Join(c) /\ c \notin leaving
    BY <1>5 DEF Operator, EnsureSts, Leave, DeleteSts, Interrupt
  <2>2. /\ c \in sts /\ <<c, at[c]>> \in conf[c] /\ rs' = rs \cup {<<c, at[c]>>}
        /\ UNCHANGED <<sts, leaving>>
    BY <2>1 DEF Join
  <2>3. at[c] \in Ports /\ at[c] # None
    BY <2>2, NoneAssumption DEF TypeOK, Hosts
  <2>4. Wanted'
    BY <1>0, <1>3, <2>3 DEF Wanted, Goal
  <2>5. Live' = Live
    BY <1>0, <2>2, <2>3 DEF Live
  <2>6. AllRemoved'
    BY <1>3, <2>1, <2>2 DEF AllRemoved, HostsOf
  <2>7. QED
    BY <1>3, <2>2, <2>4, <2>5, <2>6 DEF OnePort
<1>6. QED
  BY <1>4, <1>5

-----------------------------------------------------------------------------
LEMMA InitIInv == Init => IInv
<1> SUFFICES ASSUME Init PROVE IInv
  OBVIOUS
<1>1. /\ store.svc = None /\ cache.svc = None /\ store.cm = {} /\ rec.pc = "idle"
      /\ nextPort = 1 /\ changes = 0 /\ rs = {} /\ leaving = {}
      /\ \A c \in Clusters : at[c] = None
  BY IdlePass DEF Init
<1>2. ToCreate \in {0, 1}
  BY DEF ToCreate
<1>3. PortsInOrder /\ Seen
  BY <1>1, <1>2 DEF PortsInOrder, Seen
<1>4. Patient
  BY <1>1, NoneAssumption
     DEF Patient, Wanted, Unwanted, OnePort, Live, AllRemoved, Goal
<1>5. QED
  BY <1>3, <1>4, InitType DEF IInv

LEMMA NextIInv == IInv /\ [Next]_vars => IInv'
<1> SUFFICES ASSUME IInv, [Next]_vars PROVE IInv'
  OBVIOUS
<1>1. TypeOK' /\ PassOK'
  BY NextType DEF IInv
<1>2. CASE UNCHANGED vars
  <2>1. PortsInOrder' /\ Seen'
    BY <1>2 DEF IInv, PortsInOrder, Seen, ToCreate, Goal, vars, wishes, objects
  <2>2. Patient'
    BY <1>2 DEF IInv, Patient, Wanted, Unwanted, OnePort, Live, AllRemoved, HostsOf, Goal,
                vars, wishes, objects, delivered, arbiters
  <2>3. QED
    BY <1>1, <2>1, <2>2 DEF IInv
<1>3. CASE Next
  <2>1. PortsInOrder' /\ Seen' /\ Patient'
    BY <1>3, ServiceIInv, HandlersIInv, ChangeIInv, DeliverIInv, OperatorIInv
       DEF IInv, Next, Handlers
  <2>2. QED
    BY <1>1, <2>1 DEF IInv
<1>4. QED
  BY <1>2, <1>3

\* Every variable of the arbiter keeps its type: among them the ports, which no
\* sequence of changes, failed calls and late caches uses up, because a service
\* is created again only after a change of the wish.
THEOREM TypeCorrect == Spec => []TypeOK
<1>1. Spec => []IInv
  BY InitIInv, NextIInv, PTL DEF Spec
<1>2. IInv => TypeOK
  BY DEF IInv
<1>3. QED
  BY <1>1, <1>2, PTL

\* As long as every change of Config.Arbiter or of the schedule waits until the
\* last one has settled, an arbiter of the replica set has its stateful set: the
\* one host that scaleDownArbiterNode removes before it deletes the stateful set
\* is the only one.
THEOREM ArbiterHasPodCorrect == Spec => []ArbiterHasPod
<1>1. Spec => []IInv
  BY InitIInv, NextIInv, PTL DEF Spec
<1>2. IInv => ArbiterHasPod
  BY DEF IInv, Patient, ArbiterHasPod
<1>3. QED
  BY <1>1, <1>2, PTL
=============================================================================
