--------------------------- MODULE DeletionProofs ---------------------------
(***************************************************************************)
(* Any number of clusters and hosts, failed calls and changes of the objects: *)
(* a MongoDB that is gone has left nothing in the replica set, unless a pod     *)
(* restarted meanwhile.  The invariant follows the finalizer: what it has still  *)
(* to remove covers what the replica set has of its cluster, because the pods    *)
(* it lists cover it at the start and a pod leaves the list only after its host   *)
(* has left the replica set, which never grows.                               *)
(***************************************************************************)
EXTENDS Deletion, FiniteSetTheorems, TLAPS

PlaneOK ==
    /\ kinds \subseteq {"policy", "service", "hostconf", "mongo", "override"}
    /\ deleteAt \in 0 .. 6
    /\ mongoTo \subseteq Clusters /\ confTo \subseteq mongoTo
    /\ conf \subseteq Clusters
    /\ mongo \in [Clusters -> {"live", "deleted", "gone"}]
    /\ state \in [Clusters -> {"Running", "Reconciling"}]
    /\ troubles \in 0 .. MaxTroubles
    /\ restarted \in BOOLEAN

\* The finalizer works on the data pods of its cluster.
OperatorOK ==
    /\ op \in [Clusters -> Ops]
    /\ \A c \in Clusters :
          /\ op[c].todo \subseteq Data(c)
          /\ op[c].pc \in {"remove", "delete"} => op[c].pod \in op[c].todo
          /\ op[c].pc = "delete" => op[c].pod \notin rs

PodsOK ==
    /\ sts \subseteq Hosts /\ away \subseteq sts /\ rs \subseteq Hosts
    /\ primary \in (rs \cap sts) \cup {None}

\* What is left in the replica set is what is left to do.
Covered ==
    ~restarted =>
        /\ away = {}
        /\ rs \ Arbiters \subseteq sts
        /\ \A c \in Clusters :
              /\ op[c].pc \in {"next", "remove", "delete"} =>
                     rs \cap Data(c) \subseteq op[c].todo
              /\ op[c].pc = "finish" => rs \cap Data(c) = {}
              /\ mongo[c] = "gone" => rs \cap Data(c) = {}

IInv == PlaneOK /\ OperatorOK /\ PodsOK /\ Covered

-----------------------------------------------------------------------------
\* The members of a MongoDB are a natural number.
LEMMA DataCardinality ==
    ASSUME NEW c \in Clusters
    PROVE  Cardinality(Data(c)) \in 0 .. Cardinality(Hosts)
<1>1. Data(c) \subseteq Hosts
  BY DEF Data
<1>2. QED
  BY <1>1, HostsAssumption, FS_Subset, FS_CardinalityType

LEMMA IdleOps == Idle \in Ops /\ Idle.todo = {} /\ Idle.pc = "idle"
<1>1. Cardinality(Hosts) \in Nat
  BY HostsAssumption, FS_CardinalityType
<1>2. QED
  BY <1>1 DEF Idle, Ops, PCs

\* Giving up loses nothing but the work to do.
LEMMA GiveUpOK ==
    ASSUME OperatorOK, NEW c \in Clusters, GiveUp(c), rs' \subseteq rs
    PROVE  /\ OperatorOK'
           /\ \A d \in Clusters : op'[d] \in {op[d], Idle}
           /\ op'[c] = Idle
<1>1. /\ \A d \in Clusters : op'[d] = IF d = c THEN Idle ELSE op[d]
      /\ op' \in [Clusters -> Ops]
  BY IdleOps DEF GiveUp, OperatorOK
<1>2. QED
  BY <1>1, IdleOps DEF OperatorOK, Data

\* A step that changes one operator's record to a good one.
LEMMA OperatorStep ==
    ASSUME OperatorOK, NEW c \in Clusters, NEW r \in Ops,
           op' = [op EXCEPT ![c] = r], rs' \subseteq rs,
           r.todo \subseteq Data(c),
           r.pc \in {"remove", "delete"} => r.pod \in r.todo,
           r.pc = "delete" => r.pod \notin rs'
    PROVE  /\ OperatorOK'
           /\ op'[c] = r
           /\ \A d \in Clusters \ {c} : op'[d] = op[d]
<1>1. /\ \A d \in Clusters : op'[d] = IF d = c THEN r ELSE op[d]
      /\ op' \in [Clusters -> Ops]
  BY DEF OperatorOK
<1>2. QED
  BY <1>1 DEF OperatorOK, Data

LEMMA InitIInv == Init => IInv
<1> SUFFICES ASSUME Init PROVE IInv
  OBVIOUS
<1>1. PlaneOK
  <2>1. kinds \subseteq {"policy", "service", "hostconf", "mongo", "override"}
    BY DEF Init, DeleteOrder
  <2>2. restarted \in BOOLEAN
    BY Zenon DEF Init
  <2>3. troubles \in 0 .. MaxTroubles
    BY MaxTroublesAssumption DEF Init
  <2>4. deleteAt \in 0 .. 6
    BY DEF Init
  <2>5. /\ mongo \in [Clusters -> {"live", "deleted", "gone"}]
        /\ state \in [Clusters -> {"Running", "Reconciling"}]
    BY DEF Init
  <2>6. QED
    BY <2>1, <2>2, <2>3, <2>4, <2>5, Zenon DEF Init, PlaneOK
<1>2. OperatorOK
  BY IdleOps DEF Init, OperatorOK
<1>3. PodsOK
  BY DEF Init, PodsOK
<1>4. Covered
  BY IdleOps DEF Init, Covered
<1>5. QED
  BY <1>1, <1>2, <1>3, <1>4 DEF IInv

-----------------------------------------------------------------------------
(* The control plane and the pods.                                         *)

LEMMA PlaneIInv ==
    ASSUME IInv,
           \/ DeleteDeployment \/ DeleteKind \/ DeleteFails \/ DrainMongo
           \/ \E c \in Clusters : DrainConf(c) \/ WithdrawConf(c) \/ WithdrawMongo(c)
    PROVE  IInv'
<1> USE DEF DeleteDeployment, DeleteKind, DeleteFails, DrainMongo, DrainConf,
            WithdrawConf, WithdrawMongo
<1>1. UNCHANGED <<op, sts, away, rs, primary, restarted, state>>
  BY DEF plane, copies, pods, bounds
<1>2. PlaneOK'
  <2>1. Len(DeleteOrder) = 5
    BY DEF DeleteOrder
  <2>2. restarted' \in BOOLEAN
    BY <1>1, Zenon DEF IInv, PlaneOK
  <2>3. troubles' \in 0 .. MaxTroubles
    BY MaxTroublesAssumption DEF IInv, PlaneOK, Trouble, bounds
  <2>4. deleteAt' \in 0 .. 6
    BY <2>1 DEF IInv, PlaneOK, plane
  <2>5. mongo' \in [Clusters -> {"live", "deleted", "gone"}]
    BY DEF IInv, PlaneOK, copies
  <2>6. QED
    BY <1>1, <2>2, <2>3, <2>4, <2>5 DEF IInv, PlaneOK, plane, copies
<1>3. OperatorOK' /\ PodsOK'
  BY <1>1 DEF IInv, OperatorOK, PodsOK, Data
<1>4. \A c \in Clusters : mongo'[c] = "gone" => mongo[c] = "gone"
  BY DEF IInv, PlaneOK, copies
<1>5. Covered'
  BY <1>1, <1>4 DEF IInv, Covered, Data
<1>6. QED
  BY <1>2, <1>3, <1>5 DEF IInv

LEMMA PodIInv ==
    ASSUME IInv, NEW h \in Hosts, PodLeaves(h) \/ PodReturns(h)
    PROVE  IInv'
<1>1. UNCHANGED <<plane, copies, state, op, sts, rs>>
  BY DEF PodLeaves, PodReturns
<1>2. troubles' \in 0 .. MaxTroubles
  BY MaxTroublesAssumption DEF PodLeaves, PodReturns, IInv, PlaneOK, Trouble, bounds
<1>3. restarted' \in BOOLEAN /\ (restarted' = restarted \/ restarted' = TRUE)
  BY Zenon DEF PodLeaves, PodReturns, IInv, PlaneOK, bounds
<1>4. PlaneOK'
  BY <1>1, <1>2, <1>3 DEF IInv, PlaneOK, plane, copies
<1>5. OperatorOK'
  BY <1>1 DEF IInv, OperatorOK, Data
<1>6. PodsOK'
  <2>1. CASE PodLeaves(h)
    BY <2>1 DEF PodLeaves, IInv, PodsOK, Electable, NextPrimary
  <2>2. CASE PodReturns(h)
    BY <2>2 DEF PodReturns, IInv, PodsOK
  <2>3. QED
    BY <2>1, <2>2
<1>7. Covered'
  <2>1. CASE PodLeaves(h)
    BY <2>1 DEF PodLeaves, Covered
  <2>2. CASE PodReturns(h)
    BY <1>1, <2>2 DEF PodReturns, copies, bounds, IInv, Covered, Data
  <2>3. QED
    BY <2>1, <2>2
<1>8. QED
  BY <1>4, <1>5, <1>6, <1>7 DEF IInv

-----------------------------------------------------------------------------
(* The finalizer.                                                          *)

\* Steps that put an operator back to idle, or that only mark its object.
LEMMA TouchIInv ==
    ASSUME IInv, NEW c \in Clusters, Touch(c) \/ Fail(c)
    PROVE  IInv'
<1>1. UNCHANGED <<plane, copies, state, pods, restarted>>
  BY DEF Touch, Fail
<1>2. PlaneOK'
  <2>1. troubles' \in 0 .. MaxTroubles
    BY MaxTroublesAssumption DEF Touch, Fail, IInv, PlaneOK, Trouble
  <2>2. QED
    BY <1>1, <2>1, Zenon DEF IInv, PlaneOK, plane, copies
<1>3. PodsOK' /\ rs' \subseteq rs
  BY <1>1 DEF IInv, PodsOK, pods
<1>4. /\ OperatorOK'
      /\ \A d \in Clusters :
            op'[d].pc = "idle" \/ (op'[d].pc = op[d].pc /\ op'[d].todo = op[d].todo)
  <2>1. CASE Touch(c)
    <3> DEFINE r == [op[c] EXCEPT !.stale = TRUE]
    <3>1. /\ r \in Ops /\ r.todo = op[c].todo /\ r.pc = op[c].pc /\ r.pod = op[c].pod
          /\ op' = [op EXCEPT ![c] = r]
      BY <2>1 DEF Touch, IInv, OperatorOK, Ops
    <3>2. QED
      BY <1>1, <1>3, <3>1, OperatorStep DEF IInv, OperatorOK, pods
  <2>2. CASE Fail(c)
    BY <1>3, <2>2, GiveUpOK, IdleOps DEF Fail, IInv
  <2>3. QED
    BY <2>1, <2>2
<1>5. ASSUME NEW d \in Clusters, op'[d].pc # "idle"
      PROVE  op'[d].pc = op[d].pc /\ op'[d].todo = op[d].todo
  BY <1>4, <1>5
<1>6. Covered'
  BY <1>1, <1>5 DEF IInv, Covered, Data, pods, copies
<1>7. QED
  BY <1>2, <1>3, <1>4, <1>6 DEF IInv

LEMMA ReconcileIInv ==
    ASSUME IInv, NEW c \in Clusters, Reconcile(c)
    PROVE  IInv'
<1> DEFINE r == [Idle EXCEPT !.pc = "sync"]
<1>1. r \in Ops /\ r.todo = {} /\ r.pc = "sync" /\ op' = [op EXCEPT ![c] = r]
  BY IdleOps DEF Reconcile, Ops, PCs, Idle
<1>2. PlaneOK' /\ PodsOK'
  BY Zenon DEF Reconcile, IInv, PlaneOK, PodsOK, plane, copies, pods, bounds
<1>3. OperatorOK' /\ op'[c] = r /\ \A d \in Clusters \ {c} : op'[d] = op[d]
  BY <1>1, OperatorStep DEF Reconcile, IInv, pods
<1>4. Covered'
  BY <1>1, <1>3 DEF Reconcile, IInv, Covered, Data, pods, copies, bounds
<1>5. QED
  BY <1>2, <1>3, <1>4 DEF IInv

\* The pods listed at the start cover what the replica set has of the cluster.
LEMMA SyncMemberIInv ==
    ASSUME IInv, NEW c \in Clusters, SyncMember(c)
    PROVE  IInv'
<1>1. PICK n \in {Cardinality(Data(c)), 0} :
         op' = [op EXCEPT ![c] = [op[c] EXCEPT !.members = n, !.todo = Surplus(c),
                                               !.pc = "next"]]
  BY DEF SyncMember, IInv, OperatorOK
<1> DEFINE r == [op[c] EXCEPT !.members = n, !.todo = Surplus(c), !.pc = "next"]
<1>2. UNCHANGED <<plane, copies, pods, bounds>>
      /\ state' \in {state, [state EXCEPT ![c] = "Reconciling"]}
  BY DEF SyncMember
<1>3. Surplus(c) \subseteq Data(c)
  BY DEF Surplus, PodsOf, Data, IInv, PodsOK
<1>4. r \in Ops /\ r.todo = Surplus(c) /\ r.pc = "next" /\ op' = [op EXCEPT ![c] = r]
  <2>1. n \in 0 .. Cardinality(Hosts)
    BY DataCardinality, HostsAssumption, FS_CardinalityType
  <2>2. Surplus(c) \subseteq Hosts
    BY <1>3 DEF Data
  <2>3. QED
    BY <1>1, <2>1, <2>2 DEF IInv, OperatorOK, Ops, PCs
<1>5. PlaneOK' /\ PodsOK'
  <2>1. state' \in [Clusters -> {"Running", "Reconciling"}]
    BY <1>2 DEF IInv, PlaneOK
  <2>2. QED
    BY <1>2, <2>1, Zenon DEF IInv, PlaneOK, PodsOK, plane, copies, pods, bounds
<1>6. OperatorOK' /\ op'[c] = r /\ \A d \in Clusters \ {c} : op'[d] = op[d]
  BY <1>2, <1>3, <1>4, OperatorStep DEF IInv, pods
<1>7. ~restarted => rs \cap Data(c) \subseteq Surplus(c)
  BY DEF IInv, Covered, Surplus, PodsOf, Data
<1>8. Covered'
  BY <1>2, <1>4, <1>6, <1>7 DEF IInv, Covered, Data, pods, copies, bounds
<1>9. QED
  BY <1>5, <1>6, <1>8 DEF IInv

LEMMA NextPodIInv ==
    ASSUME IInv, NEW c \in Clusters, NextPod(c)
    PROVE  IInv'
<1>1. UNCHANGED <<plane, copies, state, sts, away, rs, bounds>>
  BY DEF NextPod
<1>2. PICK h \in op[c].todo :
         \/ GiveUp(c) /\ UNCHANGED primary
         \/ /\ primary' \in Successors(h)
            /\ op' = [op EXCEPT ![c].pod = h, ![c].pc = "remove"]
  BY DEF NextPod
<1>3. op[c].pc = "next" /\ h \in Data(c) /\ h \in Hosts
  BY DEF NextPod, IInv, OperatorOK, Data
<1>4. PlaneOK'
  BY <1>1, Zenon DEF IInv, PlaneOK, plane, copies, bounds
<1>5. PodsOK'
  BY <1>1, <1>2 DEF IInv, PodsOK, Successors, Electable
<1>6. /\ OperatorOK'
      /\ \A d \in Clusters \ {c} : op'[d] \in {op[d], Idle}
      /\ op'[c].pc = "idle" \/ (op'[c].pc = "remove" /\ op'[c].todo = op[c].todo)
  <2>1. CASE GiveUp(c)
    BY <1>1, <2>1, GiveUpOK, IdleOps DEF IInv
  <2>2. CASE op' = [op EXCEPT ![c].pod = h, ![c].pc = "remove"]
    <3> DEFINE r == [op[c] EXCEPT !.pod = h, !.pc = "remove"]
    <3>1. /\ r \in Ops /\ r.todo = op[c].todo /\ r.pc = "remove" /\ r.pod = h
          /\ op' = [op EXCEPT ![c] = r]
      BY <1>3, <2>2 DEF IInv, OperatorOK, Ops, PCs
    <3>2. QED
      BY <1>1, <3>1, OperatorStep DEF IInv, OperatorOK
  <2>3. QED
    BY <1>2, <2>1, <2>2
<1>7. Covered'
  <2>1. \A d \in Clusters : op'[d].pc = "finish" => op'[d] = op[d]
    BY <1>6, IdleOps
  <2>2. ASSUME NEW d \in Clusters, op'[d].pc \in {"next", "remove", "delete"}
        PROVE  op[d].pc \in {"next", "remove", "delete"} /\ op'[d].todo = op[d].todo
    BY <1>3, <1>6, <2>2, IdleOps
  <2>3. QED
    BY <1>1, <2>1, <2>2 DEF IInv, Covered, Data, copies, bounds
<1>8. QED
  BY <1>4, <1>5, <1>6, <1>7 DEF IInv

LEMMA RemoveMemberIInv ==
    ASSUME IInv, NEW c \in Clusters, RemoveMember(c)
    PROVE  IInv'
<1>1. UNCHANGED <<plane, copies, state, sts, away, bounds>>
  BY DEF RemoveMember
<1>2. PlaneOK'
  BY <1>1, Zenon DEF IInv, PlaneOK, plane, copies, bounds
<1>3. CASE c \in conf /\ rs # {op[c].pod}
  <2> DEFINE r == [op[c] EXCEPT !.pc = "delete"]
  <2>1. /\ rs' = rs \ {op[c].pod}
        /\ primary' \in IF primary = op[c].pod THEN NextPrimary(Electable(rs'))
                                               ELSE {primary}
        /\ op' = [op EXCEPT ![c].pc = "delete"]
    BY <1>3 DEF RemoveMember
  <2>2. /\ r \in Ops /\ r.todo = op[c].todo /\ r.pc = "delete" /\ r.pod = op[c].pod
        /\ op' = [op EXCEPT ![c] = r] /\ op[c].pc = "remove"
    BY <2>1 DEF RemoveMember, IInv, OperatorOK, Ops, PCs
  <2>3. OperatorOK' /\ op'[c] = r /\ \A d \in Clusters \ {c} : op'[d] = op[d]
    BY <2>1, <2>2, OperatorStep DEF IInv, OperatorOK
  <2>4. PodsOK'
    BY <1>1, <2>1 DEF IInv, PodsOK, Electable, NextPrimary
  <2>5. Covered'
    BY <1>1, <2>1, <2>2, <2>3 DEF IInv, Covered, Data, copies, bounds
  <2>6. QED
    BY <1>2, <2>3, <2>4, <2>5 DEF IInv
<1>4. CASE ~(c \in conf /\ rs # {op[c].pod})
  <2>1. GiveUp(c) /\ UNCHANGED <<rs, primary>>
    BY <1>4 DEF RemoveMember
  <2>2. OperatorOK' /\ \A d \in Clusters : op'[d] \in {op[d], Idle}
    BY <2>1, GiveUpOK DEF IInv
  <2>3. PodsOK'
    BY <1>1, <2>1 DEF IInv, PodsOK
  <2>4. Covered'
    BY <1>1, <2>1, <2>2, IdleOps DEF IInv, Covered, Data, copies, bounds
  <2>5. QED
    BY <1>2, <2>2, <2>3, <2>4 DEF IInv
<1>5. QED
  BY <1>3, <1>4

LEMMA DeleteStsIInv ==
    ASSUME IInv, NEW c \in Clusters, DeleteSts(c)
    PROVE  IInv'
<1> DEFINE r == [op[c] EXCEPT !.todo = op[c].todo \ {op[c].pod}, !.pod = None,
                              !.pc = "next"]
<1>1. /\ UNCHANGED <<plane, copies, state, rs, primary, bounds>>
      /\ sts' = sts \ {op[c].pod} /\ away' = away \ {op[c].pod}
      /\ op[c].pc = "delete" /\ op[c].pod \notin rs
  BY DEF DeleteSts, IInv, OperatorOK
<1>2. /\ r \in Ops /\ r.todo = op[c].todo \ {op[c].pod} /\ r.pc = "next"
      /\ op' = [op EXCEPT ![c] = r]
  <2>1. op \in [Clusters -> Ops] /\ op[c] \in Ops
    BY DEF IInv, OperatorOK
  <2>2. op[c].todo \ {op[c].pod} \in SUBSET Hosts
    BY <2>1 DEF Ops
  <2>3. r \in Ops /\ r.todo = op[c].todo \ {op[c].pod} /\ r.pc = "next"
    BY <2>1, <2>2 DEF Ops, PCs
  <2>4. op' = [op EXCEPT ![c] = r]
    BY <2>1 DEF DeleteSts
  <2>5. QED
    BY <2>3, <2>4
<1>3. PlaneOK'
  BY <1>1, Zenon DEF IInv, PlaneOK, plane, copies, bounds
<1>4. PodsOK'
  BY <1>1 DEF IInv, PodsOK
<1>5. OperatorOK' /\ op'[c] = r /\ \A d \in Clusters \ {c} : op'[d] = op[d]
  BY <1>1, <1>2, OperatorStep DEF IInv, OperatorOK
<1>6. Covered'
  BY <1>1, <1>2, <1>5 DEF IInv, Covered, Data, copies, bounds
<1>7. QED
  BY <1>3, <1>4, <1>5, <1>6 DEF IInv

\* With nothing left to do, nothing is left in the replica set.
LEMMA CheckIInv ==
    ASSUME IInv, NEW c \in Clusters, Check(c)
    PROVE  IInv'
<1>1. UNCHANGED <<plane, copies, state, pods, bounds>>
      /\ op[c].pc = "next" /\ op[c].todo = {}
  BY DEF Check
<1>2. PlaneOK' /\ PodsOK'
  BY <1>1, Zenon DEF IInv, PlaneOK, PodsOK, plane, copies, pods, bounds
<1>3. CASE op' = [op EXCEPT ![c].pc = "finish"]
  <2> DEFINE r == [op[c] EXCEPT !.pc = "finish"]
  <2>1. r \in Ops /\ r.todo = {} /\ r.pc = "finish" /\ op' = [op EXCEPT ![c] = r]
    BY <1>1, <1>3 DEF IInv, OperatorOK, Ops, PCs
  <2>2. OperatorOK' /\ op'[c] = r /\ \A d \in Clusters \ {c} : op'[d] = op[d]
    BY <1>1, <2>1, OperatorStep DEF IInv, pods
  <2>3. Covered'
    BY <1>1, <2>1, <2>2 DEF IInv, Covered, Data, pods, copies, bounds
  <2>4. QED
    BY <1>2, <2>2, <2>3 DEF IInv
<1>4. CASE GiveUp(c)
  <2>1. OperatorOK' /\ \A d \in Clusters : op'[d] \in {op[d], Idle}
    BY <1>1, <1>4, GiveUpOK DEF IInv, pods
  <2>2. Covered'
    BY <1>1, <2>1, IdleOps DEF IInv, Covered, Data, pods, copies, bounds
  <2>3. QED
    BY <1>2, <2>1, <2>2 DEF IInv
<1>5. QED
  BY <1>3, <1>4 DEF Check

LEMMA RemoveFinalizerIInv ==
    ASSUME IInv, NEW c \in Clusters, RemoveFinalizer(c)
    PROVE  IInv'
<1>1. /\ UNCHANGED <<plane, conf, state, rs, bounds>> /\ GiveUp(c)
      /\ op[c].pc = "finish"
      /\ \/ UNCHANGED <<mongo, sts, away>>
         \/ /\ mongo' = [mongo EXCEPT ![c] = "gone"]
            /\ sts' = {h \in sts : Owner[h] # c} /\ away' = away \cap sts'
      /\ primary' \in IF primary \in sts' THEN {primary}
                      ELSE NextPrimary((rs' \ Arbiters) \cap (sts' \ away'))
  BY DEF RemoveFinalizer, Electable
<1>2. mongo' \in [Clusters -> {"live", "deleted", "gone"}]
      /\ \A d \in Clusters \ {c} : mongo'[d] = mongo[d]
  BY <1>1 DEF IInv, PlaneOK
<1>3. PlaneOK'
  BY <1>1, <1>2, Zenon DEF IInv, PlaneOK, plane, bounds
<1>4. PodsOK'
  BY <1>1 DEF IInv, PodsOK, NextPrimary
<1>5. OperatorOK' /\ \A d \in Clusters : op'[d] \in {op[d], Idle}
  BY <1>1, GiveUpOK DEF IInv
<1>6. Covered'
  <2>1. SUFFICES ASSUME ~restarted PROVE Covered'
    BY <1>1 DEF Covered, bounds
  <2>2. rs \cap Data(c) = {} /\ away = {} /\ rs \ Arbiters \subseteq sts
    BY <1>1, <2>1 DEF IInv, Covered
  <2>3. rs' \ Arbiters \subseteq sts' /\ away' = {}
    BY <1>1, <2>2 DEF IInv, PodsOK, Data
  <2>4. \A d \in Clusters : mongo'[d] = "gone" => rs' \cap Data(d)' = {}
    BY <1>1, <1>2, <2>1, <2>2 DEF IInv, Covered, Data
  <2>5. QED
    BY <1>1, <1>5, <2>1, <2>3, <2>4, IdleOps DEF IInv, Covered, Data
<1>7. QED
  BY <1>3, <1>4, <1>5, <1>6 DEF IInv

-----------------------------------------------------------------------------
LEMMA Inductive == IInv /\ [Next]_vars => IInv'
<1> SUFFICES ASSUME IInv, [Next]_vars PROVE IInv'
  OBVIOUS
<1>1. CASE \/ DeleteDeployment \/ DeleteKind \/ DeleteFails \/ DrainMongo
           \/ \E c \in Clusters : DrainConf(c) \/ WithdrawConf(c) \/ WithdrawMongo(c)
  BY <1>1, PlaneIInv
<1>2. CASE \E c \in Clusters : Touch(c) \/ Fail(c)
  BY <1>2, TouchIInv
<1>3. CASE \E c \in Clusters : Operator(c)
  BY <1>3, ReconcileIInv, SyncMemberIInv, NextPodIInv, RemoveMemberIInv, DeleteStsIInv,
     CheckIInv, RemoveFinalizerIInv DEF Operator
<1>4. CASE \E h \in Hosts : PodLeaves(h) \/ PodReturns(h)
  BY <1>4, PodIInv
<1>5. CASE UNCHANGED vars
  <2>1. PlaneOK' /\ PodsOK' /\ OperatorOK'
    BY <1>5, Zenon DEF IInv, PlaneOK, PodsOK, OperatorOK, Data,
                       vars, plane, copies, pods, bounds
  <2>2. Covered'
    BY <1>5 DEF IInv, Covered, Data, vars, plane, copies, pods, bounds
  <2>3. QED
    BY <2>1, <2>2 DEF IInv
<1>6. QED
  BY <1>1, <1>2, <1>3, <1>4, <1>5 DEF Next

\* Type correctness, which for this module says that a primary always has a host
\* in the configuration and a stateful set (sync.go removes the one before the
\* other), for any clusters, hosts and number of failures.
THEOREM TypeCorrect == Spec => []TypeOK
<1>1. Spec => []IInv
  BY InitIInv, Inductive, PTL DEF Spec
<1>2. IInv => TypeOK
  <2> SUFFICES ASSUME IInv PROVE TypeOK
    OBVIOUS
  <2>1. deleteAt \in 0 .. Len(DeleteOrder) + 1
    BY DEF IInv, PlaneOK, DeleteOrder
  <2>2. QED
    BY <2>1, Zenon DEF IInv, PlaneOK, OperatorOK, PodsOK, TypeOK
<1>3. QED
  BY <1>1, <1>2, PTL

\* A MongoDB whose finalizer is gone has left no data host in the replica set, as
\* long as no pod restarts: for any number of clusters whose finalizers run at
\* once, calls that fail, status writes whose answer puts Spec.Members back and
\* objects that are stale when they are written (mongodb_controller.go:96-111).
THEOREM GoneIsCleanCorrect == Spec => []GoneIsClean
<1>1. Spec => []IInv
  BY InitIInv, Inductive, PTL DEF Spec
<1>2. IInv => GoneIsClean
  BY DEF IInv, Covered, GoneIsClean
<1>3. QED
  BY <1>1, <1>2, PTL

-----------------------------------------------------------------------------
(* The primary steps down before its host is removed.  An operator works only  *)
(* on a MongoDB that is being deleted, so that in a lone cluster no other        *)
(* operator can bring the office back between StepDown and RemoveMember.         *)

Working == \A c \in Clusters : op[c].pc # "idle" => mongo[c] # "live"

SteppedDown ==
    \A c \in Clusters : op[c].pc = "remove" /\ Lone(c) => primary # op[c].pod

\* One operator's step changes its own record only.  If it is about to remove a
\* host afterwards it has made sure now, or made sure before, that it is not the
\* primary.
LEMMA OneOperator ==
    ASSUME IInv, NEW c \in Clusters, Operator(c) \/ Touch(c) \/ Fail(c)
    PROVE  /\ \A d \in Clusters \ {c} : op'[d] = op[d]
           /\ op'[c].pc # "idle" => op[c].pc # "idle" \/ mongo[c] = "deleted"
           /\ op'[c].pc # "idle" => mongo' = mongo
           /\ op'[c].pc = "remove" => \/ primary' # op'[c].pod
                                     \/ /\ op[c].pc = "remove" /\ op'[c].pod = op[c].pod
                                        /\ primary' = primary
<1> USE DEF pods, copies
<1>0. op \in [Clusters -> Ops] /\ Idle.pc = "idle"
  BY IdleOps DEF IInv, OperatorOK
<1>1. CASE GiveUp(c)
  BY <1>0, <1>1 DEF GiveUp
<1>2. CASE Reconcile(c)
  BY <1>0, <1>2 DEF Reconcile, Idle
<1>3. CASE SyncMember(c)
  <2> DEFINE r(n) == [op[c] EXCEPT !.members = n, !.todo = Surplus(c), !.pc = "next"]
  <2>1. PICK n : op' = [op EXCEPT ![c] = r(n)]
    BY <1>0, <1>3 DEF SyncMember
  <2>2. r(n).pc = "next"
    BY <1>0 DEF Ops
  <2> HIDE DEF r
  <2>3. QED
    BY <1>0, <1>3, <2>1, <2>2 DEF SyncMember
<1>4. CASE NextPod(c) /\ ~GiveUp(c)
  <2>1. PICK h \in op[c].todo : /\ primary' \in Successors(h)
                               /\ op' = [op EXCEPT ![c].pod = h, ![c].pc = "remove"]
    BY <1>4 DEF NextPod
  <2>2. primary' # h
    BY <2>1 DEF Successors
  <2>3. op'[c].pod = h /\ \A d \in Clusters \ {c} : op'[d] = op[d]
    BY <1>0, <2>1 DEF Ops
  <2>4. QED
    BY <1>4, <2>2, <2>3 DEF NextPod
<1>5. CASE RemoveMember(c) /\ ~GiveUp(c)
  BY <1>0, <1>5 DEF RemoveMember, Ops
<1>6. CASE DeleteSts(c)
  BY <1>0, <1>6 DEF DeleteSts, Ops
<1>7. CASE Check(c) /\ ~GiveUp(c)
  BY <1>0, <1>7 DEF Check, Ops
<1>8. CASE Touch(c)
  BY <1>0, <1>8 DEF Touch, Ops
<1>9. QED
  BY <1>1, <1>2, <1>3, <1>4, <1>5, <1>6, <1>7, <1>8 DEF Operator, RemoveFinalizer, Fail

\* A MongoDB that is being deleted stays so, and a pod that has been away has been.
LEMMA NoWayBack ==
    ASSUME IInv, [Next]_vars
    PROVE  /\ restarted => restarted'
           /\ \A d \in Clusters : mongo'[d] = "live" => mongo[d] = "live"
<1> USE DEF plane, copies, bounds
<1>0. mongo \in [Clusters -> {"live", "deleted", "gone"}]
  BY DEF IInv, PlaneOK
<1>1. CASE \/ DeleteDeployment \/ DeleteKind \/ DeleteFails \/ DrainMongo
           \/ \E c \in Clusters : DrainConf(c) \/ WithdrawConf(c) \/ WithdrawMongo(c)
  BY <1>0, <1>1 DEF DeleteDeployment, DeleteKind, DeleteFails, DrainMongo, DrainConf,
                    WithdrawConf, WithdrawMongo
<1>2. ASSUME NEW c \in Clusters, Operator(c) \/ Touch(c) \/ Fail(c)
      PROVE  /\ UNCHANGED restarted
             /\ \A d \in Clusters : mongo'[d] = "live" => mongo[d] = "live"
  BY <1>0, <1>2 DEF Operator, Reconcile, SyncMember, NextPod, RemoveMember, DeleteSts, Check,
                    RemoveFinalizer, Touch, Fail
<1>3. CASE \E h \in Hosts : PodLeaves(h) \/ PodReturns(h)
  BY <1>3 DEF PodLeaves, PodReturns
<1>4. CASE UNCHANGED vars
  BY <1>4 DEF vars
<1>5. QED
  BY <1>1, <1>2, <1>3, <1>4 DEF Next

LEMMA SteppedDownStep ==
    ASSUME IInv, Working, SteppedDown, [Next]_vars
    PROVE  Working' /\ SteppedDown'
<1> USE DEF plane, copies, pods, bounds
<1>0. \A c \in Clusters : Lone(c)' => Lone(c)
  BY NoWayBack DEF Lone
<1>1. CASE UNCHANGED <<op, primary>>
  BY <1>0, <1>1, NoWayBack DEF Working, SteppedDown
<1>2. ASSUME NEW c \in Clusters, Operator(c) \/ Touch(c) \/ Fail(c)
      PROVE  Working' /\ SteppedDown'
  <2>1. Working'
    BY <1>2, OneOperator, NoWayBack DEF Working
  <2>2. ASSUME NEW d \in Clusters, op'[d].pc = "remove", Lone(d)'
        PROVE  primary' # op'[d].pod
    <3>1. Lone(d)
      BY <1>0, <2>2
    <3>2. CASE d = c
      BY <1>2, <2>2, <3>1, <3>2, OneOperator DEF SteppedDown
    <3>3. CASE d # c
      <4>1. op'[d] = op[d] /\ mongo[c] = "live" /\ op[c].pc = "idle"
        BY <1>2, <3>1, <3>3, OneOperator DEF Lone, Working
      <4>2. Reconcile(c)
        BY <1>2, <4>1 DEF Operator, SyncMember, NextPod, RemoveMember, DeleteSts, Check,
                          RemoveFinalizer, Touch, Fail
      <4>3. QED
        BY <4>1, <4>2 DEF Reconcile
    <3>4. QED
      BY <3>2, <3>3
  <2>3. QED
    BY <2>1, <2>2 DEF SteppedDown
<1>3. ASSUME NEW h \in Hosts, PodLeaves(h) \/ PodReturns(h)
      PROVE  Working' /\ SteppedDown'
  <2>1. UNCHANGED op /\ UNCHANGED mongo
    BY <1>3 DEF PodLeaves, PodReturns
  <2>2. restarted'
    BY <1>3 DEF PodLeaves, PodReturns, IInv, Covered
  <2>3. QED
    BY <2>1, <2>2 DEF Working, SteppedDown, Lone
<1>4. QED
  BY <1>1, <1>2, <1>3 DEF Next, DeleteDeployment, DeleteKind, DeleteFails, DrainMongo, DrainConf,
     WithdrawConf, WithdrawMongo, vars

\* scaleDownDataNode asks the primary to step down before MongoRemoveMember takes
\* its host out: in a lone cluster whose pods stay up it is never the primary's
\* host that leaves the configuration.
THEOREM PrimaryStepsDownCorrect == Spec => PrimaryStepsDown
<1>1. Init => IInv /\ Working /\ SteppedDown
  BY InitIInv, IdleOps DEF Init, Working, SteppedDown
<1>2. IInv /\ Working /\ SteppedDown /\ [Next]_vars => (IInv /\ Working /\ SteppedDown)'
  BY Inductive, SteppedDownStep
<1>3. IInv /\ Working /\ SteppedDown /\ [Next]_vars
        => [\A h \in rs \ rs' : Lone(Owner[h]) => h # primary]_vars
  <2> SUFFICES ASSUME IInv, SteppedDown, [Next]_vars, NEW h \in rs \ rs', Lone(Owner[h])
               PROVE  h # primary
    OBVIOUS
  <2>1. PICK c \in Clusters : RemoveMember(c)
    BY DEF Next, DeleteDeployment, DeleteKind, DeleteFails, DrainMongo, DrainConf, WithdrawConf,
       WithdrawMongo, Operator, Reconcile, SyncMember, NextPod, DeleteSts, Check,
       RemoveFinalizer, Touch, Fail, PodLeaves, PodReturns, vars, pods
  <2>2. op[c].pc = "remove" /\ h = op[c].pod
    BY <2>1 DEF RemoveMember
  <2>3. Owner[h] = c
    BY <2>2 DEF IInv, OperatorOK, Data
  <2>4. QED
    BY <2>2, <2>3 DEF SteppedDown
<1>4. QED
  BY <1>1, <1>2, <1>3, PTL DEF Spec, PrimaryStepsDown
=============================================================================
