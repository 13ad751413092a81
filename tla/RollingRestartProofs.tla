------------------------ MODULE RollingRestartProofs ------------------------
(***************************************************************************)
(* Any number of pods, changes, elections and failures, with an arbiter's pod  *)
(* among them or without.  Types need no                                      *)
(* assumption.  The three action properties need one: that the members in the  *)
(* other clusters and a single pod of this one are a majority (OneLeft), as     *)
(* when another cluster of the same size is up.  Without it the deletion of      *)
(* the secondaries takes the majority away, the primary resigns in the middle,   *)
(* and the pod that is elected afterwards need not be the one that was spared.    *)
(*                                                                         *)
(* The inductive invariant says, for every place of the reconciliation, what   *)
(* the pods look like there: who is still to be deleted, who holds the office,  *)
(* and which pods still run with the old resources.                           *)
(***************************************************************************)
EXTENDS RollingRestart, FiniteSetTheorems, TLAPS

\* The members in the other clusters and one pod are a majority.
OneLeft == Others + 2 > Cardinality(Pods)

First == {"", "NotInProcess"}

Up == Ready(pod)

\* The pods that have not been restarted after the first change.
Old == {p \in Listed(pod) : runs[p] # 1}

Renewed == \A p \in Pods : template[p] = 1

-----------------------------------------------------------------------------
(* Who holds the office.                                                   *)

Deleting ==
    op.pc = "secondaries" =>
        /\ op.todo # {} /\ op.todo \subseteq Up \ {op.leader}
        /\ primary = op.leader /\ op.leader # Nobody

SteppingDown ==
    op.pc \in {"stepdown", "primary"} =>
        /\ op.leader \in Up
        /\ op.pc = "stepdown" => primary = op.leader /\ AllReady(pod)
        /\ op.pc = "primary" => primary \notin {Nobody, op.leader}

Office == /\ primary \in Pods => primary \in Up
          /\ ~lagging => seen = pod
          /\ Steady => Deleting /\ SteppingDown

-----------------------------------------------------------------------------
(* How far the restart has come, in calm: spec is 0 or 1.                    *)

Before ==
    spec = 0 => /\ op.pc = "idle" /\ current = 0
                /\ phase \in First /\ Up = Pods

\* A reconciliation is about the only change and its object is up to date.
UpToDate ==
    op.pc # "idle" => /\ spec = 1 /\ current = 0
                      /\ op.fresh /\ op.spec = 1 /\ op.goal = 1 /\ op.phase = phase

InFirst ==
    phase \in First =>
        /\ op.pc \in {"idle", "restart", "secondaries", "write", "finish"}
        /\ op.pc \in {"idle", "restart"} /\ current = 0 => Up = Pods
        /\ op.pc = "secondaries" => Renewed /\ Old \subseteq op.todo \cup {op.leader}
        /\ op.pc = "write" => /\ Renewed /\ Old \subseteq {op.leader}
                              /\ op.leader \in Pods => primary = op.leader
        /\ op.pc = "finish" => Renewed /\ Old = {}

InSecondaryDeleted ==
    phase = "SecondaryDeleted" =>
        /\ op.pc \in {"idle", "restart", "stepdown", "primary", "write"}
        /\ Renewed
        /\ op.pc \in {"idle", "restart"} => Old \subseteq {primary}
        /\ op.pc \in {"stepdown", "primary"} => Old \subseteq {op.leader}
        /\ op.pc = "write" => Old = {}

InPrimaryDeleted ==
    phase = "PrimaryDeleted" =>
        /\ op.pc \in {"idle", "restart", "write"}
        /\ Renewed /\ Old = {}

Progress ==
    Calm => current \in {0, spec} /\ Before /\ UpToDate /\ InFirst /\ InSecondaryDeleted /\ InPrimaryDeleted

IInv == TypeOK /\ Office /\ Progress

-----------------------------------------------------------------------------
(* Types.                                                                  *)

Ops == [pc : PCs, goal : 0 .. MaxChanges, spec : 0 .. MaxChanges, phase : Phases,
        fresh : BOOLEAN, leader : Pods \cup {Elsewhere, Nobody}, todo : SUBSET Pods]

LEMMA IdleOp == Idle \in Ops /\ Idle.pc = "idle"
  BY BoundsAssumption DEF Idle, Ops, PCs, Phases

LEMMA RefreshedOp ==
    ASSUME TypeOK
    PROVE  /\ Refreshed \in Ops
           /\ Refreshed.pc = op.pc /\ Refreshed.goal = op.goal
           /\ Refreshed.spec = spec /\ Refreshed.phase = phase
           /\ Refreshed.fresh = TRUE
           /\ Refreshed.leader = op.leader /\ Refreshed.todo = op.todo
  BY DEF TypeOK, Ops, Refreshed

LEMMA CandidatesType == Candidates \subseteq Pods \cup {Elsewhere}
  BY DEF Candidates, Ready

LEMMA NextPhaseType == ASSUME NEW p \in Phases PROVE NextPhase(p) \in Phases
  BY DEF Phases, NextPhase

LEMMA InitType == Init => TypeOK
<1> SUFFICES ASSUME Init PROVE TypeOK
  OBVIOUS
<1>1. op \in Ops
  BY IdleOp DEF Init
<1>2. primary \in Pods \cup {Elsewhere, Nobody}
  BY CandidatesType DEF Init
<1>3. 0 \in 0 .. MaxChanges /\ 0 \in 0 .. MaxElections /\ 0 \in 0 .. MaxCrashes
  BY BoundsAssumption
<1>4. template \in [Pods -> 0 .. MaxChanges] /\ runs \in [Pods -> 0 .. MaxChanges]
  BY <1>3 DEF Init
<1>5. phase \in Phases /\ pod \in [Pods -> PodStates] /\ seen \in [Pods -> PodStates]
  BY DEF Init, Phases, PodStates
<1>6. QED
  BY <1>1, <1>2, <1>3, <1>4, <1>5, Zenon DEF Init, TypeOK, Ops

\* What Prepare leaves in the operation: the place it goes to next.
LEMMA PrepareOp ==
    ASSUME TypeOK, Prepare
    PROVE  \/ op' = Idle /\ UNCHANGED template
           \/ \E mine \in Ops :
                /\ mine \in {op, Refreshed} /\ mine.pc = "restart"
                /\ AllReady(seen) /\ primary # Nobody
                /\ template' = [p \in Pods |-> IF p \in Listed(seen) THEN mine.spec
                                              ELSE template[p]]
                /\ op' \in Ops
                /\ op'.leader = primary
                /\ op'.spec = mine.spec /\ op'.goal = mine.goal /\ op'.phase = mine.phase
                /\ op'.fresh = mine.fresh
                /\ \/ /\ mine.phase = "SecondaryDeleted" /\ primary \in Listed(seen)
                      /\ op'.pc = "stepdown"
                   \/ /\ mine.phase = "SecondaryDeleted" /\ primary \notin Listed(seen)
                      /\ op'.pc = "write"
                   \/ /\ mine.phase = "PrimaryDeleted" /\ op'.pc = "write"
                   \/ /\ mine.phase \in First /\ Secondaries(primary) = {}
                      /\ op'.pc = "write"
                   \/ /\ mine.phase \in First /\ Secondaries(primary) # {}
                      /\ op'.pc = "secondaries" /\ op'.todo = Secondaries(primary)
<1>1. op.pc = "restart"
  BY DEF Prepare
<1>2. CASE Return /\ UNCHANGED template
  BY <1>2 DEF Return
<1>3. CASE ~(Return /\ UNCHANGED template)
  <2> DEFINE pcOf(mine) == CASE mine.phase = "SecondaryDeleted" ->
                                     IF primary \in Listed(seen) THEN "stepdown" ELSE "write"
                             [] mine.phase = "PrimaryDeleted" -> "write"
                             [] mine.phase \in First ->
                                     IF Secondaries(primary) = {}
                                     THEN "write" ELSE "secondaries"
             todoOf(mine) == IF mine.phase \in First THEN Secondaries(primary) ELSE {}
  <2>1. PICK mine \in {op, Refreshed} :
            /\ template' = [p \in Pods |-> IF p \in Listed(seen) THEN mine.spec
                                          ELSE template[p]]
            /\ op' = [mine EXCEPT !.leader = primary, !.pc = pcOf(mine), !.todo = todoOf(mine)]
    BY <1>3 DEF Prepare, First
  <2>2. AllReady(seen) /\ primary # Nobody
    BY <1>3 DEF Prepare
  <2>3. mine \in Ops /\ mine.pc = "restart"
    BY <1>1, <2>1, RefreshedOp DEF TypeOK, Ops
  <2>4. mine.phase \in Phases
    BY <2>3 DEF Ops
  <2>5. todoOf(mine) \in SUBSET Pods
    BY DEF Secondaries, Listed
  <2>6. \/ mine.phase = "SecondaryDeleted" /\ primary \in Listed(seen) /\ pcOf(mine) = "stepdown"
        \/ mine.phase = "SecondaryDeleted" /\ primary \notin Listed(seen) /\ pcOf(mine) = "write"
        \/ mine.phase = "PrimaryDeleted" /\ pcOf(mine) = "write"
        \/ mine.phase \in First /\ Secondaries(primary) = {} /\ pcOf(mine) = "write"
        \/ /\ mine.phase \in First /\ Secondaries(primary) # {}
           /\ pcOf(mine) = "secondaries" /\ todoOf(mine) = Secondaries(primary)
    <3>1. CASE mine.phase = "SecondaryDeleted"
      BY <3>1 DEF First
    <3>2. CASE mine.phase = "PrimaryDeleted"
      BY <3>2 DEF First
    <3>3. CASE mine.phase \in First
      BY <3>3 DEF First
    <3>4. QED
      BY <2>4, <3>1, <3>2, <3>3 DEF Phases, First
  <2> HIDE DEF pcOf, todoOf
  <2>7. pcOf(mine) \in PCs
    BY <2>6 DEF PCs
  <2>8. /\ op' \in Ops /\ op'.leader = primary
        /\ op'.spec = mine.spec /\ op'.goal = mine.goal /\ op'.phase = mine.phase
        /\ op'.fresh = mine.fresh /\ op'.pc = pcOf(mine) /\ op'.todo = todoOf(mine)
    <3>1. primary \in Pods \cup {Elsewhere, Nobody}
      BY DEF TypeOK
    <3>2. QED
      BY <2>1, <2>3, <2>5, <2>7, <3>1 DEF Ops
  <2>9. QED
    BY <2>1, <2>2, <2>3, <2>6, <2>8
<1>4. QED
  BY <1>2, <1>3

LEMMA DeleteType ==
    ASSUME TypeOK, NEW p, Delete(p)
    PROVE  /\ pod' \in [Pods -> PodStates] /\ seen' \in [Pods -> PodStates]
           /\ primary' \in Pods \cup {Elsewhere, Nobody}
<1>1. [pod EXCEPT ![p] = "gone"] \in [Pods -> PodStates]
  BY DEF TypeOK, PodStates
<1>2. QED
  BY <1>1 DEF TypeOK, Delete, Observe

LEMMA NextType == TypeOK /\ [Next]_vars => TypeOK'
<1> SUFFICES ASSUME TypeOK, [Next]_vars PROVE TypeOK'
  OBVIOUS
<1> USE DEF cr, pods, bounds
<1>0. op \in Ops
  BY DEF TypeOK, Ops
<1>1. CASE UNCHANGED vars
  BY <1>1 DEF TypeOK, vars
<1>2. CASE CheckRestart
  <2>1. op' \in Ops
    BY <1>2, IdleOp DEF TypeOK, CheckRestart, Ops, PCs
  <2>2. QED
    BY <1>2, <2>1 DEF TypeOK, CheckRestart, Ops
<1>3. CASE Prepare
  <2>1. op' \in Ops
    BY <1>3, PrepareOp, IdleOp
  <2>2. template' \in [Pods -> 0 .. MaxChanges]
    <3>1. CASE UNCHANGED template
      BY <3>1 DEF TypeOK
    <3>2. CASE \E mine \in Ops :
                   template' = [p \in Pods |-> IF p \in Listed(seen) THEN mine.spec
                                             ELSE template[p]]
      BY <3>2 DEF Ops, TypeOK
    <3>3. QED
      BY <1>3, <3>1, <3>2, PrepareOp
  <2>3. UNCHANGED <<cr, runs, pod, seen, primary, bounds>>
    BY <1>3 DEF Prepare
  <2>4. QED
    BY <2>1, <2>2, <2>3 DEF TypeOK, Ops
<1>4. CASE StepDown
  <2>1. op' \in Ops
    BY <1>4, <1>0, IdleOp DEF StepDown, Return, Ops, PCs
  <2>2. primary' \in Pods \cup {Elsewhere, Nobody}
    BY <1>4, CandidatesType DEF StepDown, TypeOK
  <2>3. QED
    BY <1>4, <2>1, <2>2 DEF TypeOK, StepDown, Ops
<1>5. CASE DeletePrimary
  <2>1. op' \in Ops
    BY <1>5, <1>0 DEF DeletePrimary, Ops, PCs
  <2>2. QED
    BY <1>5, <2>1, DeleteType DEF TypeOK, DeletePrimary, Ops
<1>6. CASE WriteRestartState
  <2>1. NextPhase(op.phase) \in Phases
    BY <1>0, NextPhaseType DEF Ops
  <2>2. op' \in Ops
    <3>1. ASSUME NEW mine \in Ops, Advance(mine) PROVE op' \in Ops
      BY <3>1, IdleOp DEF Advance, Ops, PCs
    <3>2. [op EXCEPT !.phase = NextPhase(op.phase)] \in Ops
      BY <1>0, <2>1 DEF Ops
    <3>3. QED
      BY <1>6, <3>1, <3>2, RefreshedOp, IdleOp DEF WriteRestartState, Return
  <2>3. phase' \in Phases
    BY <1>6, <2>1 DEF WriteRestartState, TypeOK
  <2>4. QED
    BY <1>6, <2>2, <2>3 DEF TypeOK, WriteRestartState, Ops
<1>7. CASE WriteCurrentResources
  <2>1. current' \in 0 .. MaxChanges
    BY <1>7, <1>0 DEF WriteCurrentResources, TypeOK, Ops
  <2>2. QED
    BY <1>7, <2>1, IdleOp DEF TypeOK, WriteCurrentResources, Return, Ops
<1>8. ASSUME NEW p \in Pods, DeleteSecondary(p) PROVE TypeOK'
  <2>1. op' \in Ops
    BY <1>8, <1>0 DEF DeleteSecondary, Ops, PCs
  <2>2. QED
    BY <1>8, <2>1, DeleteType DEF TypeOK, DeleteSecondary, Ops
<1>9. CASE Crash
  BY <1>9, IdleOp, BoundsAssumption DEF TypeOK, Crash, Return, Ops
<1>10. CASE Resign
  BY <1>10 DEF TypeOK, Resign
<1>11. CASE Elect
  BY <1>11, CandidatesType DEF TypeOK, Elect
<1>12. CASE Takeover
  BY <1>12, CandidatesType, BoundsAssumption DEF TypeOK, Takeover
<1>13. CASE CatchUp
  BY <1>13 DEF TypeOK, CatchUp
<1>14. CASE ChangeResources
  <2>1. op' \in Ops
    BY <1>14, <1>0 DEF ChangeResources, Ops
  <2>2. QED
    BY <1>14, <2>1, BoundsAssumption DEF TypeOK, ChangeResources, Ops
<1>15. ASSUME NEW p \in Pods, CreatePod(p) \/ PodReady(p) PROVE TypeOK'
  BY <1>15 DEF TypeOK, CreatePod, PodReady, Observe, PodStates
<1>16. QED
  BY <1>1, <1>2, <1>3, <1>4, <1>5, <1>6, <1>7, <1>8, <1>9, <1>10, <1>11, <1>12, <1>13,
     <1>14, <1>15 DEF Next, Operator

\* Every variable of the restart keeps its type; in particular the restart state
\* is always one that the switch of Restart knows, which panics for any other.
THEOREM TypeCorrect == Spec => []TypeOK
<1>1. QED
  BY InitType, NextType, PTL DEF Spec

-----------------------------------------------------------------------------
(* The pods and the office.                                                *)

LEMMA UpAreListed == Up \subseteq Listed(pod) /\ Listed(pod) \subseteq Pods
  BY DEF Up, Ready, Listed

\* With OneLeft a single pod keeps the majority, so the primary does not resign.
LEMMA OnePodIsEnough == ASSUME OneLeft, Up # {} PROVE Majority
<1>1. IsFiniteSet(Up) /\ Cardinality(Up) \in Nat /\ Cardinality(Pods) \in Nat
  BY PodsAssumption, UpAreListed, FS_Subset, FS_CardinalityType
<1>2. Cardinality(Up) # 0
  BY <1>1, FS_EmptySet
<1>3. QED
  BY <1>1, <1>2, OthersAssumption DEF OneLeft, Majority, Up

\* CheckPodsReady in a cluster without an arbiter: every pod is ready.
LEMMA EveryPodReady == ASSUME AllReady(pod), arbiters = {} PROVE Up = Pods
<1>1. Cardinality(Up) >= Cardinality(Pods)
  <2>1. Pods \ arbiters = Pods
    OBVIOUS
  <2>2. QED
    BY <2>1 DEF AllReady, Up
<1>2. Up \subseteq Pods /\ IsFiniteSet(Pods)
  BY UpAreListed, PodsAssumption
<1>3. /\ Cardinality(Up) \in Nat /\ Cardinality(Pods) \in Nat
      /\ Cardinality(Up) <= Cardinality(Pods)
      /\ Cardinality(Up) = Cardinality(Pods) => Up = Pods
  BY <1>2, FS_Subset, FS_CardinalityType
<1>4. QED
  BY <1>1, <1>3

\* In general: every arbiter makes up for one pod that is not ready.
LEMMA ArbitersMakeUp ==
    ASSUME TypeOK, AllReady(pod)
    PROVE  Cardinality(Pods \ Up) <= Cardinality(arbiters)
<1>1. Up \subseteq Pods /\ arbiters \subseteq Pods /\ IsFiniteSet(Pods)
  BY UpAreListed, PodsAssumption, ArbitersAssumption DEF TypeOK
<1>2. ASSUME NEW S, S \subseteq Pods
      PROVE  /\ Cardinality(Pods \ S) = Cardinality(Pods) - Cardinality(S)
             /\ Cardinality(S) \in Nat
  <2>1. Pods \cap S = S
    BY <1>2
  <2>2. QED
    BY <1>1, <1>2, <2>1, FS_Difference, FS_Subset, FS_CardinalityType
<1>3. Cardinality(Pods) \in Nat
  BY <1>1, FS_CardinalityType
<1>4. Cardinality(Up) >= Cardinality(Pods \ arbiters)
  BY DEF AllReady, Up
<1>5. QED
  BY <1>1, <1>2, <1>3, <1>4

\* Nobody is no candidate, and neither are pods that are down.
LEMMA CandidatesAreUp == Nobody \notin Candidates /\ Candidates \cap Pods \subseteq Up
  BY NamesAssumption DEF Candidates, Up, Ready

\* What the steps that touch a pod do to the sets.
LEMMA DeleteEffect ==
    ASSUME TypeOK, NEW p, Delete(p), primary \in Pods => primary \in Up
    PROVE  /\ Up' = Up \ {p} /\ Listed(pod)' = Listed(pod) \ {p}
           /\ primary' = primary \/ primary' = Nobody
           /\ primary # p => primary' = primary
           /\ primary' \in Pods => primary' \in Up'
           /\ ~lagging /\ seen = pod => seen' = pod'
<1>1. pod \in [Pods -> PodStates]
  BY DEF TypeOK
<1>2. CASE pod[p] = "gone"
  <2>1. UNCHANGED <<pod, primary, seen>>
    BY <1>2 DEF Delete
  <2>2. p \notin Up /\ p \notin Listed(pod)
    BY <1>2 DEF Up, Ready, Listed
  <2>3. Up' = Up /\ Listed(pod)' = Listed(pod)
    BY <2>1 DEF Up, Ready, Listed
  <2>4. QED
    BY <2>1, <2>2, <2>3
<1>3. CASE pod[p] # "gone"
  <2>1. /\ pod' = [pod EXCEPT ![p] = "gone"]
        /\ primary' = IF primary = p THEN Nobody ELSE primary
        /\ seen' = IF lagging THEN seen ELSE pod'
    BY <1>3 DEF Delete, Observe
  <2>2. Up' = Up \ {p} /\ Listed(pod)' = Listed(pod) \ {p}
    BY <1>1, <2>1 DEF Up, Ready, Listed
  <2>3. QED
    BY <2>1, <2>2, NamesAssumption
<1>4. QED
  BY <1>2, <1>3

LEMMA CreatePodEffect ==
    ASSUME TypeOK, NEW p \in Pods, CreatePod(p)
    PROVE  Up' = Up /\ Listed(pod)' = Listed(pod) \cup {p} /\ p \notin Listed(pod)
  BY DEF TypeOK, CreatePod, Up, Ready, Listed

LEMMA PodReadyEffect ==
    ASSUME TypeOK, NEW p \in Pods, PodReady(p)
    PROVE  Up' = Up \cup {p} /\ Listed(pod)' = Listed(pod) /\ p \notin Up
  BY DEF TypeOK, PodReady, Up, Ready, Listed

\* Who is primary is up, and a cache that is not late shows what there is.
LEMMA PresentStep ==
    ASSUME TypeOK, [Next]_vars,
           primary \in Pods => primary \in Up, ~lagging => seen = pod
    PROVE  /\ primary' \in Pods => primary' \in Up'
           /\ ~lagging' => seen' = pod'
<1> USE DEF cr, pods, bounds
<1>1. CASE UNCHANGED <<pod, seen, primary, lagging>>
  BY <1>1 DEF Up, Ready
<1>2. CASE UNCHANGED <<pod, seen, lagging>> /\ primary' \in Candidates \cup {primary, Nobody}
  <2>1. Up' = Up
    BY <1>2 DEF Up, Ready
  <2>2. QED
    BY <1>2, <2>1, CandidatesAreUp, NamesAssumption
<1>3. ASSUME NEW p, Delete(p), UNCHANGED lagging
      PROVE  (primary' \in Pods => primary' \in Up') /\ (~lagging' => seen' = pod')
  BY <1>3, DeleteEffect
<1>4. ASSUME NEW p \in Pods, CreatePod(p) \/ PodReady(p)
      PROVE  (primary' \in Pods => primary' \in Up') /\ (~lagging' => seen' = pod')
  <2>1. UNCHANGED <<primary, lagging>> /\ (~lagging => seen' = pod')
    BY <1>4 DEF CreatePod, PodReady, Observe
  <2>2. Up \subseteq Up'
    BY <1>4, CreatePodEffect, PodReadyEffect
  <2>3. QED
    BY <2>1, <2>2
<1>5. CASE UNCHANGED <<pod, primary, lagging>> /\ seen' = pod
  BY <1>5 DEF Up, Ready
<1>6. QED
  <2>1. CASE UNCHANGED vars \/ CheckRestart \/ Prepare \/ WriteRestartState
             \/ WriteCurrentResources \/ Crash \/ ChangeResources
    BY <1>1, <2>1 DEF vars, CheckRestart, Prepare, WriteRestartState, WriteCurrentResources,
       Crash, ChangeResources
  <2>2. CASE StepDown \/ Resign \/ Elect \/ Takeover
    BY <1>2, <2>2 DEF StepDown, Resign, Elect, Takeover
  <2>3. CASE DeletePrimary \/ \E p \in Pods : DeleteSecondary(p)
    BY <1>3, <2>3 DEF DeletePrimary, DeleteSecondary
  <2>4. CASE CatchUp
    BY <1>5, <2>4 DEF CatchUp
  <2>5. QED
    BY <1>4, <2>1, <2>2, <2>3, <2>4 DEF Next, Operator

-----------------------------------------------------------------------------
(* Calm and steady.                                                        *)

\* No step leads back into calm, and none of a calm step is an election without
\* a cause or a crash.  The same of Steady.
LEMMA CalmBefore ==
    ASSUME TypeOK, [Next]_vars
    PROVE  /\ Calm' => /\ Calm /\ spec \in {0, 1} /\ spec' \in {0, 1}
                       /\ ~Takeover /\ ~Crash
           /\ Steady' => Steady /\ ~Takeover
<1> USE DEF cr, pods, bounds
<1>1. spec \in Nat /\ elections \in Nat /\ crashes \in Nat
  BY BoundsAssumption DEF TypeOK
<1>2. /\ spec' \in {spec, spec + 1} /\ lagging' = lagging /\ arbiters' = arbiters
      /\ elections' \in {elections, elections + 1}
      /\ crashes' \in {crashes, crashes + 1}
      /\ Takeover => elections' = elections + 1
      /\ Crash => crashes' = crashes + 1
  <2>1. CASE UNCHANGED vars
    BY <1>1, <2>1 DEF vars, Takeover, Crash
  <2>2. CASE Operator
    BY <1>1, <2>2 DEF Operator, CheckRestart, Prepare, StepDown, DeletePrimary,
       WriteRestartState, WriteCurrentResources, DeleteSecondary, Takeover, Crash
  <2>3. CASE Crash \/ Takeover
    BY <1>1, <2>3 DEF Takeover, Crash
  <2>4. CASE Resign \/ Elect \/ CatchUp \/ ChangeResources
             \/ \E p \in Pods : CreatePod(p) \/ PodReady(p)
    BY <1>1, <2>4 DEF Resign, Elect, CatchUp, ChangeResources, CreatePod, PodReady,
       Takeover, Crash
  <2>5. QED
    BY <2>1, <2>2, <2>3, <2>4 DEF Next
<1>3. QED
  BY <1>1, <1>2 DEF Calm, Steady

-----------------------------------------------------------------------------
(* The places of the reconciliation at which pods are deleted.              *)

LEMMA AllReadyGrows ==
    ASSUME AllReady(pod), Up \subseteq Up', UNCHANGED arbiters
    PROVE  AllReady(pod)'
<1>1. Up' \subseteq Pods /\ IsFiniteSet(Pods) /\ IsFiniteSet(Pods \ arbiters)
  BY PodsAssumption, FS_Subset DEF Up, Ready
<1>2. Cardinality(Up) <= Cardinality(Up') /\ Cardinality(Up) \in Nat /\ Cardinality(Up') \in Nat
  BY <1>1, FS_Subset, FS_CardinalityType
<1>3. Cardinality(Pods \ arbiters) \in Nat
  BY <1>1, FS_CardinalityType
<1>4. QED
  BY <1>2, <1>3 DEF AllReady, Up

LEMMA PlacesStep ==
    ASSUME OneLeft, TypeOK, Office, Progress, [Next]_vars, Steady'
    PROVE  Deleting' /\ SteppingDown'
<1> DEFINE Goal == Deleting /\ SteppingDown
<1> USE DEF cr, pods, bounds
<1>0. op \in Ops
  BY DEF TypeOK, Ops
<1>1. /\ Deleting /\ SteppingDown /\ seen = pod /\ Steady /\ ~Takeover
      /\ primary \in Pods => primary \in Up
  BY CalmBefore DEF Office, Steady, Calm
<1>2. ASSUME op'.pc \notin {"secondaries", "stepdown", "primary"} PROVE Goal'
  BY <1>2 DEF Deleting, SteppingDown
<1>3. ASSUME UNCHANGED <<primary, arbiters>>, Up \subseteq Up',
             op'.pc = op.pc, op'.leader = op.leader, op'.todo = op.todo
      PROVE  Goal'
  <2>1. AllReady(pod) => AllReady(pod)'
    BY <1>3, AllReadyGrows
  <2>2. QED
    BY <1>1, <1>3, <2>1 DEF Deleting, SteppingDown
<1>4. UNCHANGED pod => Up' = Up
  BY DEF Up, Ready
<1>5. CASE UNCHANGED vars \/ CatchUp
  BY <1>3, <1>4, <1>5 DEF vars, CatchUp
<1>6. CASE ChangeResources
  BY <1>0, <1>3, <1>4, <1>6 DEF ChangeResources, Ops
<1>7. CASE CheckRestart \/ WriteCurrentResources \/ Crash
  BY <1>2, <1>7, IdleOp DEF CheckRestart, WriteCurrentResources, Crash, Return, Idle
<1>8. CASE WriteRestartState
  BY <1>0, <1>2, <1>8, IdleOp, RefreshedOp DEF WriteRestartState, Advance, Return, Ops
<1>9. CASE Prepare
  <2>1. UNCHANGED <<pod, seen, primary, arbiters>> /\ op.pc = "restart"
    BY <1>9 DEF Prepare
  <2>2. CASE op' = Idle
    BY <1>2, <2>2, IdleOp
  <2>3. CASE op' # Idle
    <3>1. PICK mine \in {op, Refreshed} :
            /\ AllReady(seen) /\ primary # Nobody /\ op'.leader = primary
            /\ \/ op'.pc = "stepdown" /\ primary \in Listed(seen)
               \/ op'.pc = "write"
               \/ /\ mine.phase \in First
                  /\ op'.pc = "secondaries" /\ op'.todo = Secondaries(primary)
                  /\ Secondaries(primary) # {}
      BY <1>9, <2>3, PrepareOp
    <3>2. AllReady(pod) /\ AllReady(pod)' /\ Up' = Up
      BY <1>1, <1>4, <2>1, <3>1, AllReadyGrows
    <3>3. CASE op'.pc = "stepdown"
      <4>1. op'.leader \in Up' /\ primary' = op'.leader
        BY <1>1, <2>1, <3>1, <3>2, <3>3, UpAreListed
      <4>2. QED
        BY <3>2, <3>3, <4>1 DEF Deleting, SteppingDown
    <3>4. CASE op'.pc = "secondaries"
      <4>1. Up = Pods
        <5>1. CASE arbiters = {}
          BY <3>2, <5>1, EveryPodReady
        <5>2. CASE Calm
          <6>1. op.phase = phase /\ current = 0 /\ InFirst
            BY <2>1, <5>2 DEF Progress, UpToDate
          <6>2. phase \in First
            BY <3>1, <3>4, <6>1, RefreshedOp
          <6>3. QED
            BY <2>1, <6>1, <6>2 DEF InFirst
        <5>3. QED
          BY <1>1, <5>1, <5>2 DEF Steady
      <4>2. op'.todo # {} /\ op'.todo \subseteq Up' \ {op'.leader}
        BY <1>1, <3>1, <3>2, <3>4, <4>1, UpAreListed DEF Secondaries
      <4>3. QED
        BY <2>1, <3>1, <3>4, <4>2 DEF Deleting, SteppingDown
    <3>5. QED
      BY <1>2, <3>1, <3>3, <3>4
  <2>4. QED
    BY <2>2, <2>3
<1>10. CASE StepDown
  <2>1. op.pc = "stepdown" /\ UNCHANGED <<pod, arbiters>>
    BY <1>10 DEF StepDown
  <2>2. CASE Return
    BY <1>2, <2>2, IdleOp DEF Return
  <2>3. CASE ~Return
    <3>1. op' = [op EXCEPT !.pc = "primary"] /\ primary' \in Candidates \ {primary}
      BY <1>10, <2>3 DEF StepDown
    <3>2. op'.pc = "primary" /\ op'.leader = op.leader
      BY <1>0, <3>1 DEF Ops
    <3>3. op.leader \in Up /\ primary = op.leader /\ Up' = Up
      BY <1>1, <1>4, <2>1 DEF SteppingDown
    <3>4. QED
      BY <3>1, <3>2, <3>3, CandidatesAreUp DEF Deleting, SteppingDown
  <2>4. QED
    BY <2>2, <2>3
<1>11. CASE DeletePrimary
  <2>1. op'.pc = "write"
    BY <1>0, <1>11 DEF DeletePrimary, Ops
  <2>2. QED
    BY <1>2, <2>1
<1>12. ASSUME NEW p \in Pods, DeleteSecondary(p) PROVE Goal'
  <2>1. op.pc = "secondaries" /\ p \in op.todo /\ Delete(p)
    BY <1>12 DEF DeleteSecondary
  <2>2. /\ op'.leader = op.leader /\ op'.todo = op.todo \ {p}
        /\ op'.pc = (IF op.todo = {p} THEN "write" ELSE "secondaries")
    BY <1>0, <1>12, <2>1 DEF DeleteSecondary, Ops
  <2>3. Up' = Up \ {p} /\ primary' = primary
    BY <1>1, <2>1, DeleteEffect DEF Deleting
  <2>4. CASE op.todo = {p}
    BY <1>2, <2>2, <2>4
  <2>5. CASE op.todo # {p}
    BY <1>1, <2>1, <2>2, <2>3, <2>5 DEF Deleting, SteppingDown
  <2>6. QED
    BY <2>4, <2>5
<1>13. CASE Resign \/ Elect
  <2>1. UNCHANGED <<op, pod, arbiters>> /\ (primary = Nobody \/ Up = {})
    BY <1>13, OnePodIsEnough DEF Resign, Elect
  <2>2. op.pc \notin {"secondaries", "stepdown", "primary"}
    BY <1>1, <2>1, UpAreListed, NamesAssumption DEF Deleting, SteppingDown
  <2>3. QED
    BY <1>2, <2>1, <2>2
<1>14. ASSUME NEW p \in Pods, CreatePod(p) \/ PodReady(p) PROVE Goal'
  <2>1. UNCHANGED <<op, primary, arbiters>>
    BY <1>14 DEF CreatePod, PodReady
  <2>2. Up \subseteq Up'
    BY <1>14, CreatePodEffect, PodReadyEffect
  <2>3. QED
    BY <1>3, <2>1, <2>2
<1>15. QED
  BY <1>1, <1>5, <1>6, <1>7, <1>8, <1>9, <1>10, <1>11, <1>12, <1>13, <1>14 DEF Next, Operator

-----------------------------------------------------------------------------
(* How far the restart has come.                                           *)

LEMMA InitPresent == Init => Office /\ Progress
<1> SUFFICES ASSUME Init PROVE Office /\ Progress
  OBVIOUS
<1>1. op.pc = "idle" /\ spec = 0 /\ current = 0 /\ phase \in First /\ seen = pod
  BY IdleOp DEF Init, First
<1>2. Up = Pods /\ (primary \in Pods => primary \in Up)
  BY DEF Init, Up, Ready
<1>3. Office
  BY <1>1, <1>2 DEF Office, Deleting, SteppingDown
<1>4. Progress
  BY <1>1, <1>2 DEF Progress, Before, UpToDate, InFirst, InSecondaryDeleted,
     InPrimaryDeleted, First
<1>5. QED
  BY <1>3, <1>4

LEMMA ProgressStep == OneLeft /\ TypeOK /\ Office /\ Progress /\ [Next]_vars => Progress'
<1> SUFFICES ASSUME OneLeft, TypeOK, Office, Progress, [Next]_vars, Calm'
             PROVE  (current \in {0, spec} /\ Before /\ UpToDate
                        /\ InFirst /\ InSecondaryDeleted /\ InPrimaryDeleted)'
  BY DEF Progress
<1> DEFINE Goal == current \in {0, spec} /\ Before /\ UpToDate
                        /\ InFirst /\ InSecondaryDeleted /\ InPrimaryDeleted
<1> USE DEF cr, pods, bounds
<1>0. /\ op \in Ops /\ spec \in {0, 1} /\ spec' \in {0, 1}
      /\ runs \in [Pods -> 0 .. MaxChanges] /\ phase \in Phases
      /\ template \in [Pods -> 0 .. MaxChanges]
  BY CalmBefore DEF TypeOK, Ops
<1>01. /\ current \in {0, spec} /\ Before /\ UpToDate
       /\ InFirst /\ InSecondaryDeleted /\ InPrimaryDeleted
  BY CalmBefore DEF Progress
<1>02. /\ seen = pod /\ Deleting /\ SteppingDown
       /\ primary \in Pods => primary \in Up
  BY CalmBefore DEF Office, Calm, Steady
<1>03. ~Takeover /\ ~Crash
  BY CalmBefore
<1>04. /\ UNCHANGED pod => Up' = Up /\ Listed(pod)' = Listed(pod)
       /\ UNCHANGED <<pod, runs>> => Old' = Old
       /\ UNCHANGED template => Renewed' = Renewed
  BY DEF Up, Ready, Listed, Old, Renewed
<1>05. Old \subseteq Listed(pod) /\ Up \subseteq Listed(pod) /\ Listed(pod) \subseteq Pods
  BY UpAreListed DEF Old
<1>1. CASE UNCHANGED vars
  BY <1>01, <1>04, <1>1 DEF vars, Before, UpToDate, InFirst, InSecondaryDeleted, InPrimaryDeleted
<1>2. CASE CheckRestart
  <2>1. /\ op.pc = "idle" /\ spec # current /\ UNCHANGED <<cr, pods, primary>>
        /\ op'.pc = "restart" /\ op'.goal = spec /\ op'.spec = spec
        /\ op'.phase = phase /\ op'.fresh
    BY <1>2, IdleOp DEF CheckRestart, Ops
  <2>2. spec = 1 /\ current = 0
    BY <1>0, <1>01, <2>1
  <2>3. QED
    BY <1>01, <1>04, <2>1, <2>2 DEF Before, UpToDate, InFirst, InSecondaryDeleted,
       InPrimaryDeleted
<1>3. CASE Prepare
  <2>1. op.pc = "restart" /\ UNCHANGED <<cr, runs, pod, seen, primary>>
    BY <1>3 DEF Prepare
  <2>2. /\ spec = 1 /\ current = 0 /\ op.fresh /\ op.spec = 1 /\ op.goal = 1
        /\ op.phase = phase
    BY <1>01, <2>1 DEF UpToDate
  <2>3. CASE op' = Idle /\ UNCHANGED template
    BY <1>01, <1>04, <2>1, <2>2, <2>3, IdleOp DEF Before, UpToDate, InFirst,
       InSecondaryDeleted, InPrimaryDeleted
  <2>4. CASE ~(op' = Idle /\ UNCHANGED template)
    <3>1. /\ template' = [p \in Pods |-> IF p \in Listed(pod) THEN 1 ELSE template[p]]
          /\ op'.leader = primary
          /\ op'.spec = 1 /\ op'.goal = 1 /\ op'.phase = phase /\ op'.fresh
          /\ \/ phase = "SecondaryDeleted" /\ primary \in Listed(pod) /\ op'.pc = "stepdown"
             \/ phase = "SecondaryDeleted" /\ primary \notin Listed(pod) /\ op'.pc = "write"
             \/ phase = "PrimaryDeleted" /\ op'.pc = "write"
             \/ phase \in First /\ Secondaries(primary) = {} /\ op'.pc = "write"
             \/ /\ phase \in First /\ op'.pc = "secondaries"
                /\ op'.todo = Secondaries(primary)
      <4>1. PICK mine \in {op, Refreshed} :
                /\ template' = [p \in Pods |-> IF p \in Listed(seen) THEN mine.spec
                                              ELSE template[p]]
                /\ op'.leader = primary
                /\ op'.spec = mine.spec /\ op'.goal = mine.goal /\ op'.phase = mine.phase
                /\ op'.fresh = mine.fresh
                /\ \/ /\ mine.phase = "SecondaryDeleted" /\ primary \in Listed(seen)
                      /\ op'.pc = "stepdown"
                   \/ /\ mine.phase = "SecondaryDeleted" /\ primary \notin Listed(seen)
                      /\ op'.pc = "write"
                   \/ mine.phase = "PrimaryDeleted" /\ op'.pc = "write"
                   \/ mine.phase \in First /\ Secondaries(primary) = {} /\ op'.pc = "write"
                   \/ /\ mine.phase \in First /\ op'.pc = "secondaries"
                      /\ op'.todo = Secondaries(primary)
        BY <1>3, <2>4, PrepareOp
      <4>2. mine.spec = 1 /\ mine.goal = 1 /\ mine.phase = phase /\ mine.fresh
        BY <2>2, <4>1, RefreshedOp
      <4>3. QED
        BY <1>02, <4>1, <4>2
    <3>2. Renewed'
      <4>1. CASE phase \in First
        <5>1. Listed(pod) = Pods
          BY <1>01, <1>05, <2>1, <2>2, <4>1 DEF InFirst
        <5>2. QED
          BY <3>1, <5>1 DEF Renewed
      <4>2. CASE phase \notin First
        <5>1. Renewed
          BY <1>0, <1>01, <4>2 DEF InSecondaryDeleted, InPrimaryDeleted, Phases, First
        <5>2. QED
          BY <3>1, <5>1 DEF Renewed
      <4>3. QED
        BY <4>1, <4>2
    <3>3. Before' /\ UpToDate'
      BY <2>1, <2>2, <3>1 DEF Before, UpToDate
    <3>4. phase \in First => Old' \subseteq Secondaries(primary) \cup {primary}
      BY <1>02, <1>04, <1>05, <2>1 DEF Secondaries
    <3>5. InFirst'
      BY <2>1, <3>1, <3>2, <3>4 DEF InFirst, First
    <3>6. phase = "SecondaryDeleted" => Old' \subseteq {primary} /\ Old' \subseteq Listed(pod)
      BY <1>01, <1>04, <1>05, <2>1 DEF InSecondaryDeleted
    <3>7. InSecondaryDeleted'
      BY <2>1, <3>1, <3>2, <3>6 DEF InSecondaryDeleted, First
    <3>8. InPrimaryDeleted'
      BY <1>01, <1>04, <2>1, <3>1, <3>2 DEF InPrimaryDeleted, First
    <3>9. QED
      BY <2>1, <2>2, <3>3, <3>5, <3>7, <3>8
  <2>5. QED
    BY <2>3, <2>4
<1>4. CASE StepDown
  <2>1. op.pc = "stepdown" /\ UNCHANGED <<cr, pods>>
    BY <1>4 DEF StepDown
  <2>2. primary = op.leader /\ phase = "SecondaryDeleted" /\ Old \subseteq {op.leader}
    BY <1>0, <1>01, <1>02, <2>1
       DEF SteppingDown, InFirst, InSecondaryDeleted, InPrimaryDeleted, Phases, First
  <2>3. \/ op' = Idle /\ primary' = primary
        \/ op' = [op EXCEPT !.pc = "primary"]
    BY <1>4 DEF StepDown, Return
  <2>4. CASE op' = Idle /\ primary' = primary
    BY <1>01, <1>04, <2>1, <2>2, <2>4, IdleOp DEF Before, UpToDate, InFirst,
       InSecondaryDeleted, InPrimaryDeleted, First
  <2>5. CASE op' = [op EXCEPT !.pc = "primary"]
    <3>1. /\ op'.pc = "primary" /\ op'.leader = op.leader /\ op'.spec = op.spec
          /\ op'.goal = op.goal /\ op'.phase = op.phase /\ op'.fresh = op.fresh
      BY <1>0, <2>5 DEF Ops
    <3>2. QED
      BY <1>01, <1>04, <2>1, <2>2, <3>1 DEF Before, UpToDate, InFirst, InSecondaryDeleted,
         InPrimaryDeleted, First
  <2>6. QED
    BY <2>3, <2>4, <2>5
<1>5. CASE DeletePrimary
  <2>1. /\ op.pc = "primary" /\ Delete(op.leader) /\ UNCHANGED <<cr, template, runs>>
        /\ op'.pc = "write" /\ op'.leader = op.leader /\ op'.spec = op.spec
        /\ op'.goal = op.goal /\ op'.phase = op.phase /\ op'.fresh = op.fresh
    BY <1>0, <1>5 DEF DeletePrimary, Ops
  <2>2. phase = "SecondaryDeleted" /\ Old \subseteq {op.leader}
    BY <1>0, <1>01, <2>1 DEF InFirst, InSecondaryDeleted, InPrimaryDeleted, Phases, First
  <2>3. Old' = {}
    <3>1. Listed(pod)' = Listed(pod) \ {op.leader}
      BY <1>02, <2>1, DeleteEffect
    <3>2. QED
      BY <2>1, <2>2, <3>1 DEF Old
  <2>4. QED
    BY <1>01, <1>04, <2>1, <2>2, <2>3 DEF Before, UpToDate, InFirst, InSecondaryDeleted,
       InPrimaryDeleted, First
<1>6. CASE WriteRestartState
  <2>1. op.pc = "write" /\ UNCHANGED <<spec, current, pods, primary>>
    BY <1>6 DEF WriteRestartState
  <2>2. /\ spec = 1 /\ current = 0 /\ op.fresh /\ op.spec = 1 /\ op.goal = 1
        /\ op.phase = phase
    BY <1>01, <2>1 DEF UpToDate
  <2> DEFINE mine == [op EXCEPT !.phase = NextPhase(op.phase)]
  <2>3. phase' = NextPhase(phase) /\ Advance(mine)
    BY <1>6, <2>2 DEF WriteRestartState
  <2>4. NextPhase(phase) \in Phases
    BY <1>0, NextPhaseType
  <2>5. /\ mine \in Ops /\ mine.spec = 1 /\ mine.goal = 1 /\ mine.fresh
        /\ mine.phase = phase'
    BY <1>0, <2>2, <2>3, <2>4 DEF Ops
  <2> HIDE DEF mine
  <2>6. CASE phase = "PrimaryDeleted"
    <3>1. phase' = "NotInProcess"
      BY <2>3, <2>6 DEF NextPhase
    <3>2. op' = [mine EXCEPT !.pc = "finish"]
      BY <2>2, <2>3, <2>6 DEF Advance
    <3>3. /\ op'.pc = "finish" /\ op'.spec = 1 /\ op'.goal = 1 /\ op'.fresh
          /\ op'.phase = phase'
      BY <2>5, <3>2 DEF Ops
    <3>4. Renewed' /\ Old' = {}
      BY <1>01, <1>04, <2>1, <2>6 DEF InPrimaryDeleted
    <3>5. QED
      BY <2>1, <2>2, <3>1, <3>3, <3>4 DEF Before, UpToDate, InFirst, InSecondaryDeleted,
         InPrimaryDeleted, First
  <2>7. CASE phase # "PrimaryDeleted"
    <3>1. op'.pc = "idle"
      BY <2>2, <2>3, <2>7, IdleOp DEF Advance
    <3>2. CASE phase = "SecondaryDeleted"
      <4>1. phase' = "PrimaryDeleted"
        BY <2>3, <3>2 DEF NextPhase
      <4>2. Old' = {} /\ Renewed'
        BY <1>01, <1>04, <2>1, <3>2 DEF InSecondaryDeleted
      <4>3. QED
        BY <2>1, <2>2, <3>1, <4>1, <4>2 DEF Before, UpToDate, InFirst, InSecondaryDeleted,
           InPrimaryDeleted, First
    <3>3. CASE phase \in First
      <4>1. phase' = "SecondaryDeleted"
        BY <2>3, <3>3 DEF NextPhase, First
      <4>2. Renewed' /\ Old' \subseteq {primary'}
        <5>1. Renewed /\ Old \subseteq {op.leader} /\ (op.leader \in Pods => primary = op.leader)
          BY <1>01, <2>1, <3>3 DEF InFirst
        <5>2. QED
          BY <1>04, <1>05, <2>1, <5>1
      <4>3. QED
        BY <2>1, <2>2, <3>1, <4>1, <4>2 DEF Before, UpToDate, InFirst, InSecondaryDeleted,
           InPrimaryDeleted, First
    <3>4. QED
      BY <1>0, <2>7, <3>2, <3>3 DEF Phases, First
  <2>8. QED
    BY <2>6, <2>7
<1>7. CASE WriteCurrentResources
  <2>1. /\ op.pc = "finish" /\ op' = Idle /\ UNCHANGED <<spec, phase, pods, primary>>
        /\ current' = IF op.fresh THEN op.goal ELSE current
    BY <1>7 DEF WriteCurrentResources, Return
  <2>2. spec = 1 /\ op.fresh /\ op.goal = 1
    BY <1>01, <2>1 DEF UpToDate
  <2>3. phase \in First
    BY <1>0, <1>01, <2>1 DEF InSecondaryDeleted, InPrimaryDeleted, Phases, First
  <2>4. current' = 1 /\ op'.pc = "idle"
    BY <2>1, <2>2, IdleOp
  <2>5. spec' = 1 /\ phase' \in First
    BY <2>1, <2>2, <2>3
  <2>6. Before' /\ UpToDate' /\ (current \in {0, spec})'
    BY <2>4, <2>5 DEF Before, UpToDate
  <2>7. InFirst'
    BY <2>4, <2>5 DEF InFirst
  <2>8. InSecondaryDeleted' /\ InPrimaryDeleted'
    BY <2>5 DEF InSecondaryDeleted, InPrimaryDeleted, First
  <2>9. QED
    BY <2>6, <2>7, <2>8
<1>8. ASSUME NEW p \in Pods, DeleteSecondary(p) PROVE Goal'
  <2>1. /\ op.pc = "secondaries" /\ p \in op.todo /\ Delete(p)
        /\ UNCHANGED <<cr, template, runs>>
    BY <1>8 DEF DeleteSecondary
  <2>2. /\ op'.leader = op.leader /\ op'.todo = op.todo \ {p}
        /\ op'.pc = (IF op.todo = {p} THEN "write" ELSE "secondaries")
        /\ op'.spec = op.spec
        /\ op'.goal = op.goal /\ op'.phase = op.phase /\ op'.fresh = op.fresh
    BY <1>0, <1>8, <2>1 DEF DeleteSecondary, Ops
  <2>3. phase \in First /\ Renewed /\ Old \subseteq op.todo \cup {op.leader}
    BY <1>0, <1>01, <2>1 DEF InFirst, InSecondaryDeleted, InPrimaryDeleted, Phases, First
  <2>4. Renewed' /\ Old' \subseteq op'.todo \cup {op'.leader}
    <3>1. Listed(pod)' = Listed(pod) \ {p}
      BY <1>02, <2>1, DeleteEffect
    <3>2. QED
      BY <1>04, <2>1, <2>2, <2>3, <3>1 DEF Old
  <2>5. primary' = primary /\ primary = op.leader
    BY <1>02, <2>1, DeleteEffect DEF Deleting
  <2>6. InFirst'
    BY <2>1, <2>2, <2>3, <2>4, <2>5 DEF InFirst, First
  <2>7. QED
    BY <1>01, <2>1, <2>2, <2>3, <2>6 DEF Before, UpToDate, InSecondaryDeleted,
       InPrimaryDeleted, First
<1>9. CASE Resign \/ Elect
  <2>1. UNCHANGED <<cr, pods, op>>
    BY <1>9 DEF Resign, Elect
  <2>2. primary \notin Pods
    BY <1>02, <1>9, OnePodIsEnough, NamesAssumption DEF Resign, Elect
  <2>3. InFirst'
    BY <1>01, <1>04, <2>1, <2>2 DEF InFirst
  <2>4. InSecondaryDeleted'
    BY <1>01, <1>04, <1>05, <2>1, <2>2 DEF InSecondaryDeleted
  <2>5. QED
    BY <1>01, <1>04, <2>1, <2>3, <2>4 DEF Before, UpToDate, InPrimaryDeleted
<1>10. CASE CatchUp
  BY <1>02, <1>10 DEF CatchUp
<1>11. CASE ChangeResources
  <2>1. spec' = spec + 1 /\ UNCHANGED <<current, phase, pods, primary>>
        /\ op' = [op EXCEPT !.fresh = FALSE]
    BY <1>11 DEF ChangeResources
  <2>2. spec = 0 /\ spec' = 1
    BY <1>0, <2>1
  <2>3. op'.pc = "idle" /\ current = 0 /\ phase \in First /\ Up' = Pods
    BY <1>0, <1>01, <1>04, <2>1, <2>2 DEF Before, Ops
  <2>4. QED
    BY <2>1, <2>2, <2>3 DEF Before, UpToDate, InFirst, InSecondaryDeleted,
       InPrimaryDeleted, First
<1>12. ASSUME NEW p \in Pods, CreatePod(p) \/ PodReady(p) PROVE Goal'
  <2>1. UNCHANGED <<cr, template, primary, op>>
    BY <1>12 DEF CreatePod, PodReady
  <2>2. Up = Pods => Up' = Pods
    BY <1>12, CreatePodEffect, PodReadyEffect
  <2>3. Renewed => Old' = Old
    <3>1. CASE CreatePod(p)
      <4>1. Listed(pod)' = Listed(pod) \cup {p} /\ p \notin Listed(pod)
        BY <3>1, CreatePodEffect
      <4>2. runs' = [runs EXCEPT ![p] = template[p]]
        BY <3>1 DEF CreatePod
      <4>3. Renewed => runs'[p] = 1
        BY <1>0, <4>2 DEF Renewed
      <4>4. \A q \in Pods \ {p} : runs'[q] = runs[q]
        BY <1>0, <4>2
      <4>5. QED
        BY <1>05, <4>1, <4>3, <4>4 DEF Old
    <3>2. CASE PodReady(p)
      BY <3>2, PodReadyEffect DEF PodReady, Old
    <3>3. QED
      BY <1>12, <3>1, <3>2
  <2>4. Renewed' = Renewed
    BY <1>04, <2>1
  <2>5. Before' /\ UpToDate' /\ (current \in {0, spec})'
    BY <1>01, <2>1, <2>2 DEF Before, UpToDate
  <2>6. InFirst'
    BY <1>01, <2>1, <2>2, <2>3, <2>4 DEF InFirst
  <2>7. InSecondaryDeleted' /\ InPrimaryDeleted'
    BY <1>01, <2>1, <2>3, <2>4 DEF InSecondaryDeleted, InPrimaryDeleted
  <2>8. QED
    BY <2>5, <2>6, <2>7
<1>13. QED
  BY <1>03, <1>1, <1>2, <1>3, <1>4, <1>5, <1>6, <1>7, <1>8, <1>9, <1>10, <1>11, <1>12
     DEF Next, Operator

-----------------------------------------------------------------------------
(* The promises.                                                           *)

LEMMA InitIInv == Init => IInv
  BY InitType, InitPresent DEF IInv

LEMMA NextIInv == OneLeft /\ IInv /\ [Next]_vars => IInv'
<1> SUFFICES ASSUME OneLeft, TypeOK, Office, Progress, [Next]_vars PROVE IInv'
  BY DEF IInv
<1>1. (primary \in Pods => primary \in Up)' /\ (~lagging => seen = pod)'
  BY PresentStep DEF Office
<1>2. Office'
  BY <1>1, PlacesStep DEF Office
<1>3. TypeOK' /\ Progress'
  BY NextType, ProgressStep
<1>4. QED
  BY <1>2, <1>3 DEF IInv

\* Only two steps take a pod down.
LEMMA PodsGoDown ==
    ASSUME IInv, [Next]_vars, NEW q \in Up \ Up'
    PROVE  \/ op.pc = "secondaries" /\ q \in op.todo
           \/ op.pc = "primary" /\ q = op.leader
<1> USE DEF cr, pods, bounds
<1>0. TypeOK /\ (primary \in Pods => primary \in Up)
  BY DEF IInv, Office
<1>1. CASE UNCHANGED pod
  BY <1>1 DEF Up, Ready
<1>2. CASE DeletePrimary
  BY <1>0, <1>2, DeleteEffect DEF DeletePrimary
<1>3. ASSUME NEW p \in Pods, DeleteSecondary(p)
      PROVE  op.pc = "secondaries" /\ q \in op.todo
  BY <1>0, <1>3, DeleteEffect DEF DeleteSecondary
<1>4. ASSUME NEW p \in Pods, CreatePod(p) \/ PodReady(p) PROVE FALSE
  BY <1>0, <1>4, CreatePodEffect, PodReadyEffect
<1>5. QED
  <2>1. CASE CheckRestart \/ Prepare \/ StepDown \/ WriteRestartState \/ WriteCurrentResources
    BY <1>1, <2>1 DEF CheckRestart, Prepare, StepDown, WriteRestartState, WriteCurrentResources
  <2>2. CASE Crash \/ Resign \/ Elect \/ Takeover \/ CatchUp \/ ChangeResources \/ UNCHANGED vars
    BY <1>1, <2>2 DEF Crash, Resign, Elect, Takeover, CatchUp, ChangeResources, vars
  <2>3. QED
    BY <1>2, <1>3, <1>4, <2>1, <2>2 DEF Next, Operator

\* Restart deletes the pods that judgePodIsPrimary did not take for the primary,
\* and the primary only after StepDown: with an up-to-date cache and no election
\* without a cause, whoever is primary when a pod is deleted is another member.
\* In the arbiter's cluster this needs a first restart without a failure: one that
\* begins over may list a pod that is not ready yet.
THEOREM PrimarySparedCorrect == ASSUME OneLeft PROVE Spec => PrimarySpared
<1>1. Init => IInv
  BY InitIInv
<1>2. IInv /\ [Next]_vars => IInv'
  BY NextIInv
<1>3. IInv /\ [Next]_vars
        => [Steady => Ready(pod) \ Ready(pod)' \subseteq Pods \ {primary}]_vars
  <2> SUFFICES ASSUME IInv, [Next]_vars, Steady, NEW q \in Up \ Up'
               PROVE  q \in Pods /\ q # primary
    BY DEF Up
  <2>1. q \in Pods /\ Deleting /\ SteppingDown
    BY UpAreListed DEF IInv, Office
  <2>2. QED
    BY <2>1, PodsGoDown DEF Deleting, SteppingDown
<1>4. QED
  BY <1>1, <1>2, <1>3, PTL DEF Spec, PrimarySpared

\* When the primary has stepped down, so that its pod is deleted next, every
\* other pod that runs does so with the new resources, and without an arbiter
\* every pod is ready; an arbiter's pod counts for one that is not.
THEOREM PrimaryLastCorrect == ASSUME OneLeft PROVE Spec => PrimaryLast
<1>1. Init => IInv
  BY InitIInv
<1>2. IInv /\ [Next]_vars => IInv'
  BY NextIInv
<1>3. IInv /\ [Next]_vars
        => [Calm /\ op.pc = "stepdown" /\ op'.pc = "primary" =>
                /\ \A p \in Listed(pod) \ {op.leader} : runs[p] = op.spec
                /\ Cardinality(Pods \ Ready(pod)) <= Cardinality(arbiters)]_vars
  <2> SUFFICES ASSUME IInv, Calm, op.pc = "stepdown"
               PROVE  /\ \A p \in Listed(pod) \ {op.leader} : runs[p] = op.spec
                      /\ Cardinality(Pods \ Ready(pod)) <= Cardinality(arbiters)
    OBVIOUS
  <2>1. UpToDate /\ InFirst /\ InSecondaryDeleted /\ InPrimaryDeleted /\ phase \in Phases
    BY DEF IInv, Progress, TypeOK
  <2>2. op.spec = 1 /\ Old \subseteq {op.leader}
    BY <2>1 DEF UpToDate, InFirst, InSecondaryDeleted, InPrimaryDeleted, Phases, First
  <2>3. \A p \in Listed(pod) \ {op.leader} : runs[p] = op.spec
    BY <2>2 DEF Old
  <2>4. AllReady(pod)
    BY DEF IInv, Office, Steady, SteppingDown
  <2>5. QED
    BY <2>3, <2>4, ArbitersMakeUp DEF IInv, Up
<1>4. QED
  BY <1>1, <1>2, <1>3, PTL DEF Spec, PrimaryLast

\* UpdateCurrentResources is reached only when every pod that there is was
\* started with the resources it records.
THEOREM RestartedCorrect == ASSUME OneLeft PROVE Spec => Restarted
<1>1. Init => IInv
  BY InitIInv
<1>2. IInv /\ [Next]_vars => IInv'
  BY NextIInv
<1>3. IInv /\ [Next]_vars
        => [Calm /\ current' # current => \A p \in Listed(pod) : runs[p] = current']_vars
  <2> SUFFICES ASSUME IInv, [Next]_vars, Calm, current' # current, NEW p \in Listed(pod)
               PROVE  runs[p] = current'
    OBVIOUS
  <2>1. WriteCurrentResources
    BY DEF Next, Operator, CheckRestart, Prepare, StepDown, DeletePrimary, DeleteSecondary,
       WriteRestartState, Crash, Resign, Elect, Takeover, CatchUp, ChangeResources, CreatePod,
       PodReady, vars, cr
  <2>2. op.pc = "finish" /\ current' = op.goal
    BY <2>1 DEF WriteCurrentResources
  <2>3. UpToDate /\ InFirst /\ InSecondaryDeleted /\ InPrimaryDeleted /\ phase \in Phases
    BY DEF IInv, Progress, TypeOK
  <2>4. op.goal = 1 /\ Old = {}
    BY <2>2, <2>3 DEF UpToDate, InFirst, InSecondaryDeleted, InPrimaryDeleted, Phases, First
  <2>5. QED
    BY <2>2, <2>4 DEF Old
<1>4. QED
  BY <1>1, <1>2, <1>3, PTL DEF Spec, Restarted
=============================================================================
