--------------------------- MODULE RollingRestart ---------------------------
(***************************************************************************)
(* The restart of the pods of one cluster after a change of                 *)
(* Spec.Resources: checkRestart (controllers/mongodb_controller.go) and      *)
(* MongoReplica.Restart (mode/replica/replica.go).  Stateful sets are        *)
(* updated OnDelete, so a pod keeps its resources until the operator          *)
(* deletes it.  Status.RestartState carries the operator from one             *)
(* reconciliation to the next: the secondaries first, then the primary.       *)
(*                                                                         *)
(* Abstractions.  Resources are version numbers.  The members of the replica  *)
(* set in other clusters are always up; only their votes count.  The         *)
(* templates of all stateful sets are written in one step, since no pod is    *)
(* deleted before the last one is.  A pod that is terminating counts as gone,  *)
(* as ListPod leaves it out.  Spec is the only part of the MongoDB that        *)
(* another client writes, and Status.State is left out.                      *)
(***************************************************************************)
EXTENDS Integers, FiniteSets

CONSTANTS Pods,          \* the pods of the cluster, an arbiter's among them
          Arbiters,      \* which of them may be the arbiter's; {} if there is none
          Others,        \* voting members in the other clusters
          Elsewhere,     \* the primary is in another cluster
          Nobody,        \* there is no primary, no pod is chosen
          Lagging,       \* whether the informer cache may show pods late
          MaxChanges,    \* bound on the changes of Spec.Resources
          MaxElections,  \* bound on elections without a cause in the model
          MaxCrashes,    \* bound on failed calls and operator restarts
          MaxLate        \* bound on all three together when the cache is late

ASSUME PodsAssumption == IsFiniteSet(Pods) /\ Pods # {}
ASSUME ArbitersAssumption == Arbiters \subseteq SUBSET Pods
ASSUME OthersAssumption == Others \in Nat
ASSUME NamesAssumption == {Elsewhere, Nobody} \cap Pods = {} /\ Elsewhere # Nobody
ASSUME BoundsAssumption == {MaxChanges, MaxElections, MaxCrashes, MaxLate} \subseteq Nat
ASSUME LaggingAssumption == Lagging \subseteq BOOLEAN

VARIABLES spec,       \* Spec.Resources, counted up by every change
          current,    \* Status.CurrentInfo.Resources
          phase,      \* Status.RestartState
          template,   \* template[p]: resources in the stateful set of p
          runs,       \* runs[p]: resources p was started with
          pod,        \* pod[p]: is the pod there, and is it ready
          seen,       \* the same as the informer cache shows it
          primary,
          op,         \* the reconciliation in progress
          lagging,    \* how this informer behaves, one of Lagging
          arbiters,   \* the pods that run an arbiter, one of Arbiters
          elections, crashes

cr == <<spec, current, phase>>
pods == <<template, runs, pod, seen>>
bounds == <<lagging, arbiters, elections, crashes>>
vars == <<cr, pods, primary, op, bounds>>

Phases == {"", "NotInProcess", "SecondaryDeleted", "PrimaryDeleted"}

Idle == [pc |-> "idle", goal |-> 0, spec |-> 0, phase |-> "", fresh |-> FALSE,
         leader |-> Nobody, todo |-> {}]
Return == op' = Idle

\* The bound MaxLate allows one more change, election or crash.
Within == lagging => spec + elections + crashes < MaxLate

\* The pods that ListPod finds, and those of them that are ready.
Listed(state) == {p \in Pods : state[p] # "gone"}
Ready(state) == {p \in Pods : state[p] = "ready"}

\* The informer follows at once, or later by CatchUp.
Observe == seen' = IF lagging THEN seen ELSE pod'

-----------------------------------------------------------------------------
(* The replica set: who may be primary.  All members vote; those with data    *)
(* have the same priority.                                                 *)

Majority == 2 * (Cardinality(Ready(pod)) + Others) > Cardinality(Pods) + Others

Candidates == (Ready(pod) \ arbiters) \cup (IF Others > 0 THEN {Elsewhere} ELSE {})

\* A primary that sees no majority of the members resigns.
Resign ==
    /\ primary # Nobody /\ ~Majority
    /\ primary' = Nobody
    /\ UNCHANGED <<cr, pods, op, bounds>>

Elect ==
    /\ primary = Nobody /\ Majority
    /\ primary' \in Candidates
    /\ UNCHANGED <<cr, pods, op, bounds>>

\* A network fault, for example, moves the office to another member.
Takeover ==
    /\ primary # Nobody /\ Majority
    /\ elections < MaxElections /\ Within
    /\ elections' = elections + 1
    /\ primary' \in Candidates \ {primary}
    /\ UNCHANGED <<cr, pods, op, lagging, arbiters, crashes>>

-----------------------------------------------------------------------------
(* The stateful sets and the user.                                         *)

\* The stateful set makes a new pod, from its template as it is then.
CreatePod(p) ==
    /\ pod[p] = "gone"
    /\ pod' = [pod EXCEPT ![p] = "starting"]
    /\ runs' = [runs EXCEPT ![p] = template[p]]
    /\ Observe
    /\ UNCHANGED <<cr, template, primary, op, bounds>>

PodReady(p) ==
    /\ pod[p] = "starting"
    /\ pod' = [pod EXCEPT ![p] = "ready"]
    /\ Observe
    /\ UNCHANGED <<cr, template, runs, primary, op, bounds>>

CatchUp ==
    /\ seen # pod
    /\ seen' = pod
    /\ UNCHANGED <<cr, template, runs, pod, primary, op, bounds>>

ChangeResources ==
    /\ spec < MaxChanges /\ Within
    /\ spec' = spec + 1
    /\ op' = [op EXCEPT !.fresh = FALSE]
    /\ UNCHANGED <<current, phase, pods, primary, bounds>>

-----------------------------------------------------------------------------
(* WriteStatus.  When the object has changed since it was read the status     *)
(* update fails; the fallback reads the object again and updates all of it     *)
(* but the status, so that nothing is written and the caller sees no error,    *)
(* unless what it read was stale again.                                      *)

Refreshed == [op EXCEPT !.spec = spec, !.phase = phase, !.fresh = TRUE]

\* checkRestart: the resources of the MongoDB differ from CurrentInfo.
CheckRestart ==
    /\ op.pc = "idle" /\ spec # current
    /\ op' = [Idle EXCEPT !.pc = "restart", !.goal = spec, !.spec = spec,
                          !.phase = phase, !.fresh = TRUE]
    /\ UNCHANGED <<cr, pods, primary, bounds>>

AllReady_Some(state) == Ready(state) # {}

\* CheckPodsReady: as many pods are ready as Spec.Members says.  Members counts
\* the data pods, but the arbiter's pod has the same role label and counts too.
AllReady(state) == Cardinality(Ready(state)) >= Cardinality(Pods \ arbiters)

Secondaries_All(leader) == Listed(seen)

\* The pods that judgePodIsPrimary does not take for the primary: secondaries,
\* the arbiter's pod, and pods that are not ready.
Secondaries(leader) == Listed(seen) \ {leader}

\* Restart up to its switch: nothing to do until enough pods are ready, an error
\* when there is no primary to ask, and new templates for the pods it listed.
\* Writing the state Reconciling before may have refreshed the object.
Prepare ==
    /\ op.pc = "restart"
    /\ \/ /\ ~AllReady(seen) \/ primary = Nobody
          /\ Return /\ UNCHANGED template
       \/ /\ AllReady(seen) /\ primary # Nobody
          /\ \E mine \in {op, Refreshed} :
                /\ template' = [p \in Pods |-> IF p \in Listed(seen) THEN mine.spec
                                              ELSE template[p]]
                /\ op' = [mine EXCEPT
                            !.leader = primary,
                            !.pc = CASE mine.phase = "SecondaryDeleted" ->
                                          IF primary \in Listed(seen) THEN "stepdown"
                                          ELSE "write"
                                     [] mine.phase = "PrimaryDeleted" -> "write"
                                     [] mine.phase \in {"", "NotInProcess"} ->
                                          IF Secondaries(primary) = {}
                                          THEN "write" ELSE "secondaries",
                            !.todo = IF mine.phase \in {"", "NotInProcess"}
                                     THEN Secondaries(primary) ELSE {}]
    /\ UNCHANGED <<cr, runs, pod, seen, primary, bounds>>

\* DeletePodInRestart, by name.  A deleted pod is gone from the replica set until
\* it is ready again.  One that only a late cache still shows is terminating; to
\* delete it again changes nothing.  (Not found, the call fails: Crash.)
Delete(p) ==
    IF pod[p] = "gone" THEN UNCHANGED <<pod, primary, seen>>
    ELSE /\ pod' = [pod EXCEPT ![p] = "gone"]
         /\ primary' = IF primary = p THEN Nobody ELSE primary
         /\ Observe

DeleteSecondary(p) ==
    /\ op.pc = "secondaries" /\ p \in op.todo
    /\ Delete(p)
    /\ op' = [op EXCEPT !.todo = @ \ {p}, !.pc = IF op.todo = {p} THEN "write" ELSE @]
    /\ UNCHANGED <<cr, template, runs, bounds>>

\* StepDown: the driver sends replSetStepDown to whoever is primary.  It is
\* refused when nobody else can be elected.
StepDown ==
    /\ op.pc = "stepdown"
    /\ \/ /\ primary # Nobody
          /\ primary' \in Candidates \ {primary}
          /\ op' = [op EXCEPT !.pc = "primary"]
       \/ /\ primary = Nobody \/ Candidates \subseteq {primary}
          /\ Return /\ UNCHANGED primary
    /\ UNCHANGED <<cr, pods, bounds>>

DeletePrimary ==
    /\ op.pc = "primary"
    /\ Delete(op.leader)
    /\ op' = [op EXCEPT !.pc = "write"]
    /\ UNCHANGED <<cr, template, runs, bounds>>

NextPhase_Skip(p) == IF p = "PrimaryDeleted" THEN "NotInProcess" ELSE "PrimaryDeleted"
NextPhase_Over(p) == CASE p \in {"", "NotInProcess"} -> "SecondaryDeleted"
                       [] p = "SecondaryDeleted"     -> "PrimaryDeleted"
                       [] p = "PrimaryDeleted"       -> "Restarted"
NextPhase_Again(p) == IF p \in {"", "NotInProcess"} THEN "SecondaryDeleted" ELSE "NotInProcess"

\* UpdateRestartState after the pods of a phase have been deleted.
NextPhase(p) == CASE p \in {"", "NotInProcess"} -> "SecondaryDeleted"
                  [] p = "SecondaryDeleted"     -> "PrimaryDeleted"
                  [] p = "PrimaryDeleted"       -> "NotInProcess"

\* The restart is over once the last phase has been left.
Advance(mine) ==
    op' = IF op.phase = "PrimaryDeleted" THEN [mine EXCEPT !.pc = "finish"] ELSE Idle

WriteRestartState ==
    /\ op.pc = "write"
    /\ \/ /\ op.fresh
          /\ phase' = NextPhase(op.phase)
          /\ Advance([op EXCEPT !.phase = NextPhase(op.phase)])
       \/ /\ ~op.fresh
          /\ Advance(Refreshed) \/ Return
          /\ UNCHANGED phase
    /\ UNCHANGED <<spec, current, pods, primary, bounds>>

\* UpdateCurrentResources with the resources read at the beginning.
WriteCurrentResources ==
    /\ op.pc = "finish"
    /\ current' = IF op.fresh THEN op.goal ELSE current
    /\ Return
    /\ UNCHANGED <<spec, phase, pods, primary, bounds>>

Crash ==
    /\ op.pc # "idle"
    /\ crashes < MaxCrashes /\ Within
    /\ crashes' = crashes + 1
    /\ Return
    /\ UNCHANGED <<cr, pods, primary, lagging, arbiters, elections>>

-----------------------------------------------------------------------------
Init ==
    /\ spec = 0 /\ current = 0
    /\ phase \in {"", "NotInProcess"}
    /\ template = [p \in Pods |-> 0]
    /\ runs = template
    /\ pod = [p \in Pods |-> "ready"]
    /\ seen = pod
    /\ lagging \in Lagging /\ arbiters \in Arbiters
    /\ primary \in Candidates
    /\ op = Idle
    /\ elections = 0 /\ crashes = 0

Operator == \/ CheckRestart \/ Prepare \/ StepDown \/ DeletePrimary
            \/ WriteRestartState \/ WriteCurrentResources
            \/ \E p \in Pods : DeleteSecondary(p)

Next == \/ Operator \/ Crash
        \/ Resign \/ Elect \/ Takeover
        \/ CatchUp \/ ChangeResources
        \/ \E p \in Pods : CreatePod(p) \/ PodReady(p)

Spec == Init /\ [][Next]_vars

\* The operator is requeued after 5 or 60 seconds; a deleted pod comes back, a
\* majority elects a primary, and the informer catches up.
FairSpec == /\ Spec
            /\ WF_vars(Operator) /\ WF_vars(Elect) /\ WF_vars(CatchUp)
            /\ \A p \in Pods : WF_vars(CreatePod(p)) /\ WF_vars(PodReady(p))

-----------------------------------------------------------------------------
PodStates == {"gone", "starting", "ready"}

PCs == {"idle", "restart", "secondaries", "stepdown", "primary", "write", "finish"}

\* The restart state is one that the switch of Restart knows: for any other it
\* panics.
TypeOK ==
    /\ spec \in 0 .. MaxChanges /\ current \in 0 .. MaxChanges
    /\ phase \in Phases
    /\ template \in [Pods -> 0 .. MaxChanges]
    /\ runs \in [Pods -> 0 .. MaxChanges]
    /\ pod \in [Pods -> PodStates] /\ seen \in [Pods -> PodStates]
    /\ primary \in Pods \cup {Elsewhere, Nobody}
    /\ op \in [pc : PCs, goal : 0 .. MaxChanges, spec : 0 .. MaxChanges, phase : Phases,
               fresh : BOOLEAN, leader : Pods \cup {Elsewhere, Nobody}, todo : SUBSET Pods]
    /\ lagging \in Lagging /\ arbiters \in Arbiters
    /\ elections \in 0 .. MaxElections /\ crashes \in 0 .. MaxCrashes

\* Nothing has happened but one change of the resources: no election without
\* a cause, no failure, no late cache.
Calm == spec <= 1 /\ elections = 0 /\ crashes = 0 /\ ~lagging

\* CurrentInfo.Resources is updated only when the restart is over: then, in
\* calm, every pod there is was started with those resources.
Restarted == [][Calm /\ current' # current =>
                    \A p \in Listed(pod) : runs[p] = current']_vars

\* The primary steps down, in calm, after every pod that runs has been restarted;
\* of the data pods at most one per arbiter is not ready again.
PrimaryLast ==
    [][Calm /\ op.pc = "stepdown" /\ op'.pc = "primary" =>
           /\ \A p \in Listed(pod) \ {op.leader} : runs[p] = op.spec
           /\ Cardinality(Pods \ Ready(pod)) <= Cardinality(arbiters)]_vars

\* The step-down waits until the secondaries run again (replica.go, comment on
\* Restart).
SecondariesFirst ==
    [][Calm /\ op.pc = "stepdown" /\ op'.pc = "primary" =>
           Pods \ arbiters \subseteq Ready(pod)]_vars

\* Pods listed for deletion are ready ones: because every listed pod has to be,
\* or, in the arbiter's cluster, because the restart has not begun over.
Steady == Calm \/ (elections = 0 /\ ~lagging /\ arbiters = {})

\* The operator deletes the pod that holds the office only when an election
\* came between its look at the members and the deletion.
PrimarySpared == [][Steady => Ready(pod) \ Ready(pod)' \subseteq Pods \ {primary}]_vars

\* Every change of the resources is eventually recorded as done, whatever is
\* lost, refused or interrupted on the way.
RestartEnds == <>[](current = spec)
=============================================================================
