--------------------------- MODULE ReplSetConfig ---------------------------
(***************************************************************************)
(* The replica set configuration, shared by the member operators of every  *)
(* cluster.  Each operator adds the hosts of its own pods and removes the  *)
(* hosts it scales down, by a read-modify-write of the whole document:     *)
(* pkg/driver/mgo/mongo.go ReadConfig / WriteConfig and the set algebra of  *)
(* pkg/driver/mgo/member.go.  Every write carries force: true, so mongod    *)
(* does not compare the version of the document with the one it replaces.  *)
(*                                                                         *)
(* Abstractions.  The document is the set of its members: the code rebuilds *)
(* the slice from a Go map, so its order means nothing.  All members vote;   *)
(* priority and tags are left out, and so is the version: under force it     *)
(* decides nothing.  A member is up as long as its stateful set is there.    *)
(* Which of the members is primary may change between any two commands.  An  *)
(* add names one host, because a node port names one pod of the cluster      *)
(* (ConfigMapToMembersByNodePort).  RestoreReplSet, which handleReturn calls  *)
(* after most errors, is left out: it looks for the pods whose name is one    *)
(* of the hosts that mongod calls unhealthy, and finds none.                 *)
(***************************************************************************)
EXTENDS Integers, FiniteSets

CONSTANTS Operators,   \* one member operator per cluster
          Hosts,       \* VIP:nodePort of every pod that may ever exist
          Owner,       \* Owner[h]: the operator of the cluster with h's VIP
          Arbiters,    \* the hosts that run as arbiters
          NoHost,
          MaxStarts,   \* bound on the stateful sets created
          MaxRemovals, \* bound on the pods chosen to be scaled down
          MaxFailures  \* bound on the handlers abandoned

ASSUME OwnerAssumption == Owner \in [Hosts -> Operators]
ASSUME ArbiterAssumption == Arbiters \subseteq Hosts
ASSUME NoHostAssumption == NoHost \notin Hosts
ASSUME BoundsAssumption == {MaxStarts, MaxRemovals, MaxFailures} \subseteq Nat

VARIABLES config,    \* what replSetGetConfig returns
          wanted,    \* hosts whose stateful set exists
          pc,        \* pc[o]: where o is in its add or remove
          arg,       \* arg[o]: the host o is working on
          snap,      \* snap[o]: the members o last read
          lost,      \* has a write replaced another document than its writer read
          starts, removals, failures

bounds == <<starts, removals, failures>>
vars == <<config, wanted, pc, arg, snap, lost, bounds>>

Member == [host : Hosts, id : Nat, arbiterOnly : BOOLEAN]

HostsOf(cfg) == {m.host : m \in cfg}

-----------------------------------------------------------------------------
(* pkg/driver/mgo/member.go *)

MaxId(cfg) == CHOOSE n \in {0} \cup {m.id : m \in cfg} : \A m \in cfg : m.id <= n

NextId_Count(cfg) == Cardinality(cfg)
NextId_Below(cfg) == MaxId(cfg) - 1

\* The id of a member to add: one more than the largest, never a gap.
NextId(cfg) == MaxId(cfg) + 1

\* Compares the ids, which ConfigMapToMembersByNodePort leaves at zero.
MemberExist_ById(cfg, h) == \E m \in cfg : m.id = 0

MemberExist(cfg, h) == h \in HostsOf(cfg)

NewMember(cfg, h) ==
    [host |-> h, id |-> NextId(cfg), arbiterOnly |-> h \in Arbiters]

AddMember(cfg, h) == IF h \in HostsOf(cfg) THEN cfg ELSE cfg \cup {NewMember(cfg, h)}

RemoveMember_DataOnly(cfg, h) == {m \in cfg : m.host # h \/ m.arbiterOnly}

RemoveMember_AndYounger(cfg, h) ==
    {m \in cfg : \A n \in cfg : n.host = h => m.id < n.id}

RemoveMember(cfg, h) == {m \in cfg : m.host # h}

-----------------------------------------------------------------------------
(* mongod.  Commands go to the primary: there is one while a majority of the  *)
(* members is up, one with data among them.                                *)

Up == {m \in config : m.host \in wanted}

MayBePrimary == {m.host : m \in {n \in Up : ~n.arbiterOnly}}

HasPrimary == 2 * Cardinality(Up) > Cardinality(config) /\ MayBePrimary # {}

\* A document may not renumber a host it knows nor turn a member id from
\* data-bearing to arbiter; force does not waive that.
Compatible(old, new) ==
    \A m \in old, n \in new :
        /\ m.host = n.host => m.id = n.id
        /\ m.id = n.id => m.arbiterOnly = n.arbiterOnly

\* WriteConfig: the whole document is replaced, whatever it was when the
\* writer read it.  The primary has to be in the new one.
WriteConfig(o, new) ==
    /\ HasPrimary /\ Compatible(config, new)
    /\ \E p \in MayBePrimary : p \in HostsOf(new)
    /\ config' = new
    /\ lost' = (lost \/ snap[o] # config)

\* The command is an error and changes nothing.
WriteRefused(new) ==
    /\ \/ ~HasPrimary \/ ~Compatible(config, new)
       \/ \E p \in MayBePrimary : p \notin HostsOf(new)
    /\ UNCHANGED <<config, lost>>

Idle(o) == /\ pc' = [pc EXCEPT ![o] = "idle"]
           /\ arg' = [arg EXCEPT ![o] = NoHost]
           /\ snap' = [snap EXCEPT ![o] = {}]

-----------------------------------------------------------------------------
\* A deployed replica set: rs.initiate has numbered the hosts of the
\* hostconf from 0, data-bearing members before arbiters.
Numberings(S) ==
    {f \in [S -> 0 .. Cardinality(S) - 1] :
        \A g, h \in S : /\ f[g] = f[h] => g = h
                        /\ g \in Arbiters /\ h \notin Arbiters => f[h] < f[g]}

ConfigMapToMembers(S) ==
    {{[host |-> h, id |-> f[h], arbiterOnly |-> h \in Arbiters] : h \in S} :
        f \in Numberings(S)}

Init == /\ wanted \in {S \in SUBSET Hosts : IsFiniteSet(S) /\ S \ Arbiters # {}}
        /\ config \in ConfigMapToMembers(wanted)
        /\ pc = [o \in Operators |-> "idle"]
        /\ arg = [o \in Operators |-> NoHost]
        /\ snap = [o \in Operators |-> {}]
        /\ lost = FALSE
        /\ starts = 0 /\ removals = 0 /\ failures = 0

\* SyncMember creates the stateful set of a service that reached the cluster.
StartPod(o, h) ==
    /\ pc[o] = "idle" /\ Owner[h] = o /\ h \notin wanted
    /\ starts < MaxStarts
    /\ starts' = starts + 1
    /\ wanted' = wanted \cup {h}
    /\ UNCHANGED <<config, pc, arg, snap, lost, removals, failures>>

\* MongoEnsureMemberConfig up to MemberExist: the first of its two reads.
EnsureMember(o, h) ==
    /\ pc[o] = "idle" /\ Owner[h] = o /\ h \in wanted
    /\ HasPrimary /\ ~MemberExist(config, h)
    /\ pc' = [pc EXCEPT ![o] = "adding"]
    /\ arg' = [arg EXCEPT ![o] = h]
    /\ UNCHANGED <<config, wanted, snap, lost, bounds>>

\* scaleDownDataNode or scaleDownArbiterNode has chosen a pod to remove.
ScaleDown(o, h) ==
    /\ pc[o] = "idle" /\ Owner[h] = o /\ h \in wanted
    /\ removals < MaxRemovals
    /\ removals' = removals + 1
    /\ pc' = [pc EXCEPT ![o] = "removing"]
    /\ arg' = [arg EXCEPT ![o] = h]
    /\ UNCHANGED <<config, wanted, snap, lost, starts, failures>>

\* ReadConfig at the head of Client.AddMembers and Client.RemoveMembers; an
\* error without a primary.
ReadConfig(o) ==
    /\ pc[o] \in {"adding", "removing"}
    /\ \/ /\ HasPrimary
          /\ pc' = [pc EXCEPT ![o] = IF pc[o] = "adding" THEN "add" ELSE "remove"]
          /\ snap' = [snap EXCEPT ![o] = config]
          /\ UNCHANGED arg
       \/ ~HasPrimary /\ Idle(o)
    /\ UNCHANGED <<config, wanted, lost, bounds>>

\* Client.AddMembers: nothing is written when the host has appeared meanwhile.
WriteAdd(o) ==
    /\ pc[o] = "add"
    /\ LET new == AddMember(snap[o], arg[o])
       IN  IF MemberExist(snap[o], arg[o]) THEN UNCHANGED <<config, lost>>
           ELSE WriteConfig(o, new) \/ WriteRefused(new)
    /\ Idle(o)
    /\ UNCHANGED <<wanted, bounds>>

\* Client.RemoveMembers: a write only if the host is in the document it read.
\* Without an error the stateful set is deleted next.
WriteRemove(o) ==
    /\ pc[o] = "remove"
    /\ LET new == RemoveMember(snap[o], arg[o])
       IN  \/ /\ \/ MemberExist(snap[o], arg[o]) /\ WriteConfig(o, new)
                 \/ ~MemberExist(snap[o], arg[o]) /\ UNCHANGED <<config, lost>>
              /\ pc' = [pc EXCEPT ![o] = "delete"]
              /\ snap' = [snap EXCEPT ![o] = {}]
              /\ UNCHANGED arg
           \/ MemberExist(snap[o], arg[o]) /\ WriteRefused(new) /\ Idle(o)
    /\ UNCHANGED <<wanted, bounds>>

\* MongoRemoveMemberAndDeleteSts, after MongoRemoveMember returned nil.
DeleteSts(o) ==
    /\ pc[o] = "delete"
    /\ wanted' = wanted \ {arg[o]}
    /\ Idle(o)
    /\ UNCHANGED <<config, lost, bounds>>

\* An error of any call, or a restart of the operator, abandons the handler.
Abandon(o) ==
    /\ pc[o] # "idle"
    /\ failures < MaxFailures
    /\ failures' = failures + 1
    /\ Idle(o)
    /\ UNCHANGED <<config, wanted, lost, starts, removals>>

Work(o) == \/ \E h \in Hosts : EnsureMember(o, h)
           \/ ReadConfig(o) \/ WriteAdd(o) \/ WriteRemove(o) \/ DeleteSts(o)

Next == \E o \in Operators :
            \/ Work(o)
            \/ \E h \in Hosts : StartPod(o, h) \/ ScaleDown(o, h)
            \/ Abandon(o)

Spec == Init /\ [][Next]_vars

\* Each operator reconciles its MongoDB again at the latest after 60 seconds.
FairSpec == Spec /\ \A o \in Operators : WF_vars(Work(o))

-----------------------------------------------------------------------------
PCs == {"idle", "adding", "removing", "add", "remove", "delete"}

TypeOK == /\ config \subseteq Member
          /\ wanted \subseteq Hosts
          /\ pc \in [Operators -> PCs]
          /\ arg \in [Operators -> Hosts \cup {NoHost}]
          /\ snap \in [Operators -> SUBSET Member]
          /\ lost \in BOOLEAN
          /\ starts \in 0 .. MaxStarts /\ removals \in 0 .. MaxRemovals
          /\ failures \in 0 .. MaxFailures

\* A document in which a host and an id each name one member.
WellFormed(cfg) == \A m, n \in cfg : m.host = n.host \/ m.id = n.id => m = n

\* Whatever the operators overwrite of each other, mongod never holds (and an
\* operator never sends) a document with two members of one id or one host.
ConfigWellFormed == WellFormed(config)

\* Once the scaling stops every pod ends up in the configuration and stays, if
\* the replica set keeps a primary to write it: an operator whose write was
\* overwritten finds its host missing at the next reconcile and adds it again.
MembersConverge == <>[]HasPrimary => <>[](wanted \subseteq HostsOf(config))

\* A host leaves the configuration before its stateful set is deleted, so a
\* member of the configuration always has a pod.
NoGhostMember == HostsOf(config) \subseteq wanted

\* Members without a pod, and a replica set that cannot elect a primary any more
\* for so many of them, have one cause only, a lost update: no error, restart or
\* stale read of any operator leads there, as long as no write has replaced
\* another document than the one its writer had read.
HarmlessUntilLost == ~lost => NoGhostMember /\ HasPrimary

\* The atomic membership service the operators behave as, until an update is
\* lost.
Membership == INSTANCE Membership WITH members <- HostsOf(config)
MembershipSpec == Membership!Spec
=============================================================================
