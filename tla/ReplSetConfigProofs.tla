------------------------- MODULE ReplSetConfigProofs -------------------------
(***************************************************************************)
(* Any number of operators, hosts and scale operations: what mongod stores  *)
(* is always a well-formed document, although the operators overwrite one    *)
(* another.  The reason is in the two lemmas on member.go: an added member   *)
(* gets an id above every id of the document it is added to, and removing    *)
(* keeps a subset.  The invariant has to speak of the documents the          *)
(* operators hold, not only of the stored one, because those are what the    *)
(* operators write; and it bounds the ids, without which "the largest id"    *)
(* names nothing.  The second half is about the time until an update is lost: *)
(* a removal is then a removal, and the operators together, however many,     *)
(* implement the atomic membership service.                                  *)
(***************************************************************************)
EXTENDS ReplSetConfig, FiniteSetTheorems, WellFoundedInduction, TLAPS

Bounded(cfg) == \E b \in Nat : \A m \in cfg : m.id <= b

Document(cfg) == cfg \subseteq Member /\ IsFiniteSet(cfg) /\ Bounded(cfg) /\ WellFormed(cfg)

\* Where the operators are.  One in the middle of an operation has a host of its
\* own cluster.
Control == /\ wanted \subseteq Hosts
           /\ pc \in [Operators -> PCs]
           /\ arg \in [Operators -> Hosts \cup {NoHost}]
           /\ lost \in BOOLEAN
           /\ starts \in 0 .. MaxStarts /\ removals \in 0 .. MaxRemovals
           /\ failures \in 0 .. MaxFailures
           /\ \A o \in Operators : pc[o] # "idle" => arg[o] \in Hosts /\ Owner[arg[o]] = o

\* What is stored, and what the operators hold and may write back.
Documents == /\ Document(config)
             /\ snap \in [Operators -> SUBSET Member]
             /\ \A o \in Operators : Document(snap[o])

IInv == Control /\ Documents

-----------------------------------------------------------------------------
\* The largest id of a document exists (member.go's maxMemberId, which starts
\* at 0), so the next one is a natural number above every id in use.
LEMMA MaxIdIsMax ==
    ASSUME NEW cfg, cfg \subseteq Member, Bounded(cfg)
    PROVE  /\ MaxId(cfg) \in Nat
           /\ \A m \in cfg : m.id <= MaxId(cfg)
<1> DEFINE Bounds == {b \in Nat : \A m \in cfg : m.id <= b}
           Ids == {0} \cup {m.id : m \in cfg}
<1>1. Bounds \subseteq Nat /\ Bounds # {}
  BY DEF Bounded
<1>2. PICK least \in Bounds : \A b \in Bounds : ~(b < least)
  <2>1. IsWellFoundedOn(OpToRel(<, Nat), Nat)
    BY NatLessThanWellFounded
  <2>2. PICK x \in Bounds : \A y \in Bounds : ~(<<y, x>> \in OpToRel(<, Nat))
    BY <1>1, <2>1, WFMin
  <2>3. \A y \in Bounds : ~(y < x)
    BY <1>1, <2>2 DEF OpToRel
  <2>4. QED
    BY <2>2, <2>3
<1>3. least \in Ids
  <2>1. CASE least = 0
    BY <2>1
  <2>2. CASE least # 0
    <3>1. least - 1 \in Nat /\ least - 1 < least
      BY <1>2, <2>2
    <3>2. least - 1 \notin Bounds
      BY <1>2, <3>1
    <3>3. PICK m \in cfg : ~(m.id <= least - 1)
      BY <3>1, <3>2
    <3>4. m.id \in Nat /\ m.id <= least
      BY <1>2, <3>3 DEF Member
    <3>5. m.id = least
      BY <1>1, <1>2, <3>3, <3>4
    <3>6. QED
      BY <3>5
  <2>3. QED
    BY <2>1, <2>2
<1>4. \E n \in Ids : \A m \in cfg : m.id <= n
  BY <1>2, <1>3
<1>5. MaxId(cfg) \in Ids /\ \A m \in cfg : m.id <= MaxId(cfg)
  BY <1>4 DEF MaxId
<1>6. Ids \subseteq Nat
  BY DEF Member
<1>7. QED
  BY <1>5, <1>6

\* AddMembers of member.go: the result is a document again.
LEMMA AddMemberDocument ==
    ASSUME NEW cfg, Document(cfg), NEW h \in Hosts
    PROVE  Document(AddMember(cfg, h))
<1>1. CASE h \in HostsOf(cfg)
  BY <1>1 DEF AddMember
<1>2. CASE h \notin HostsOf(cfg)
  <2> DEFINE new == NewMember(cfg, h)
  <2>1. AddMember(cfg, h) = cfg \cup {new}
    BY <1>2 DEF AddMember
  <2>2. NextId(cfg) \in Nat /\ \A m \in cfg : m.id < NextId(cfg)
    <3>1. MaxId(cfg) \in Nat /\ \A m \in cfg : m.id <= MaxId(cfg)
      BY MaxIdIsMax DEF Document
    <3>2. \A m \in cfg : m.id \in Nat
      BY DEF Document, Member
    <3>3. QED
      BY <3>1, <3>2 DEF NextId
  <2>3. new \in Member /\ new.id = NextId(cfg) /\ new.host = h
    BY <2>2 DEF NewMember, Member
  <2>4. Bounded(cfg \cup {new})
    <3>1. \A m \in cfg \cup {new} : m.id <= NextId(cfg)
      BY <2>2, <2>3 DEF Document, Member
    <3>2. QED
      BY <2>2, <3>1 DEF Bounded
  <2>5. WellFormed(cfg \cup {new})
    <3>1. \A m \in cfg : m.host # new.host /\ m.id # new.id
      BY <1>2, <2>2, <2>3 DEF HostsOf, Document, Member
    <3>2. QED
      BY <3>1 DEF WellFormed, Document
  <2>6. IsFiniteSet(cfg \cup {new})
    BY FS_AddElement DEF Document
  <2>7. QED
    BY <2>1, <2>3, <2>4, <2>5, <2>6 DEF Document
<1>3. QED
  BY <1>1, <1>2

\* RemoveMembers of member.go: the result is a document again.
LEMMA RemoveMemberDocument ==
    ASSUME NEW cfg, Document(cfg), NEW h
    PROVE  Document(RemoveMember(cfg, h))
<1>1. RemoveMember(cfg, h) \subseteq cfg
  BY DEF RemoveMember
<1>2. IsFiniteSet(RemoveMember(cfg, h))
  BY <1>1, FS_Subset DEF Document
<1>3. QED
  BY <1>1, <1>2 DEF Document, Bounded, WellFormed

-----------------------------------------------------------------------------
\* rs.initiate numbers finitely many hosts from 0, each with its own id.
LEMMA InitialDocument ==
    ASSUME NEW S, S \subseteq Hosts, IsFiniteSet(S),
           NEW cfg \in ConfigMapToMembers(S)
    PROVE  Document(cfg) /\ HostsOf(cfg) = S
<1>1. PICK f \in Numberings(S) :
        cfg = {[host |-> h, id |-> f[h], arbiterOnly |-> h \in Arbiters] : h \in S}
  BY DEF ConfigMapToMembers
<1>2. Cardinality(S) \in Nat
  BY FS_CardinalityType
<1>3. f \in [S -> 0 .. Cardinality(S) - 1] /\ \A g, h \in S : f[g] = f[h] => g = h
  BY DEF Numberings
<1>4. \A h \in S : f[h] \in Nat /\ f[h] <= Cardinality(S)
  BY <1>2, <1>3
<1>5. cfg \subseteq Member
  <2> SUFFICES ASSUME NEW m \in cfg PROVE m \in Member
    OBVIOUS
  <2>1. PICK h \in S :
          m = [host |-> h, id |-> f[h], arbiterOnly |-> h \in Arbiters]
    BY <1>1
  <2>2. (h \in Arbiters) \in BOOLEAN
    OBVIOUS
  <2>3. QED
    BY <1>4, <2>1, <2>2 DEF Member
<1>6. Bounded(cfg)
  BY <1>1, <1>2, <1>4 DEF Bounded
<1>7. WellFormed(cfg)
  BY <1>1, <1>3 DEF WellFormed
<1>8. HostsOf(cfg) = S
  <2>1. \A m \in cfg : m.host \in S
    BY <1>1
  <2>2. ASSUME NEW h \in S PROVE \E m \in cfg : m.host = h
    <3> DEFINE m == [host |-> h, id |-> f[h], arbiterOnly |-> h \in Arbiters]
    <3>1. m \in cfg
      BY <1>1
    <3>2. m.host = h
      OBVIOUS
    <3>3. QED
      BY <3>1, <3>2
  <2>3. QED
    BY <2>1, <2>2 DEF HostsOf
<1>9. IsFiniteSet(cfg)
  <2> DEFINE member == [h \in S |-> [host |-> h, id |-> f[h], arbiterOnly |-> h \in Arbiters]]
  <2>1. member \in Surjection(S, cfg)
    BY <1>1 DEF Surjection
  <2>2. QED
    BY <2>1, FS_Surjection
<1>10. QED
  BY <1>5, <1>6, <1>7, <1>8, <1>9 DEF Document

LEMMA EmptyDocument == Document({})
<1>1. Bounded({})
  BY 0 \in Nat DEF Bounded
<1>2. QED
  BY <1>1, FS_EmptySet DEF Document, WellFormed

LEMMA InitIInv == Init => IInv
<1> SUFFICES ASSUME Init PROVE IInv
  OBVIOUS
<1>1. Document(config)
  BY InitialDocument DEF Init
<1>2. Documents
  BY <1>1, EmptyDocument DEF Init, Documents
<1>3. lost \in BOOLEAN /\ starts \in 0 .. MaxStarts /\ removals \in 0 .. MaxRemovals
      /\ failures \in 0 .. MaxFailures
  <2>1. 0 \in 0 .. MaxStarts /\ 0 \in 0 .. MaxRemovals /\ 0 \in 0 .. MaxFailures
    BY BoundsAssumption
  <2>2. QED
    BY <2>1, Zenon DEF Init
<1>4. Control
  <2>1. wanted \subseteq Hosts /\ pc \in [Operators -> PCs] /\ arg \in [Operators -> Hosts \cup {NoHost}]
    BY DEF Init, PCs
  <2>2. \A o \in Operators : pc[o] = "idle"
    BY DEF Init
  <2>3. QED
    BY <1>3, <2>1, <2>2, Zenon DEF Control
<1>5. QED
  BY <1>2, <1>4 DEF IInv

LEMMA IInvTypeOK == IInv => TypeOK
BY DEF IInv, Control, Documents, Document, TypeOK

-----------------------------------------------------------------------------
LEMMA NextControl == Control /\ [Next]_vars => Control'
<1> SUFFICES ASSUME Control, [Next]_vars PROVE Control'
  OBVIOUS
<1> USE DEF bounds
<1>1. CASE UNCHANGED vars
  BY <1>1 DEF vars, Control
<1>2. ASSUME NEW o \in Operators, NEW h \in Hosts, StartPod(o, h) PROVE Control'
  BY <1>2, BoundsAssumption DEF StartPod, Control
<1>3. ASSUME NEW o \in Operators, NEW h \in Hosts, EnsureMember(o, h) PROVE Control'
  BY <1>3 DEF EnsureMember, Control, PCs
<1>4. ASSUME NEW o \in Operators, NEW h \in Hosts, ScaleDown(o, h) PROVE Control'
  BY <1>4, BoundsAssumption DEF ScaleDown, Control, PCs
<1>5. ASSUME NEW o \in Operators, ReadConfig(o) PROVE Control'
  BY <1>5 DEF ReadConfig, Idle, Control, PCs
<1>6. ASSUME NEW o \in Operators, WriteAdd(o) PROVE Control'
  BY <1>6 DEF WriteAdd, WriteConfig, WriteRefused, Idle, Control, PCs
<1>7. ASSUME NEW o \in Operators, WriteRemove(o) PROVE Control'
  BY <1>7 DEF WriteRemove, WriteConfig, WriteRefused, Idle, Control, PCs
<1>8. ASSUME NEW o \in Operators, DeleteSts(o) PROVE Control'
  BY <1>8 DEF DeleteSts, Idle, Control, PCs
<1>9. ASSUME NEW o \in Operators, Abandon(o) PROVE Control'
  BY <1>9, BoundsAssumption DEF Abandon, Idle, Control, PCs
<1>10. QED
  BY <1>1, <1>2, <1>3, <1>4, <1>5, <1>6, <1>7, <1>8, <1>9 DEF Next, Work

\* A write leaves the document of the writer, or the one before it if refused.
LEMMA WriteDocument ==
    ASSUME Document(config), NEW o, NEW new, Document(new),
           WriteConfig(o, new) \/ WriteRefused(new) \/ UNCHANGED config
    PROVE  Document(config')
<1>1. config' = new \/ config' = config
  BY DEF WriteConfig, WriteRefused
<1>2. QED
  BY <1>1 DEF Document, Bounded, WellFormed

\* An operator holds the document it has read, or none.
LEMMA HeldDocuments ==
    ASSUME Documents, NEW o \in Operators, NEW d, Document(d),
           snap' = [snap EXCEPT ![o] = d], Document(config')
    PROVE  Documents'
<1>1. \A p \in Operators : snap'[p] = IF p = o THEN d ELSE snap[p]
  BY DEF Documents
<1>2. \A p \in Operators : Document(snap'[p])
  BY <1>1 DEF Documents
<1>3. snap' \in [Operators -> SUBSET Member]
  BY DEF Documents, Document
<1>4. QED
  BY <1>2, <1>3 DEF Documents, Document, Bounded, WellFormed

\* Every step of every operator keeps the stored and the held documents well
\* formed; only the two writes and the read touch them.
LEMMA NextDocuments == IInv /\ [Next]_vars => Documents'
<1> SUFFICES ASSUME Control, Documents, [Next]_vars PROVE Documents'
  BY DEF IInv
<1>1. ASSUME UNCHANGED <<config, snap>> PROVE Documents'
  BY <1>1 DEF Documents, Document, Bounded, WellFormed
<1>2. CASE UNCHANGED vars
  BY <1>1, <1>2 DEF vars
<1>3. ASSUME NEW o \in Operators, NEW h \in Hosts,
             StartPod(o, h) \/ EnsureMember(o, h) \/ ScaleDown(o, h)
      PROVE  Documents'
  BY <1>1, <1>3 DEF StartPod, EnsureMember, ScaleDown
<1>4. \A cfg : UNCHANGED config /\ cfg = config => Document(config')
  BY DEF Documents, Document, Bounded, WellFormed
<1>5. ASSUME NEW o \in Operators, ReadConfig(o) PROVE Documents'
  <2>1. config' = config
    BY <1>5 DEF ReadConfig
  <2>2. PICK d \in {config, {}} : snap' = [snap EXCEPT ![o] = d]
    BY <1>5 DEF ReadConfig, Idle
  <2>3. Document(d) /\ Document(config')
    BY <1>4, <2>1, <2>2, EmptyDocument DEF Documents
  <2>4. QED
    BY <2>2, <2>3, HeldDocuments
<1>6. ASSUME NEW o \in Operators, WriteAdd(o) PROVE Documents'
  <2> DEFINE new == AddMember(snap[o], arg[o])
  <2>1. Document(config) /\ Document(new)
    BY <1>6, AddMemberDocument DEF WriteAdd, Control, Documents
  <2>2. WriteConfig(o, new) \/ WriteRefused(new) \/ UNCHANGED config
    BY <1>6 DEF WriteAdd
  <2>3. snap' = [snap EXCEPT ![o] = {}]
    BY <1>6 DEF WriteAdd, Idle
  <2> HIDE DEF new
  <2>4. Document(config')
    BY <2>1, <2>2, WriteDocument
  <2>5. QED
    BY <2>3, <2>4, EmptyDocument, HeldDocuments
<1>7. ASSUME NEW o \in Operators, WriteRemove(o) PROVE Documents'
  <2> DEFINE new == RemoveMember(snap[o], arg[o])
  <2>1. Document(config) /\ Document(new)
    BY RemoveMemberDocument DEF Documents
  <2>2. WriteConfig(o, new) \/ WriteRefused(new) \/ UNCHANGED config
    BY <1>7 DEF WriteRemove
  <2>3. snap' = [snap EXCEPT ![o] = {}]
    BY <1>7 DEF WriteRemove, Idle
  <2> HIDE DEF new
  <2>4. Document(config')
    BY <2>1, <2>2, WriteDocument
  <2>5. QED
    BY <2>3, <2>4, EmptyDocument, HeldDocuments
<1>8. ASSUME NEW o \in Operators, DeleteSts(o) \/ Abandon(o) PROVE Documents'
  <2>1. config' = config /\ snap' = [snap EXCEPT ![o] = {}]
    BY <1>8 DEF DeleteSts, Abandon, Idle
  <2>2. Document(config')
    BY <1>4, <2>1
  <2>3. QED
    BY <2>1, <2>2, EmptyDocument, HeldDocuments
<1>9. QED
  BY <1>2, <1>3, <1>5, <1>6, <1>7, <1>8 DEF Next, Work

LEMMA NextIInv == IInv /\ [Next]_vars => IInv'
BY NextControl, NextDocuments DEF IInv

-----------------------------------------------------------------------------
LEMMA Inductive == Spec => []IInv
BY InitIInv, NextIInv, PTL DEF Spec

\* The variables keep their types whatever the operators interleave: the ids
\* of the members, which every add increments, stay natural numbers.
THEOREM TypeCorrect == Spec => []TypeOK
BY Inductive, IInvTypeOK, PTL

\* No interleaving of the operators' unserialized read-modify-writes of
\* mongo.go stores a document with two members of one id or of one host.
THEOREM WellFormedCorrect == Spec => []ConfigWellFormed
<1>1. IInv => ConfigWellFormed
  BY DEF IInv, Documents, Document, ConfigWellFormed
<1>2. QED
  BY <1>1, Inductive, PTL

-----------------------------------------------------------------------------
(* Until an update is lost.  Every write then replaces the document its writer *)
(* has read, so that each operator changes its own hosts only, and what one    *)
(* has removed stays away until its stateful set is deleted.                  *)

HasData == \E m \in config : ~m.arbiterOnly

\* Where an operator is: its host has a pod, and has left the configuration when
\* nothing but the deletion of the pod is to come.
Settled(o) ==
    /\ pc[o] # "idle" => arg[o] \in wanted
    /\ pc[o] = "delete" \/ (pc[o] = "remove" /\ arg[o] \notin HostsOf(snap[o]))
           => arg[o] \notin HostsOf(config)

Sound == NoGhostMember /\ HasData /\ \A o \in Operators : Settled(o)

\* What a write does to the set of hosts.
LEMMA AddMemberHosts ==
    ASSUME NEW cfg, NEW h
    PROVE  HostsOf(AddMember(cfg, h)) = HostsOf(cfg) \cup {h} /\ cfg \subseteq AddMember(cfg, h)
<1>1. CASE h \in HostsOf(cfg)
  BY <1>1 DEF AddMember
<1>2. CASE h \notin HostsOf(cfg)
  <2>1. AddMember(cfg, h) = cfg \cup {NewMember(cfg, h)}
    BY <1>2 DEF AddMember
  <2>2. NewMember(cfg, h).host = h
    BY DEF NewMember
  <2>3. QED
    BY <2>1, <2>2 DEF HostsOf
<1>3. QED
  BY <1>1, <1>2

LEMMA RemoveMemberHosts ==
    ASSUME NEW cfg, NEW h
    PROVE  HostsOf(RemoveMember(cfg, h)) = HostsOf(cfg) \ {h}
BY DEF HostsOf, RemoveMember

LEMMA InitSound == Init => Sound
<1> SUFFICES ASSUME Init PROVE Sound
  OBVIOUS
<1>1. HostsOf(config) = wanted
  BY InitialDocument DEF Init
<1>2. HasData
  <2>1. PICK h \in wanted : h \notin Arbiters
    BY DEF Init
  <2>2. PICK f \in Numberings(wanted) :
          config = {[host |-> g, id |-> f[g], arbiterOnly |-> g \in Arbiters] : g \in wanted}
    BY DEF Init, ConfigMapToMembers
  <2> DEFINE m == [host |-> h, id |-> f[h], arbiterOnly |-> h \in Arbiters]
  <2>3. m \in config /\ ~m.arbiterOnly
    BY <2>1, <2>2
  <2>4. QED
    BY <2>3 DEF HasData
<1>3. QED
  BY <1>1, <1>2 DEF Init, Sound, NoGhostMember, Settled

\* Without ghosts all members are up: one with data can be primary.
LEMMA SoundHasPrimary == ASSUME Documents, NoGhostMember, HasData PROVE HasPrimary
<1>1. Up = config
  BY DEF Up, NoGhostMember, HostsOf
<1>2. config # {} /\ MayBePrimary # {}
  BY <1>1 DEF HasData, MayBePrimary
<1>3. IsFiniteSet(config)
  BY DEF Documents, Document
<1>4. Cardinality(config) \in Nat /\ Cardinality(config) # 0
  BY <1>2, <1>3, FS_CardinalityType, FS_EmptySet
<1>5. QED
  BY <1>1, <1>2, <1>4 DEF HasPrimary

\* The operators of other clusters, while one changes only a host of its own.
LEMMA OthersSettled ==
    ASSUME Control, Sound, NEW o \in Operators, NEW p \in Operators, p # o,
           pc'[p] = pc[p], arg'[p] = arg[p], snap'[p] = snap[p],
           NEW h, Owner[h] = o,
           HostsOf(config)' \subseteq HostsOf(config) \cup {h}, wanted \ {h} \subseteq wanted'
    PROVE  Settled(p)'
<1>1. pc[p] # "idle" => arg[p] # h
  BY DEF Control
<1>2. HostsOf(snap[p])' = HostsOf(snap[p])
  BY DEF HostsOf
<1>3. QED
  BY <1>1, <1>2 DEF Sound, Settled

\* The operator of the step is idle again or has not come to its write.
LEMMA SelfSettled ==
    ASSUME NEW o \in Operators, pc'[o] \in {"idle", "adding", "removing", "add"},
           pc'[o] # "idle" => arg'[o] \in wanted'
    PROVE  Settled(o)'
BY DEF Settled

\* A document that is accepted while no update gets lost was made from the
\* stored one, and has a member with data.
LEMMA Accepted ==
    ASSUME Control, Document(config), NEW o \in Operators, NEW new,
           WriteConfig(o, new), ~lost', new \subseteq Member
    PROVE  config' = new /\ snap[o] = config /\ HasData'
<1>1. config' = new /\ snap[o] = config /\ Compatible(config, new)
  BY DEF WriteConfig, Control
<1>2. PICK p \in MayBePrimary : p \in HostsOf(new)
  BY DEF WriteConfig
<1>3. PICK m \in config : m.host = p /\ ~m.arbiterOnly
  BY <1>2 DEF MayBePrimary, Up
<1>4. PICK n \in new : n.host = p
  BY <1>2 DEF HostsOf
<1>5. ~n.arbiterOnly
  BY <1>1, <1>3, <1>4 DEF Compatible
<1>6. QED
  BY <1>1, <1>4, <1>5 DEF HasData

\* Every step of every operator is a step of the membership service, as long as
\* no update is lost, and leaves it where its next step is one too.
LEMMA SoundStep ==
    ASSUME IInv, IInv', Sound, [Next]_vars, ~lost'
    PROVE  Sound' /\ [Membership!Next]_<<HostsOf(config), wanted>>
<1> DEFINE hosts == HostsOf(config)
           Step == [Membership!Next]_<<hosts, wanted>>
<1> USE DEF Membership!Next, bounds
<1>0. /\ Control /\ Documents /\ Document(config)
      /\ pc \in [Operators -> PCs] /\ arg \in [Operators -> Hosts \cup {NoHost}]
      /\ snap \in [Operators -> SUBSET Member]
      /\ hosts \subseteq wanted /\ HasData /\ \A p \in Operators : Settled(p)
  BY DEF IInv, Control, Documents, Sound, NoGhostMember
<1>01. UNCHANGED config => hosts' = hosts /\ HasData'
  BY <1>0 DEF HostsOf, HasData
<1>1. CASE UNCHANGED vars
  <2>1. hosts' = hosts /\ UNCHANGED <<wanted, pc, arg, snap, config>>
    BY <1>1 DEF vars, HostsOf
  <2>2. QED
    BY <1>0, <2>1 DEF Sound, Settled, NoGhostMember, HasData
<1>2. ASSUME NEW o \in Operators, NEW h \in Hosts, StartPod(o, h)
      PROVE  Sound' /\ Step
  <2>1. hosts' = hosts /\ UNCHANGED <<pc, arg, snap, config>> /\ wanted' = wanted \cup {h}
    BY <1>2 DEF StartPod, HostsOf
  <2>2. Membership!Start(h)
    BY <1>2, <2>1 DEF StartPod, Membership!Start
  <2>3. Sound'
    BY <1>0, <2>1 DEF Sound, Settled, NoGhostMember, HasData
  <2>4. QED
    BY <2>2, <2>3
<1>3. ASSUME NEW o \in Operators, NEW h \in Hosts,
             EnsureMember(o, h) \/ ScaleDown(o, h)
      PROVE  Sound' /\ Step
  <2>1. /\ UNCHANGED <<wanted, config, snap>> /\ h \in wanted /\ Owner[h] = o
        /\ pc'[o] \in {"adding", "removing"} /\ arg'[o] = h
        /\ \A p \in Operators \ {o} : pc'[p] = pc[p] /\ arg'[p] = arg[p]
    BY <1>0, <1>3 DEF EnsureMember, ScaleDown
  <2>2. Settled(o)'
    BY <2>1, SelfSettled
  <2>3. \A p \in Operators \ {o} : Settled(p)'
    BY <1>0, <1>01, <2>1, OthersSettled
  <2>4. QED
    BY <1>0, <1>01, <2>1, <2>2, <2>3 DEF Sound, NoGhostMember
<1>4. ASSUME NEW o \in Operators, ReadConfig(o) PROVE Sound' /\ Step
  <2>1. /\ UNCHANGED <<wanted, config>> /\ pc[o] \in {"adding", "removing"}
        /\ arg[o] \in wanted /\ Owner[arg[o]] = o
        /\ \A p \in Operators \ {o} : pc'[p] = pc[p] /\ arg'[p] = arg[p] /\ snap'[p] = snap[p]
    BY <1>0, <1>4 DEF ReadConfig, Idle, Control, Settled
  <2>2. Settled(o)'
    <3>1. CASE pc'[o] = "idle"
      BY <3>1, SelfSettled
    <3>2. CASE pc'[o] # "idle"
      <4>1. /\ pc'[o] \in {"add", "remove"} /\ arg' = arg
            /\ snap' = [snap EXCEPT ![o] = config]
        BY <1>0, <1>4, <3>2 DEF ReadConfig, Idle
      <4>2. HostsOf(snap[o])' = hosts /\ hosts' = hosts
        BY <1>0, <2>1, <4>1 DEF HostsOf
      <4>3. QED
        BY <2>1, <4>1, <4>2 DEF Settled
    <3>3. QED
      BY <3>1, <3>2
  <2>3. \A p \in Operators \ {o} : Settled(p)'
    BY <1>0, <1>01, <2>1, OthersSettled
  <2>4. QED
    BY <1>0, <1>01, <2>1, <2>2, <2>3 DEF Sound, NoGhostMember
<1>5. ASSUME NEW o \in Operators, WriteAdd(o) PROVE Sound' /\ Step
  <2>1. /\ pc[o] = "add" /\ wanted' = wanted /\ arg[o] \in wanted /\ arg[o] \in Hosts
        /\ Owner[arg[o]] = o /\ pc'[o] = "idle"
        /\ \A p \in Operators \ {o} : pc'[p] = pc[p] /\ arg'[p] = arg[p] /\ snap'[p] = snap[p]
    BY <1>0, <1>5 DEF WriteAdd, Idle, Control, Settled
  <2>2. hosts' \in {hosts, hosts \cup {arg[o]}} /\ HasData'
    <3> DEFINE new == AddMember(snap[o], arg[o])
    <3>1. CASE UNCHANGED config
      BY <1>01, <3>1
    <3>2. CASE WriteConfig(o, new)
      <4>1. new \subseteq Member
        BY <1>0, <2>1, AddMemberDocument DEF Documents, Document
      <4>2. HostsOf(new) = HostsOf(snap[o]) \cup {arg[o]}
        BY AddMemberHosts
      <4> HIDE DEF new
      <4>3. config' = new /\ snap[o] = config /\ HasData'
        BY <1>0, <3>2, <4>1, Accepted
      <4>4. QED
        BY <4>2, <4>3 DEF HostsOf
    <3>3. QED
      BY <1>5, <3>1, <3>2 DEF WriteAdd, WriteRefused
  <2>3. Settled(o)' /\ \A p \in Operators \ {o} : Settled(p)'
    BY <1>0, <2>1, <2>2, SelfSettled, OthersSettled
  <2>4. Sound'
    BY <1>0, <2>1, <2>2, <2>3 DEF Sound, NoGhostMember
  <2>5. hosts' = hosts \/ Membership!Join(arg[o])
    BY <2>1, <2>2 DEF Membership!Join
  <2>6. QED
    BY <2>1, <2>4, <2>5
<1>6. ASSUME NEW o \in Operators, WriteRemove(o) PROVE Sound' /\ Step
  <2>1. /\ pc[o] = "remove" /\ wanted' = wanted /\ arg[o] \in wanted /\ arg[o] \in Hosts
        /\ Owner[arg[o]] = o
        /\ \A p \in Operators \ {o} : pc'[p] = pc[p] /\ arg'[p] = arg[p] /\ snap'[p] = snap[p]
    BY <1>0, <1>6 DEF WriteRemove, Idle, Control, Settled
  <2> DEFINE new == RemoveMember(snap[o], arg[o])
  <2>2. /\ hosts' \in {hosts, hosts \ {arg[o]}} /\ HasData'
        /\ pc'[o] = "idle" \/ (pc'[o] = "delete" /\ arg'[o] = arg[o] /\ arg[o] \notin hosts')
    <3>1. CASE MemberExist(snap[o], arg[o]) /\ WriteRefused(new) /\ Idle(o)
      BY <1>0, <1>01, <3>1 DEF WriteRefused, Idle
    <3>2. CASE ~(MemberExist(snap[o], arg[o]) /\ WriteRefused(new) /\ Idle(o))
      <4>1. pc'[o] = "delete" /\ arg' = arg
        BY <1>0, <1>6, <3>2 DEF WriteRemove
      <4>2. CASE ~MemberExist(snap[o], arg[o]) /\ UNCHANGED config
        <5>1. arg[o] \notin hosts
          BY <1>0, <2>1, <4>2 DEF MemberExist, Settled
        <5>2. QED
          BY <1>01, <4>1, <4>2, <5>1
      <4>3. CASE WriteConfig(o, new)
        <5>1. new \subseteq Member /\ HostsOf(new) = HostsOf(snap[o]) \ {arg[o]}
          BY <1>0, RemoveMemberDocument, RemoveMemberHosts DEF Documents, Document
        <5> HIDE DEF new
        <5>2. config' = new /\ snap[o] = config /\ HasData'
          BY <1>0, <4>3, <5>1, Accepted
        <5>3. QED
          BY <4>1, <5>1, <5>2 DEF HostsOf
      <4>4. QED
        BY <1>6, <3>2, <4>2, <4>3 DEF WriteRemove
    <3>3. QED
      BY <3>1, <3>2
  <2> HIDE DEF new
  <2>3. Settled(o)'
    BY <2>1, <2>2 DEF Settled
  <2>4. \A p \in Operators \ {o} : Settled(p)'
    BY <1>0, <2>1, <2>2, OthersSettled
  <2>5. Sound'
    BY <1>0, <2>1, <2>2, <2>3, <2>4 DEF Sound, NoGhostMember
  <2>6. hosts' = hosts \/ Membership!Leave(arg[o])
    BY <2>1, <2>2 DEF Membership!Leave
  <2>7. QED
    BY <2>1, <2>5, <2>6
<1>7. ASSUME NEW o \in Operators, DeleteSts(o) PROVE Sound' /\ Step
  <2>1. /\ UNCHANGED config /\ wanted' = wanted \ {arg[o]} /\ pc'[o] = "idle"
        /\ arg[o] \notin hosts /\ arg[o] \in Hosts /\ Owner[arg[o]] = o
        /\ \A p \in Operators \ {o} : pc'[p] = pc[p] /\ arg'[p] = arg[p] /\ snap'[p] = snap[p]
    BY <1>0, <1>7 DEF DeleteSts, Idle, Control, Settled
  <2>2. Settled(o)' /\ \A p \in Operators \ {o} : Settled(p)'
    BY <1>0, <1>01, <2>1, SelfSettled, OthersSettled
  <2>3. Sound'
    BY <1>0, <1>01, <2>1, <2>2 DEF Sound, NoGhostMember
  <2>4. Membership!Stop(arg[o])
    BY <1>01, <2>1 DEF Membership!Stop
  <2>5. QED
    BY <2>1, <2>3, <2>4
<1>8. ASSUME NEW o \in Operators, Abandon(o) PROVE Sound' /\ Step
  <2>1. /\ UNCHANGED <<config, wanted>> /\ pc[o] # "idle" /\ pc'[o] = "idle"
        /\ Owner[arg[o]] = o
        /\ \A p \in Operators \ {o} : pc'[p] = pc[p] /\ arg'[p] = arg[p] /\ snap'[p] = snap[p]
    BY <1>0, <1>8 DEF Abandon, Idle, Control
  <2>2. Settled(o)' /\ \A p \in Operators \ {o} : Settled(p)'
    BY <1>0, <1>01, <2>1, SelfSettled, OthersSettled
  <2>3. QED
    BY <1>0, <1>01, <2>1, <2>2 DEF Sound, NoGhostMember
<1>9. QED
  BY <1>1, <1>2, <1>3, <1>4, <1>5, <1>6, <1>7, <1>8 DEF Next, Work

\* A lost update is never found again.
LEMMA LostForGood == Control /\ [Next]_vars /\ ~lost' => ~lost
BY DEF Control, Next, Work, StartPod, EnsureMember, ScaleDown, ReadConfig, WriteAdd, WriteRemove,
   WriteConfig, WriteRefused, DeleteSts, Abandon, vars

LEMMA SoundUntilLost == Spec => [](IInv /\ (~lost => Sound))
<1>1. Init => IInv /\ (~lost => Sound)
  BY InitIInv, InitSound
<1>2. IInv /\ (~lost => Sound) /\ [Next]_vars => (IInv /\ (~lost => Sound))'
  BY NextIInv, SoundStep, LostForGood DEF IInv
<1>3. QED
  BY <1>1, <1>2, PTL DEF Spec

\* Any number of operators, whatever they abandon: as long as none overwrites the
\* update of another, MongoRemoveMember precedes DeleteSts and nothing brings the
\* host back in between, so that every member has a pod and a majority is up.
THEOREM HarmlessUntilLostCorrect == Spec => []HarmlessUntilLost
<1>1. IInv /\ (~lost => Sound) => HarmlessUntilLost
  BY SoundHasPrimary DEF IInv, Sound, HarmlessUntilLost
<1>2. QED
  BY <1>1, SoundUntilLost, PTL

\* Any number of operators implement the atomic membership service until an
\* update is lost: their two reads, their writes and their deletions appear as
\* one host joining, leaving or stopping.
THEOREM MembershipCorrect == Spec => MembershipSpec
<1>1. Init => Membership!Init
  BY InitialDocument DEF Init, Membership!Init
<1>2. IInv /\ IInv' /\ (~lost => Sound) /\ [Next]_vars
        => [Membership!Next]_<<HostsOf(config), wanted>>
  <2> SUFFICES ASSUME IInv, IInv', ~lost => Sound, [Next]_vars
               PROVE  [Membership!Next]_<<HostsOf(config), wanted>>
    OBVIOUS
  <2>1. CASE lost'
    BY <2>1 DEF Membership!Next
  <2>2. CASE ~lost'
    BY <2>2, SoundStep, LostForGood DEF IInv
  <2>3. QED
    BY <2>1, <2>2
<1>3. QED
  BY <1>1, <1>2, SoundUntilLost, PTL DEF Spec, MembershipSpec, Membership!Spec

-----------------------------------------------------------------------------
(* One cluster.  With a single operator nothing overwrites its document      *)
(* between its read and its write.                                          *)

Reading == ~lost /\ \A o \in Operators : pc[o] \in {"add", "remove"} => snap[o] = config

LEMMA AloneStep ==
    ASSUME NEW only, Operators = {only}, IInv, Reading, [Next]_vars
    PROVE  Reading'
<1>0. pc \in [Operators -> PCs] /\ snap \in [Operators -> SUBSET Member] /\ only \in Operators
  BY DEF IInv, Control, Documents
<1>1. CASE UNCHANGED vars
  BY <1>1 DEF vars, Reading
<1>2. ASSUME NEW o \in Operators, NEW h \in Hosts,
             StartPod(o, h) \/ EnsureMember(o, h) \/ ScaleDown(o, h)
      PROVE  Reading'
  BY <1>0, <1>2 DEF StartPod, EnsureMember, ScaleDown, Reading
<1>3. ASSUME NEW o \in Operators, ReadConfig(o) PROVE Reading'
  BY <1>0, <1>3 DEF ReadConfig, Idle, Reading
<1>4. ASSUME NEW o \in Operators, WriteAdd(o) PROVE Reading'
  <2>1. pc'[o] = "idle" /\ ~lost'
    BY <1>0, <1>4 DEF WriteAdd, WriteConfig, WriteRefused, Idle, Reading
  <2>2. QED
    BY <2>1 DEF Reading
<1>5. ASSUME NEW o \in Operators, WriteRemove(o) PROVE Reading'
  <2>1. pc'[o] \in {"idle", "delete"}
    BY <1>0, <1>5 DEF WriteRemove, Idle
  <2>2. ~lost'
    <3>1. lost' = lost \/ WriteConfig(o, RemoveMember(snap[o], arg[o]))
      BY <1>5 DEF WriteRemove, WriteRefused
    <3>2. QED
      BY <1>5, <3>1 DEF WriteRemove, WriteConfig, Reading
  <2>3. QED
    BY <2>1, <2>2 DEF Reading
<1>6. ASSUME NEW o \in Operators, DeleteSts(o) \/ Abandon(o) PROVE Reading'
  <2>1. pc'[o] = "idle" /\ ~lost'
    BY <1>0, <1>6 DEF DeleteSts, Abandon, Idle, Reading
  <2>2. QED
    BY <2>1 DEF Reading
<1>7. QED
  BY <1>1, <1>2, <1>3, <1>4, <1>5, <1>6 DEF Next, Work

\* A single operator never deletes the pod of a member: it loses no update.  With
\* two operators this is what the code fails to keep (MCReplSetConfigGhost).
THEOREM AloneNoGhostMember ==
    ASSUME NEW CONSTANT only, Operators = {only}
    PROVE  Spec => []NoGhostMember
<1>1. Init => Reading
  BY DEF Init, Reading
<1>2. IInv /\ Reading /\ [Next]_vars => Reading'
  BY AloneStep
<1>3. Reading /\ HarmlessUntilLost => NoGhostMember
  BY DEF Reading, HarmlessUntilLost
<1>4. QED
  BY <1>1, <1>2, <1>3, Inductive, HarmlessUntilLostCorrect, PTL DEF Spec
=============================================================================
