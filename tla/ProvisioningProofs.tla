------------------------- MODULE ProvisioningProofs -------------------------
(***************************************************************************)
(* Any number of clusters, failures, elections and changes of the password:  *)
(* a user that some cluster has recorded as created exists.  What a cluster   *)
(* records comes from the copy of the status its pass holds and from what the  *)
(* pass has just been told by a member, so both must be true of the users; and  *)
(* they stay true because no step removes a user.                             *)
(***************************************************************************)
EXTENDS Provisioning, TLAPS

\* What is recorded as created exists.
Recorded(conds) ==
    /\ conds \cap {"userRoot", "userClusterAdmin"} \subseteq users
    /\ "userDB" \in conds => db # None

\* A pass holds a true status, and is about to record only what it has seen.
TruePass(r) ==
    /\ Recorded(r.status.conds)
    /\ r.pc = "rootDone" => "userRoot" \in users
    /\ r.pc = "adminDone" => "userClusterAdmin" \in users
    /\ r.pc = "dbDone" => db # None

Records == \A o \in Operators : Recorded(status[o].conds) /\ TruePass(op[o])

IInv == TypeOK /\ Records

\* Users are created and never dropped.
Kept == users \subseteq users' /\ (db # None => db' # None)

-----------------------------------------------------------------------------
LEMMA ZeroIsAPassword == 0 \in Passwords /\ 0 # None
  BY BoundsAssumption, NoneAssumption DEF Passwords

LEMMA IdlePass == Idle \in Passes /\ Idle.pc = "idle" /\ Idle.status.conds = {}
  BY ZeroIsAPassword DEF Idle, Passes, PCs, NewStatus, Status, Conditions

LEMMA SkipPC ==
    ASSUME NEW conds, NEW pc \in PCs
    PROVE  Skip(conds, pc) \in {pc, "args", "admin", "db"} \cap PCs
  BY DEF Skip, PCs

\* The pass of o goes on with the record r at pc; the other passes do not change.
LEMMA ThenPass ==
    ASSUME op \in [Operators -> Passes], NEW o \in Operators, NEW r \in Passes,
           NEW pc \in PCs, Then(o, r, pc)
    PROVE  /\ op' \in [Operators -> Passes]
           /\ \A d \in Operators \ {o} : op'[d] = op[d]
           /\ \/ op'[o] = Idle
              \/ op'[o].status = r.status /\ op'[o].pc \in {pc, "args", "admin", "db"}
<1> DEFINE n == [r EXCEPT !.pc = Skip(r.status.conds, pc)]
<1>1. n \in Passes /\ n.status = r.status /\ n.pc \in {pc, "args", "admin", "db"}
  <2>1. Skip(r.status.conds, pc) \in {pc, "args", "admin", "db"} \cap PCs
    BY SkipPC
  <2>2. QED
    BY <2>1 DEF Passes
<1>2. op' = [op EXCEPT ![o] = Idle] \/ op' = [op EXCEPT ![o] = n]
  BY DEF Then
<1> HIDE DEF n
<1>3. QED
  BY <1>1, <1>2, IdlePass

\* What was true of the users stays true, so a pass that goes on with a true
\* status, at a place where it has seen what it will record, leaves Records true.
LEMMA ThenRecords ==
    ASSUME IInv, Kept, NEW o \in Operators, NEW r \in Passes, NEW pc \in PCs,
           Then(o, r, pc), UNCHANGED status,
           Recorded(r.status.conds),
           pc = "rootDone" => "userRoot" \in users',
           pc = "adminDone" => "userClusterAdmin" \in users',
           pc = "dbDone" => db' # None
    PROVE  op' \in [Operators -> Passes] /\ Records'
<1>1. /\ op' \in [Operators -> Passes]
      /\ \A d \in Operators \ {o} : op'[d] = op[d]
      /\ \/ op'[o] = Idle
         \/ op'[o].status = r.status /\ op'[o].pc \in {pc, "args", "admin", "db"}
  BY ThenPass DEF IInv, TypeOK
<1>2. ASSUME NEW d \in Operators PROVE (Recorded(status[d].conds))'
  BY DEF IInv, Records, Recorded, Kept
<1>3. ASSUME NEW d \in Operators PROVE TruePass(op[d])'
  <2>1. CASE d # o
    BY <1>1, <2>1 DEF IInv, Records, TruePass, Recorded, Kept
  <2>2. CASE d = o /\ op'[o] = Idle
    BY <2>2, IdlePass DEF TruePass, Recorded
  <2>3. CASE d = o /\ op'[o] # Idle
    <3>1. op'[o].status = r.status /\ op'[o].pc \in {pc, "args", "admin", "db"}
      BY <1>1, <2>3
    <3>2. QED
      BY <2>3, <3>1 DEF TruePass, Recorded, Kept
  <2>4. QED
    BY <2>1, <2>2, <2>3
<1>4. QED
  BY <1>1, <1>2, <1>3 DEF Records

\* WriteStatus, whether the write arrives or its fallback reads the object again.
LEMMA WriteStatusRecords ==
    ASSUME IInv, UNCHANGED <<spec, users, db>>, NEW o \in Operators, NEW new \in Status,
           NEW pc \in PCs \ {"rootDone", "adminDone", "dbDone"},
           WriteStatus(o, new, pc), Recorded(new.conds)
    PROVE  /\ status' \in [Operators -> Status]
           /\ op' \in [Operators -> Passes]
           /\ Records'
<1>1. op[o] \in Passes /\ status[o] \in Status /\ spec[o] \in Passwords
  BY DEF IInv, TypeOK
<1>2. Kept
  BY DEF Kept
<1>3. CASE UNCHANGED status /\ Then(o, Refreshed(o), pc)
  <2>1. Refreshed(o) \in Passes /\ Refreshed(o).status = status[o]
    BY <1>1, Zenon DEF Refreshed, Passes
  <2>2. Recorded(Refreshed(o).status.conds)
    BY <2>1 DEF IInv, Records
  <2>3. op' \in [Operators -> Passes] /\ Records'
    BY <1>2, <1>3, <2>1, <2>2, ThenRecords
  <2>4. QED
    BY <1>3, <2>3 DEF IInv, TypeOK
<1>4. CASE UNCHANGED status /\ Goto(o, "idle")
  <2>1. Recorded(op[o].status.conds) /\ "idle" \in PCs
    BY DEF IInv, Records, TruePass, PCs
  <2>2. op' \in [Operators -> Passes] /\ Records'
    BY <1>1, <1>2, <1>4, <2>1, ThenRecords DEF Goto
  <2>3. QED
    BY <1>4, <2>2 DEF IInv, TypeOK
<1>5. CASE status' = [status EXCEPT ![o] = new] /\ Then(o, [op[o] EXCEPT !.status = new], pc)
  <2> DEFINE r == [op[o] EXCEPT !.status = new]
  <2>1. r \in Passes /\ r.status = new
    BY <1>1 DEF Passes
  <2>2. /\ op' \in [Operators -> Passes]
        /\ \A d \in Operators \ {o} : op'[d] = op[d]
        /\ \/ op'[o] = Idle
           \/ op'[o].status = new /\ op'[o].pc \in {pc, "args", "admin", "db"}
    BY <1>5, <2>1, ThenPass DEF IInv, TypeOK
  <2>3. /\ status' \in [Operators -> Status] /\ status'[o] = new
        /\ \A d \in Operators \ {o} : status'[d] = status[d]
    BY <1>5 DEF IInv, TypeOK
  <2>4. ASSUME NEW d \in Operators PROVE (Recorded(status[d].conds))' /\ TruePass(op[d])'
    <3>1. CASE d # o
      BY <2>2, <2>3, <3>1 DEF IInv, Records, TruePass, Recorded
    <3>2. CASE d = o
      BY <2>2, <2>3, <3>2, IdlePass DEF TruePass, Recorded
    <3>3. QED
      BY <3>1, <3>2
  <2>5. QED
    BY <2>2, <2>3, <2>4 DEF Records
<1>6. QED
  BY <1>3, <1>4, <1>5 DEF WriteStatus

-----------------------------------------------------------------------------
LEMMA InitIInv == Init => IInv
<1> SUFFICES ASSUME Init PROVE IInv
  OBVIOUS
<1> USE ZeroIsAPassword
<1>1. status \in [Operators -> Status] /\ db \in Passwords \cup {None}
      /\ users \subseteq {"userRoot", "userClusterAdmin"} /\ initiated \in BOOLEAN
  <2>1. CASE Fresh
    BY <2>1 DEF Fresh, NewStatus, Status
  <2>2. CASE Provisioned
    BY <2>2 DEF Provisioned, Status, Conditions
  <2>3. QED
    BY <2>1, <2>2 DEF Init
<1>2. changes \in 0 .. MaxChanges /\ faults \in 0 .. MaxFaults
  BY BoundsAssumption DEF Init
<1>3. TypeOK
  BY <1>1, <1>2, InitiatorAssumption, IdlePass DEF Init, TypeOK
<1>4. \A o \in Operators : TruePass(op[o])
  BY IdlePass DEF Init, TruePass, Recorded
<1>5. \A o \in Operators : Recorded(status[o].conds)
  <2>1. CASE Fresh
    BY <2>1 DEF Fresh, NewStatus, Recorded
  <2>2. CASE Provisioned
    BY <2>2 DEF Provisioned, Recorded
  <2>3. QED
    BY <2>1, <2>2 DEF Init
<1>6. QED
  BY <1>3, <1>4, <1>5 DEF IInv, Records

\* The part of the type invariant that the steps of a pass do not change.
Rest == /\ wanted \in Passwords /\ spec \in [Operators -> Passwords]
        /\ initiated \in BOOLEAN /\ primary \in Operators
        /\ changes \in 0 .. MaxChanges /\ faults \in 0 .. MaxFaults

Varying == /\ status \in [Operators -> Status]
           /\ users \subseteq {"userRoot", "userClusterAdmin"}
           /\ db \in Passwords \cup {None}
           /\ op \in [Operators -> Passes]

LEMMA TypeParts == (TypeOK <=> Rest /\ Varying) /\ (TypeOK' <=> Rest' /\ Varying')
  BY Zenon DEF TypeOK, Rest, Varying

LEMMA BeginIInv ==
    ASSUME IInv, NEW o \in Operators, Begin(o)
    PROVE  IInv'
<1> DEFINE r == [Idle EXCEPT !.spec = spec[o], !.status = status[o], !.fresh = TRUE]
<1>1. r \in Passes /\ r.status = status[o]
  BY IdlePass DEF Passes, IInv, TypeOK
<1>2. Then(o, r, "init") /\ "init" \in PCs
      /\ UNCHANGED <<wanted, spec, status, initiated, primary, users, db, changes, faults>>
  BY DEF Begin, PCs, mongod, bounds
<1>3. op' \in [Operators -> Passes] /\ Records'
  BY <1>1, <1>2, ThenRecords DEF Kept, IInv, Records
<1>4. Rest'
  BY <1>2, TypeParts, Zenon DEF IInv, Rest
<1>5. QED
  BY <1>2, <1>3, <1>4, TypeParts DEF IInv, Varying

LEMMA RecordIInv ==
    ASSUME IInv, NEW o \in Operators,
           \/ Record(o, "check", "rsInit", "args")
           \/ Record(o, "rootDone", "userRoot", "admin")
           \/ Record(o, "adminDone", "userClusterAdmin", "db")
           \/ Record(o, "dbDone", "userDB", "record")
           \/ UpdateCurrentDBUserPW(o)
    PROVE  IInv'
<1>1. UNCHANGED <<wanted, spec, initiated, primary, users, db, changes, faults>>
  BY DEF Record, UpdateCurrentDBUserPW, mongod, bounds
<1>2. op[o] \in Passes /\ op[o].status \in Status /\ TruePass(op[o])
  BY DEF IInv, TypeOK, Records, Passes
<1>3. status' \in [Operators -> Status] /\ op' \in [Operators -> Passes] /\ Records'
  <2>1. ASSUME NEW from, NEW c \in Conditions,
               NEW to \in PCs \ {"rootDone", "adminDone", "dbDone"},
               Record(o, from, c, to), Recorded({c})
        PROVE  status' \in [Operators -> Status] /\ op' \in [Operators -> Passes] /\ Records'
    <3>1. /\ UpdateConds(op[o].status, c) \in Status
          /\ UpdateConds(op[o].status, c).conds = op[o].status.conds \cup {c}
      BY <1>2 DEF UpdateConds, Status
    <3>2. Recorded(UpdateConds(op[o].status, c).conds)
      BY <1>2, <2>1, <3>1 DEF TruePass, Recorded
    <3>3. QED
      BY <1>1, <2>1, <3>1, <3>2, WriteStatusRecords DEF Record
  <2>2. CASE Record(o, "check", "rsInit", "args")
    BY <2>1, <2>2 DEF Recorded, Conditions, PCs
  <2>3. CASE Record(o, "rootDone", "userRoot", "admin")
    BY <1>2, <2>1, <2>3 DEF Record, At, TruePass, Recorded, Conditions, PCs
  <2>4. CASE Record(o, "adminDone", "userClusterAdmin", "db")
    BY <1>2, <2>1, <2>4 DEF Record, At, TruePass, Recorded, Conditions, PCs
  <2>5. CASE Record(o, "dbDone", "userDB", "record")
    BY <1>2, <2>1, <2>5 DEF Record, At, TruePass, Recorded, Conditions, PCs
  <2>6. CASE UpdateCurrentDBUserPW(o)
    <3> DEFINE new == [op[o].status EXCEPT !.pw = op[o].spec]
    <3>1. new \in Status /\ new.conds = op[o].status.conds
      BY <1>2 DEF Status, Passes
    <3>2. WriteStatus(o, new, "idle") /\ "idle" \in PCs
      BY <2>6 DEF UpdateCurrentDBUserPW, PCs
    <3>3. Recorded(new.conds)
      BY <1>2, <3>1 DEF TruePass
    <3> HIDE DEF new
    <3>4. QED
      BY <1>1, <3>1, <3>2, <3>3, WriteStatusRecords
  <2>7. QED
    BY <2>2, <2>3, <2>4, <2>5, <2>6
<1>4. Rest'
  BY <1>1, TypeParts, Zenon DEF IInv, Rest
<1>5. QED
  BY <1>1, <1>3, <1>4, TypeParts DEF IInv, Varying

LEMMA ArgumentsIInv ==
    ASSUME IInv, NEW o \in Operators, Arguments(o)
    PROVE  IInv'
<1> DEFINE r == [op[o] EXCEPT !.need = NeedUpdate(op[o].spec, op[o].status.pw),
                              !.pw = op[o].spec]
<1>1. op[o] \in Passes /\ TruePass(op[o])
  BY DEF IInv, TypeOK, Records
<1>2. NeedUpdate(op[o].spec, op[o].status.pw) \in BOOLEAN
  BY Zenon DEF NeedUpdate
<1>3. r \in Passes /\ r.status = op[o].status
  BY <1>1, <1>2, Zenon DEF Passes
<1>4. Then(o, r, "root") /\ "root" \in PCs
      /\ UNCHANGED <<wanted, spec, status, initiated, primary, users, db, changes, faults>>
  BY DEF Arguments, PCs, mongod, bounds
<1> HIDE DEF r
<1>5. op' \in [Operators -> Passes] /\ Records'
  BY <1>1, <1>3, <1>4, ThenRecords DEF Kept, TruePass
<1>6. Rest'
  BY <1>4, TypeParts, Zenon DEF IInv, Rest
<1>7. QED
  BY <1>4, <1>5, <1>6, TypeParts DEF IInv, Varying

\* The steps of a pass that talk to mongod, and the end of a pass.
LEMMA MongodIInv ==
    ASSUME IInv, NEW o \in Operators,
           \/ ReplSetInit(o) \/ CreateRootUser(o) \/ CreateClusterUser(o)
           \/ CreateDBUser(o) \/ UpdateDBUser(o) \/ Crash(o)
    PROVE  IInv'
<1>1. op[o] \in Passes /\ Recorded(op[o].status.conds)
      /\ op[o].spec \in Passwords /\ op[o].pw \in Passwords
  BY DEF IInv, TypeOK, Records, TruePass, Passes
<1>2. UNCHANGED <<wanted, spec, status, changes>>
  BY DEF ReplSetInit, CreateRootUser, CreateClusterUser, CreateDBUser, UpdateDBUser, Crash,
         bounds
<1>3. Rest'
  <2>1. initiated' \in BOOLEAN /\ primary' \in Operators
    BY Zenon DEF IInv, TypeOK, ReplSetInit, CreateRootUser, CreateClusterUser,
       CreateDBUser, UpdateDBUser, Crash, mongod
  <2>2. faults' \in 0 .. MaxFaults
    BY BoundsAssumption DEF IInv, TypeOK, ReplSetInit, CreateRootUser, CreateClusterUser,
       CreateDBUser, UpdateDBUser, Crash, bounds
  <2>3. QED
    BY <1>2, <2>1, <2>2, TypeParts, Zenon DEF IInv, Rest
<1>4. /\ users' \subseteq {"userRoot", "userClusterAdmin"}
      /\ db' \in Passwords \cup {None}
      /\ Kept
  BY <1>1, NoneAssumption DEF IInv, TypeOK, Kept, ReplSetInit, CreateRootUser,
     CreateClusterUser, CreateDBUser, UpdateDBUser, Crash, Created, mongod
<1>5. \E pc \in PCs :
         /\ Goto(o, pc)
         /\ pc = "rootDone" => "userRoot" \in users'
         /\ pc = "adminDone" => "userClusterAdmin" \in users'
         /\ pc = "dbDone" => db' # None
  BY <1>1, NoneAssumption DEF ReplSetInit, CreateRootUser, Unauthorized, CreateClusterUser,
     CreateDBUser, UpdateDBUser, Crash, Created, PCs
<1>6. op' \in [Operators -> Passes] /\ Records'
  BY <1>1, <1>2, <1>4, <1>5, ThenRecords DEF Goto
<1>7. QED
  BY <1>2, <1>3, <1>4, <1>6, TypeParts DEF IInv, Varying

LEMMA EnvironmentIInv ==
    ASSUME IInv, ChangePassword \/ Elect \/ \E o \in Operators : Deliver(o)
    PROVE  IInv'
<1>1. UNCHANGED <<status, initiated, users, db>>
  BY DEF ChangePassword, Elect, Deliver, mongod
<1>2. /\ op' \in [Operators -> Passes]
      /\ \A d \in Operators : op'[d].pc = op[d].pc /\ op'[d].status = op[d].status
  <2>1. op \in [Operators -> Passes]
    BY DEF IInv, TypeOK
  <2>2. CASE ChangePassword \/ Elect
    BY <2>1, <2>2 DEF ChangePassword, Elect
  <2>3. ASSUME NEW o \in Operators, Deliver(o)
        PROVE  op' = [op EXCEPT ![o] = [op[o] EXCEPT !.fresh = FALSE]]
    BY <2>1, <2>3 DEF Deliver
  <2>4. ASSUME NEW o \in Operators
        PROVE  LET r == [op[o] EXCEPT !.fresh = FALSE]
               IN  r \in Passes /\ r.pc = op[o].pc /\ r.status = op[o].status
    BY <2>1 DEF Passes
  <2>5. QED
    BY <2>1, <2>2, <2>3, <2>4
<1>3. Records'
  BY <1>1, <1>2 DEF IInv, Records, TruePass, Recorded
<1>4. Rest'
  <2>1. wanted' \in Passwords /\ changes' \in 0 .. MaxChanges /\ faults' \in 0 .. MaxFaults
        /\ spec' \in [Operators -> Passwords] /\ primary' \in Operators
    <3>1. MaxChanges \in Nat /\ MaxFaults \in Nat
      BY BoundsAssumption
    <3>2. /\ wanted \in 0 .. MaxChanges /\ changes \in 0 .. MaxChanges
          /\ faults \in 0 .. MaxFaults /\ spec \in [Operators -> 0 .. MaxChanges]
          /\ primary \in Operators
      BY Zenon DEF IInv, TypeOK, Passwords
    <3>3. CASE ChangePassword
      BY <3>1, <3>2, <3>3 DEF ChangePassword, Passwords, mongod
    <3>4. CASE Elect
      BY <3>1, <3>2, <3>4 DEF Elect, Passwords
    <3>5. CASE \E o \in Operators : Deliver(o)
      BY <3>1, <3>2, <3>5 DEF Deliver, Passwords, mongod, bounds
    <3>6. QED
      BY <3>3, <3>4, <3>5
  <2>2. QED
    BY <1>1, <2>1, TypeParts, Zenon DEF IInv, Rest
<1>5. QED
  BY <1>1, <1>2, <1>3, <1>4, TypeParts DEF IInv, Varying

-----------------------------------------------------------------------------
LEMMA Inductive == IInv /\ [Next]_vars => IInv'
<1> SUFFICES ASSUME IInv, [Next]_vars PROVE IInv'
  OBVIOUS
<1>1. CASE ChangePassword \/ Elect \/ \E o \in Operators : Deliver(o)
  BY <1>1, EnvironmentIInv
<1>2. ASSUME NEW o \in Operators, Pass(o) PROVE IInv'
  BY <1>2, BeginIInv, RecordIInv, ArgumentsIInv, MongodIInv DEF Pass
<1>3. CASE \E o \in Operators : Crash(o)
  BY <1>3, MongodIInv
<1>4. CASE UNCHANGED vars
  BY <1>4 DEF IInv, TypeOK, Records, TruePass, Recorded, vars, mongod, bounds
<1>5. QED
  BY <1>1, <1>2, <1>3, <1>4 DEF Next

\* Type correctness, for any clusters and bounds: in particular a status that
\* comes back through the fallback of WriteStatus (status.go:104) is a status.
THEOREM TypeCorrect == Spec => []TypeOK
<1>1. Spec => []IInv
  BY InitIInv, Inductive, PTL DEF Spec
<1>2. QED
  BY <1>1, PTL DEF IInv

\* In every cluster the users recorded in the conditions exist, for any number of
\* clusters that create the same users at once (mongo_user.go:38-247), primaries
\* that move and status writes that are lost.
THEOREM RecordedUsersExistCorrect == Spec => []RecordedUsersExist
<1>1. Spec => []IInv
  BY InitIInv, Inductive, PTL DEF Spec
<1>2. IInv => RecordedUsersExist
  BY DEF IInv, Records, Recorded, RecordedUsersExist
<1>3. QED
  BY <1>1, <1>2, PTL
=============================================================================
