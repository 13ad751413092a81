---------------------------- MODULE Provisioning ----------------------------
(***************************************************************************)
(* Initiation of the replica set and creation of its users by the member     *)
(* operators of all clusters: PostConfig (mode/replica/replica.go) with       *)
(* ReplSetInit (mongo_config.go), CreateMongoUser (mongo_user.go) and the     *)
(* conditions and CurrentInfo.DBUserPassword that remember in each cluster    *)
(* what has been done (status.go).                                          *)
(*                                                                         *)
(* Abstractions.  Passwords of the database user are numbers; the other       *)
(* users have one password.  The users clusterAdmin and clusterMonitor  *)
(* are created alike, so one of them stands for both.  A member knows a user  *)
(* as soon as it exists.  The pods of every cluster are ready.              *)
(***************************************************************************)
EXTENDS Integers, FiniteSets

CONSTANTS Operators,     \* one member operator per cluster
          Initiator,     \* the operator whose MongoDB has Spec.RsInit
          None,          \* no password
          Reuse,         \* the password may be changed back
          MaxChanges,    \* bound on the changes of the password
          MaxFaults      \* bound on failed calls, restarts of operators and
                         \* moves of the primary

ASSUME InitiatorAssumption == Initiator \in Operators
ASSUME ReuseAssumption == Reuse \in BOOLEAN
ASSUME BoundsAssumption == {MaxChanges, MaxFaults} \subseteq Nat

VARIABLES wanted,     \* the password in the control plane
          changes,    \* times it has changed
          spec,       \* spec[o]: Spec.DBUserSpec.Password in o's cluster
          status,     \* status[o]: conditions that are True, CurrentInfo password
          initiated,  \* rs.initiate has succeeded
          primary,    \* the cluster of the primary
          users,      \* the users that exist, without the database user
          db,         \* password of the database user
          op,         \* op[o]: the pass of o in progress
          faults

mongod == <<initiated, primary, users, db>>
bounds == <<changes, faults>>
vars == <<wanted, spec, status, mongod, op, bounds>>

Passwords == 0 .. MaxChanges
ASSUME NoneAssumption == None \notin Passwords

Conditions == {"rsInit", "userRoot", "userClusterAdmin", "userDB"}
NewStatus == [conds |-> {}, pw |-> None]

PCs == {"idle", "init", "check", "args", "root", "rootDone", "admin", "adminDone",
        "db", "dbDone", "record"}

\* s.cr, the object of the pass: its password and status when it was read, and
\* whether it is still the latest; need and pw are arguments of CreateMongoUser.
Idle == [pc |-> "idle", spec |-> 0, status |-> NewStatus, fresh |-> FALSE,
         need |-> FALSE, pw |-> 0]

At(o, pc) == op[o].pc = pc
Known(o, c) == c \in op[o].status.conds

\* Parts of the pass that do nothing when their condition is True.
Skip(conds, pc) ==
    CASE pc = "init" /\ "rsInit" \in conds -> "args"
      [] pc \in {"root", "admin"} ->
             CASE pc = "root" /\ "userRoot" \notin conds -> "root"
               [] "userClusterAdmin" \notin conds -> "admin"
               [] OTHER -> "db"
      [] OTHER -> pc

\* The pass, as it is in r, goes on at pc, or behind it.
Then(o, r, pc) ==
    op' = [op EXCEPT ![o] = IF pc = "idle" THEN Idle
                            ELSE [r EXCEPT !.pc = Skip(r.status.conds, pc)]]
Goto(o, pc) == Then(o, op[o], pc)

-----------------------------------------------------------------------------
(* WriteStatus.  When the object has changed since it was read, the fallback  *)
(* reads it again and updates all of it but the status: the caller sees no     *)
(* error and goes on with the new object, unless what it read is stale too.   *)

Refreshed(o) == [op[o] EXCEPT !.spec = spec[o], !.status = status[o], !.fresh = TRUE]

WriteStatus(o, new, pc) ==
    \/ /\ op[o].fresh
       /\ status' = [status EXCEPT ![o] = new]
       /\ Then(o, [op[o] EXCEPT !.status = new], pc)
    \/ /\ ~op[o].fresh
       /\ Then(o, Refreshed(o), pc) \/ Goto(o, "idle")
       /\ UNCHANGED status

UpdateConds_Replace(st, c) == [st EXCEPT !.conds = {c}]

\* UpdateCondition: c becomes True beside the others.
UpdateConds(st, c) == [st EXCEPT !.conds = @ \cup {c}]

Record(o, from, c, to) ==
    /\ At(o, from)
    /\ WriteStatus(o, UpdateConds(op[o].status, c), to)
    /\ UNCHANGED <<wanted, spec, mongod, bounds>>

-----------------------------------------------------------------------------
\* A pass reads the MongoDB; there is always a next one.
Begin(o) ==
    /\ At(o, "idle")
    /\ Then(o, [Idle EXCEPT !.spec = spec[o], !.status = status[o], !.fresh = TRUE], "init")
    /\ UNCHANGED <<wanted, spec, status, mongod, bounds>>

\* ReplSetInit: one operator may initiate the replica set, which changes
\* nothing if it has been initiated.
ReplSetInit(o) ==
    /\ At(o, "init")
    /\ IF o = Initiator
       THEN /\ initiated' = TRUE
            /\ primary' = IF initiated THEN primary ELSE o
            /\ Goto(o, "check")
       ELSE Goto(o, "args") /\ UNCHANGED <<initiated, primary>>
    /\ UNCHANGED <<wanted, spec, status, users, db, bounds>>

NeedUpdate_Never(spc, cur) == FALSE

\* needUpdate: the password differs from the one recorded, if there is one.
NeedUpdate(spc, cur) == spc # cur /\ cur # None

Arguments_Recorded(o) ==
    /\ At(o, "args")
    /\ Then(o, [op[o] EXCEPT !.need = NeedUpdate(op[o].spec, op[o].status.pw),
                             !.pw = op[o].status.pw], "root")
    /\ UNCHANGED <<wanted, spec, status, mongod, bounds>>

\* The arguments of CreateMongoUser are fixed before its first call.
Arguments(o) ==
    /\ At(o, "args")
    /\ Then(o, [op[o] EXCEPT !.need = NeedUpdate(op[o].spec, op[o].status.pw),
                             !.pw = op[o].spec], "root")
    /\ UNCHANGED <<wanted, spec, status, mongod, bounds>>

Unauthorized_NotMaster(o) == initiated /\ (primary = o => "userRoot" \in users)

\* The localhost exception ends with the first user, in all clusters.
Unauthorized(o) == "userRoot" \in users

\* CreateRootUser asks every pod; without the primary nobody can, and that is
\* an error.
CreateRootUser(o) ==
    /\ At(o, "root")
    /\ \/ Unauthorized(o) /\ Goto(o, "rootDone") /\ UNCHANGED users
       \/ /\ ~Unauthorized(o) /\ initiated /\ primary = o
          /\ users' = users \cup {"userRoot"}
          /\ Goto(o, "rootDone")
       \/ /\ ~Unauthorized(o) /\ ~(initiated /\ primary = o)
          /\ Goto(o, "idle") /\ UNCHANGED users
    /\ UNCHANGED <<wanted, spec, status, initiated, primary, db, bounds>>

\* CreateClusterUser: a user that exists already is no error.
CreateClusterUser(o) ==
    /\ At(o, "admin")
    /\ users' = users \cup {"userClusterAdmin"}
    /\ Goto(o, "adminDone")
    /\ UNCHANGED <<wanted, spec, status, initiated, primary, db, bounds>>

\* createUser with password pw; a user that exists, with whatever password,
\* is left alone, and that is no error.
Created(old, pw) == IF old = None THEN pw ELSE old

\* CreateOrUpdateDBUser for a user not recorded yet.
CreateDBUser(o) ==
    /\ At(o, "db") /\ ~Known(o, "userDB")
    /\ db' = Created(db, op[o].spec)
    /\ Goto(o, "dbDone")
    /\ UNCHANGED <<wanted, spec, status, initiated, primary, users, bounds>>

\* CreateOrUpdateDBUser for a recorded user.
UpdateDBUser(o) ==
    /\ At(o, "db") /\ Known(o, "userDB")
    /\ db' = IF op[o].need THEN op[o].pw ELSE db
    /\ Goto(o, "record")
    /\ UNCHANGED <<wanted, spec, status, initiated, primary, users, bounds>>

\* UpdateCurrentDBUserPW with the password the object now has.
UpdateCurrentDBUserPW(o) ==
    /\ At(o, "record")
    /\ WriteStatus(o, [op[o].status EXCEPT !.pw = op[o].spec], "idle")
    /\ UNCHANGED <<wanted, spec, mongod, bounds>>

Pass(o) ==
    \/ Begin(o)
    \/ ReplSetInit(o) \/ Record(o, "check", "rsInit", "args") \/ Arguments(o)
    \/ CreateRootUser(o) \/ Record(o, "rootDone", "userRoot", "admin")
    \/ CreateClusterUser(o) \/ Record(o, "adminDone", "userClusterAdmin", "db")
    \/ CreateDBUser(o) \/ Record(o, "dbDone", "userDB", "record") \/ UpdateDBUser(o)
    \/ UpdateCurrentDBUserPW(o)

-----------------------------------------------------------------------------
ChangePassword ==
    /\ changes < MaxChanges
    /\ changes' = changes + 1
    /\ wanted' \in IF Reuse THEN Passwords \ {wanted} ELSE {changes'}
    /\ UNCHANGED <<spec, status, mongod, op, faults>>

\* Karmada updates the MongoDB in o's cluster.
Deliver(o) ==
    /\ spec[o] # wanted
    /\ spec' = [spec EXCEPT ![o] = wanted]
    /\ op' = [op EXCEPT ![o].fresh = FALSE]
    /\ UNCHANGED <<wanted, status, mongod, bounds>>

Elect ==
    /\ initiated /\ faults < MaxFaults
    /\ faults' = faults + 1
    /\ primary' \in Operators \ {primary}
    /\ UNCHANGED <<wanted, changes, spec, status, initiated, users, db, op>>

Crash(o) ==
    /\ ~At(o, "idle") /\ faults < MaxFaults
    /\ faults' = faults + 1
    /\ Goto(o, "idle")
    /\ UNCHANGED <<wanted, changes, spec, status, mongod>>

Fresh ==
    /\ status = [o \in Operators |-> NewStatus]
    /\ initiated = FALSE
    /\ users = {}
    /\ db = None

\* Every operator has recorded everything.
Provisioned ==
    /\ status = [o \in Operators |->
                    [conds |-> {c \in Conditions : c = "rsInit" => o = Initiator},
                     pw |-> 0]]
    /\ initiated = TRUE
    /\ users = {"userRoot", "userClusterAdmin"}
    /\ db = 0

Init == /\ Fresh \/ Provisioned
        /\ wanted = 0
        /\ spec = [o \in Operators |-> 0]
        /\ primary = Initiator
        /\ op = [o \in Operators |-> Idle]
        /\ changes = 0 /\ faults = 0

Next == \/ ChangePassword \/ Elect
        \/ \E o \in Operators : Pass(o) \/ Deliver(o) \/ Crash(o)

Spec == Init /\ [][Next]_vars

\* Passes are requeued after 5 or 60 seconds and Karmada delivers.
FairSpec == Spec /\ \A o \in Operators : WF_vars(Pass(o)) /\ WF_vars(Deliver(o))

-----------------------------------------------------------------------------
Status == [conds : SUBSET Conditions, pw : Passwords \cup {None}]
Passes == [pc : PCs, spec : Passwords, status : Status, fresh : BOOLEAN,
           need : BOOLEAN, pw : Passwords]

TypeOK ==
    /\ wanted \in Passwords
    /\ spec \in [Operators -> Passwords]
    /\ status \in [Operators -> Status]
    /\ initiated \in BOOLEAN
    /\ primary \in Operators
    /\ users \subseteq {"userRoot", "userClusterAdmin"}
    /\ db \in Passwords \cup {None}
    /\ op \in [Operators -> Passes]
    /\ changes \in 0 .. MaxChanges /\ faults \in 0 .. MaxFaults

\* What an operator records it never does again: the user is there, and was
\* not only refused to it.
RecordedUsersExist ==
    \A o \in Operators :
        /\ status[o].conds \cap {"userRoot", "userClusterAdmin"} \subseteq users
        /\ "userDB" \in status[o].conds => db # None

\* Whoever creates the users first, and whatever is lost on the way, in the
\* end every cluster has recorded all of them.
UsersConverge ==
    <>[](\A o \in Operators : {"userRoot", "userClusterAdmin", "userDB"} \subseteq status[o].conds)

\* "The password of the database user can be changed": in the end it is the
\* one of the last change.
PasswordConverges == <>[](db = wanted)

\* The same for changes that find everything set up and recorded.  It needs
\* every password to be new: a change back to the recorded one, made before
\* the change to another is recorded, is taken for no change.
LaterPasswordConverges == Provisioned => PasswordConverges
=============================================================================
