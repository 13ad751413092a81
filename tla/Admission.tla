----------------------------- MODULE Admission -----------------------------
(***************************************************************************)
(* How a change of the spec gets from the user to a member cluster, past two  *)
(* webhooks that know nothing of each other.  The MultiCloudMongoDB is        *)
(* defaulted and validated in the control plane                              *)
(* (api/v1alpha1/multicloudmongodb_webhook.go); MongoHandler generates the     *)
(* MongoDB from it, which is not validated there; Karmada applies it in the    *)
(* member cluster, where the webhook of MongoDB                               *)
(* (api/v1alpha1/mongodb_webhook.go) may refuse it.                           *)
(*                                                                         *)
(* Abstractions.  One member cluster, so that Karmada's division of the        *)
(* members gives it all of them.  "password" stands for the settings a         *)
(* MongoDB may not change: the root password, the storage, the custom          *)
(* configuration; "resources" and "image" for those it may.  Conflicts of       *)
(* writes are ControlPlane's subject.                                        *)
(***************************************************************************)
EXTENDS Integers, FiniteSets

CONSTANTS MaxReplicas, Resources, Passwords, Images,
          None,        \* an object, an annotation or a setting that is not there
          MaxChanges   \* bound on updates by the user

ASSUME BoundsAssumption == {MaxReplicas, MaxChanges} \subseteq Nat

Deployments == [replicas : 0 .. MaxReplicas, resources : Resources,
                password : Passwords \cup {None}, export : BOOLEAN,
                image : Images, nodeSelect : BOOLEAN]

MongoDBs == [members : 1 .. MaxReplicas, resources : Resources,
             password : Passwords, export : BOOLEAN, image : Images,
             ref : {"", "hostconf"}]

ASSUME NoneAssumption ==
    None \notin Passwords \cup Deployments \cup MongoDBs \cup (0 .. MaxReplicas)

VARIABLES cr,         \* the MultiCloudMongoDB
          scheduled,  \* replicas of the annotation schedulerResult
          template,   \* the MongoDB in the control plane
          member,     \* the MongoDB in the member cluster
          versions,   \* the deployments the user has asked for so far
          disputed,   \* a change was accepted that the member cluster refuses
          changes

vars == <<cr, scheduled, template, member, versions, disputed, changes>>

-----------------------------------------------------------------------------
(* The webhook of MultiCloudMongoDB.                                        *)

\* Default: a password that is left out is made up anew.
Defaulted(s) ==
    IF s.password # None THEN {s} ELSE {[s EXCEPT !.password = p] : p \in Passwords}

ValidateUpdate_Scheduled(new, annotation) == annotation # None

ValidateUpdate(new, annotation) == new.replicas >= 1 /\ annotation # None

-----------------------------------------------------------------------------
(* MongoHandler.                                                           *)

GenerateMongo(s) ==
    [members |-> s.replicas, resources |-> s.resources, password |-> s.password,
     export |-> s.export, image |-> s.image, ref |-> ""]

Upserted_Merged(old, new) ==
    [old EXCEPT !.members = new.members, !.resources = new.resources]

Upserted_Members(old, new) == IF old.members # new.members THEN new ELSE old

\* EnsureMongoWithoutSetRef compares two fields and writes all of them.
Upserted(old, new) ==
    IF old.members # new.members \/ old.resources # new.resources THEN new ELSE old

-----------------------------------------------------------------------------
(* The webhook of MongoDB.                                                  *)

\* Default: only the reference to the hostconf is ever missing.
Default(m) == IF m.ref = "" THEN [m EXCEPT !.ref = "hostconf"] ELSE m

Allowed(old, new) ==
    /\ new.password = old.password /\ new.ref = old.ref
    /\ old.export => new.export

-----------------------------------------------------------------------------
\* ValidateCreate accepts everything.
Create(s) ==
    /\ cr = None
    /\ \E d \in Defaulted(s) : cr' = d /\ versions' = {d}
    /\ UNCHANGED <<scheduled, template, member, disputed, changes>>

Update(s) ==
    /\ cr # None /\ changes < MaxChanges
    /\ \E d \in Defaulted(s) :
          /\ d # cr
          /\ ValidateUpdate(d, scheduled)
          /\ cr' = d
          /\ versions' = versions \cup {d}
          /\ disputed' = \/ disputed
                         \/ /\ template # None
                            /\ ~Allowed(template, GenerateMongo(d))
    /\ changes' = changes + 1
    /\ UNCHANGED <<scheduled, template, member>>

\* The scheduler writes its annotation, an update like any other.
Schedule ==
    /\ cr # None
    /\ scheduled # cr.replicas
    /\ ValidateUpdate(cr, cr.replicas)
    /\ scheduled' = cr.replicas
    /\ UNCHANGED <<cr, template, member, versions, disputed, changes>>

\* GetScheduleStatusHandler lets a schedule pass that places somebody.  A node
\* selector makes GenerateMongo fail: it is written to a PodSpec that is not
\* there.
EnsureMongo ==
    /\ cr # None /\ scheduled \notin {None, 0}
    /\ ~cr.nodeSelect
    /\ template' = IF template = None THEN GenerateMongo(cr)
                                      ELSE Upserted(template, GenerateMongo(cr))
    /\ template' # template
    /\ UNCHANGED <<cr, scheduled, member, versions, disputed, changes>>

\* Karmada applies the template in the member cluster; what the webhook refuses
\* it tries again.
DeliverMongo ==
    /\ template # None
    /\ member # None => Allowed(member, Default(template))
    /\ member # Default(template)
    /\ member' = Default(template)
    /\ UNCHANGED <<cr, scheduled, template, versions, disputed, changes>>

Init ==
    /\ cr = None /\ scheduled = None /\ template = None /\ member = None
    /\ versions = {} /\ disputed = FALSE /\ changes = 0

Next == \/ Schedule \/ EnsureMongo \/ DeliverMongo
        \/ \E s \in Deployments : Create(s) \/ Update(s)

Spec == Init /\ [][Next]_vars

\* The scheduler, the control plane and Karmada do what there is to do.
FairSpec == Spec /\ WF_vars(Schedule) /\ WF_vars(EnsureMongo) /\ WF_vars(DeliverMongo)

-----------------------------------------------------------------------------
TypeOK ==
    /\ cr \in Deployments \cup {None} /\ (cr # None => cr.password # None)
    /\ scheduled \in 1 .. MaxReplicas \cup {None}
    /\ template \in MongoDBs \cup {None} /\ member \in MongoDBs \cup {None}
    /\ versions \subseteq Deployments
    /\ disputed \in BOOLEAN /\ changes \in 0 .. MaxChanges

\* The MongoDB of a member cluster is one the user has asked for as a whole,
\* never a mixture of an earlier and a later wish.
NoMixture ==
    member # None => \E s \in versions : member = Default(GenerateMongo(s))

\* As long as the user keeps to what a member cluster may change, the number of
\* members and the resources asked for last arrive there in the end.  It takes
\* a first version with members, and a last one without a node selector.
Servable == cr # None /\ cr.replicas > 0 /\ ~cr.nodeSelect

ScaleArrives ==
    [](~disputed) /\ <>[]Servable
        => <>[](/\ member # None
                /\ member.members = cr.replicas
                /\ member.resources = cr.resources)
=============================================================================
