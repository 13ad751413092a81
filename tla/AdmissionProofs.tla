--------------------------- MODULE AdmissionProofs ---------------------------
(***************************************************************************)
(* Whatever the user changes and whichever webhook refuses what, a member    *)
(* cluster only ever has a MongoDB the user has asked for as a whole.  The    *)
(* invariant follows the wish from the webhook through the template; that the  *)
(* template is a MongoDB at all rests on the webhook's refusal of updates to    *)
(* less than one replica, which also stops the scheduler's own update.        *)
(***************************************************************************)
EXTENDS Admission, TLAPS

\* The object in the control plane and its template are versions the user has
\* asked for; a schedule, and with it a template, is only ever made for a
\* positive number of replicas.
Wished ==
    /\ cr # None => cr \in versions
    /\ cr = None => scheduled = None /\ template = None /\ member = None
    /\ scheduled # None => cr.replicas >= 1
    /\ template # None => \E s \in versions : template = GenerateMongo(s)

IInv == TypeOK /\ Wished /\ NoMixture

\* What Default of the webhook of MultiCloudMongoDB makes of a deployment.
LEMMA DefaultedDeployment ==
    ASSUME NEW s \in Deployments, NEW d \in Defaulted(s)
    PROVE  d \in Deployments /\ d # None /\ d.password \in Passwords
<1>1. CASE s.password # None
  BY <1>1, NoneAssumption DEF Defaulted, Deployments
<1>2. CASE s.password = None
  <2>1. PICK p \in Passwords : d = [s EXCEPT !.password = p]
    BY <1>2 DEF Defaulted
  <2>2. d \in Deployments /\ d.password = p
    BY <2>1 DEF Deployments
  <2>3. QED
    BY <2>2, NoneAssumption
<1>3. QED
  BY <1>1, <1>2

\* What GenerateMongo makes of a deployment that has passed it.
LEMMA GeneratedMongo ==
    ASSUME NEW s \in Deployments, s.password \in Passwords, s.replicas >= 1
    PROVE  GenerateMongo(s) \in MongoDBs /\ GenerateMongo(s) # None
<1>1. GenerateMongo(s) \in MongoDBs
  BY BoundsAssumption DEF Deployments, MongoDBs, GenerateMongo
<1>2. QED
  BY <1>1, NoneAssumption

\* The webhook of MongoDB keeps a MongoDB one.
LEMMA DefaultMongo ==
    ASSUME NEW mongo \in MongoDBs
    PROVE  Default(mongo) \in MongoDBs /\ Default(mongo) # None
<1>1. Default(mongo) \in MongoDBs
  BY DEF MongoDBs, Default
<1>2. QED
  BY <1>1, NoneAssumption

-----------------------------------------------------------------------------
LEMMA InitIInv == Init => IInv
<1> SUFFICES ASSUME Init PROVE IInv
  OBVIOUS
<1>1. TypeOK
  <2>1. disputed \in BOOLEAN
    BY Zenon DEF Init
  <2>2. changes \in 0 .. MaxChanges
    BY BoundsAssumption DEF Init
  <2>3. QED
    BY <2>1, <2>2, Zenon DEF Init, TypeOK
<1>2. QED
  BY <1>1 DEF Init, IInv, Wished, NoMixture

LEMMA CreateIInv ==
    ASSUME IInv, NEW s \in Deployments, Create(s)
    PROVE  IInv'
<1>1. PICK d \in Defaulted(s) : cr' = d /\ versions' = {d}
  BY DEF Create
<1>2. d \in Deployments /\ d # None /\ d.password # None
  BY DefaultedDeployment, NoneAssumption
<1>3. template' = None /\ member' = None /\ scheduled' = None
  BY DEF Create, IInv, Wished
<1>4. TypeOK'
  BY <1>1, <1>2, <1>3, Zenon DEF Create, IInv, TypeOK
<1>5. QED
  BY <1>1, <1>3, <1>4 DEF IInv, Wished, NoMixture

LEMMA UpdateIInv ==
    ASSUME IInv, NEW s \in Deployments, Update(s)
    PROVE  IInv'
<1>1. PICK d \in Defaulted(s) :
         /\ ValidateUpdate(d, scheduled)
         /\ cr' = d /\ versions' = versions \cup {d}
         /\ disputed' = \/ disputed
                        \/ /\ template # None
                           /\ ~Allowed(template, GenerateMongo(d))
  BY Zenon DEF Update
<1>2. d \in Deployments /\ d # None /\ d.password # None
  BY DefaultedDeployment, NoneAssumption
<1>3. TypeOK'
  <2>1. disputed' \in BOOLEAN
    BY <1>1, Zenon
  <2>2. changes' \in 0 .. MaxChanges
    BY BoundsAssumption DEF Update, IInv, TypeOK
  <2>3. QED
    BY <1>1, <1>2, <2>1, <2>2, Zenon DEF Update, IInv, TypeOK
<1>4. Wished'
  BY <1>1, <1>2 DEF Update, IInv, Wished, ValidateUpdate
<1>5. NoMixture'
  BY <1>1 DEF Update, IInv, NoMixture
<1>6. QED
  BY <1>3, <1>4, <1>5 DEF IInv

LEMMA ScheduleIInv ==
    ASSUME IInv, Schedule
    PROVE  IInv'
<1>1. cr \in Deployments /\ cr.replicas \in 1 .. MaxReplicas
  BY BoundsAssumption DEF Schedule, IInv, TypeOK, ValidateUpdate, Deployments
<1>2. TypeOK'
  BY <1>1, Zenon DEF Schedule, IInv, TypeOK
<1>3. QED
  BY <1>1, <1>2 DEF Schedule, IInv, Wished, NoMixture

LEMMA EnsureMongoIInv ==
    ASSUME IInv, EnsureMongo
    PROVE  IInv'
<1>1. cr \in Deployments \cap versions /\ cr.password \in Passwords /\ cr.replicas >= 1
  BY DEF EnsureMongo, IInv, TypeOK, Wished, Deployments
<1>2. GenerateMongo(cr) \in MongoDBs /\ GenerateMongo(cr) # None
  BY <1>1, GeneratedMongo
<1>3. template' \in {template, GenerateMongo(cr)} /\ template' # None
  BY <1>2 DEF EnsureMongo, Upserted
<1>4. TypeOK'
  BY <1>2, <1>3, Zenon DEF EnsureMongo, IInv, TypeOK
<1>5. Wished'
  BY <1>1, <1>3 DEF EnsureMongo, IInv, Wished
<1>6. QED
  BY <1>4, <1>5 DEF EnsureMongo, IInv, NoMixture

LEMMA DeliverMongoIInv ==
    ASSUME IInv, DeliverMongo
    PROVE  IInv'
<1>1. template \in MongoDBs /\ \E s \in versions : template = GenerateMongo(s)
  BY DEF DeliverMongo, IInv, TypeOK, Wished
<1>2. member' = Default(template) /\ Default(template) \in MongoDBs
  BY <1>1, DefaultMongo DEF DeliverMongo
<1>3. TypeOK'
  BY <1>2, Zenon DEF DeliverMongo, IInv, TypeOK
<1>4. Wished'
  BY <1>1 DEF DeliverMongo, IInv, Wished
<1>5. NoMixture'
  BY <1>1, <1>2 DEF DeliverMongo, NoMixture
<1>6. QED
  BY <1>3, <1>4, <1>5 DEF IInv

LEMMA Inductive == IInv /\ [Next]_vars => IInv'
<1> SUFFICES ASSUME IInv, [Next]_vars PROVE IInv'
  OBVIOUS
<1>1. CASE Schedule
  BY <1>1, ScheduleIInv
<1>2. CASE EnsureMongo
  BY <1>2, EnsureMongoIInv
<1>3. CASE DeliverMongo
  BY <1>3, DeliverMongoIInv
<1>4. CASE \E s \in Deployments : Create(s) \/ Update(s)
  BY <1>4, CreateIInv, UpdateIInv
<1>5. CASE UNCHANGED vars
  <2>1. TypeOK'
    BY <1>5, Zenon DEF vars, IInv, TypeOK
  <2>2. QED
    BY <1>5, <2>1 DEF vars, IInv, Wished, NoMixture
<1>6. QED
  BY <1>1, <1>2, <1>3, <1>4, <1>5 DEF Next

\* Type correctness: what reaches Karmada has at least one member and a
\* password, although the MultiCloudMongoDB may be created without either
\* (multicloudmongodb_webhook.go and GenerateMongo).
THEOREM TypeCorrect == Spec => []TypeOK
<1>1. Spec => []IInv
  BY InitIInv, Inductive, PTL DEF Spec
<1>2. IInv => TypeOK
  BY DEF IInv
<1>3. QED
  BY <1>1, <1>2, PTL

\* EnsureMongoWithoutSetRef compares two fields of the MongoDB but writes all of
\* them, and a refusal of the member cluster's webhook refuses all of them: no
\* member cluster ever runs a mixture of two versions.
THEOREM NoMixtureCorrect == Spec => []NoMixture
<1>1. Spec => []IInv
  BY InitIInv, Inductive, PTL DEF Spec
<1>2. IInv => NoMixture
  BY DEF IInv
<1>3. QED
  BY <1>1, <1>2, PTL
=============================================================================
