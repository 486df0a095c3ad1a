---------------------------- MODULE Controllers ----------------------------
(***************************************************************************)
(* The controllers of the field-wise resources in the reconcile loop: the  *)
(* network, NAT and DNS resources.  An object has one kind for ever; the   *)
(* modules of the kinds compute what its handlers read and send, and the   *)
(* handlers here run them, a call at a time.                               *)
(***************************************************************************)
EXTENDS ManagedReconciler, Sequences, Bags

CONSTANTS
    Values,     \* as in Fields
    TagKeys,
    TagValues,
    MaxEntries,
    Cases       \* bound: a kind, and the fields that take all their values

Fields == INSTANCE Fields
SN == INSTANCE Subnet
SG == INSTANCE SecurityGroup
SR == INSTANCE SecurityGroupRule
GW == INSTANCE Gateway
NR == INSTANCE SNATRule
PZ == INSTANCE PublicZone
EI == INSTANCE ElasticIP
PV == INSTANCE PrivateZone
RS == INSTANCE RecordSet

VARIABLE
    case        \* the kind of the object, and its varied fields: constant

allVars == <<vars, case>>

kind == case.kind

----------------------------------------------------------------------------
(* The kinds *)

Static(required, optional, fixed) ==
    [required |-> required, fields |-> required \cup optional, fixed |-> fixed]

Statics ==
    [Subnet            |-> Static(SN!Required, SN!Optional, SN!Immutable),
     SecurityGroup     |-> Static(SG!Required, SG!Optional, SG!Immutable),
     SecurityGroupRule |-> Static(SR!Required, SR!Optional, SR!Immutable),
     Gateway           |-> Static(GW!Required, GW!Optional, GW!Immutable),
     SNATRule          |-> Static(NR!Required, NR!Optional, NR!Immutable),
     PublicZone        |-> Static(PZ!Required, PZ!Optional, PZ!Immutable),
     ElasticIP         |-> Static(EI!Required, EI!Optional, EI!Immutable),
     PrivateZone       |-> Static(PV!Required, PV!Optional, PV!Immutable),
     RecordSet         |-> Static(RS!Required, RS!Optional,
                                  RS!Immutable \cup RS!Zones)]

Kinds == DOMAIN Statics

RequiredOf(k) == Statics[k].required
FieldsOf(k) == Statics[k].fields
FixedOf(k) == Statics[k].fixed  \* cannot change after the creation
CheckedOf(k) == IF k = "Subnet" THEN SN!Checked ELSE {}

Admitted(old, new) ==
    CASE kind = "Subnet"            -> SN!SubnetAdmitted(old, new)
      [] kind = "SecurityGroup"     -> SG!GroupAdmitted(old, new)
      [] kind = "SecurityGroupRule" -> SR!RuleAdmitted(old, new)
      [] kind = "Gateway"           -> GW!GatewayAdmitted(old, new)
      [] kind = "SNATRule"          -> NR!RuleAdmitted(old, new)
      [] kind = "PublicZone"        -> PZ!ZoneAdmitted(old, new)
      [] kind = "ElasticIP"         -> EI!AddressAdmitted(old, new)
      [] kind = "PrivateZone"       -> PV!ZoneAdmitted(old, new)
      [] kind = "RecordSet"         -> RS!RecordSetAdmitted(old, new)

\* The JSON the provider writes.
Stored(spec) ==
    CASE kind = "Subnet"        -> SN!StoredSubnet(spec)
      [] kind = "SecurityGroup" -> SG!StoredGroup(spec)
      [] kind = "Gateway"       -> GW!StoredGateway(spec)
      [] kind = "PublicZone"    -> PZ!StoredZone(spec)
      [] kind = "ElasticIP"     -> EI!StoredAddress(spec)
      [] kind = "PrivateZone"   -> PV!StoredZone(spec)
      [] kind = "RecordSet"     -> RS!StoredRecordSet(spec)
      [] OTHER                  -> spec

Seen(spec, r) ==
    CASE kind = "Subnet"            -> SN!Observe(spec, r)
      [] kind = "SecurityGroup"     -> SG!Observe(spec, r)
      [] kind = "SecurityGroupRule" -> SR!Observe(spec, r)
      [] kind = "Gateway"           -> GW!Observe(spec, r)
      [] kind = "SNATRule"          -> NR!Observe(spec, r)
      [] kind = "PublicZone"        -> PZ!Observe(spec, r)
      [] kind = "ElasticIP"         -> EI!Observe(spec, r)
      [] kind = "PrivateZone"       -> PV!Observe(spec, r)
      [] kind = "RecordSet"         -> RS!Observe(spec, r)

Created(spec, default) ==
    CASE kind = "Subnet"            -> SN!Create(spec, default)
      [] kind = "SecurityGroup"     -> SG!Create(spec, default)
      [] kind = "SecurityGroupRule" -> SR!Create(spec, default)
      [] kind = "Gateway"           -> GW!Create(spec, default)
      [] kind = "SNATRule"          -> NR!Create(spec, default)
      [] kind = "PublicZone"        -> PZ!Create(spec, default)
      [] kind = "ElasticIP"         -> EI!Create(spec, default)
      [] kind = "PrivateZone"       -> PV!Create(spec, default)
      [] kind = "RecordSet"         -> RS!Create(spec, default)

UpdateCalls(spec, r) ==
    CASE kind = "Subnet"            -> SN!Update(spec, r)
      [] kind = "SecurityGroup"     -> SG!Update(spec, r)
      [] kind = "SecurityGroupRule" -> SR!Update(spec, r)
      [] kind = "Gateway"           -> GW!Update(spec, r)
      [] kind = "SNATRule"          -> NR!Update(spec, r)
      [] kind = "PublicZone"        -> PZ!Update(spec, r)
      [] kind = "ElasticIP"         -> EI!Update(spec, r)
      [] kind = "PrivateZone"       -> PV!Update(spec, r)
      [] kind = "RecordSet"         -> RS!Update(spec, r)

DeleteCalls(spec, r) ==
    CASE kind = "Subnet"            -> SN!Delete(spec, r)
      [] kind = "SecurityGroup"     -> SG!Delete(spec, r)
      [] kind = "SecurityGroupRule" -> SR!Delete(spec, r)
      [] kind = "Gateway"           -> GW!Delete(spec, r)
      [] kind = "SNATRule"          -> NR!Delete(spec, r)
      [] kind = "PublicZone"        -> PZ!Delete(spec, r)
      [] kind = "ElasticIP"         -> EI!Delete(spec, r)
      [] kind = "PrivateZone"       -> PV!Delete(spec, r)
      [] kind = "RecordSet"         -> RS!Delete(spec, r)

\* Fields that Update sends by value.
ByValue ==
    CASE kind = "Subnet"        -> SN!ByValue
      [] kind = "SecurityGroup" -> SG!ByValue
      [] kind = "Gateway"       -> GW!ByValue
      [] kind = "PublicZone"    -> PZ!ByValue
      [] kind = "PrivateZone"   -> PV!ByValue
      [] kind = "RecordSet"     -> RS!ByValue
      [] OTHER                  -> {}

\* Validation ends Observe, or Create, before any call.
ObserveRejects(obj) ==
    \/ kind = "Subnet" /\ ~SN!validateSubnetParameters(obj.spec)
    \/ kind = "RecordSet" /\ obj.extName # Nil /\ RS!getZoneInfoFails(obj.spec)

CreateRejects(spec) ==
    \/ kind = "Subnet" /\ ~SN!validateSubnetParameters(spec)
    \/ kind = "SNATRule" /\ ~NR!validateSNATRuleParameters(spec)
    \/ kind = "PrivateZone" /\ ~PV!validatePrivateZoneParameters(spec)
    \/ kind = "RecordSet" /\ RS!getZoneInfoFails(spec)

\* What the calls of the handlers address: a record set in the zone its object
\* names.
Found(obj) ==
    /\ Readable(obj.extName)
    /\ kind = "RecordSet" => RS!InZone(obj.spec, cloud[obj.extName])

----------------------------------------------------------------------------
(* The inputs: the fields that do not vary hold one value, or are unset.    *)

GivenToo == {<<"SNATRule", "subnetId">>, <<"RecordSet", "publicZoneId">>}

PlainSpec(k) ==
    [f \in FieldsOf(k) |->
        IF f \in RequiredOf(k) \/ <<k, f>> \in GivenToo
        THEN Fields!Plain(f) ELSE Nil]

PlainResource(k) ==
    [f \in FieldsOf(k) |->
        IF PlainSpec(k)[f] = Nil THEN Fields!Zero(f) ELSE Fields!Plain(f)]

\* base, with the fields F taking each of their values.  A choice gives each
\* of the fields itself with one of its values.
Varying(F, base, values) ==
    LET choices ==
            {choice \in [F -> UNION {{f} \X values[f] : f \in F}] :
                \A f \in F : choice[f][1] = f}
    IN  {[f \in DOMAIN base |-> IF f \in F THEN choice[f][2] ELSE base[f]] :
            choice \in choices}

SpecsOf == [c \in Cases |->
    LET values ==
            [f \in c.varied |->
                Fields!Settable(f, RequiredOf(c.kind), CheckedOf(c.kind))]
    IN  {spec \in Varying(c.varied, PlainSpec(c.kind), values) :
            c.kind = "RecordSet" => RS!OneZone(spec)}]

ResourcesOf == [c \in Cases |->
    LET values ==
            [f \in c.varied |->
                IF f \in RequiredOf(c.kind) THEN Fields!InCloud(f) \ {Fields!Zero(f)}
                                            ELSE Fields!InCloud(f)]
    IN  {r \in Varying(c.varied, PlainResource(c.kind), values) :
            c.kind = "RecordSet" => RS!InOneZone(r)}]

\* What the fields of a resource of kind k may hold.
ResourceValues(k) ==
    UNION {Fields!InCloud(f) \cup {Fields!Zero(f)} : f \in FieldsOf(k)}

ASSUME ControllersAssumption ==
    /\ \A c \in Cases : c.kind \in Kinds /\ c.varied \subseteq FieldsOf(c.kind)
    /\ IsFiniteSet(Values) /\ "a" \in Values
    /\ MaxEntries \in Nat \ {0}
    /\ {"", Fields!Malformed} \cap Values = {}
    /\ \A k \in Kinds : \A f \in RequiredOf(k) :
          Nil \notin Fields!Settable(f, RequiredOf(k), CheckedOf(k))
    /\ Unused # Deleted
    /\ \A k \in Kinds :
          {Unused, Deleted} \cap [FieldsOf(k) -> ResourceValues(k)] = {}

----------------------------------------------------------------------------
(* The handlers *)

\* A 404 is no error of Observe.  (Faulty: it is one.)
MissingFails(w) == ObserveFailed(w)

ObserveMissing(w) == Observed(w, run[w].obj, Unobserved)

Observe(w) ==
    LET obj == run[w].obj IN
    \/ /\ ObserveRejects(obj)
       /\ ObserveFailed(w)
       /\ UNCHANGED environment
    \/ /\ ~ObserveRejects(obj)
       /\ ~Found(obj)
       /\ ObserveMissing(w)
       /\ UNCHANGED environment
    \/ /\ ~ObserveRejects(obj)
       /\ Found(obj)
       /\ \E seen \in {Seen(obj.spec, cloud[obj.extName])} :
            Observed(w, [obj EXCEPT !.spec = seen.spec],
                     [exists |-> TRUE,
                      lateInit |-> seen.spec # obj.spec,
                      upToDate |-> seen.upToDate])
       /\ UNCHANGED environment
    \/ /\ obj.extName # Nil
       /\ Fault
       /\ ObserveFailed(w)
       /\ UNCHANGED edits

\* An object with an external name is taken to be created already.  (Faulty:
\* it is not.)
NeverTakenAsCreated(obj) == FALSE

TakenAsCreated(obj) == obj.extName # Nil

\* The service chooses what the request leaves open.
Create(w) ==
    LET obj == run[w].obj IN
    \/ TakenAsCreated(obj) /\ CreateSkipped(w)
    \/ ~TakenAsCreated(obj) /\ CreateRejects(obj.spec) /\ CreateRefused(w)
    \/ /\ ~TakenAsCreated(obj)
       /\ ~CreateRejects(obj.spec)
       /\ \E default \in ResourcesOf[case] :
            LET r == Created(obj.spec, default)
            IN  CreateSucceeds(w, r) \/ CreateFails(w, r)

\* Update observes anew; a fault cuts its calls short.
Update(w) ==
    LET obj == run[w].obj
        calls == IF Found(obj)
                 THEN UpdateCalls(obj.spec, cloud[obj.extName]) ELSE {}
    IN
    \/ /\ calls = {}
       /\ ExternalUnchanged(w, "update", obj)
       /\ UNCHANGED environment
    \/ /\ \E states \in calls : External(w, "update", states[Len(states)], obj)
       /\ UNCHANGED environment
    \/ /\ Fault
       /\ \/ ExternalUnchanged(w, "update", obj)
          \/ \E states \in calls : \E n \in 1..Len(states) - 1 :
                External(w, "update", states[n], obj)
       /\ UNCHANGED edits

\* A resource that is not found is deleted.
Delete(w) ==
    LET obj == run[w].obj
        states == IF Found(obj)
                  THEN DeleteCalls(obj.spec, cloud[obj.extName]) ELSE <<>>
    IN
    \/ /\ states = <<>>
       /\ ExternalUnchanged(w, "delete", obj)
       /\ UNCHANGED environment
    \/ /\ states # <<>>
       /\ External(w, "delete", states[Len(states)], obj)
       /\ UNCHANGED environment
    \/ /\ Fault
       /\ \/ ExternalUnchanged(w, "delete", obj)
          \/ \E n \in 1..Len(states) - 1 : External(w, "delete", states[n], obj)
       /\ UNCHANGED edits

----------------------------------------------------------------------------
(* The system *)

Init ==
    /\ case \in Cases
    /\ InitWith(SpecsOf[case], ResourcesOf[case])

Reconcile(w) ==
    LET stored == Stored(run[w].obj.spec)
        admitted == Admitted(mr.spec, stored)
    IN
    \/ run[w].pc = "observe" /\ Observe(w)
    \/ AddFinalizer(w, stored, admitted)
    \/ AnnounceCreate(w, stored, admitted)
    \/ run[w].pc = "create" /\ Create(w)
    \/ RecordCreate(w)
    \/ RecordFailedCreate(w)
    \/ LateInitialize(w, stored, admitted)
    \/ UpdateObjectFails(w)
    \/ run[w].pc = "update" /\ Update(w)
    \/ run[w].pc = "delete" /\ Delete(w)
    \/ RemoveFinalizer(w)

UserEdit == \E spec \in SpecsOf[case] : Admitted(mr.spec, spec) /\ EditSpec(spec)

\* Other clients of the cloud: they too cannot change what is fixed, but for
\* the tags.
Drift(i) ==
    \/ RemoveOutOfBand(i)
    \/ /\ Live(i)
       /\ \E r \in ResourcesOf[case] :
            /\ r # cloud[i]
            /\ \A f \in FixedOf(kind) \ {"tags"} : r[f] = cloud[i][f]
            /\ ChangeOutOfBand(i, r)

Next ==
    /\ \/ \E w \in Workers : Begin(w) \/ Reconcile(w) \/ Abandon(w)
       \/ UserEdit
       \/ DeleteObject
       \/ \E i \in Ids : Drift(i) \/ BecomeReadable(i)
       \/ EndGracePeriod
    /\ UNCHANGED case

Spec == Init /\ [][Next]_allVars

\* As of the VPC controller.
Fairness ==
    /\ \A w \in Workers :
        /\ WF_allVars(Begin(w) /\ UNCHANGED case)
        /\ WF_allVars(Reconcile(w) /\ UNCHANGED case)
    /\ \A i \in Ids : WF_allVars(BecomeReadable(i) /\ UNCHANGED case)
    /\ WF_allVars(EndGracePeriod /\ UNCHANGED case)

FairSpec == Spec /\ Fairness

----------------------------------------------------------------------------
(* Properties *)

\* The types of specs and resources; the rest as in ManagedReconciler.
IsSpec(spec) ==
    /\ DOMAIN spec = FieldsOf(kind)
    /\ \A f \in FieldsOf(kind) :
          spec[f] \in Fields!Settable(f, RequiredOf(kind), CheckedOf(kind))

IsResource(r) ==
    /\ DOMAIN r = FieldsOf(kind)
    /\ \A f \in FieldsOf(kind) : r[f] \in Fields!InCloud(f) \cup {Fields!Zero(f)}

\* Whatever the handlers compute, the object holds a spec that admission
\* knows, and the cloud a resource with every field filled in.
ResourcesTypeOK ==
    /\ IsSpec(mr.spec)
    /\ \A w \in Workers : run[w].pc = "idle" \/ IsSpec(run[w].obj.spec)
    /\ \A i \in Ids : Live(i) => IsResource(cloud[i])
    /\ mr.extName \in Ids \cup {Nil} /\ mr.create \in CreateStates

\* The fields of a spec that survive being written: nothing empty that
\* omitempty drops.
Given(spec) == {f \in DOMAIN spec : Stored(spec)[f] # Nil}

\* What the provider writes to the object never changes what its user has
\* set, of any kind.
SettingsKept ==
    [][edits' = edits =>
        \A f \in Given(mr.spec) : mr'.spec[f] = mr.spec[f]]_allVars

\* A nil field "was not specified by the user" (internal/util/optional.go:8):
\* an Update leaves it alone in the cloud.
LeavesAlone(F) ==
    \A w \in Workers :
        LET i == run[w].obj.extName IN
        run[w].pc = "update" /\ run'[w].pc = "idle" /\ i \in Ids /\ Live(i) =>
            \A f \in F \cap DOMAIN cloud[i] :
                run[w].obj.spec[f] = Nil => cloud'[i][f] = cloud[i][f]

\* The port of an elastic IP is the exception: its Update reads an unset port
\* as none and unbinds what others have bound since Observe.
UnsetButPortLeftAlone == [][LeavesAlone(FieldsOf(kind) \ {"portId"})]_allVars

\* An Update of a private zone never takes away the last VPC, nor one the
\* object asks for, whichever of its calls fails: new VPCs are associated
\* before old ones are let go.
AssociationsKept ==
    [][kind = "PrivateZone" =>
        \A w \in Workers :
            LET i == run[w].obj.extName
                asked == BagToSet(run[w].obj.spec["vpcs"])
            IN  run[w].pc = "update" /\ run'[w].pc = "idle"
                /\ i \in Ids /\ Live(i) =>
                    LET had == BagToSet(cloud[i]["vpcs"])
                        has == BagToSet(cloud'[i]["vpcs"])
                    IN  has # {} /\ had \cap asked \subseteq has]_allVars

\* A write of the copy that Observe did not touch passes admission: what the
\* user may apply, the provider may store.
WritesAdmitted ==
    mr.exists => Admitted(mr.spec, Stored(mr.spec))

\* Of lists, what they hold counts, not how often.
Matches(spec, r) ==
    \A f \in DOMAIN spec :
        CASE f = "vpcs"    -> BagToSet(spec[f]) = BagToSet(r[f])
          [] f = "records" -> BagToSet(spec[f]) =
                              BagToSet(RS!trimTXTQuotes(r["type"], r[f]))
          [] OTHER         -> IsOptionalUpToDate(spec[f], r[f])

\* The object names a zone its record set is not in: it counts as missing.
Astray ==
    /\ kind = "RecordSet" /\ mr.extName # Nil /\ Live(mr.extName)
    /\ ~RS!InZone(mr.spec, cloud[mr.extName])

\* NoOrphan holds of every kind, but for record sets: nothing keeps users from
\* naming another zone, the record set is then "not found", and the deletion
\* of its object leaves it behind.
NoOrphanUnlessAstray == NoOrphan \/ Astray

\* Every step is a step of Lifecycle, or none it sees: however reconciles
\* interleave, crash and fail, the provider makes one resource of the kind,
\* notes its name once, deletes it only for a deleted object, and lets go of
\* the object only after it - unless its record set is astray.
KeepsPromise ==
    /\ Promise(LagBounded, {})!Init
    /\ [][\/ Promise(LagBounded, {})!Next
          \/ Astray /\ Promise(FALSE, {})!Next]_(Promise(LagBounded, {})!vars)

\* What no Update can do: change what is fixed, or send an empty value that
\* the SDK leaves out of the request.
Unreachable(spec, r) ==
    \/ ~Fields!UpToDateOn(spec, r, FixedOf(kind))
    \/ \E f \in ByValue : spec[f] = Fields!Zero(f) /\ spec[f] # r[f]

Blocked ==
    \/ CreationUnknown
    \/ ObserveRejects(mr) \/ CreateRejects(mr.spec)
    \/ ~WritesAdmitted

\* Admission rules such as "tags are immutable after creation" leave an object
\* that was accepted its way to the creation.
AcceptedObjectCreated == <>(~mr.exists \/ mr.deleting \/ mr.extName # Nil)

\* When users and faults rest, the resource comes to match the object in
\* every field it sets and stays so, unless it was deleted by others.
ResourcesConverge ==
    <>[](\/ Blocked
         \/ ~mr.exists
         \/ mr.deleting
         \/ /\ mr.extName # Nil
            /\ \/ ~Live(mr.extName)
               \/ Astray
               \/ Unreachable(mr.spec, cloud[mr.extName])
               \/ Matches(mr.spec, cloud[mr.extName]))

\* A deleted object goes away, and its resource with it (NoOrphan) - but for
\* a subnet whose VPC is not the one of the object.
ResourcesDeletionCompletes ==
    <>[](\/ Blocked
         \/ ~(mr.exists /\ mr.deleting)
         \/ /\ kind = "Subnet"
            /\ mr.extName # Nil /\ Live(mr.extName)
            /\ cloud[mr.extName]["vpcId"] # mr.spec["vpcId"])

============================================================================
