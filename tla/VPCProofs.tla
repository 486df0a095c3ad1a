----------------------------- MODULE VPCProofs -----------------------------
(***************************************************************************)
(* Type correctness of the VPC controller, the two promises it makes about *)
(* the VPCs it creates, and that it implements Lifecycle, for every number *)
(* of workers, identifiers, edits and faults and all values of a VPC's     *)
(* settings.                                                               *)
(***************************************************************************)
EXTENDS VPC, LifecycleProofs

----------------------------------------------------------------------------
(* What the handlers compute has the right type. *)

\* The tag helpers return tag maps.
LEMMA TagOperations ==
    ASSUME NEW a \in TagMaps, NEW b \in TagMaps
    PROVE  /\ TagDiff(a, b) \in TagMaps
           /\ TagsWritten(a, b) \in TagMaps
           /\ TagsDeletedByKey(a, b) \in TagMaps
           /\ TagsDeletedByPair(a, b) \in TagMaps
  <1>1. /\ DOMAIN a \in SUBSET TagKeys /\ a \in [DOMAIN a -> TagValues]
        /\ DOMAIN b \in SUBSET TagKeys /\ b \in [DOMAIN b -> TagValues]
    BY DEF TagMaps
  <1>2. ASSUME NEW K \in SUBSET TagKeys, NEW f \in [K -> TagValues]
        PROVE  f \in TagMaps
    BY DEF TagMaps
  <1>3. ASSUME NEW S \in SUBSET DOMAIN a
        PROVE  Restrict(a, S) \in TagMaps
    <2>1. Restrict(a, S) \in [S -> TagValues]
      BY <1>1 DEF Restrict
    <2>2. S \in SUBSET TagKeys
      BY <1>1
    <2> QED BY <1>2, <2>1, <2>2
  <1>4. TagsWritten(a, b) \in TagMaps
    <2>1. TagsWritten(a, b) \in [DOMAIN a \cup DOMAIN b -> TagValues]
      BY <1>1 DEF TagsWritten
    <2>2. DOMAIN a \cup DOMAIN b \in SUBSET TagKeys
      BY <1>1
    <2> QED BY <1>2, <2>1, <2>2
  <1> QED BY <1>3, <1>4 DEF TagDiff, TagsDeletedByKey, TagsDeletedByPair

LEMMA EmptyMapType == EmptyMap \in TagMaps
  <1>1. EmptyMap \in [{} -> TagValues]
    BY DEF EmptyMap
  <1> QED BY <1>1 DEF TagMaps

LEMMA SecondaryType ==
    ASSUME NEW vpc \in CloudVPC
    PROVE  observeSecondaryCIDR(vpc) \in SecondaryCidrs \cup {""}
  <1>1. vpc.secondaryCidrs \in SUBSET SecondaryCidrs
    BY DEF CloudVPC
  <1>2. CASE vpc.secondaryCidrs = {}
    BY <1>2 DEF observeSecondaryCIDR
  <1>3. CASE vpc.secondaryCidrs # {}
    <2>1. \E c \in vpc.secondaryCidrs : TRUE
      BY <1>3
    <2>2. (CHOOSE c \in vpc.secondaryCidrs : TRUE) \in vpc.secondaryCidrs
      BY <2>1
    <2> QED BY <1>1, <1>3, <2>2 DEF observeSecondaryCIDR
  <1> QED BY <1>2, <1>3

\* Late initialisation and serialisation yield parameters again.
LEMMA SpecTypes ==
    ASSUME NEW spec \in VPCParameters
    PROVE  /\ StoredVPC(spec) \in VPCParameters
           /\ \A vpc \in CloudVPC : lateInitializeVPC(spec, vpc) \in VPCParameters
  <1>1. StoredVPC(spec) \in VPCParameters
    BY DEF StoredVPC, OmitEmptyMap, VPCParameters
  <1>2. ASSUME NEW vpc \in CloudVPC
        PROVE  lateInitializeVPC(spec, vpc) \in VPCParameters
    <2>1. observeSecondaryCIDR(vpc) \in SecondaryCidrs \cup {""}
      BY SecondaryType
    <2>2. vpc.description \in Descriptions \cup {""} /\ vpc.tags \in TagMaps
      BY DEF CloudVPC
    <2> QED BY <2>1, <2>2
            DEF lateInitializeVPC, LateInitIfNonZero, VPCParameters
  <1> QED BY <1>1, <1>2

LEMMA CreatedType ==
    ASSUME NEW spec \in VPCParameters
    PROVE  CreatedVPC(spec) \in CloudVPC
  BY EmptyMapType DEF CreatedVPC, Deref, VPCParameters, CloudVPC

\* So do the calls of Update, all of them and any first part of them.
LEMMA UpdateTypes ==
    ASSUME NEW spec \in VPCParameters, NEW vpc \in CloudVPC,
           validateVPCParameters(spec)
    PROVE  Updated(spec, vpc) \subseteq CloudVPC
           /\ PartlyUpdated(spec, vpc) \subseteq CloudVPC
  <1>1. /\ spec.tags \in TagMaps \cup {Nil}
        /\ spec.secondaryCidr \in SecondaryCidrs \cup {"", Nil}
    BY DEF VPCParameters, validateVPCParameters
  <1>2. ASSUME NEW v \in CloudVPC
        PROVE  AfterUpdateCall(spec, v) \in CloudVPC
    BY DEF AfterUpdateCall, Deref, VPCParameters, CloudVPC
  <1>3. ASSUME NEW v \in CloudVPC, NEW tags \in TagMaps
        PROVE  [v EXCEPT !.tags = tags] \in CloudVPC
    BY DEF CloudVPC
  <1>4. ASSUME NEW v \in CloudVPC
        PROVE  AfterTagsCreate(spec, v) \in CloudVPC
    <2>1. CASE spec.tags = Nil
      BY <2>1 DEF AfterTagsCreate
    <2>2. CASE spec.tags # Nil
      <3>1. v.tags \in TagMaps /\ spec.tags \in TagMaps
        BY <1>1, <2>2 DEF CloudVPC
      <3>2. TagsWritten(v.tags, TagDiff(spec.tags, v.tags)) \in TagMaps
        BY <3>1, TagOperations
      <3> QED BY <1>3, <2>2, <3>2 DEF AfterTagsCreate
    <2> QED BY <2>1, <2>2
  <1>5. ASSUME NEW v \in CloudVPC
        PROVE  AfterTagsDelete(spec, v) \subseteq CloudVPC
    <2>1. CASE spec.tags = Nil
      BY <2>1 DEF AfterTagsDelete
    <2>2. CASE spec.tags # Nil
      <3> DEFINE written == AfterTagsCreate(spec, v)
                 extra == TagDiff(v.tags, spec.tags)
      <3>1. written \in CloudVPC
        BY <1>4
      <3>2. extra \in TagMaps
        BY <1>1, <2>2, TagOperations DEF CloudVPC
      <3>3. AfterTagsDelete(spec, v) =
              {[written EXCEPT !.tags = TagsDeletedByKey(written.tags, extra)],
               [written EXCEPT !.tags = TagsDeletedByPair(written.tags, extra)]}
        BY <2>2 DEF AfterTagsDelete
      <3> HIDE DEF written, extra
      <3>4. written.tags \in TagMaps
        BY <3>1 DEF CloudVPC
      <3>5. /\ TagsDeletedByKey(written.tags, extra) \in TagMaps
            /\ TagsDeletedByPair(written.tags, extra) \in TagMaps
        BY <3>2, <3>4, TagOperations
      <3> QED BY <1>3, <3>1, <3>3, <3>5
    <2> QED BY <2>1, <2>2
  <1>6. ASSUME NEW v \in CloudVPC, NEW S \in SUBSET SecondaryCidrs
        PROVE  [v EXCEPT !.secondaryCidrs = S] \in CloudVPC
    BY DEF CloudVPC
  <1>7. ASSUME NEW v \in CloudVPC
        PROVE  AfterCidrRemoval(spec, v) \in CloudVPC
    BY <1>6 DEF AfterCidrRemoval
  <1>8. ASSUME NEW v \in CloudVPC
        PROVE  AfterCidrAddition(spec, v) \in CloudVPC
    <2>1. CASE ChangesSecondaryCIDR(spec, v) /\ spec.secondaryCidr # ""
      <3>1. {spec.secondaryCidr} \in SUBSET SecondaryCidrs
        BY <1>1, <2>1 DEF ChangesSecondaryCIDR
      <3> QED BY <1>6, <2>1, <3>1 DEF AfterCidrAddition
    <2>2. CASE ~(ChangesSecondaryCIDR(spec, v) /\ spec.secondaryCidr # "")
      BY <1>7, <2>2 DEF AfterCidrAddition
    <2> QED BY <2>1, <2>2
  <1>9. Updated(spec, vpc) \subseteq CloudVPC
    BY <1>2, <1>5, <1>8 DEF Updated
  <1>10. PartlyUpdated(spec, vpc) \subseteq CloudVPC
    BY <1>2, <1>4, <1>5, <1>7 DEF PartlyUpdated
  <1> QED BY <1>9, <1>10

----------------------------------------------------------------------------
(* The settings a user has set *)

Kept == {p \in VPCParameters \X VPCParameters : KeepsSettings(p[1], p[2])}

LEMMA KeptPair ==
    ASSUME NEW old \in VPCParameters, NEW new \in VPCParameters
    PROVE  <<old, new>> \in Kept <=> KeepsSettings(old, new)
  <1>1. <<old, new>>[1] = old /\ <<old, new>>[2] = new
    OBVIOUS
  <1>2. <<old, new>> \in VPCParameters \X VPCParameters
    OBVIOUS
  <1> QED BY <1>1, <1>2 DEF Kept

LEMMA KeptReflexive == Reflexive(Kept, VPCParameters)
  BY KeptPair DEF Reflexive, KeepsSettings

\* What late initialisation fills in, and what serialisation drops, was not
\* set.
LEMMA SettingsSurvive ==
    ASSUME NEW old \in VPCParameters, NEW spec \in VPCParameters
    PROVE  /\ <<old, spec>> \in Kept =>
                /\ <<old, StoredVPC(spec)>> \in Kept
                /\ \A vpc \in CloudVPC : <<old, lateInitializeVPC(spec, vpc)>> \in Kept
           /\ <<StoredVPC(spec), spec>> \in Kept
  <1> DEFINE stored == StoredVPC(spec)
  <1>1. stored \in VPCParameters
    BY SpecTypes
  <1>2. /\ stored.name = spec.name /\ stored.cidr = spec.cidr
        /\ stored.description = spec.description
        /\ stored.secondaryCidr = spec.secondaryCidr
        /\ stored.tags = OmitEmptyMap(spec.tags)
    BY DEF StoredVPC, VPCParameters
  <1>3. OmitEmptyMap(spec.tags) \in {spec.tags, Nil}
    BY DEF OmitEmptyMap
  <1>4. KeepsSettings(old, spec) => KeepsSettings(old, stored)
    BY <1>2, <1>3 DEF KeepsSettings, OmitEmptyMap
  <1>5. KeepsSettings(stored, spec)
    BY <1>2, <1>3 DEF KeepsSettings, OmitEmptyMap
  <1>6. ASSUME NEW vpc \in CloudVPC, KeepsSettings(old, spec)
        PROVE  <<old, lateInitializeVPC(spec, vpc)>> \in Kept
    <2> DEFINE filled == lateInitializeVPC(spec, vpc)
    <2>1. filled \in VPCParameters
      BY SpecTypes
    <2>2. /\ filled.name = spec.name /\ filled.cidr = spec.cidr
          /\ spec.description # Nil => filled.description = spec.description
          /\ spec.secondaryCidr # Nil => filled.secondaryCidr = spec.secondaryCidr
          /\ spec.tags # Nil => filled.tags = spec.tags
      BY DEF lateInitializeVPC, LateInitIfNonZero, VPCParameters
    <2>3. KeepsSettings(old, filled)
      BY <1>6, <2>2 DEF KeepsSettings, OmitEmptyMap
    <2> QED BY <2>1, <2>3, KeptPair
  <1> HIDE DEF stored
  <1>7. <<old, spec>> \in Kept => <<old, stored>> \in Kept
    BY <1>1, <1>4, KeptPair
  <1>8. <<stored, spec>> \in Kept
    BY <1>1, <1>5, KeptPair
  <1>9. <<old, spec>> \in Kept => KeepsSettings(old, spec)
    BY KeptPair
  <1> QED BY <1>6, <1>7, <1>8, <1>9 DEF stored

----------------------------------------------------------------------------
(* The inductive invariant, handler by handler *)

IInv == TypeOK /\ Creation /\ Absence({}) /\ Carries(Kept)

\* What a step does to the settings.
SettingsStep == edits' = edits => KeepsSettings(mr.spec, mr'.spec)

Keeps == IInv' /\ SettingsStep

\* A reading worker holds a copy of the object.
LEMMA HoldsCopy ==
    ASSUME TypeOK, NEW w \in Workers, run[w].pc # "idle"
    PROVE  run[w].obj \in Object(VPCParameters, {})
  BY CopyType DEF TypeOK, TypeWith

LEMMA FieldTypes ==
    ASSUME NEW obj \in Object(VPCParameters, {})
    PROVE  /\ obj.spec \in VPCParameters
           /\ obj.extName \in Ids \cup {Nil}
           /\ \A spec \in VPCParameters :
                LET changed == [obj EXCEPT !.spec = spec] IN
                /\ changed \in Object(VPCParameters, {}) /\ SameCopy(changed, obj)
                /\ changed.spec = spec
  BY DEF Object, SameCopy

LEMMA ObjectType ==
    ASSUME TypeOK
    PROVE  mr \in Object(VPCParameters, {}) /\ mr.spec \in VPCParameters
  BY FieldTypes DEF TypeOK, TypeWith

\* What is live is a VPC, and so is what a handler leaves.
LEMMA LiveType ==
    ASSUME TypeOK, NEW i \in Ids, Live(i)
    PROVE  cloud[i] \in CloudVPC
  BY DEF TypeOK, TypeWith, Live

VPCSound == Sound(VPCParameters, {}, CloudVPC, {}, Kept)

VPCStep == SoundStep(VPCParameters, {}, CloudVPC, {}, Kept)

LEMMA AsSound == IInv <=> VPCSound /\ Named
  BY DEF IInv, TypeOK, Creation, VPCSound, Sound

\* A sound step that does not forget a VPC.
LEMMA Assembled ==
    ASSUME IInv, VPCStep, Named => Named'
    PROVE  Keeps
  <1>1. VPCSound' /\ <<mr.spec, mr'.spec>> \in Kept /\ Named'
    BY AsSound DEF VPCSound, VPCStep, SoundStep
  <1>2. IInv'
    BY <1>1 DEF IInv, TypeOK, Creation, VPCSound, Sound
  <1>3. mr.spec \in VPCParameters /\ mr'.spec \in VPCParameters
    <2>1. mr \in Object(VPCParameters, {}) /\ mr' \in Object(VPCParameters, {})
      BY <1>2 DEF IInv, TypeOK, TypeWith
    <2> QED BY <2>1, FieldTypes
  <1>4. KeepsSettings(mr.spec, mr'.spec)
    BY <1>1, <1>3, KeptPair
  <1> QED BY <1>2, <1>4 DEF Keeps, SettingsStep

LEMMA ObserveKeeps ==
    ASSUME IInv, NEW w \in Workers, run[w].pc = "observe", Observe(w)
    PROVE  Keeps
  <1> DEFINE obj == run[w].obj
             vpc == cloud[obj.extName]
             spec == lateInitializeVPC(obj.spec, vpc)
             changed == [obj EXCEPT !.spec = spec]
             obs == [exists |-> TRUE, lateInit |-> spec # obj.spec,
                     upToDate |-> isVPCUpToDate(spec, vpc)]
  <1>1. obj \in Object(VPCParameters, {}) /\ obj.spec \in VPCParameters
    BY HoldsCopy, FieldTypes DEF IInv
  <1>2. VPCSound /\ Counted
    BY AsSound DEF Observe, Counted
  <1>3. \/ ObserveFailed(w)
        \/ ~Readable(obj.extName) /\ Observed(w, obj, Unobserved)
        \/ Readable(obj.extName) /\ Observed(w, changed, obs)
    BY DEF Observe, ObserveMissing
  <1>4. CASE ObserveFailed(w)
    <2>1. VPCStep /\ (Named => Named')
      BY <1>2, <1>4, KeptReflexive, ObserveFailedSound DEF VPCSound, VPCStep
    <2> QED BY <2>1, Assembled
  <1>5. ASSUME NEW seen \in Object(VPCParameters, {}), NEW found \in Observation,
               SameCopy(seen, run[w].obj), Observed(w, seen, found),
               found.exists \/ ~Readable(seen.extName),
               <<mr.spec, obj.spec>> \in Kept => <<mr.spec, seen.spec>> \in Kept
        PROVE  Keeps
    <2>1. VPCStep /\ (Named => Named')
      BY <1>2, <1>5, KeptReflexive, ObservedSound DEF VPCSound, VPCStep
    <2> QED BY <2>1, Assembled
  <1>6. CASE ~Readable(obj.extName) /\ Observed(w, obj, Unobserved)
    <2>1. Unobserved \in Observation
      BY DEF Unobserved, Observation
    <2>2. SameCopy(obj, run[w].obj)
      BY DEF SameCopy
    <2> HIDE DEF obj
    <2> QED BY <1>1, <1>5, <1>6, <2>1, <2>2
  <1>7. CASE Readable(obj.extName) /\ Observed(w, changed, obs)
    <2>1. vpc \in CloudVPC
      BY <1>7, LiveType DEF IInv, Readable
    <2>2. spec \in VPCParameters
      BY <1>1, <2>1, SpecTypes
    <2>3. /\ changed \in Object(VPCParameters, {}) /\ SameCopy(changed, run[w].obj)
          /\ changed.spec = spec
      BY <1>1, <2>2, FieldTypes
    <2>4. obs \in Observation /\ obs.exists
      BY DEF Observation, isVPCUpToDate
    <2>5. <<mr.spec, obj.spec>> \in Kept => <<mr.spec, spec>> \in Kept
      BY <1>1, <2>1, ObjectType, SettingsSurvive DEF IInv
    <2> HIDE DEF obj, vpc, spec, changed, obs
    <2> QED BY <1>5, <1>7, <2>3, <2>4, <2>5
  <1> QED BY <1>3, <1>4, <1>6, <1>7

LEMMA CreateKeeps ==
    ASSUME IInv, NEW w \in Workers, run[w].pc = "create", Create(w)
    PROVE  Keeps
  <1> DEFINE obj == run[w].obj
             resource == CreatedVPC(obj.spec)
  <1>1. resource \in CloudVPC /\ resource # Unused
    BY HoldsCopy, FieldTypes, CreatedType, VPCAssumption DEF IInv
  <1>2. obj \in Object(VPCParameters, {}) /\ obj.extName = mr.extName
    BY HoldsCopy DEF IInv, Creation, Announced, CreatorAgrees
  <1>3. VPCSound
    BY AsSound
  <1> HIDE DEF resource
  <1>4. CASE obj.extName # Nil /\ CreateSkipped(w)
    <2>1. VPCStep /\ (Named => Named')
      BY <1>3, <1>4, KeptReflexive, CreateSkippedSound DEF VPCSound, VPCStep
    <2> QED BY <2>1, Assembled
  <1>5. CASE /\ obj.extName = Nil
             /\ CreateReturns(w, resource, obj) \/ CreateFails(w, resource)
    <2>1. VPCStep /\ (Named /\ mr.extName = Nil => Named')
      BY <1>1, <1>2, <1>3, <1>5, KeptReflexive, CreateSound DEF VPCSound, VPCStep
    <2> QED BY <1>2, <1>5, <2>1, Assembled
  <1> QED BY <1>4, <1>5 DEF Create, TakenAsCreated, CreateSucceeds, resource

\* Update and Delete leave a VPC, or a deleted one, where one was live.
LEMMA ExternalKeeps ==
    ASSUME IInv, NEW w \in Workers, NEW pc \in {"update", "delete"},
           NEW resource \in CloudVPC \cup {Deleted},
           \/ External(w, pc, resource, run[w].obj) /\ Readable(run[w].obj.extName)
           \/ ExternalUnchanged(w, pc, run[w].obj),
           UNCHANGED environment \/ (Fault /\ UNCHANGED edits)
    PROVE  Keeps
  <1>1. run[w].pc # "idle"
    BY DEF External, ExternalUnchanged
  <1>2. run[w].obj \in Object(VPCParameters, {})
    BY <1>1, HoldsCopy DEF IInv
  <1>3. resource # Unused /\ VPCSound /\ Counted
    BY VPCAssumption, AsSound DEF Counted
  <1>4. CASE External(w, pc, resource, run[w].obj) /\ Readable(run[w].obj.extName)
    <2>1. LeftAbsent({}, cloud[run[w].obj.extName], resource)
      BY DEF LeftAbsent
    <2>2. VPCStep /\ (Named => Named')
      BY <1>2, <1>3, <1>4, <2>1, KeptReflexive, ExternalSound DEF VPCSound, VPCStep
    <2> QED BY <2>2, Assembled
  <1>5. CASE ExternalUnchanged(w, pc, run[w].obj)
    <2>1. VPCStep /\ (Named => Named')
      BY <1>2, <1>3, <1>5, KeptReflexive, UnchangedSound DEF VPCSound, VPCStep
    <2> QED BY <2>1, Assembled
  <1> QED BY <1>4, <1>5

LEMMA UpdateKeeps ==
    ASSUME IInv, NEW w \in Workers, run[w].pc = "update", Update(w)
    PROVE  Keeps
  <1> DEFINE obj == run[w].obj
             vpc == cloud[obj.extName]
  <1>1. obj.spec \in VPCParameters
    BY HoldsCopy, FieldTypes DEF IInv
  <1>2. CASE ExternalUnchanged(w, "update", obj) /\ UNCHANGED environment
    BY <1>2, ExternalKeeps
  <1>3. ASSUME Readable(obj.extName), CanUpdate(obj.spec, vpc),
               NEW r \in Updated(obj.spec, vpc) \cup PartlyUpdated(obj.spec, vpc),
               External(w, "update", r, obj),
               UNCHANGED environment \/ (Fault /\ UNCHANGED edits)
        PROVE  Keeps
    <2>1. vpc \in CloudVPC
      BY <1>3, LiveType DEF IInv, Readable
    <2>2. r \in CloudVPC
      BY <1>1, <1>3, <2>1, UpdateTypes DEF CanUpdate
    <2> QED BY <1>3, <2>2, ExternalKeeps
  <1> QED BY <1>2, <1>3 DEF Update

LEMMA DeleteKeeps ==
    ASSUME IInv, NEW w \in Workers, run[w].pc = "delete", Delete(w)
    PROVE  Keeps
  BY ExternalKeeps DEF Delete

\* The three writes of the object before Create, Update and Delete.
LEMMA ObjectWriteKeeps ==
    ASSUME IInv, NEW w \in Workers,
           NEW stored, stored = StoredVPC(run[w].obj.spec),
           NEW admitted \in BOOLEAN,
           \/ AddFinalizer(w, stored, admitted)
           \/ AnnounceCreate(w, stored, admitted)
           \/ LateInitialize(w, stored, admitted)
    PROVE  Keeps
  <1>1. run[w].pc # "idle"
    BY DEF AddFinalizer, AnnounceCreate, LateInitialize
  <1>2. run[w].obj.spec \in VPCParameters /\ mr.spec \in VPCParameters
    BY <1>1, HoldsCopy, FieldTypes, ObjectType DEF IInv
  <1>3. stored \in VPCParameters
    BY <1>2, SpecTypes
  <1>4. /\ <<mr.spec, run[w].obj.spec>> \in Kept => <<mr.spec, stored>> \in Kept
        /\ <<stored, run[w].obj.spec>> \in Kept
    BY <1>2, SettingsSurvive
  <1>5. VPCStep /\ (Named => Named')
    BY <1>3, <1>4, AsSound, KeptReflexive, ObjectWriteSound DEF VPCSound, VPCStep
  <1> QED BY <1>5, Assembled

LEMMA RecordKeeps ==
    ASSUME IInv, NEW w \in Workers, RecordCreate(w) \/ RecordFailedCreate(w)
    PROVE  Keeps
  <1>1. mr \in Object(VPCParameters, {}) /\ SameCopy(mr, mr)
          /\ <<mr.spec, mr.spec>> \in Kept
    BY ObjectType, KeptReflexive DEF IInv, SameCopy, Reflexive
  <1>2. RecordCreateIn(w, mr) \/ RecordFailedCreate(w)
    BY DEF RecordCreate
  <1>3. VPCStep /\ (Named => Named')
    BY <1>1, <1>2, AsSound, KeptReflexive, RecordSound DEF VPCSound, VPCStep
  <1> QED BY <1>3, Assembled

LEMMA ReconcileKeeps ==
    ASSUME IInv, NEW w \in Workers, Reconcile(w)
    PROVE  Keeps
  <1> DEFINE stored == StoredVPC(run[w].obj.spec)
             admitted == AdmittedVPC(mr.spec, stored)
  <1>1. CASE \/ AddFinalizer(w, stored, admitted)
             \/ AnnounceCreate(w, stored, admitted)
             \/ LateInitialize(w, stored, admitted)
    <2>1. admitted \in BOOLEAN
      BY DEF AdmittedVPC
    <2> HIDE DEF admitted
    <2> QED BY <1>1, <2>1, ObjectWriteKeeps
  <1>2. CASE UpdateObjectFails(w)
    <2>1. VPCStep /\ (Named => Named')
      BY <1>2, AsSound, KeptReflexive, UpdateObjectFailsSound DEF VPCSound, VPCStep
    <2> QED BY <2>1, Assembled
  <1>3. CASE RemoveFinalizer(w)
    <2>1. Accounted({})
      BY NamedAccounts DEF IInv, Creation
    <2>2. VPCStep /\ (Named => Named')
      BY <1>3, <2>1, AsSound, KeptReflexive, RemoveFinalizerSound DEF VPCSound, VPCStep
    <2> QED BY <2>2, Assembled
  <1> HIDE DEF stored, admitted
  <1> QED BY <1>1, <1>2, <1>3, RecordKeeps,
             ObserveKeeps, CreateKeeps, UpdateKeeps, DeleteKeeps
          DEF Reconcile, stored, admitted

LEMMA OutsideKeeps ==
    ASSUME IInv,
           \/ UserEdit
           \/ DeleteObject
           \/ \E i \in Ids : Drift(i) \/ BecomeReadable(i)
           \/ EndGracePeriod
    PROVE  Keeps
  <1>1. Unused # Deleted /\ CloudVPC \cap {Unused, Deleted} = {} /\ VPCSound
    BY VPCAssumption, AsSound
  <1>2. ASSUME NEW spec \in VPCParameters, EditSpec(spec)
        PROVE  Keeps
    <2>1. VPCSound' /\ (Named => Named') /\ edits' # edits
      BY <1>1, <1>2, KeptReflexive, EditSound DEF VPCSound
    <2>2. IInv'
      BY <2>1, AsSound DEF IInv, TypeOK, Creation, VPCSound, Sound
    <2> QED BY <2>1, <2>2 DEF Keeps, SettingsStep
  <1>3. CASE DeleteObject
    <2>1. VPCStep /\ (Named => Named')
      BY <1>1, <1>3, KeptReflexive, DeleteObjectSound DEF VPCSound, VPCStep
    <2> QED BY <2>1, Assembled
  <1>4. CASE (\E i \in Ids : BecomeReadable(i)) \/ EndGracePeriod
    <2>1. VPCStep /\ (Named => Named')
      BY <1>1, <1>4, KeptReflexive, LagSound DEF VPCSound, VPCStep
    <2> QED BY <2>1, Assembled
  <1>5. ASSUME NEW i \in Ids, Drift(i)
        PROVE  Keeps
    <2>1. PICK r \in CloudVPC \cup {Deleted} :
            /\ Live(i) /\ Edit /\ cloud' = [cloud EXCEPT ![i] = r]
            /\ UNCHANGED <<mr, run, fresh, hidden, grace, lost, faults>>
      BY <1>5 DEF Drift, RemoveOutOfBand, ChangeOutOfBand
    <2>2. LeftAbsent({}, cloud[i], r) /\ r # Unused /\ Counted
      BY <1>1, <2>1 DEF LeftAbsent, Counted
    <2>3. VPCStep /\ (Named => Named')
      BY <1>1, <2>1, <2>2, KeptReflexive, CloudSound DEF VPCSound, VPCStep
    <2> QED BY <2>3, Assembled
  <1> QED BY <1>2, <1>3, <1>4, <1>5 DEF UserEdit

----------------------------------------------------------------------------
(* The theorems *)

LEMMA InitInv == Init => IInv
  <1> SUFFICES ASSUME Init
               PROVE  IInv
    OBVIOUS
  <1>1. Unused \notin CloudVPC
    BY VPCAssumption
  <1>2. VPCSound /\ Named
    BY <1>1, InitSound DEF Init, VPCSound
  <1> QED BY <1>2, AsSound

LEMMA NextInv == IInv /\ [Next]_vars => Keeps
  <1> SUFFICES ASSUME IInv, [Next]_vars
               PROVE  Keeps
    OBVIOUS
  <1>1. VPCSound
    BY AsSound
  <1>2. CASE \/ \E w \in Workers : Begin(w) \/ Abandon(w)
             \/ UNCHANGED vars
    <2>1. VPCStep /\ (Named => Named')
      BY <1>1, <1>2, KeptReflexive, BeginSound, AbandonSound, SoundStutter
         DEF VPCSound, VPCStep
    <2> QED BY <2>1, Assembled
  <1> QED BY <1>2, ReconcileKeeps, OutsideKeeps DEF Next

LEMMA Invariance == Spec => []IInv
  <1>1. IInv /\ [Next]_vars => IInv'
    BY NextInv DEF Keeps
  <1> QED BY InitInv, <1>1, PTL DEF Spec

\* Objects, copies, VPCs and counters stay within their types, whichever
\* handler of Observe, Create, Update and Delete runs or fails part-way.
THEOREM TypeCorrect == Spec => []TypeOK
  <1>1. IInv => TypeOK
    BY DEF IInv
  <1> QED BY <1>1, Invariance, PTL

\* Create makes one VPC for an object at most, for any number of replicas and
\* stale copies, under crashes and failed calls, and even when reads lag
\* behind beyond the creation grace period.
THEOREM OneVPCPerObject == Spec => []OneResourcePerObject
  <1>1. IInv => OneResourcePerObject
    BY CreationIsEnough DEF IInv
  <1> QED BY <1>1, Invariance, PTL

\* When reads lag behind no longer than the creation grace period, an object
\* that had a finalizer is gone only after its VPC is deleted.
THEOREM NoOrphanedVPC == Spec => []NoOrphan
  <1>1. IInv => NoOrphan
    BY AbsenceIsEnough DEF IInv
  <1> QED BY <1>1, Invariance, PTL

\* The writes of the finalizer, of the announcement and of late
\* initialisation, and the record of a creation, never change what the user
\* has set in forProvider.
THEOREM SettingsKept == Spec => UserSettingsKept
  <1>1. IInv /\ [Next]_vars => [edits' = edits => KeepsSettings(mr.spec, mr'.spec)]_vars
    BY NextInv DEF Keeps, SettingsStep
  <1> QED BY <1>1, Invariance, PTL DEF Spec, UserSettingsKept

----------------------------------------------------------------------------
(* The refinement, handler by handler *)

LEMMA VPCsAreLive ==
    Unused # Deleted /\ CloudVPC \cap {Unused, Deleted} = {}
  BY VPCAssumption

LEMMA ObserveImplements ==
    ASSUME IInv, Tidy, NEW w \in Workers, run[w].pc = "observe", Observe(w)
    PROVE  Tidy' /\ Implements(LagBounded, {})
  <1> DEFINE obj == run[w].obj
             vpc == cloud[obj.extName]
             spec == lateInitializeVPC(obj.spec, vpc)
             changed == [obj EXCEPT !.spec = spec]
             obs == [exists |-> TRUE, lateInit |-> spec # obj.spec,
                     upToDate |-> isVPCUpToDate(spec, vpc)]
  <1>1. obj \in Object(VPCParameters, {}) /\ edits' = edits
    BY HoldsCopy DEF IInv, Observe, environment
  <1>2. \/ ObserveFailed(w)
        \/ Observed(w, obj, Unobserved)
        \/ Readable(obj.extName) /\ Observed(w, changed, obs)
    BY DEF Observe, ObserveMissing
  <1>3. CASE ObserveFailed(w)
    BY <1>1, <1>3, ObserveFailedImplements DEF IInv, TypeOK
  <1>4. CASE Observed(w, obj, Unobserved)
    <2>1. Unobserved \in Observation /\ SameCopy(obj, run[w].obj)
      BY DEF Unobserved, Observation, SameCopy
    <2> HIDE DEF obj
    <2> QED BY <1>1, <1>4, <2>1, ObservedImplements DEF IInv, TypeOK
  <1>5. CASE Readable(obj.extName) /\ Observed(w, changed, obs)
    <2>1. vpc \in CloudVPC
      BY <1>5, LiveType DEF IInv, Readable
    <2>2. spec \in VPCParameters
      BY <1>1, <2>1, FieldTypes, SpecTypes
    <2>3. changed \in Object(VPCParameters, {}) /\ SameCopy(changed, run[w].obj)
      BY <1>1, <2>2, FieldTypes
    <2>4. obs \in Observation
      BY DEF Observation, isVPCUpToDate
    <2> HIDE DEF obj, vpc, spec, changed, obs
    <2> QED BY <1>1, <1>5, <2>3, <2>4, ObservedImplements DEF IInv, TypeOK
  <1> QED BY <1>2, <1>3, <1>4, <1>5

LEMMA CreateImplements ==
    ASSUME IInv, Tidy, NEW w \in Workers, run[w].pc = "create", Create(w)
    PROVE  Tidy' /\ Implements(LagBounded, {})
  <1> DEFINE resource == CreatedVPC(run[w].obj.spec)
  <1>1. resource \notin {Unused, Deleted}
    BY HoldsCopy, FieldTypes, CreatedType, VPCsAreLive DEF IInv
  <1> HIDE DEF resource
  <1>2. \/ CreateSkipped(w)
        \/ run[w].obj.extName = Nil /\ CreateReturns(w, resource, run[w].obj)
        \/ run[w].obj.extName = Nil /\ CreateFails(w, resource)
    BY DEF Create, TakenAsCreated, CreateSucceeds, resource
  <1>3. run[w].obj \in Object(VPCParameters, {}) /\ SameCopy(run[w].obj, run[w].obj)
    BY HoldsCopy DEF IInv, SameCopy
  <1> QED BY <1>1, <1>2, <1>3, CreateSkippedImplements, CreateReturnsImplements,
             CreateFailsImplements
          DEF IInv, TypeOK

LEMMA UpdateImplements ==
    ASSUME IInv, Tidy, NEW w \in Workers, run[w].pc = "update", Update(w)
    PROVE  Tidy' /\ Implements(LagBounded, {})
  <1> DEFINE obj == run[w].obj
             vpc == cloud[obj.extName]
  <1>1. obj.spec \in VPCParameters
    BY HoldsCopy, FieldTypes DEF IInv
  <1>2. CASE ExternalUnchanged(w, "update", obj) /\ UNCHANGED environment
    BY <1>2, ExternalUnchangedImplements DEF IInv, TypeOK, environment
  <1>3. ASSUME Readable(obj.extName), CanUpdate(obj.spec, vpc),
               NEW r \in Updated(obj.spec, vpc) \cup PartlyUpdated(obj.spec, vpc),
               External(w, "update", r, obj), edits' = edits
        PROVE  Tidy' /\ Implements(LagBounded, {})
    <2>1. vpc \in CloudVPC
      BY <1>3, LiveType DEF IInv, Readable
    <2>2. r \in CloudVPC
      BY <1>1, <1>3, <2>1, UpdateTypes DEF CanUpdate
    <2> QED BY <1>3, <2>2, VPCsAreLive, ExternalImplements DEF IInv, TypeOK
  <1> QED BY <1>2, <1>3 DEF Update, environment

LEMMA DeleteImplements ==
    ASSUME IInv, Tidy, NEW w \in Workers, run[w].pc = "delete", Delete(w)
    PROVE  Tidy' /\ Implements(LagBounded, {})
  <1>1. edits' = edits
    BY DEF Delete, environment
  <1>2. CASE ExternalUnchanged(w, "delete", run[w].obj)
    BY <1>1, <1>2, ExternalUnchangedImplements DEF IInv, TypeOK
  <1>3. CASE /\ Readable(run[w].obj.extName)
             /\ External(w, "delete", Deleted, run[w].obj)
    BY <1>1, <1>3, VPCsAreLive, ExternalImplements DEF IInv, TypeOK
  <1> QED BY <1>2, <1>3 DEF Delete

LEMMA ReconcileImplements ==
    ASSUME IInv, IInv', Tidy, NEW w \in Workers, Reconcile(w)
    PROVE  Tidy' /\ Implements(LagBounded, {})
  <1> DEFINE stored == StoredVPC(run[w].obj.spec)
             admitted == AdmittedVPC(mr.spec, stored)
  <1>1. CASE \/ AddFinalizer(w, stored, admitted)
             \/ AnnounceCreate(w, stored, admitted)
             \/ LateInitialize(w, stored, admitted)
    <2>1. admitted \in BOOLEAN
      BY DEF AdmittedVPC
    <2> HIDE DEF stored, admitted
    <2> QED BY <1>1, <2>1, ObjectWriteImplements DEF IInv, TypeOK
  <1>2. CASE RecordCreate(w) \/ RecordFailedCreate(w)
    <2>1. mr \in Object(VPCParameters, {}) /\ SameCopy(mr, mr)
      BY ObjectType DEF IInv, SameCopy
    <2> QED BY <1>2, <2>1, RecordCreateImplements, RecordFailedCreateImplements
            DEF IInv, TypeOK, RecordCreate
  <1>3. CASE UpdateObjectFails(w)
    BY <1>3, ObserveFailedImplements DEF IInv, TypeOK, UpdateObjectFails
  <1>4. CASE RemoveFinalizer(w)
    <2>1. NoOrphan'
      BY NothingOrphaned DEF IInv
    <2> QED BY <1>4, <2>1, RemoveFinalizerImplements DEF IInv, TypeOK
  <1> HIDE DEF stored, admitted
  <1> QED BY <1>1, <1>2, <1>3, <1>4,
             ObserveImplements, CreateImplements, UpdateImplements,
             DeleteImplements
          DEF Reconcile, stored, admitted

LEMMA StepImplements ==
    ASSUME IInv, IInv', Tidy, [Next]_vars
    PROVE  Tidy' /\ Implements(LagBounded, {})
  <1>1. ASSUME NEW w \in Workers, Begin(w)
        PROVE  Tidy' /\ Implements(LagBounded, {})
    BY <1>1, BeginImplements DEF IInv, TypeOK
  <1>2. ASSUME NEW w \in Workers, Abandon(w)
        PROVE  Tidy' /\ Implements(LagBounded, {})
    BY <1>2, AbandonImplements DEF IInv, TypeOK
  <1>3. CASE DeleteObject
    BY <1>3, DeleteObjectImplements DEF IInv, TypeOK
  <1>4. CASE \/ UserEdit
             \/ \E i \in Ids : Drift(i) \/ BecomeReadable(i)
             \/ EndGracePeriod
    <2>1. \/ \E spec \in VPCParameters : EditSpec(spec)
          \/ \E i \in Ids : RemoveOutOfBand(i) \/ BecomeReadable(i)
          \/ \E i \in Ids, r \in CloudVPC : ChangeOutOfBand(i, r)
          \/ EndGracePeriod
      BY <1>4 DEF UserEdit, Drift
    <2> QED BY <2>1, VPCsAreLive, OutsideImplements DEF IInv, TypeOK
  <1>5. CASE UNCHANGED vars
    BY <1>5, UnchangedImplements
  <1> QED BY <1>1, <1>2, <1>3, <1>4, <1>5, ReconcileImplements DEF Next

\* Every behaviour of the controller, with any number of replicas and stale
\* copies, crashes and failed calls, is one of Lifecycle: it makes one VPC,
\* notes its name once, deletes it only for a deleted object, and lets go of
\* the object only after it.
THEOREM VPCImplementsLifecycle == Spec => KeepsPromise
  <1>1. Init => Tidy /\ Promise(LagBounded, {})!Init
    BY VPCsAreLive, InitImplements DEF Init
  <1>2. IInv /\ IInv' /\ Tidy /\ [Next]_vars
            => /\ Tidy'
               /\ [Promise(LagBounded, {})!Next]_(Promise(LagBounded, {})!vars)
    BY StepImplements DEF Implements
  <1> QED BY <1>1, <1>2, Invariance, PTL DEF Spec, KeepsPromise

============================================================================
