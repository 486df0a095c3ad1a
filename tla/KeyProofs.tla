----------------------------- MODULE KeyProofs -----------------------------
(***************************************************************************)
(* Type correctness of the KMS key controller, that it keeps what its      *)
(* users have set, and what becomes of the keys it replaces: never two     *)
(* usable keys behind one object, and none behind an object that is gone,  *)
(* for every number of workers, identifiers, edits and faults and all      *)
(* values of a key's settings.                                             *)
(***************************************************************************)
EXTENDS Key, ManagedReconcilerProofs

----------------------------------------------------------------------------
(* What the handlers compute has the right type. *)

LEMMA KeyFields ==
    ASSUME NEW spec \in KeyCopies
    PROVE  /\ spec.keyAlias \in KeyAliases
           /\ spec.description \in Descriptions \cup {"", Nil}
           /\ spec.realm \in Realms \cup {Nil}
           /\ spec.enabled \in EnabledValues
           /\ spec.rotationEnabled \in RotationValues \cup {Nil}
           /\ spec.rotationInterval \in RotationIntervals \cup {Nil}
           /\ spec.tags \in TagMaps \cup {Nil}
  BY DEF KeyCopies

LEMMA CloudFields ==
    ASSUME NEW key \in CloudKey
    PROVE  /\ key.keyAlias \in KeyAliases
           /\ key.description \in Descriptions \cup {""}
           /\ key.realm \in Realms
           /\ key.state \in KeyStates
           /\ key.rotation \in Rotation
           /\ key.rotation.enabled \in RotationValues
           /\ key.rotation.interval \in RotationIntervals
           /\ key.tags \in TagMaps
  BY DEF CloudKey, Rotation

\* A change of one field of a key.
LEMMA CloudChange ==
    ASSUME NEW key \in CloudKey
    PROVE  /\ \A a \in KeyAliases : [key EXCEPT !.keyAlias = a] \in CloudKey
           /\ \A d \in Descriptions \cup {""} :
                [key EXCEPT !.description = d] \in CloudKey
           /\ \A s \in KeyStates : [key EXCEPT !.state = s] \in CloudKey
           /\ \A b \in RotationValues : [key EXCEPT !.rotation.enabled = b] \in CloudKey
           /\ \A n \in RotationIntervals :
                [key EXCEPT !.rotation.interval = n] \in CloudKey
           /\ \A tags \in TagMaps : [key EXCEPT !.tags = tags] \in CloudKey
  BY DEF CloudKey, Rotation

\* The tag helpers return tag maps.
LEMMA TagOperations ==
    ASSUME NEW a \in TagMaps, NEW b \in TagMaps
    PROVE  /\ TagDiff(a, b) \in TagMaps
           /\ TagsWritten(a, b) \in TagMaps
           /\ TagsDeletedByKey(a, b) \in TagMaps
           /\ TagsDeletedByPair(a, b) \in TagMaps
  <1>1. /\ DOMAIN a \in SUBSET TagKeys /\ a \in [DOMAIN a -> TagValues]
        /\ DOMAIN b \in SUBSET TagKeys /\ b \in [DOMAIN b -> TagValues]
    BY DEF TagMaps
  <1>2. ASSUME NEW K \in SUBSET TagKeys, NEW f \in [K -> TagValues]
        PROVE  f \in TagMaps
    BY DEF TagMaps
  <1>3. ASSUME NEW S \in SUBSET DOMAIN a
        PROVE  Restrict(a, S) \in TagMaps
    <2>1. Restrict(a, S) \in [S -> TagValues]
      BY <1>1 DEF Restrict
    <2>2. S \in SUBSET TagKeys
      BY <1>1
    <2> QED BY <1>2, <2>1, <2>2
  <1>4. TagsWritten(a, b) \in TagMaps
    <2>1. TagsWritten(a, b) \in [DOMAIN a \cup DOMAIN b -> TagValues]
      BY <1>1 DEF TagsWritten
    <2>2. DOMAIN a \cup DOMAIN b \in SUBSET TagKeys
      BY <1>1
    <2> QED BY <1>2, <2>1, <2>2
  <1> QED BY <1>3, <1>4 DEF TagDiff, TagsDeletedByKey, TagsDeletedByPair

LEMMA EmptyMapType == EmptyMap \in TagMaps
  <1>1. EmptyMap \in [{} -> TagValues]
    BY DEF EmptyMap
  <1> QED BY <1>1 DEF TagMaps

LEMMA StoredType ==
    ASSUME NEW spec \in KeyCopies
    PROVE  StoredKey(spec) \in KeyCopies
  BY DEF StoredKey, OmitEmptyMap, KeyCopies

\* The status read is one, or none.
LEMMA RotationType ==
    ASSUME NEW spec, NEW key \in CloudKey, NEW broken,
           NEW rotation \in RotationRead(spec, key, broken)
    PROVE  rotation \in Rotation \cup {Nil}
  BY CloudFields DEF RotationRead

LEMMA LateInitType ==
    ASSUME NEW spec \in KeyCopies, NEW key \in CloudKey,
           NEW rotation \in Rotation \cup {Nil}
    PROVE  lateInitializeKey(spec, key, rotation) \in KeyCopies
  <1> DEFINE basic == [spec EXCEPT
                    !.description = LateInitIfNonZero(@, key.description, ""),
                    !.realm = LateInitIfNonZero(@, key.realm, ""),
                    !.tags = LateInitIfNonZero(@, key.tags, EmptyMap)]
  <1>1. basic \in KeyCopies
    <2>1. /\ LateInitIfNonZero(spec.description, key.description, "")
               \in Descriptions \cup {"", Nil}
          /\ LateInitIfNonZero(spec.realm, key.realm, "") \in Realms \cup {Nil}
          /\ LateInitIfNonZero(spec.tags, key.tags, EmptyMap) \in TagMaps \cup {Nil}
      BY KeyFields, CloudFields DEF LateInitIfNonZero
    <2>2. ASSUME NEW d \in Descriptions \cup {"", Nil}, NEW r \in Realms \cup {Nil},
                 NEW tags \in TagMaps \cup {Nil}
          PROVE  [spec EXCEPT !.description = d, !.realm = r, !.tags = tags] \in KeyCopies
      BY DEF KeyCopies
    <2> QED BY <2>1, <2>2
  <1>2. CASE rotation = Nil
    BY <1>1, <1>2 DEF lateInitializeKey
  <1>3. CASE rotation # Nil
    <2>1. rotation.enabled \in RotationValues /\ rotation.interval \in RotationIntervals
      BY <1>3 DEF Rotation
    <2>2. lateInitializeKey(spec, key, rotation) =
            [basic EXCEPT
                !.rotationEnabled = LateInitPtr(@, rotation.enabled),
                !.rotationInterval =
                    IF rotation.enabled
                    THEN LateInitIfNonZero(@, rotation.interval, 0) ELSE @]
      BY <1>3 DEF lateInitializeKey
    <2> HIDE DEF basic
    <2>3. /\ LateInitPtr(basic.rotationEnabled, rotation.enabled)
               \in RotationValues \cup {Nil}
          /\ (IF rotation.enabled
              THEN LateInitIfNonZero(basic.rotationInterval, rotation.interval, 0)
              ELSE basic.rotationInterval) \in RotationIntervals \cup {Nil}
      BY <1>1, <2>1, KeyFields DEF LateInitPtr, LateInitIfNonZero
    <2> QED BY <1>1, <2>2, <2>3 DEF KeyCopies
  <1> QED BY <1>2, <1>3

LEMMA CreatedTypes ==
    ASSUME NEW spec \in KeyCopies
    PROVE  CreatedKeys(spec) \subseteq CloudKey
  <1>1. Deref(spec.description, "") \in Descriptions \cup {""}
    BY KeyFields DEF Deref
  <1>2. (IF spec.realm = Nil THEN Realms ELSE {spec.realm}) \subseteq Realms
    BY KeyFields
  <1>3. /\ {"WaitingForEnable", "Enabled"} \subseteq KeyStates
        /\ {"kms"} \subseteq KeyOrigins
        /\ [enabled : {FALSE}, interval : RotationIntervals] \subseteq Rotation
    BY KeyAssumption DEF Rotation
  <1>4. spec.keyAlias \in KeyAliases /\ {EmptyMap} \subseteq TagMaps
    BY KeyFields, EmptyMapType
  <1> QED BY <1>1, <1>2, <1>3, <1>4 DEF CreatedKeys, CloudKey

\* All calls of Update, and any first part of them, leave a key.
LEMMA UpdateTypes ==
    ASSUME NEW spec \in KeyCopies, NEW key \in CloudKey, NEW rotation
    PROVE  /\ UpdatedKeys(spec, key, rotation) \subseteq CloudKey
           /\ PartlyUpdatedKeys(spec, key, rotation) \subseteq CloudKey
  <1>1. AfterAlias(spec, key) \in CloudKey
    BY KeyFields, CloudChange DEF AfterAlias
  <1>2. AfterDescription(spec, key) \in CloudKey
    <2>1. Deref(spec.description, "") \in Descriptions \cup {""}
      BY KeyFields DEF Deref
    <2>2. [AfterAlias(spec, key) EXCEPT !.description = Deref(spec.description, "")]
            \in CloudKey
      BY <1>1, <2>1, CloudChange
    <2> QED BY <1>1, <2>2 DEF AfterDescription
  <1>3. AfterEnabled(spec, key) \in CloudKey
    <2>1. (IF spec.enabled THEN "Enabled" ELSE "Disabled") \in KeyStates
      <3>1. /\ "Enabled" \in KeyStates /\ EnabledValues \subseteq BOOLEAN
            /\ FALSE \in EnabledValues => "Disabled" \in KeyStates
        BY KeyAssumption
      <3>2. spec.enabled \in EnabledValues
        BY KeyFields
      <3> QED BY <3>1, <3>2
    <2>2. [AfterDescription(spec, key)
             EXCEPT !.state = IF spec.enabled THEN "Enabled" ELSE "Disabled"] \in CloudKey
      BY <1>2, <2>1, CloudChange
    <2> QED BY <1>2, <2>2 DEF AfterEnabled
  <1>4. AfterRotationEnabled(spec, key, rotation) \in CloudKey
    <2>1. Deref(spec.rotationEnabled, FALSE) \in RotationValues
      BY KeyFields, KeyAssumption DEF Deref
    <2> QED BY <1>3, <2>1, CloudChange DEF AfterRotationEnabled
  <1>5. AfterRotationInterval(spec, key, rotation) \in CloudKey
    <2>1. spec.rotationInterval # Nil => spec.rotationInterval \in RotationIntervals
      BY KeyFields
    <2> QED BY <1>4, <2>1, CloudChange DEF AfterRotationInterval
  <1> DEFINE before == AfterRotationInterval(spec, key, rotation)
             written == AfterTagsCreate(spec, key, before)
             extra == TagDiff(key.tags, spec.tags)
  <1> HIDE DEF before
  <1>6. written \in CloudKey
    <2>1. CASE spec.tags = Nil
      BY <1>5, <2>1 DEF AfterTagsCreate, before
    <2>2. CASE spec.tags # Nil
      <3>1. /\ before \in CloudKey /\ before.tags \in TagMaps
            /\ key.tags \in TagMaps /\ spec.tags \in TagMaps
        BY <1>5, <2>2, KeyFields, CloudFields DEF before
      <3>2. TagsWritten(before.tags, TagDiff(spec.tags, key.tags)) \in TagMaps
        BY <3>1, TagOperations
      <3> QED BY <2>2, <3>1, <3>2, CloudChange DEF AfterTagsCreate
    <2> QED BY <2>1, <2>2
  <1>7. AfterTagsDelete(spec, key, before) \subseteq CloudKey
    <2>1. CASE spec.tags = Nil
      BY <1>5, <2>1 DEF AfterTagsDelete, before
    <2>2. CASE spec.tags # Nil
      <3>1. AfterTagsDelete(spec, key, before) =
              {[written EXCEPT !.tags = TagsDeletedByKey(written.tags, extra)],
               [written EXCEPT !.tags = TagsDeletedByPair(written.tags, extra)]}
        BY <2>2 DEF AfterTagsDelete
      <3>2. extra \in TagMaps /\ written.tags \in TagMaps
        BY <1>6, <2>2, KeyFields, CloudFields, TagOperations
      <3> HIDE DEF written, extra
      <3>3. /\ TagsDeletedByKey(written.tags, extra) \in TagMaps
            /\ TagsDeletedByPair(written.tags, extra) \in TagMaps
        BY <3>2, TagOperations
      <3>4. ASSUME NEW tags \in TagMaps
            PROVE  [written EXCEPT !.tags = tags] \in CloudKey
        BY <1>6, CloudChange
      <3> QED BY <3>1, <3>3, <3>4
    <2> QED BY <2>1, <2>2
  <1>8. UpdatedKeys(spec, key, rotation) \subseteq CloudKey
    BY <1>7 DEF UpdatedKeys, before
  <1>9. PartlyUpdatedKeys(spec, key, rotation) \subseteq CloudKey
    BY <1>1, <1>2, <1>3, <1>4, <1>5, <1>6 DEF PartlyUpdatedKeys, before
  <1> QED BY <1>8, <1>9

LEMMA DeleteTypes ==
    ASSUME NEW key \in CloudKey
    PROVE  /\ RotationStopped(key) \in CloudKey
           /\ [RotationStopped(key) EXCEPT !.state = "PendingDeletion"] \in CloudKey
  <1>1. RotationStopped(key) \in CloudKey
    BY KeyAssumption, CloudChange DEF RotationStopped
  <1> QED BY <1>1, KeyAssumption, CloudChange
----------------------------------------------------------------------------
(* The settings a user has set *)

Kept == {p \in KeyCopies \X KeyCopies : KeepsSettings(p[1], p[2])}

LEMMA KeptPair ==
    ASSUME NEW old \in KeyCopies, NEW new \in KeyCopies
    PROVE  <<old, new>> \in Kept <=> KeepsSettings(old, new)
  <1>1. <<old, new>>[1] = old /\ <<old, new>>[2] = new
    OBVIOUS
  <1>2. <<old, new>> \in KeyCopies \X KeyCopies
    OBVIOUS
  <1> QED BY <1>1, <1>2 DEF Kept

LEMMA KeptReflexive == Reflexive(Kept, KeyCopies)
  BY KeptPair DEF Reflexive, KeepsSettings

\* One spec keeps the settings of another when they agree in what is always
\* set, and on the rest if it was set.
LEMMA KeptFields ==
    ASSUME NEW old \in KeyCopies, NEW spec \in KeyCopies, NEW new \in KeyCopies,
           new.keyAlias = spec.keyAlias, new.enabled = spec.enabled,
           spec.description # Nil => new.description = spec.description,
           spec.realm # Nil => new.realm = spec.realm,
           spec.rotationEnabled # Nil => new.rotationEnabled = spec.rotationEnabled,
           spec.rotationInterval # Nil => new.rotationInterval = spec.rotationInterval,
           spec.tags \notin {EmptyMap, Nil} => new.tags = spec.tags,
           KeepsSettings(old, spec)
    PROVE  KeepsSettings(old, new)
  <1>1. new.keyAlias = old.keyAlias /\ new.enabled = old.enabled
    BY DEF KeepsSettings
  <1>2. ASSUME old.description # Nil
        PROVE  new.description = old.description
    BY <1>2 DEF KeepsSettings
  <1>3. ASSUME old.realm # Nil
        PROVE  new.realm = old.realm
    BY <1>3 DEF KeepsSettings
  <1>4. ASSUME old.rotationEnabled # Nil
        PROVE  new.rotationEnabled = old.rotationEnabled
    BY <1>4 DEF KeepsSettings
  <1>5. ASSUME old.rotationInterval # Nil
        PROVE  new.rotationInterval = old.rotationInterval
    BY <1>5 DEF KeepsSettings
  <1>6. ASSUME OmitEmptyMap(old.tags) # Nil
        PROVE  new.tags = old.tags
    <2>1. spec.tags = old.tags
      BY <1>6 DEF KeepsSettings
    <2>2. old.tags \notin {EmptyMap, Nil}
      BY <1>6 DEF OmitEmptyMap
    <2> QED BY <2>1, <2>2
  <1> QED BY <1>1, <1>2, <1>3, <1>4, <1>5, <1>6 DEF KeepsSettings

\* What late initialisation fills in, and what serialisation drops, was not
\* set.
LEMMA SettingsSurvive ==
    ASSUME NEW old \in KeyCopies, NEW spec \in KeyCopies
    PROVE  /\ <<old, spec>> \in Kept =>
                /\ <<old, StoredKey(spec)>> \in Kept
                /\ \A key \in CloudKey, rotation \in Rotation \cup {Nil} :
                     <<old, lateInitializeKey(spec, key, rotation)>> \in Kept
           /\ <<StoredKey(spec), spec>> \in Kept
  <1>1. ASSUME <<old, spec>> \in Kept
        PROVE  <<old, StoredKey(spec)>> \in Kept
    <2> DEFINE stored == StoredKey(spec)
    <2>1. stored \in KeyCopies
      BY StoredType
    <2>2. /\ stored.keyAlias = spec.keyAlias /\ stored.enabled = spec.enabled
          /\ stored.description = spec.description /\ stored.realm = spec.realm
          /\ stored.rotationEnabled = spec.rotationEnabled
          /\ stored.rotationInterval = spec.rotationInterval
          /\ spec.tags \notin {EmptyMap, Nil} => stored.tags = spec.tags
      BY DEF StoredKey, OmitEmptyMap, KeyCopies
    <2> HIDE DEF stored
    <2>3. KeepsSettings(old, stored)
      BY <1>1, <2>1, <2>2, KeptPair, KeptFields
    <2> QED BY <2>1, <2>3, KeptPair DEF stored
  <1>2. ASSUME <<old, spec>> \in Kept, NEW key \in CloudKey,
               NEW rotation \in Rotation \cup {Nil}
        PROVE  <<old, lateInitializeKey(spec, key, rotation)>> \in Kept
    <2> DEFINE filled == lateInitializeKey(spec, key, rotation)
    <2>1. filled \in KeyCopies
      BY LateInitType
    <2>2. /\ filled.keyAlias = spec.keyAlias /\ filled.enabled = spec.enabled
          /\ spec.description # Nil => filled.description = spec.description
          /\ spec.realm # Nil => filled.realm = spec.realm
          /\ spec.rotationEnabled # Nil => filled.rotationEnabled = spec.rotationEnabled
          /\ spec.rotationInterval # Nil => filled.rotationInterval = spec.rotationInterval
          /\ spec.tags \notin {EmptyMap, Nil} => filled.tags = spec.tags
      BY DEF lateInitializeKey, LateInitIfNonZero, LateInitPtr, KeyCopies
    <2> HIDE DEF filled
    <2>3. KeepsSettings(old, filled)
      BY <1>2, <2>1, <2>2, KeptPair, KeptFields
    <2> QED BY <2>1, <2>3, KeptPair DEF filled
  <1>3. <<StoredKey(spec), spec>> \in Kept
    <2> DEFINE stored == StoredKey(spec)
    <2>1. stored \in KeyCopies
      BY StoredType
    <2>2. /\ spec.keyAlias = stored.keyAlias /\ spec.enabled = stored.enabled
          /\ spec.description = stored.description /\ spec.realm = stored.realm
          /\ spec.rotationEnabled = stored.rotationEnabled
          /\ spec.rotationInterval = stored.rotationInterval
          /\ stored.tags \notin {EmptyMap, Nil} => spec.tags = stored.tags
      BY DEF StoredKey, OmitEmptyMap, KeyCopies
    <2>3. KeepsSettings(stored, stored)
      BY DEF KeepsSettings
    <2> HIDE DEF stored
    <2>4. KeepsSettings(stored, spec)
      BY <2>1, <2>2, <2>3, KeptFields
    <2> QED BY <2>1, <2>4, KeptPair DEF stored
  <1> QED BY <1>1, <1>2, <1>3
----------------------------------------------------------------------------
(* The inductive invariant.  What the loop calls absent is a key pending    *)
(* deletion, whatever the spec, so that Named does not hold: the object may *)
(* name one key after another.  In its place, Known speaks of usable keys.  *)

Pending == {key \in CloudKey : CountsAsAbsent(key)}

Gone == KeyCopies \X Pending

\* A key is created only for an object whose own key is none that can be used
\* any more ...
KeyNames ==
    \A w \in Workers : Creating(w) => mr.extName = Nil \/ ~Usable(mr.extName)

\* ... so that the usable key is the object's, or about to be.
KeysKnown ==
    \A i \in Ids \ lost : Usable(i) => mr.extName = i \/ BeingRecorded(i)

Known == KeyNames /\ KeysKnown

KeySound == Sound(KeyCopies, KeyStates, CloudKey, Gone, Kept)

KeyStep == SoundStep(KeyCopies, KeyStates, CloudKey, Gone, Kept)

IInv ==
    /\ KeySound
    /\ ValidRotation(mr.spec)
    /\ LagBounded => Known

\* What a step does to the settings.
SettingsStep == edits' = edits => KeepsSettings(mr.spec, mr'.spec)

Keeps == IInv' /\ SettingsStep

LEMMA GoneKey ==
    ASSUME NEW spec \in KeyCopies, NEW key \in CloudKey
    PROVE  <<spec, key>> \in Gone <=> CountsAsAbsent(key)
  BY DEF Gone, Pending

LEMMA HoldsCopy ==
    ASSUME IInv, NEW w \in Workers, run[w].pc # "idle"
    PROVE  /\ run[w].obj \in Object(KeyCopies, KeyStates)
           /\ run[w].obj.spec \in KeyCopies
           /\ run[w].obj.extName \in Ids \cup {Nil}
  BY SoundCopy DEF IInv, KeySound, Sound

LEMMA StoredObject ==
    ASSUME IInv
    PROVE  /\ mr \in Object(KeyCopies, KeyStates)
           /\ mr.spec \in KeyCopies
           /\ mr.extName \in Ids \cup {Nil}
  BY SoundObject DEF IInv, KeySound, Sound

\* What can be read is a key.
LEMMA ReadableType ==
    ASSUME IInv, NEW i, (i \in Ids /\ Live(i)) \/ Readable(i)
    PROVE  i \in Ids /\ cloud[i] \in CloudKey
  BY LiveResource DEF IInv, KeySound, Sound

LEMMA NotUnused ==
    ASSUME NEW r \in CloudKey \cup {Deleted}
    PROVE  r # Unused
  BY KeyAssumption

\* Most steps name no key, make none usable that is known, and start no
\* creation.
Calm ==
    /\ mr'.extName = mr.extName
    /\ lost \subseteq lost'
    /\ \A i \in Ids : Usable(i)' => Usable(i) \/ (i \in lost' /\ i # mr.extName)
    /\ \A v \in Workers : Creating(v)' => Creating(v)
    /\ \A v \in Workers : run[v].pc = "persist" =>
         \/ run'[v] = run[v]
         \/ run[v].obj.extName \in lost' \cup {mr.extName}

LEMMA CalmKnown ==
    ASSUME mr.extName \in Ids \cup {Nil}, Known, Calm
    PROVE  Known'
  <1>1. KeyNames'
    <2>1. ASSUME NEW w \in Workers, Creating(w)', NEW i \in Ids, mr'.extName = i
          PROVE  ~Usable(i)'
      <3>1. mr.extName = i /\ Creating(w)
        BY <2>1 DEF Calm
      <3>2. ~Usable(i)
        BY <3>1, NilAssumption DEF Known, KeyNames
      <3> QED BY <3>1, <3>2 DEF Calm
    <2>2. mr'.extName \in Ids \cup {Nil}
      BY DEF Calm
    <2> QED BY <2>1, <2>2 DEF KeyNames, Usable, Live
  <1>2. KeysKnown'
    <2> SUFFICES ASSUME NEW i \in Ids, i \notin lost', Usable(i)', mr'.extName # i
                 PROVE  BeingRecorded(i)'
      BY DEF KeysKnown
    <2>1. i \notin lost /\ Usable(i) /\ mr.extName # i
      BY DEF Calm
    <2>2. PICK v \in Workers : run[v].pc = "persist" /\ run[v].obj.extName = i
      BY <2>1 DEF Known, KeysKnown, BeingRecorded
    <2>3. run'[v] = run[v]
      BY <2>1, <2>2 DEF Calm
    <2> QED BY <2>2, <2>3 DEF BeingRecorded
  <1> QED BY <1>1, <1>2 DEF Known

\* What rests, or has nothing to do with a creation, is calm when it makes no
\* key usable.
LEMMA RestsCalm ==
    ASSUME Rests(Gone), \A i \in Ids : Usable(i)' => Usable(i)
    PROVE  Calm
  <1>1. Quiet
    BY DEF Rests
  <1>2. \A v \in Workers : Creating(v)' => Creating(v)
    BY <1>1 DEF Quiet, Creating, Idle
  <1>3. \A v \in Workers : run[v].pc = "persist" =>
          run'[v] = run[v] \/ run[v].obj.extName \in lost' \cup {mr.extName}
    BY <1>1 DEF Quiet
  <1> QED BY <1>1, <1>2, <1>3 DEF Calm, Quiet, SameObject

LEMMA MovesCalm ==
    ASSUME NEW w \in Workers, Moves(w, Gone),
           \A i \in Ids : Usable(i)' => Usable(i)
    PROVE  Calm
  <1>1. CASE Rests(Gone)
    BY <1>1, RestsCalm
  <1>2. CASE Plans(w, Gone)
    <2>1. PlanStep(w)
      BY <1>2 DEF Plans
    <2>2. \A v \in Workers : Creating(v)' => Creating(v)
      BY <2>1 DEF PlanStep, Creating, Planning
    <2>3. \A v \in Workers : run[v].pc = "persist" => run'[v] = run[v]
      BY <2>1 DEF PlanStep, Creating
    <2> QED BY <2>1, <2>2, <2>3 DEF Calm, PlanStep
  <1> QED BY <1>1, <1>2 DEF Moves

LEMMA SameCloud ==
    ASSUME UNCHANGED cloud
    PROVE  \A i \in Ids : Usable(i)' => Usable(i)
  BY DEF Usable, Live

\* A step of the loop writes no spec, or one that admission accepts.
LEMMA Assembled ==
    ASSUME IInv, KeyStep, SpecsRest \/ ValidRotation(mr'.spec),
           Calm \/ (LagBounded => Known')
    PROVE  Keeps
  <1>1. mr.spec \in KeyCopies /\ mr'.spec \in KeyCopies
    <2>1. mr \in Object(KeyCopies, KeyStates) /\ mr' \in Object(KeyCopies, KeyStates)
      BY DEF IInv, KeySound, KeyStep, SoundStep, Sound, TypeWith
    <2> QED BY <2>1 DEF Object
  <1>2. KeepsSettings(mr.spec, mr'.spec)
    BY <1>1, KeptPair DEF KeyStep, SoundStep
  <1>3. ValidRotation(mr'.spec)
    BY DEF IInv, SpecsRest
  <1>4. KeySound'
    BY DEF KeySound, KeyStep, SoundStep
  <1>5. LagBounded => Known'
    BY StoredObject, CalmKnown DEF IInv
  <1> QED BY <1>2, <1>3, <1>4, <1>5 DEF Keeps, IInv, SettingsStep
----------------------------------------------------------------------------
(* Its preservation, handler by handler *)

LEMMA ObservedKeeps ==
    ASSUME IInv, NEW w \in Workers, Counted,
           NEW object \in Object(KeyCopies, KeyStates),
           NEW found \in Observation,
           SameCopy(object, run[w].obj), Observed(w, object, found),
           \/ found.exists
           \/ ~Readable(object.extName)
           \/ CountsAsAbsent(cloud[object.extName]),
           <<mr.spec, run[w].obj.spec>> \in Kept => <<mr.spec, object.spec>> \in Kept
    PROVE  Keeps
  <1>1. \/ found.exists
        \/ ~Readable(object.extName)
        \/ <<mr.spec, cloud[object.extName]>> \in Gone
    BY ReadableType, StoredObject, GoneKey
  <1>2. KeyStep
    BY <1>1, KeptReflexive, ObservedSound DEF IInv, KeySound, KeyStep
  <1>3. Moves(w, Gone)
    BY <1>1, ObservedMoves DEF IInv, KeySound, Sound
  <1>4. Calm
    BY <1>3, SameCloud, MovesCalm DEF Observed
  <1>5. mr'.spec = mr.spec
    <2>1. UNCHANGED mr \/ Finish(w, object)
      BY DEF Observed
    <2> QED BY <2>1, FinishSpecs DEF IInv, KeySound, Sound, SpecsRest
  <1> QED BY <1>2, <1>4, <1>5, Assembled DEF IInv

LEMMA FailedKeeps ==
    ASSUME IInv, NEW w \in Workers, Counted,
           ObserveFailed(w) \/ UpdateObjectFails(w)
    PROVE  Keeps
  <1>1. KeyStep /\ SpecsRest
    BY KeptReflexive, ObserveFailedSound, UpdateObjectFailsSound, RunSpecs
       DEF IInv, KeySound, KeyStep, Sound
  <1>2. Moves(w, Gone)
    BY ObserveFailedMoves DEF IInv, KeySound, Sound
  <1>3. Calm
    BY <1>2, SameCloud, MovesCalm DEF ObserveFailed, UpdateObjectFails
  <1> QED BY <1>1, <1>3, Assembled

LEMMA ObserveKeyKeeps ==
    ASSUME IInv, NEW w \in Workers, run[w].pc = "observe", Counted,
           Readable(run[w].obj.extName), NEW broken,
           NEW r \in RotationRead(run[w].obj.spec, cloud[run[w].obj.extName], broken),
           ObserveKey(w, r)
    PROVE  Keeps
  <1> DEFINE obj == run[w].obj
             key == cloud[obj.extName]
             spec == lateInitializeKey(obj.spec, key, r)
             filled == [obj EXCEPT !.spec = spec, !.status = key.state]
             obs == [exists |-> TRUE, lateInit |-> spec # obj.spec,
                     upToDate |-> isKeyUpToDate(spec, key, r)]
  <1>1. obj \in Object(KeyCopies, KeyStates) /\ obj.spec \in KeyCopies
    BY HoldsCopy
  <1>2. key \in CloudKey
    BY ReadableType
  <1>3. r \in Rotation \cup {Nil}
    BY <1>2, RotationType
  <1>4. spec \in KeyCopies /\ key.state \in KeyStates
    BY <1>1, <1>2, <1>3, LateInitType, CloudFields
  <1>5. <<mr.spec, obj.spec>> \in Kept => <<mr.spec, spec>> \in Kept
    BY <1>1, <1>2, <1>3, StoredObject, SettingsSurvive
  <1>6. obs \in Observation /\ obs.exists
    <2>1. spec.enabled \in BOOLEAN
      BY <1>4, KeyFields, KeyAssumption
    <2>2. isKeyUpToDate(spec, key, r) \in BOOLEAN
      BY <2>1 DEF isKeyUpToDate, isEnabledUpToDate, isRotationUpToDate
    <2> QED BY <2>2 DEF Observation
  <1>7. Observed(w, filled, obs)
    BY DEF ObserveKey
  <1> HIDE DEF obj, key, spec, obs
  <1>8. /\ filled \in Object(KeyCopies, KeyStates)
        /\ filled.spec = spec /\ SameCopy(filled, obj)
    BY <1>1, <1>4 DEF Object, SameCopy
  <1> HIDE DEF filled
  <1> QED BY <1>5, <1>6, <1>7, <1>8, ObservedKeeps DEF obj

LEMMA ObserveKeeps ==
    ASSUME IInv, NEW w \in Workers, run[w].pc = "observe", Observe(w)
    PROVE  Keeps
  <1> DEFINE obj == run[w].obj
             key == cloud[obj.extName]
             seen == [obj EXCEPT !.status = key.state]
  <1>1. obj \in Object(KeyCopies, KeyStates) /\ SameCopy(obj, obj)
    BY HoldsCopy DEF SameCopy
  <1>2. Unobserved \in Observation
    BY DEF Unobserved, Observation
  <1>3. Counted
    BY DEF Observe, Counted
  <1>4. CASE ~Readable(obj.extName) /\ Observed(w, obj, Unobserved)
    <2> HIDE DEF obj
    <2> QED BY <1>1, <1>2, <1>3, <1>4, ObservedKeeps DEF obj
  <1>5. CASE /\ Readable(obj.extName) /\ CountsAsAbsent(key)
             /\ Observed(w, seen, Unobserved)
    <2>1. key.state \in KeyStates
      BY <1>5, ReadableType, CloudFields
    <2> HIDE DEF obj, key
    <2>2. /\ seen \in Object(KeyCopies, KeyStates)
          /\ seen.spec = obj.spec /\ SameCopy(seen, obj)
      BY <1>1, <2>1, ChangedStatus
    <2>3. seen.extName = obj.extName
      BY <2>2 DEF SameCopy
    <2> HIDE DEF seen
    <2> QED BY <1>2, <1>3, <1>5, <2>2, <2>3, ObservedKeeps DEF obj, key
  <1>6. CASE ObserveFailed(w)
    BY <1>3, <1>6, FailedKeeps
  <1>7. ASSUME Readable(obj.extName), NEW broken,
               NEW r \in RotationRead(obj.spec, key, broken), ObserveKey(w, r)
        PROVE  Keeps
    BY <1>3, <1>7, ObserveKeyKeeps
  <1>8. \/ ~Readable(obj.extName) /\ Observed(w, obj, Unobserved)
        \/ /\ Readable(obj.extName) /\ CountsAsAbsent(key)
           /\ Observed(w, seen, Unobserved)
        \/ ObserveFailed(w)
        \/ /\ Readable(obj.extName)
           /\ \E broken \in BOOLEAN : \E r \in RotationRead(obj.spec, key, broken) :
                 ObserveKey(w, r)
    <2>1. RotationBroken(key) \in BOOLEAN
      BY DEF RotationBroken
    <2> QED BY <2>1 DEF Observe
  <1> HIDE DEF obj, key, seen
  <1> QED BY <1>4, <1>5, <1>6, <1>7, <1>8
\* A new key is usable, and the only one: the object's own was not.
LEMMA CreateReturnsKnown ==
    ASSUME IInv, Known, NEW w \in Workers, NEW key,
           CreateReturns(w, key, run[w].obj)
    PROVE  Known'
  <1>0. run[w].pc = "create" /\ UNCHANGED <<mr, lost>>
    BY DEF CreateReturns
  <1>1. PICK i \in Ids :
          /\ cloud[i] = Unused
          /\ cloud' = [cloud EXCEPT ![i] = key]
          /\ Goto(w, "persist", [run[w].obj EXCEPT !.extName = i], run[w].obs)
    BY DEF CreateReturns
  <1>2. run[w].obj \in Object(KeyCopies, KeyStates)
    BY <1>0, HoldsCopy
  <1> DEFINE named == [run[w].obj EXCEPT !.extName = i]
  <1>3. Goto(w, "persist", named, run[w].obs) /\ named.extName = i
    BY <1>1, <1>2 DEF Object
  <1> HIDE DEF named
  <1>4. run'[w].pc = "persist" /\ run'[w].obj.extName = i
    BY <1>3, GotoRun DEF IInv, KeySound, Sound
  <1>5. /\ \A v \in Workers : Creating(v) => v = w
        /\ mr.extName # Nil => cloud[mr.extName] # Unused
    BY <1>0 DEF IInv, KeySound, Sound, Announced, OneCreator, NameInUse, Creating
  <1>6. \A j \in Ids : j # i => cloud'[j] = cloud[j]
    BY <1>1 DEF IInv, KeySound, Sound, TypeWith
  <1>7. mr.extName = Nil \/ ~Usable(mr.extName)
    BY <1>0 DEF Known, KeyNames, Creating
  <1>8. mr.extName \in Ids \cup {Nil}
    BY StoredObject
  <1>9. KeyNames'
    <2>1. CASE mr.extName = Nil
      BY <1>0, <2>1 DEF KeyNames
    <2>2. CASE mr.extName # Nil
      <3>1. mr.extName \in Ids /\ mr.extName # i
        BY <1>1, <1>5, <1>8, <2>2
      <3> QED BY <1>0, <1>6, <1>7, <2>2, <3>1 DEF KeyNames, Usable, Live
    <2> QED BY <2>1, <2>2
  <1>10. KeysKnown'
    <2> SUFFICES ASSUME NEW j \in Ids, j \notin lost', Usable(j)'
                 PROVE  BeingRecorded(j)'
      BY DEF KeysKnown
    <2>1. CASE j = i
      BY <1>4, <2>1 DEF BeingRecorded
    <2>2. CASE j # i
      <3>1. Usable(j) /\ j \notin lost
        BY <1>0, <1>6, <2>2 DEF Usable, Live
      <3>2. BeingRecorded(j)
        BY <1>7, <1>8, <3>1, NilAssumption DEF Known, KeysKnown
      <3>3. run[w].pc = "persist"
        BY <1>5, <3>2 DEF BeingRecorded, Creating
      <3> QED BY <1>0, <3>3
    <2> QED BY <2>1, <2>2
  <1> QED BY <1>9, <1>10 DEF Known

\* A key whose creation was not answered is lost.
LEMMA CreateEndsCalm ==
    ASSUME IInv, NEW w \in Workers, NEW key,
           CreateSkipped(w) \/ CreateFails(w, key)
    PROVE  Calm
  <1>1. CASE CreateSkipped(w)
    <2>1. /\ run[w].pc = "create" /\ UNCHANGED <<mr, cloud, lost>>
          /\ Goto(w, "persist", run[w].obj, run[w].obs)
      BY <1>1 DEF CreateSkipped
    <2>2. \A v \in Workers \ {w} : run'[v] = run[v]
      BY <2>1, GotoRun DEF IInv, KeySound, Sound
    <2> QED BY <2>1, <2>2 DEF Calm, Creating, Usable, Live
  <1>2. CASE CreateFails(w, key)
    <2>1. /\ run[w].pc = "create" /\ UNCHANGED mr
          /\ Goto(w, "persistFailed", run[w].obj, run[w].obs)
      BY <1>2 DEF CreateFails
    <2>2. \A v \in Workers \ {w} : run'[v] = run[v]
      BY <2>1, GotoRun DEF IInv, KeySound, Sound
    <2>3. mr.extName # Nil => cloud[mr.extName] # Unused
      BY DEF IInv, KeySound, Sound, Announced, NameInUse
    <2>4. /\ lost \subseteq lost'
          /\ \A j \in Ids : \/ cloud'[j] = cloud[j]
                            \/ j \in lost' /\ cloud[j] = Unused
      BY <1>2 DEF CreateFails, IInv, KeySound, Sound, TypeWith
    <2>5. \A j \in Ids : Usable(j)' => Usable(j) \/ (j \in lost' /\ j # mr.extName)
      BY <2>3, <2>4, NilAssumption DEF Usable, Live
    <2> QED BY <2>1, <2>2, <2>4, <2>5 DEF Calm, Creating
  <1> QED BY <1>1, <1>2

LEMMA CreateKeeps ==
    ASSUME IInv, NEW w \in Workers, run[w].pc = "create", Create(w)
    PROVE  Keeps
  <1> DEFINE obj == run[w].obj
  <1>1. obj \in Object(KeyCopies, KeyStates) /\ obj.spec \in KeyCopies
    BY HoldsCopy
  <1>2. CASE TakenAsCreated(obj) /\ CreateSkipped(w)
    <2>1. obj.extName # Nil
      BY <1>2 DEF TakenAsCreated
    <2>2. KeyStep /\ SpecsRest
      BY <1>2, <2>1, KeptReflexive, CreateSkippedSound, RunSpecs
         DEF IInv, KeySound, KeyStep, Sound
    <2> QED BY <1>2, <2>2, CreateEndsCalm, Assembled
  <1>3. ASSUME NEW key \in CreatedKeys(obj.spec),
               CreateReturns(w, key, obj) \/ CreateFails(w, key)
        PROVE  Keeps
    <2>1. key \in CloudKey /\ key # Unused
      BY <1>1, CreatedTypes, NotUnused
    <2>2. KeyStep
      BY <1>1, <1>3, <2>1, KeptReflexive, CreateSound DEF IInv, KeySound, KeyStep
    <2>3. SpecsRest
      BY <1>3, RunSpecs DEF IInv, KeySound, Sound
    <2>4. Calm \/ (LagBounded => Known')
      BY <1>3, CreateReturnsKnown, CreateEndsCalm DEF IInv
    <2> QED BY <2>2, <2>3, <2>4, Assembled
  <1> QED BY <1>2, <1>3 DEF Create, CreateSucceeds

\* The record gives the object the name of the one usable key.
LEMMA RecordKeeps ==
    ASSUME IInv, NEW w \in Workers, RecordCreate(w) \/ RecordFailedCreate(w)
    PROVE  Keeps
  <1>1. mr \in Object(KeyCopies, KeyStates) /\ SameCopy(mr, mr)
    BY StoredObject DEF SameCopy
  <1>2. <<mr.spec, mr.spec>> \in Kept
    BY StoredObject, KeptReflexive DEF Reflexive
  <1>3. KeyStep
    BY <1>1, <1>2, KeptReflexive, RecordSound
       DEF IInv, KeySound, KeyStep, RecordCreate
  <1>4. mr'.spec = mr.spec
    BY <1>1 DEF RecordCreate, RecordCreateIn, RecordFailedCreate, Store, Object
  <1>5. /\ run'[w] = Idle /\ \A v \in Workers \ {w} : run'[v] = run[v]
        /\ UNCHANGED <<cloud, lost>>
    BY StopRun DEF IInv, KeySound, Sound, RecordCreate, RecordCreateIn, RecordFailedCreate
  <1>6. ASSUME RecordCreate(w), Known
        PROVE  Known'
    <2>1. run[w].pc = "persist" /\ mr'.extName = run[w].obj.extName
      BY <1>1, <1>6 DEF RecordCreate, RecordCreateIn, Store, Object
    <2>2. \A v \in Workers : Creating(v) => v = w
      BY <2>1 DEF IInv, KeySound, Sound, Announced, OneCreator, Creating
    <2>3. KeyNames'
      BY <1>5, <2>2 DEF KeyNames, Creating, Idle
    <2>4. mr.extName = Nil \/ ~Usable(mr.extName)
      BY <1>6, <2>1 DEF Known, KeyNames, Creating
    <2>5. KeysKnown'
      <3> SUFFICES ASSUME NEW j \in Ids, j \notin lost', Usable(j)'
                   PROVE  mr'.extName = j
        BY DEF KeysKnown
      <3>1. Usable(j) /\ j \notin lost
        BY <1>5 DEF Usable, Live
      <3>2. BeingRecorded(j)
        BY <1>6, <2>4, <3>1, NilAssumption DEF Known, KeysKnown
      <3>3. run[w].obj.extName = j
        BY <2>2, <3>2 DEF BeingRecorded, Creating
      <3> QED BY <2>1, <3>3
    <2> QED BY <2>3, <2>5 DEF Known
  <1>7. ASSUME RecordFailedCreate(w)
        PROVE  Calm
    <2>1. run[w].pc = "persistFailed" /\ mr'.extName = mr.extName
      BY <1>1, <1>7 DEF RecordFailedCreate, Store, Object
    <2> QED BY <1>5, <2>1 DEF Calm, Creating, Idle, Usable, Live
  <1>8. Calm \/ (LagBounded => Known')
    BY <1>6, <1>7 DEF IInv
  <1> QED BY <1>3, <1>4, <1>8, Assembled DEF IInv
\* Update and Delete leave a key where there was a usable one.
LEMMA ExternalKeeps ==
    ASSUME IInv, NEW w \in Workers, NEW pc \in {"update", "delete"},
           NEW key \in CloudKey, External(w, pc, key, run[w].obj),
           Readable(run[w].obj.extName),
           ~CountsAsAbsent(cloud[run[w].obj.extName]), Counted
    PROVE  Keeps
  <1> DEFINE i == run[w].obj.extName
  <1>1. run[w].obj \in Object(KeyCopies, KeyStates)
    BY HoldsCopy DEF External
  <1>2. i \in Ids /\ cloud[i] \in CloudKey /\ Live(i)
    BY ReadableType DEF Readable
  <1>3. key \in CloudKey \cup {Deleted} /\ key # Unused
    BY NotUnused
  <1>4. LeftAbsent(Gone, cloud[i], key) /\ (<<mr.spec, cloud[i]>> \notin Gone)
    BY <1>2, StoredObject, GoneKey DEF LeftAbsent
  <1>5. KeyStep
    BY <1>1, <1>3, <1>4, KeptReflexive, ExternalSound DEF IInv, KeySound, KeyStep
  <1>6. SpecsRest
    BY RunSpecs DEF IInv, KeySound, Sound
  <1>7. Moves(w, Gone)
    BY <1>2, <1>3, <1>4, ExternalMoves DEF IInv, KeySound, Sound
  <1>8. \A j \in Ids : Usable(j)' => Usable(j)
    <2>1. Usable(i)
      BY <1>2 DEF Usable, CountsAsAbsent
    <2>2. \A j \in Ids : j # i => cloud'[j] = cloud[j]
      BY DEF External, IInv, KeySound, Sound, TypeWith
    <2> HIDE DEF i
    <2> QED BY <2>1, <2>2 DEF Usable, Live
  <1>9. Calm
    BY <1>7, <1>8, MovesCalm
  <1> QED BY <1>5, <1>6, <1>9, Assembled

\* ... or nothing changed.
LEMMA UnchangedKeeps ==
    ASSUME IInv, NEW w \in Workers, NEW pc \in {"update", "delete"},
           ExternalUnchanged(w, pc, run[w].obj), Counted
    PROVE  Keeps
  <1>1. run[w].obj \in Object(KeyCopies, KeyStates)
    BY HoldsCopy DEF ExternalUnchanged
  <1>2. KeyStep
    BY <1>1, KeptReflexive, UnchangedSound DEF IInv, KeySound, KeyStep
  <1>3. SpecsRest
    BY RunSpecs DEF IInv, KeySound, Sound
  <1>4. Rests(Gone)
    BY FinishOnlyRests DEF ExternalUnchanged, IInv, KeySound, Sound
  <1>5. Calm
    BY <1>4, SameCloud, RestsCalm DEF ExternalUnchanged
  <1> QED BY <1>2, <1>3, <1>5, Assembled

LEMMA UpdateKeeps ==
    ASSUME IInv, NEW w \in Workers, run[w].pc = "update", Update(w)
    PROVE  Keeps
  <1> DEFINE obj == run[w].obj
             key == cloud[obj.extName]
             can == Readable(obj.extName) /\ CanUpdate(obj.spec, key)
  <1>1. Counted
    BY DEF Update, Counted
  <1>2. CASE ExternalUnchanged(w, "update", obj)
    BY <1>1, <1>2, UnchangedKeeps
  <1>3. ASSUME can, NEW r,
               NEW k \in UpdatedKeys(obj.spec, key, r) \cup PartlyUpdatedKeys(obj.spec, key, r),
               External(w, "update", k, obj)
        PROVE  Keeps
    <2>1. key \in CloudKey /\ obj.spec \in KeyCopies /\ ~CountsAsAbsent(key)
      BY <1>3, ReadableType, HoldsCopy DEF CanUpdate
    <2>2. k \in CloudKey
      BY <2>1, UpdateTypes
    <2> QED BY <1>1, <1>3, <2>1, <2>2, ExternalKeeps
  <1>4. \/ ExternalUnchanged(w, "update", obj)
        \/ /\ can
           /\ \E r : \E k \in UpdatedKeys(obj.spec, key, r)
                                \cup PartlyUpdatedKeys(obj.spec, key, r) :
                 External(w, "update", k, obj)
    BY DEF Update
  <1> HIDE DEF obj, key, can
  <1> QED BY <1>2, <1>3, <1>4

LEMMA DeleteKeeps ==
    ASSUME IInv, NEW w \in Workers, run[w].pc = "delete", Delete(w)
    PROVE  Keeps
  <1> DEFINE obj == run[w].obj
             key == cloud[obj.extName]
             leaving == [RotationStopped(key) EXCEPT !.state = "PendingDeletion"]
  <1>1. Counted
    BY DEF Delete, Counted
  <1>2. CASE ExternalUnchanged(w, "delete", obj)
    BY <1>1, <1>2, UnchangedKeeps
  <1>3. ASSUME Readable(obj.extName), ~CountsAsAbsent(key),
               NEW k \in {leaving, key, RotationStopped(key)},
               External(w, "delete", k, obj)
        PROVE  Keeps
    <2>1. key \in CloudKey
      BY <1>3, ReadableType
    <2>2. k \in CloudKey
      BY <2>1, DeleteTypes
    <2> QED BY <1>1, <1>3, <2>2, ExternalKeeps
  <1>4. \/ ExternalUnchanged(w, "delete", obj)
        \/ /\ Readable(obj.extName) /\ ~CountsAsAbsent(key)
           /\ \E k \in {leaving, key, RotationStopped(key)} :
                 External(w, "delete", k, obj)
    BY DEF Delete
  <1> HIDE DEF obj, key, leaving
  <1> QED BY <1>2, <1>3, <1>4

\* The announcement comes of a fresh copy that was right about the absence:
\* the object has no usable key when its creator starts.
LEMMA AnnounceKnown ==
    ASSUME IInv, LagBounded, NEW w \in Workers,
           NEW stored, NEW admitted \in BOOLEAN,
           AnnounceCreate(w, stored, admitted)
    PROVE  Known'
  <1> DEFINE changed == [run[w].obj EXCEPT !.create = "pending"]
  <1>1. /\ run[w].pc = "announce"
        /\ UpdateObject(w, changed, stored, admitted, "create")
        /\ UNCHANGED <<cloud, hidden, grace, lost>>
    BY DEF AnnounceCreate
  <1>2. run[w].obj \in Object(KeyCopies, KeyStates)
    BY <1>1, HoldsCopy
  <1>3. CASE ~(fresh[w] /\ admitted)
    <2> HIDE DEF changed
    <2>1. Rests(Gone)
      BY <1>1, <1>3, RefusedWriteRests DEF IInv, KeySound, Sound
    <2>2. Calm
      BY <1>1, <2>1, SameCloud, RestsCalm
    <2> QED BY <2>2, StoredObject, CalmKnown DEF IInv
  <1>4. CASE fresh[w] /\ admitted
    <2> DEFINE kept == [changed EXCEPT !.status = ReplyStatus(changed)]
    <2>1. /\ mr' = [changed EXCEPT !.spec = stored, !.status = mr.status]
          /\ Goto(w, "create", kept, run[w].obs)
      BY <1>1, <1>4 DEF UpdateObject, Store, GoOn
    <2>2. \A v \in Workers \ {w} : run'[v] = run[v]
      <3> HIDE DEF kept
      <3> QED BY <2>1, GotoRun DEF IInv, KeySound, Sound
    <2>3. mr'.extName = mr.extName
      <3>1. run[w].obj.extName = mr.extName
        BY <1>1, <1>4 DEF IInv, KeySound, Sound, Announced, CopiesAgree, Planning
      <3> QED BY <1>2, <2>1, <3>1 DEF Object
    <2>4. mr.extName = Nil \/ ~Usable(mr.extName)
      <3>1. Missing(Gone)
        BY <1>1, <1>4
           DEF IInv, KeySound, Sound, Absence, AbsenceIsTrue, ActsOnAbsence
      <3>2. CASE <<mr.spec, cloud[mr.extName]>> \in Gone
        BY <3>2 DEF Gone, Pending, CountsAsAbsent, Usable
      <3> QED BY <3>1, <3>2 DEF Missing, Usable
    <2>5. KeyNames'
      BY <1>1, <2>3, <2>4 DEF KeyNames, Usable, Live
    <2>6. KeysKnown'
      <3> SUFFICES ASSUME NEW j \in Ids, j \notin lost', Usable(j)', mr'.extName # j
                   PROVE  BeingRecorded(j)'
        BY DEF KeysKnown
      <3>1. Usable(j) /\ j \notin lost
        BY <1>1 DEF Usable, Live
      <3>2. PICK v \in Workers : run[v].pc = "persist" /\ run[v].obj.extName = j
        BY <2>3, <3>1 DEF IInv, Known, KeysKnown, BeingRecorded
      <3> QED BY <1>1, <2>2, <3>2 DEF BeingRecorded
    <2> QED BY <2>5, <2>6 DEF Known
  <1> QED BY <1>3, <1>4
\* The three writes of the object before Create, Update and Delete.
LEMMA ObjectWriteKeeps ==
    ASSUME IInv, NEW w \in Workers,
           NEW stored, stored = StoredKey(run[w].obj.spec),
           NEW admitted \in BOOLEAN, admitted => ValidRotation(stored),
           \/ AddFinalizer(w, stored, admitted)
           \/ AnnounceCreate(w, stored, admitted)
           \/ LateInitialize(w, stored, admitted)
    PROVE  Keeps
  <1>1. run[w].pc # "idle"
    BY DEF AddFinalizer, AnnounceCreate, LateInitialize
  <1>2. run[w].obj \in Object(KeyCopies, KeyStates) /\ run[w].obj.spec \in KeyCopies
    BY <1>1, HoldsCopy
  <1>3. stored \in KeyCopies
    BY <1>2, StoredType
  <1>4. /\ <<mr.spec, run[w].obj.spec>> \in Kept => <<mr.spec, stored>> \in Kept
        /\ <<stored, run[w].obj.spec>> \in Kept
    BY <1>2, StoredObject, SettingsSurvive
  <1>5. \A c : <<mr.spec, c>> \in Gone => <<stored, c>> \in Gone
    BY <1>3 DEF Gone
  <1>6. KeyStep
    BY <1>3, <1>4, <1>5, KeptReflexive, ObjectWriteSound
       DEF IInv, KeySound, KeyStep
  <1>7. ValidRotation(mr'.spec)
    <2>1. ASSUME NEW changed \in Object(KeyCopies, KeyStates), NEW pc,
                 UpdateObject(w, changed, stored, admitted, pc)
          PROVE  ValidRotation(mr'.spec)
      <3>1. CASE ~(fresh[w] /\ admitted)
        <4>1. UNCHANGED mr \/ Finish(w, run[w].obj)
          BY <2>1, <3>1 DEF UpdateObject
        <4>2. mr'.spec = mr.spec
          BY <4>1, FinishSpecs DEF IInv, KeySound, Sound, SpecsRest
        <4> QED BY <4>2 DEF IInv
      <3>2. CASE fresh[w] /\ admitted
        <4>1. mr' = [changed EXCEPT !.spec = stored, !.status = mr.status]
          BY <2>1, <3>2 DEF UpdateObject, Store
        <4>2. mr'.spec = stored
          BY <4>1 DEF Object
        <4> QED BY <3>2, <4>2
      <3> QED BY <3>1, <3>2
    <2>2. /\ [run[w].obj EXCEPT !.finalizer = TRUE] \in Object(KeyCopies, KeyStates)
          /\ [run[w].obj EXCEPT !.create = "pending"] \in Object(KeyCopies, KeyStates)
      BY <1>2 DEF Object, CreateStates
    <2> QED BY <1>2, <2>1, <2>2 DEF AddFinalizer, AnnounceCreate, LateInitialize
  <1>8. Calm \/ (LagBounded => Known')
    <2>1. CASE AddFinalizer(w, stored, admitted)
      <3>1. Moves(w, Gone)
        BY <1>5, <2>1, AddFinalizerMoves DEF IInv, KeySound, Sound
      <3> QED BY <2>1, <3>1, SameCloud, MovesCalm DEF AddFinalizer
    <2>2. CASE LateInitialize(w, stored, admitted)
      <3>1. Moves(w, Gone)
        BY <2>2, LateInitializeMoves DEF IInv, KeySound, Sound
      <3> QED BY <2>2, <3>1, SameCloud, MovesCalm DEF LateInitialize
    <2>3. CASE AnnounceCreate(w, stored, admitted)
      BY <2>3, AnnounceKnown
    <2> QED BY <2>1, <2>2, <2>3
  <1> QED BY <1>6, <1>7, <1>8, Assembled

\* With no creation under way, what the object does not name pends deletion.
LEMMA KnownAccounts ==
    ASSUME IInv, Known
    PROVE  Accounted(Gone)
  <1> SUFFICES ASSUME \A v \in Workers : ~Creating(v),
                      NEW i \in Ids, i \notin lost, Live(i), mr.extName # i
               PROVE  <<mr.spec, cloud[i]>> \in Gone
    BY DEF Accounted
  <1>1. ~Usable(i)
    BY DEF Known, KeysKnown, BeingRecorded, Creating
  <1>2. mr.spec \in KeyCopies /\ cloud[i] \in CloudKey
    BY StoredObject, ReadableType
  <1> QED BY <1>1, <1>2, GoneKey DEF Usable, CountsAsAbsent

LEMMA RemoveFinalizerKeeps ==
    ASSUME IInv, NEW w \in Workers, RemoveFinalizer(w)
    PROVE  Keeps
  <1>1. LagBounded => Accounted(Gone)
    BY KnownAccounts DEF IInv
  <1>2. KeyStep
    BY <1>1, KeptReflexive, RemoveFinalizerSound DEF IInv, KeySound, KeyStep
  <1>3. SpecsRest
    BY RunSpecs DEF IInv, KeySound, Sound
  <1>4. /\ run[w].pc = "unfinalize" /\ UNCHANGED <<cloud, lost>>
        /\ run'[w] = Idle /\ \A v \in Workers \ {w} : run'[v] = run[v]
    BY StopRun DEF RemoveFinalizer, IInv, KeySound, Sound
  <1>5. mr'.extName = mr.extName
    BY StoredObject DEF RemoveFinalizer, Store, Object
  <1>6. Calm
    BY <1>4, <1>5, SameCloud DEF Calm, Creating, Idle
  <1> QED BY <1>2, <1>3, <1>6, Assembled

LEMMA ReconcileKeeps ==
    ASSUME IInv, NEW w \in Workers, Reconcile(w)
    PROVE  Keeps
  <1> DEFINE stored == StoredKey(run[w].obj.spec)
             admitted == AdmittedKey(mr.spec, stored)
  <1>1. CASE \/ AddFinalizer(w, stored, admitted)
             \/ AnnounceCreate(w, stored, admitted)
             \/ LateInitialize(w, stored, admitted)
    <2>1. admitted \in BOOLEAN /\ (admitted => ValidRotation(stored))
      BY DEF AdmittedKey
    <2> HIDE DEF admitted
    <2> QED BY <1>1, <2>1, ObjectWriteKeeps
  <1>2. CASE UpdateObjectFails(w)
    <2>1. Counted
      BY <1>2 DEF UpdateObjectFails, Counted
    <2> QED BY <1>2, <2>1, FailedKeeps
  <1> HIDE DEF stored, admitted
  <1> QED BY <1>1, <1>2, ObserveKeeps, CreateKeeps, RecordKeeps, UpdateKeeps,
             DeleteKeeps, RemoveFinalizerKeeps
          DEF Reconcile, stored, admitted

\* The service and other clients change, or destroy, keys that are not both
\* pending deletion and used again.
LEMMA CloudKeeps ==
    ASSUME IInv, NEW i \in Ids, NEW key \in CloudKey \cup {Deleted}, Live(i),
           key = Deleted \/ ~CountsAsAbsent(cloud[i]),
           cloud' = [cloud EXCEPT ![i] = key],
           UNCHANGED <<mr, run, fresh, hidden, grace, lost>>, Counted
    PROVE  Keeps
  <1>1. key # Unused /\ cloud[i] \in CloudKey
    BY NotUnused, ReadableType
  <1>2. LeftAbsent(Gone, cloud[i], key)
    BY <1>1, StoredObject, GoneKey DEF LeftAbsent
  <1>3. KeyStep
    BY <1>1, <1>2, KeptReflexive, CloudSound DEF IInv, KeySound, KeyStep
  <1>4. Rests(Gone)
    BY <1>1, <1>2, CloudRests DEF LeftAbsent, IInv, KeySound, Sound
  <1>5. \A j \in Ids : Usable(j)' => Usable(j)
    <2>1. \A j \in Ids : cloud'[j] = IF j = i THEN key ELSE cloud[j]
      BY DEF IInv, KeySound, Sound, TypeWith
    <2> QED BY <2>1 DEF Usable, Live, CountsAsAbsent
  <1>6. Calm
    BY <1>4, <1>5, RestsCalm
  <1> QED BY <1>3, <1>6, UnchangedSpecs, Assembled

LEMMA OutsideKeeps ==
    ASSUME IInv,
           \/ UserEdit
           \/ DeleteObject
           \/ \E i \in Ids : Drift(i) \/ FinishCreation(i) \/ BecomeReadable(i)
           \/ EndGracePeriod
    PROVE  Keeps
  <1>1. Unused # Deleted
    BY KeyAssumption
  <1>2. CASE UserEdit
    <2>1. PICK spec \in Applied : AdmittedKey(mr.spec, spec) /\ EditSpec(spec)
      BY <1>2 DEF UserEdit
    <2>2. spec \in KeyCopies /\ ValidRotation(spec)
      BY KeyAssumption DEF KeyParameters
    <2>3. KeySound' /\ edits' # edits /\ mr'.spec = spec
      BY <1>1, <2>1, <2>2, KeptReflexive, EditSound DEF IInv, KeySound
    <2>4. Rests(Gone)
      BY <1>1, <2>1, <2>2, OutsideRests DEF IInv, KeySound, Sound
    <2>5. Calm
      BY <2>1, <2>4, SameCloud, RestsCalm DEF EditSpec
    <2>6. LagBounded => Known'
      BY <2>5, StoredObject, CalmKnown DEF IInv
    <2> QED BY <2>2, <2>3, <2>6 DEF Keeps, IInv, SettingsStep
  <1>3. CASE DeleteObject
    <2>1. KeyStep
      BY <1>3, KeptReflexive, DeleteObjectSound DEF IInv, KeySound, KeyStep
    <2>2. SpecsRest
      BY <1>3, OutsideSpecs DEF IInv, KeySound, Sound
    <2>3. mr'.extName = mr.extName
      BY <1>3, StoredObject DEF DeleteObject, Store, Object
    <2>4. Calm
      BY <1>3, <2>3, SameCloud DEF DeleteObject, Calm, Creating
    <2> QED BY <2>1, <2>2, <2>4, Assembled
  <1>4. CASE (\E i \in Ids : BecomeReadable(i)) \/ EndGracePeriod
    <2>1. KeyStep
      BY <1>1, <1>4, KeptReflexive, LagSound DEF IInv, KeySound, KeyStep
    <2>2. SpecsRest
      BY <1>4, UnchangedSpecs DEF BecomeReadable, EndGracePeriod
    <2>3. Rests(Gone)
      BY <1>1, <1>4, OutsideRests DEF IInv, KeySound, Sound
    <2>4. Calm
      BY <1>4, <2>3, SameCloud, RestsCalm DEF BecomeReadable, EndGracePeriod
    <2> QED BY <2>1, <2>2, <2>4, Assembled
  <1>5. ASSUME NEW i \in Ids, Drift(i)
        PROVE  Keeps
    <2>1. PICK key \in CloudKey \cup {Deleted} :
            /\ key = Deleted \/ ~CountsAsAbsent(cloud[i])
            /\ cloud' = [cloud EXCEPT ![i] = key]
      BY <1>5 DEF Drift, RemoveOutOfBand, ChangeOutOfBand, CountsAsAbsent
    <2>2. UNCHANGED <<mr, run, fresh, hidden, grace, lost>> /\ Counted /\ Live(i)
      BY <1>5 DEF Drift, RemoveOutOfBand, ChangeOutOfBand, Counted
    <2> QED BY <2>1, <2>2, CloudKeeps
  <1>6. ASSUME NEW i \in Ids, FinishCreation(i)
        PROVE  Keeps
    <2>1. /\ Live(i) /\ ~CountsAsAbsent(cloud[i])
          /\ cloud' = [cloud EXCEPT ![i].state = "Enabled"]
          /\ UNCHANGED <<mr, run, fresh, hidden, grace, lost>> /\ Counted
      BY <1>6 DEF FinishCreation, CountsAsAbsent, Counted
    <2> DEFINE key == [cloud[i] EXCEPT !.state = "Enabled"]
    <2>2. key \in CloudKey
      BY <2>1, ReadableType, KeyAssumption, CloudChange
    <2>3. cloud' = [cloud EXCEPT ![i] = key]
      BY <2>1
    <2> HIDE DEF key
    <2> QED BY <2>1, <2>2, <2>3, CloudKeeps
  <1> QED BY <1>2, <1>3, <1>4, <1>5, <1>6

----------------------------------------------------------------------------
(* The theorems *)

LEMMA InitInv == Init => IInv
  <1> SUFFICES ASSUME Init
               PROVE  IInv
    OBVIOUS
  <1>1. Unused \notin CloudKey /\ Applied \in SUBSET KeyCopies
    BY KeyAssumption DEF KeyParameters
  <1>2. KeySound /\ Named
    BY <1>1, InitSound DEF Init, KeySound
  <1>3. mr.spec \in Applied /\ \A w \in Workers : ~Creating(w)
    BY DEF Init, InitWith, NewObject, Idle, Creating
  <1>4. Known
    BY <1>2, <1>3 DEF Known, KeyNames, KeysKnown, Named, AllKnown, Usable, Live
  <1> QED BY <1>2, <1>3, <1>4, KeyAssumption DEF IInv, KeyParameters

LEMMA NextInv == IInv /\ [Next]_vars => Keeps
  <1> SUFFICES ASSUME IInv, [Next]_vars
               PROVE  Keeps
    OBVIOUS
  <1>1. ASSUME NEW w \in Workers, Begin(w)
        PROVE  Keeps
    <2>1. KeyStep
      BY <1>1, KeptReflexive, BeginSound DEF IInv, KeySound, KeyStep
    <2>2. Moves(w, Gone)
      BY <1>1, BeginMoves DEF IInv, KeySound, Sound
    <2>3. Calm
      BY <1>1, <2>2, SameCloud, MovesCalm DEF Begin
    <2>4. ValidRotation(mr'.spec)
      BY <1>1 DEF Begin, IInv
    <2> QED BY <2>1, <2>3, <2>4, Assembled
  <1>2. ASSUME NEW w \in Workers, Abandon(w)
        PROVE  Keeps
    <2>1. KeyStep
      BY <1>2, KeptReflexive, AbandonSound DEF IInv, KeySound, KeyStep
    <2>2. SpecsRest
      BY <1>2, RunSpecs DEF IInv, KeySound, Sound
    <2>3. Rests(Gone)
      BY <1>2, AbandonRests DEF IInv, KeySound, Sound
    <2>4. Calm
      BY <1>2, <2>3, SameCloud, RestsCalm DEF Abandon
    <2> QED BY <2>1, <2>2, <2>4, Assembled
  <1>3. CASE UNCHANGED vars
    <2>1. KeyStep
      BY <1>3, KeptReflexive, SoundStutter DEF IInv, KeySound, KeyStep
    <2>2. SpecsRest
      BY <1>3, UnchangedSpecs DEF vars
    <2>3. Calm
      BY <1>3, SameCloud DEF Calm, Creating, vars
    <2> QED BY <2>1, <2>2, <2>3, Assembled
  <1> QED BY <1>1, <1>2, <1>3, ReconcileKeeps, OutsideKeeps DEF Next

LEMMA Invariance == Spec => []IInv
  <1>1. IInv /\ [Next]_vars => IInv'
    BY NextInv DEF Keeps
  <1> QED BY InitInv, <1>1, PTL DEF Spec

\* Objects, copies, keys and counters stay within their types, and the stored
\* spec keeps the CEL rule on the rotation, whatever Observe adopts from the
\* cloud: admission refuses the write.
THEOREM TypeCorrect == Spec => []KeyTypeOK
  <1>1. IInv => KeyTypeOK
    BY DEF IInv, KeySound, Sound, KeyTypeOK
  <1> QED BY <1>1, Invariance, PTL

\* When reads lag behind no longer than the creation grace period, replacing
\* the keys that pend deletion never leaves two usable keys behind one object,
\* for any number of replicas and stale copies, under crashes and failed
\* calls: a second one is created only when Observe has seen the first one
\* pending deletion or gone, and nothing brings that back.
THEOREM OneUsableKeyAlways == Spec => []OneUsableKey
  <1>1. ASSUME IInv, LagBounded, NEW i \in Ids \ lost, NEW j \in Ids \ lost,
               Usable(i), Usable(j)
        PROVE  i = j
    <2>1. Known
      BY <1>1 DEF IInv
    <2>2. \A k \in Ids \ lost : Usable(k) => mr.extName = k \/ BeingRecorded(k)
      BY <2>1 DEF Known, KeysKnown
    <2>3. CASE mr.extName = i /\ mr.extName = j
      BY <2>3
    <2>4. CASE BeingRecorded(i) \/ BeingRecorded(j)
      <3>1. PICK w \in Workers :
              run[w].pc = "persist" /\ \A v \in Workers : Creating(v) => v = w
        BY <1>1, <2>4 DEF BeingRecorded, Creating, KeySound, Sound, IInv,
                          Announced, OneCreator
      <3>2. mr.extName = Nil \/ ~Usable(mr.extName)
        BY <2>1, <3>1 DEF Known, KeyNames, Creating
      <3>3. mr.extName # i /\ mr.extName # j
        BY <1>1, <3>2, NilAssumption
      <3>4. BeingRecorded(i) /\ BeingRecorded(j)
        BY <1>1, <2>2, <3>3
      <3> QED BY <3>1, <3>4 DEF BeingRecorded, Creating
    <2> QED BY <1>1, <2>2, <2>3, <2>4
  <1>2. IInv => OneUsableKey
    BY <1>1 DEF OneUsableKey
  <1> QED BY <1>2, Invariance, PTL

\* Under the same bound an object that had a finalizer is gone only when all
\* keys ever created for it, but for those the provider never knew of, are
\* destroyed or pend deletion.
THEOREM NoUsableOrphanAlways == Spec => []NoUsableOrphan
  <1>1. ASSUME IInv, LagBounded, NEW i \in Ids \ lost,
               ~mr.exists, mr.finalizer, Usable(i)
        PROVE  FALSE
    <2>1. Live(i) /\ <<mr.spec, cloud[i]>> \in Gone
      BY <1>1 DEF IInv, KeySound, Sound, Absence, NothingLeft, Usable
    <2> QED BY <1>1, <2>1 DEF Gone, Pending, CountsAsAbsent, Usable
  <1>2. IInv => NoUsableOrphan
    BY <1>1 DEF NoUsableOrphan
  <1> QED BY <1>2, Invariance, PTL

\* The writes of the finalizer, of the announcement and of late
\* initialisation never change what the user has set in forProvider.
THEOREM SettingsKept == Spec => KeySettingsKept
  <1>1. IInv /\ [Next]_vars => [edits' = edits => KeepsSettings(mr.spec, mr'.spec)]_vars
    BY NextInv DEF Keeps, SettingsStep
  <1> QED BY <1>1, Invariance, PTL DEF Spec, KeySettingsKept

============================================================================
