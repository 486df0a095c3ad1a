-------------------------------- MODULE Key --------------------------------
(***************************************************************************)
(* The KMS key controller (internal/controller/kmskey), run by the         *)
(* reconcile loop of ManagedReconciler.  A key is never deleted by a call: *)
(* it is scheduled for deletion, and the controller counts a key pending   *)
(* deletion as absent.  Of the status only keyState is modelled, which     *)
(* Create reads.                                                           *)
(***************************************************************************)
EXTENDS ManagedReconciler

CONSTANTS
    Applied,           \* the forProviders users write
    KeyAliases,
    Descriptions,      \* values of description besides ""
    Realms,
    RotationIntervals, \* values of rotationInterval, in days
    EnabledValues,     \* values of enabled
    RotationValues,    \* values of rotationEnabled, here and in the cloud
    TagKeys,
    TagValues,
    KeyStates,         \* the states keys are found in, as mapKeyStateFromAPI
                       \* names them
    KeyOrigins         \* "kms", and possibly "external": imported material

TagMaps == UNION {[K -> TagValues] : K \in SUBSET TagKeys}

\* forProvider: the CRD defaults enabled, and validates the fields with CEL.
ValidRotation(spec) ==
    spec.rotationInterval # Nil => spec.rotationEnabled = TRUE

\* In memory, late initialisation may leave what admission will reject.
KeyCopies ==
    [keyAlias : KeyAliases, description : Descriptions \cup {"", Nil},
     realm : Realms \cup {Nil}, enabled : EnabledValues,
     rotationEnabled : RotationValues \cup {Nil},
     rotationInterval : RotationIntervals \cup {Nil},
     tags : TagMaps \cup {Nil}]

KeyParameters == {spec \in KeyCopies : ValidRotation(spec)}

Rotation == [enabled : RotationValues, interval : RotationIntervals]

\* A key in the cloud.  The service cannot rotate external key material.
CloudKey ==
    [keyAlias : KeyAliases, description : Descriptions \cup {""},
     realm : Realms, state : KeyStates, origin : KeyOrigins,
     rotation : Rotation, tags : TagMaps]

ASSUME KeyAssumption ==
    /\ Applied \subseteq KeyParameters
    /\ Nil \notin KeyAliases \cup Descriptions \cup Realms
    /\ Nil \notin RotationIntervals
    /\ Nil \notin TagMaps
    /\ EnabledValues \subseteq BOOLEAN
    /\ RotationValues \subseteq BOOLEAN /\ FALSE \in RotationValues
    /\ Nil \notin BOOLEAN
    /\ {"WaitingForEnable", "Enabled", "PendingDeletion"} \subseteq KeyStates
    /\ KeyStates \subseteq {"WaitingForEnable", "Enabled", "Disabled",
                            "PendingDeletion", "WaitingForImport"}
    /\ FALSE \in EnabledValues => "Disabled" \in KeyStates
    /\ "" \notin Descriptions
    /\ 0 \notin RotationIntervals
    /\ "kms" \in KeyOrigins /\ KeyOrigins \subseteq {"kms", "external"}
    /\ Unused # Deleted /\ CloudKey \cap {Unused, Deleted} = {}

----------------------------------------------------------------------------
(* What the handlers compute *)

\* The CEL rules on KeyParameters.  validateKeyParameters repeats the one on
\* the rotation, so it never fails on a copy of a stored object.
\* (Faulty: without the rule on the rotation.)
AdmittedRealm(old, new) == old.realm # Nil => new.realm = old.realm

AdmittedKey(old, new) ==
    /\ ValidRotation(new)
    /\ old.realm # Nil => new.realm = old.realm

StoredKey(spec) == [spec EXCEPT !.tags = OmitEmptyMap(@)]

canReconcileRotation(key) == key.state \in {"Enabled", "Disabled"}

isRotationManaged(spec) == spec.rotationEnabled # Nil \/ spec.rotationInterval # Nil

\* observeRotationStatus as observeCurrentState uses it: the status read, or
\* Nil when there is none to read or the user does not care; no value at all
\* is an error.  broken says whether the read fails.
RotationRead(spec, key, broken) ==
    CASE ~canReconcileRotation(key) -> {Nil}
      [] canReconcileRotation(key) /\ ~broken -> {key.rotation}
      [] OTHER -> IF isRotationManaged(spec) THEN {} ELSE {Nil}

RotationBroken(key) == key.origin = "external"

lateInitializeKey(spec, key, rotation) ==
    LET basic == [spec EXCEPT
                    !.description = LateInitIfNonZero(@, key.description, ""),
                    !.realm = LateInitIfNonZero(@, key.realm, ""),
                    !.tags = LateInitIfNonZero(@, key.tags, EmptyMap)]
    IN  IF rotation = Nil THEN basic
        ELSE [basic EXCEPT
                !.rotationEnabled = LateInitPtr(@, rotation.enabled),
                !.rotationInterval =
                    IF rotation.enabled
                    THEN LateInitIfNonZero(@, rotation.interval, 0) ELSE @]

isEnabledUpToDate(spec, key) ==
    CASE key.state = "Enabled"  -> spec.enabled
      [] key.state = "Disabled" -> ~spec.enabled
      [] OTHER -> TRUE

isRotationUpToDate(spec, key, rotation) ==
    canReconcileRotation(key) /\ rotation # Nil =>
        /\ IsOptionalUpToDate(spec.rotationEnabled, rotation.enabled)
        /\ spec.rotationEnabled = TRUE =>
              IsOptionalUpToDate(spec.rotationInterval, rotation.interval)

isKeyUpToDate(spec, key, rotation) ==
    /\ spec.keyAlias = key.keyAlias
    /\ IsOptionalUpToDate(spec.description, key.description)
    /\ isEnabledUpToDate(spec, key)
    /\ IsOptionalUpToDate(spec.tags, key.tags)
    /\ isRotationUpToDate(spec, key, rotation)

\* buildKeyCreateOpts; keys are created enabled or soon so, in a realm the
\* service chooses if none is given, and without rotation.
CreatedKeys(spec) ==
    [keyAlias : {spec.keyAlias}, description : {Deref(spec.description, "")},
     realm : IF spec.realm = Nil THEN Realms ELSE {spec.realm},
     state : {"WaitingForEnable", "Enabled"}, origin : {"kms"},
     rotation : [enabled : {FALSE}, interval : RotationIntervals],
     tags : {EmptyMap}]

\* The calls of Update, identities where the code makes none.  What they
\* depend on was observed before the first one.
AfterAlias(spec, key) == [key EXCEPT !.keyAlias = spec.keyAlias]

AfterDescription(spec, key) ==
    [AfterAlias(spec, key) EXCEPT !.description = Deref(spec.description, "")]

\* reconcileEnabledState: no call in a transitional state.
AfterEnabled(spec, key) ==
    IF canReconcileRotation(key)
    THEN [AfterDescription(spec, key) EXCEPT
            !.state = IF spec.enabled THEN "Enabled" ELSE "Disabled"]
    ELSE AfterDescription(spec, key)

\* reconcileRotationEnabled: an unset flag counts as false.
AfterRotationEnabled(spec, key, rotation) ==
    IF rotation = Nil THEN AfterEnabled(spec, key)
    ELSE [AfterEnabled(spec, key) EXCEPT
            !.rotation.enabled = Deref(spec.rotationEnabled, FALSE)]

\* reconcileRotationInterval.
\* (Faulty: the interval is never sent.)
AfterRotationFlag(spec, key, rotation) == AfterRotationEnabled(spec, key, rotation)

AfterRotationInterval(spec, key, rotation) ==
    IF rotation # Nil /\ spec.rotationEnabled = TRUE /\ spec.rotationInterval # Nil
    THEN [AfterRotationEnabled(spec, key, rotation) EXCEPT
            !.rotation.interval = spec.rotationInterval]
    ELSE AfterRotationEnabled(spec, key, rotation)

AfterTagsCreate(spec, key, before) ==
    IF spec.tags = Nil THEN before
    ELSE [before EXCEPT !.tags = TagsWritten(@, TagDiff(spec.tags, key.tags))]

AfterTagsDelete(spec, key, before) ==
    IF spec.tags = Nil THEN {before}
    ELSE LET written == AfterTagsCreate(spec, key, before)
             extra == TagDiff(key.tags, spec.tags)
         IN {[written EXCEPT !.tags = TagsDeletedByKey(@, extra)],
             [written EXCEPT !.tags = TagsDeletedByPair(@, extra)]}

UpdatedKeys(spec, key, rotation) ==
    AfterTagsDelete(spec, key, AfterRotationInterval(spec, key, rotation))

PartlyUpdatedKeys(spec, key, rotation) ==
    {key, AfterAlias(spec, key), AfterDescription(spec, key),
     AfterEnabled(spec, key), AfterRotationEnabled(spec, key, rotation),
     AfterRotationInterval(spec, key, rotation),
     AfterTagsCreate(spec, key, AfterRotationInterval(spec, key, rotation))}

----------------------------------------------------------------------------
(* The handlers *)

\* Observe when the key and its tags could be read and it is not pending
\* deletion.
ObserveKey(w, rotation) ==
    LET obj == run[w].obj
        key == cloud[obj.extName]
        spec == lateInitializeKey(obj.spec, key, rotation)
    IN  Observed(w, [obj EXCEPT !.spec = spec, !.status = key.state],
                 [exists |-> TRUE,
                  lateInit |-> spec # obj.spec,
                  upToDate |-> isKeyUpToDate(spec, key, rotation)])

\* A key pending deletion counts as absent, so that it is replaced.
\* (Faulty: it does not, or a key in transition does, too.)
NeverAbsent(key) == FALSE
AbsentUnlessEnabled(key) == key.state # "Enabled"

CountsAsAbsent(key) == key.state = "PendingDeletion"

Observe(w) ==
    LET obj == run[w].obj
        key == cloud[obj.extName]
        there == Readable(obj.extName)
    IN
    \/ /\ ~there
       /\ Observed(w, obj, Unobserved)
       /\ UNCHANGED environment
    \/ /\ there /\ CountsAsAbsent(key)
       /\ Observed(w, [obj EXCEPT !.status = key.state], Unobserved)
       /\ UNCHANGED environment
    \/ /\ there /\ ~CountsAsAbsent(key)
       /\ LET reads == RotationRead(obj.spec, key, RotationBroken(key)) IN
          IF reads = {} THEN ObserveFailed(w)
                        ELSE \E r \in reads : ObserveKey(w, r)
       /\ UNCHANGED environment
    \/ /\ there /\ ~CountsAsAbsent(key)
       /\ Fault
       /\ \/ ObserveFailed(w)
          \/ \E r \in RotationRead(obj.spec, key, TRUE) : ObserveKey(w, r)
       /\ UNCHANGED edits

\* The guard of Create: the status is the one left in memory.
TakenAsCreated(obj) ==
    obj.extName # Nil /\ obj.status # "PendingDeletion"

Create(w) ==
    LET obj == run[w].obj IN
    \/ TakenAsCreated(obj) /\ CreateSkipped(w)
    \/ /\ ~TakenAsCreated(obj)
       /\ \E key \in CreatedKeys(obj.spec) :
             CreateSucceeds(w, key) \/ CreateFails(w, key)

\* Update checks the realm, then makes its calls in order until one fails.
\* The service takes no changes of a key that came to pend deletion.
CanUpdate(spec, key) ==
    /\ ~CountsAsAbsent(key)
    /\ spec.realm \in {Nil, key.realm}

Update(w) ==
    LET obj == run[w].obj
        key == cloud[obj.extName]
        can == Readable(obj.extName) /\ CanUpdate(obj.spec, key)
        reads == RotationRead(obj.spec, key, RotationBroken(key))
    IN
    \/ /\ can => reads = {}
       /\ ExternalUnchanged(w, "update", obj)
       /\ UNCHANGED environment
    \/ /\ can
       /\ \E r \in reads : \E k \in UpdatedKeys(obj.spec, key, r) :
             External(w, "update", k, obj)
       /\ UNCHANGED environment
    \/ /\ can
       /\ Fault
       /\ \E r \in reads : \E k \in PartlyUpdatedKeys(obj.spec, key, r) :
             External(w, "update", k, obj)
       /\ UNCHANGED edits

RotationStopped(key) ==
    IF canReconcileRotation(key) /\ key.origin = "kms"
    THEN [key EXCEPT !.rotation.enabled = FALSE] ELSE key

\* Delete stops rotation and schedules the deletion.
Delete(w) ==
    LET obj == run[w].obj
        key == cloud[obj.extName]
        can == Readable(obj.extName) /\ ~CountsAsAbsent(key)
    IN
    \/ /\ ~can
       /\ ExternalUnchanged(w, "delete", obj)
       /\ UNCHANGED environment
    \/ /\ can
       /\ External(w, "delete",
                   [RotationStopped(key) EXCEPT !.state = "PendingDeletion"], obj)
       /\ UNCHANGED environment
    \/ /\ can
       /\ Fault
       /\ \E k \in {key, RotationStopped(key)} : External(w, "delete", k, obj)
       /\ UNCHANGED edits

----------------------------------------------------------------------------
(* The system *)

Init == InitWith(Applied, CloudKey)

Reconcile(w) ==
    LET stored == StoredKey(run[w].obj.spec)
        admitted == AdmittedKey(mr.spec, stored)
    IN
    \/ run[w].pc = "observe" /\ Observe(w)
    \/ AddFinalizer(w, stored, admitted)
    \/ AnnounceCreate(w, stored, admitted)
    \/ run[w].pc = "create" /\ Create(w)
    \/ RecordCreate(w)
    \/ RecordFailedCreate(w)
    \/ LateInitialize(w, stored, admitted)
    \/ UpdateObjectFails(w)
    \/ run[w].pc = "update" /\ Update(w)
    \/ run[w].pc = "delete" /\ Delete(w)
    \/ RemoveFinalizer(w)

UserEdit ==
    \E spec \in Applied : AdmittedKey(mr.spec, spec) /\ EditSpec(spec)

\* Other clients change the key and schedule its deletion; the service
\* destroys it in the end.  Cancelling a scheduled deletion is left out.
Drift(i) ==
    \/ Live(i) /\ cloud[i].state = "PendingDeletion" /\ RemoveOutOfBand(i)
    \/ /\ Live(i) /\ cloud[i].state # "PendingDeletion"
       /\ \E k \in CloudKey :
            /\ k # cloud[i]
            /\ k.realm = cloud[i].realm /\ k.origin = cloud[i].origin
            /\ ChangeOutOfBand(i, k)

\* The service finishes the creation of a key.
FinishCreation(i) ==
    /\ Live(i)
    /\ cloud[i].state = "WaitingForEnable"
    /\ cloud' = [cloud EXCEPT ![i].state = "Enabled"]
    /\ UNCHANGED <<mr, run, fresh, hidden, grace, lost, environment>>

Next ==
    \/ \E w \in Workers : Begin(w) \/ Reconcile(w) \/ Abandon(w)
    \/ UserEdit
    \/ DeleteObject
    \/ \E i \in Ids : Drift(i) \/ FinishCreation(i) \/ BecomeReadable(i)
    \/ EndGracePeriod

Spec == Init /\ [][Next]_vars

\* As for the VPC; besides, the service finishes what it began.
Fairness ==
    /\ \A w \in Workers : WF_vars(Begin(w)) /\ WF_vars(Reconcile(w))
    /\ \A i \in Ids : WF_vars(BecomeReadable(i)) /\ WF_vars(FinishCreation(i))
    /\ WF_vars(EndGracePeriod)

FairSpec == Spec /\ Fairness

----------------------------------------------------------------------------
(* Properties *)

\* The types of all variables.  The stored spec always satisfies the CEL rule
\* on the rotation, the copies in memory do not.
KeyTypeOK ==
    /\ TypeWith(KeyCopies, KeyStates, CloudKey)
    /\ ValidRotation(mr.spec)

Usable(i) == Live(i) /\ cloud[i].state # "PendingDeletion"

\* Replacing keys that pend deletion never leaves two usable keys behind one
\* object, however replicas interleave, crash and fail.  (Create trusts the
\* keyState of the status in memory, Observe the key: they must agree.)
OneUsableKey ==
    LagBounded =>
        \A i, j \in Ids \ lost : Usable(i) /\ Usable(j) => i = j

\* An object that had a finalizer is gone only when no usable key is left.
NoUsableOrphan ==
    LagBounded =>
        \A i \in Ids \ lost : ~mr.exists /\ mr.finalizer => ~Usable(i)

\* What the provider writes to the object never changes what its user has
\* set, of the rotation as little as of the rest.  (An empty tag map counts as
\* unset: omitempty drops it from every write.)
KeepsSettings(old, new) ==
    /\ new.keyAlias = old.keyAlias
    /\ new.enabled = old.enabled
    /\ old.description # Nil => new.description = old.description
    /\ old.realm # Nil => new.realm = old.realm
    /\ old.rotationEnabled # Nil => new.rotationEnabled = old.rotationEnabled
    /\ old.rotationInterval # Nil => new.rotationInterval = old.rotationInterval
    /\ OmitEmptyMap(old.tags) # Nil => new.tags = old.tags

KeySettingsKept ==
    [][edits' = edits => KeepsSettings(mr.spec, mr'.spec)]_vars

\* The key of the object, when there is one that is not blocked by design:
\* an announced creation without outcome waits for a person.
HasKey == mr.exists /\ mr.extName # Nil /\ Live(mr.extName) /\ ~CreationUnknown

\* Observe fails for good: rotation is managed, but cannot be read.
Unobservable ==
    /\ mr.extName # Nil /\ Live(mr.extName)
    /\ LET key == cloud[mr.extName] IN
       /\ RotationBroken(key) /\ canReconcileRotation(key)
       /\ isRotationManaged(mr.spec)

\* RotationFollowsSpec and PendingKeyReplaced say of these two what is wrong.
RotationToStop ==
    /\ mr.spec.rotationEnabled = FALSE
    /\ cloud[mr.extName].rotation.enabled

Replaceable == CountsAsAbsent(cloud[mr.extName])

\* When users and faults rest, the key comes to match the object and stays
\* so, through transitional states and partly failed updates.
KeyConverges ==
    <>[](HasKey /\ ~mr.deleting =>
            LET key == cloud[mr.extName] IN
            \/ Unobservable \/ RotationToStop \/ Replaceable
            \/ mr.spec.realm \notin {Nil, key.realm}
            \/ isKeyUpToDate(mr.spec, key,
                  IF RotationBroken(key) THEN Nil ELSE key.rotation))

\* A deleted object goes away, and NoUsableOrphan says that its key then is
\* deleted or about to be.
KeyDeletionCompletes ==
    <>[](mr.exists /\ mr.deleting => CreationUnknown \/ Unobservable)

\* KeyParameters: "RotationEnabled specifies whether key rotation is enabled
\* for normal KMS-origin CMKs."
RotationFollowsSpec ==
    <>[](HasKey /\ ~mr.deleting =>
            LET key == cloud[mr.extName] IN
            \/ key.origin = "external" \/ ~canReconcileRotation(key)
            \/ mr.spec.rotationEnabled \in {Nil, key.rotation.enabled})

\* Observe: "Treat out-of-band scheduled deletion as absent so Crossplane
\* replaces the key".
PendingKeyReplaced == <>[](HasKey /\ ~mr.deleting => ~Replaceable)

============================================================================
