---------------------- MODULE ManagedReconcilerProofs ----------------------
(***************************************************************************)
(* What every step of the reconcile loop preserves, whatever the           *)
(* controller: lemmas for the proofs about the controllers' modules.  A    *)
(* controller's constants come in as specs, statuses and resources.        *)
(***************************************************************************)
EXTENDS ManagedReconciler, TLAPS

----------------------------------------------------------------------------
(* Types *)

\* Ending a reconcile keeps the types.
LEMMA FinishType ==
    ASSUME NEW CONSTANT specs, NEW CONSTANT statuses, NEW CONSTANT resources,
           TypeWith(specs, statuses, resources),
           NEW w \in Workers, NEW obj \in Object(specs, statuses),
           Finish(w, obj)
    PROVE  /\ mr' \in Object(specs, statuses)
           /\ run' \in [Workers -> Runs(specs, statuses)]
           /\ fresh' \in [Workers -> BOOLEAN]
  <1> DEFINE Objects == Object(specs, statuses)
             AllRuns == Runs(specs, statuses)
  <1>1. mr \in Objects /\ run \in [Workers -> AllRuns] /\ fresh \in [Workers -> BOOLEAN]
    BY DEF TypeWith
  <1>2. run' \in [Workers -> AllRuns]
    <2>1. Idle \in AllRuns
      BY DEF Runs
    <2>2. run' = [run EXCEPT ![w] = Idle]
      BY DEF Finish, Stop
    <2> HIDE DEF AllRuns
    <2> QED BY <1>1, <2>1, <2>2
  <1>3. obj.status \in statuses \cup {Nil}
    BY DEF Object
  <1>4. CASE fresh[w] /\ mr.status # obj.status
    <2>1. mr' = [mr EXCEPT !.status = obj.status] /\ fresh' = [v \in Workers |-> FALSE]
      BY <1>4 DEF Finish, SaveStatus, Store, NoneFresh
    <2>2. mr' \in Objects
      BY <1>1, <1>3, <2>1 DEF Object
    <2> QED BY <1>2, <2>1, <2>2
  <1>5. CASE ~(fresh[w] /\ mr.status # obj.status)
    BY <1>1, <1>2, <1>5 DEF Finish, SaveStatus
  <1> QED BY <1>4, <1>5

\* Moving on and stopping keep the type of run.
LEMMA GotoType ==
    ASSUME NEW CONSTANT specs, NEW CONSTANT statuses,
           run \in [Workers -> Runs(specs, statuses)],
           NEW w \in Workers, NEW pc \in Steps, NEW obj \in Object(specs, statuses),
           NEW obs \in Observation,
           Goto(w, pc, obj, obs)
    PROVE  run' \in [Workers -> Runs(specs, statuses)]
  <1> DEFINE AllRuns == Runs(specs, statuses)
             there == [pc |-> pc, obj |-> obj, obs |-> obs]
  <1>1. there \in AllRuns
    <2> DEFINE Objects == Object(specs, statuses)
    <2> HIDE DEF Objects
    <2>1. there \in [pc : Steps, obj : Objects, obs : Observation]
      BY DEF Objects
    <2> QED BY <2>1 DEF Runs, Objects
  <1>2. run' = [run EXCEPT ![w] = there]
    BY DEF Goto
  <1> HIDE DEF AllRuns, there
  <1>3. run \in [Workers -> AllRuns]
    BY DEF AllRuns
  <1>4. run' \in [Workers -> AllRuns]
    BY <1>1, <1>2, <1>3
  <1> QED BY <1>4 DEF AllRuns

LEMMA StopType ==
    ASSUME NEW CONSTANT specs, NEW CONSTANT statuses,
           run \in [Workers -> Runs(specs, statuses)],
           NEW w \in Workers, Stop(w)
    PROVE  run' \in [Workers -> Runs(specs, statuses)]
  <1> DEFINE AllRuns == Runs(specs, statuses)
  <1>1. Idle \in AllRuns
    BY DEF Runs
  <1>2. run' = [run EXCEPT ![w] = Idle]
    BY DEF Stop
  <1> HIDE DEF AllRuns
  <1>3. run \in [Workers -> AllRuns]
    BY DEF AllRuns
  <1>4. run' \in [Workers -> AllRuns]
    BY <1>1, <1>2, <1>3
  <1> QED BY <1>4 DEF AllRuns

\* A worker that is not idle holds a typed copy.
LEMMA CopyType ==
    ASSUME NEW CONSTANT specs, NEW CONSTANT statuses,
           run \in [Workers -> Runs(specs, statuses)],
           NEW w \in Workers, run[w].pc # "idle"
    PROVE  /\ run[w].pc \in Steps
           /\ run[w].obj \in Object(specs, statuses)
           /\ run[w].obs \in Observation
           /\ run[w] \in [pc : Steps, obj : Object(specs, statuses), obs : Observation]
  <1> DEFINE Objects == Object(specs, statuses)
             Going == [pc : Steps, obj : Objects, obs : Observation]
  <1>1. run[w] \in {Idle} \cup Going
    BY DEF Runs
  <1>2. run[w] # Idle
    BY DEF Idle
  <1>3. run[w] \in Going
    BY <1>1, <1>2
  <1> HIDE DEF Objects
  <1>4. run[w].pc \in Steps /\ run[w].obj \in Objects /\ run[w].obs \in Observation
    BY <1>3
  <1> QED BY <1>3, <1>4 DEF Objects

LEMMA BeginType ==
    ASSUME NEW CONSTANT specs, NEW CONSTANT statuses, NEW CONSTANT resources,
           TypeWith(specs, statuses, resources),
           NEW w \in Workers, Begin(w)
    PROVE  TypeWith(specs, statuses, resources)'
  <1>1. run' \in [Workers -> Runs(specs, statuses)] /\ fresh' \in [Workers -> BOOLEAN]
    <2>1. CASE mr.create = "pending"
      BY <2>1 DEF Begin, TypeWith
    <2>2. CASE mr.create # "pending"
      <3>1. Goto(w, "observe", mr, Unobserved) /\ fresh' = [fresh EXCEPT ![w] = TRUE]
        BY <2>2 DEF Begin
      <3>2. "observe" \in Steps /\ Unobserved \in Observation
        BY DEF Steps, Unobserved, Observation
      <3>3. mr \in Object(specs, statuses) /\ run \in [Workers -> Runs(specs, statuses)]
              /\ fresh \in [Workers -> BOOLEAN]
        BY DEF TypeWith
      <3>4. run' \in [Workers -> Runs(specs, statuses)]
        BY <3>1, <3>2, <3>3, GotoType
      <3> QED BY <3>1, <3>3, <3>4
    <2> QED BY <2>1, <2>2
  <1>2. UNCHANGED <<mr, cloud, hidden, grace, lost, edits, faults>>
    BY DEF Begin, environment
  <1> QED BY <1>1, <1>2 DEF TypeWith

LEMMA ObserveFailedType ==
    ASSUME NEW CONSTANT specs, NEW CONSTANT statuses, NEW CONSTANT resources,
           TypeWith(specs, statuses, resources),
           NEW w \in Workers, ObserveFailed(w),
           edits' \in 0..MaxEdits, faults' \in 0..MaxFaults
    PROVE  TypeWith(specs, statuses, resources)'
  <1>1. run[w].obj \in Object(specs, statuses)
    BY CopyType DEF ObserveFailed, TypeWith
  <1>2. Finish(w, run[w].obj)
    BY DEF ObserveFailed
  <1>3. /\ mr' \in Object(specs, statuses)
        /\ run' \in [Workers -> Runs(specs, statuses)]
        /\ fresh' \in [Workers -> BOOLEAN]
    BY <1>1, <1>2, FinishType
  <1>4. UNCHANGED <<cloud, hidden, grace, lost>>
    BY DEF ObserveFailed
  <1> QED BY <1>3, <1>4 DEF TypeWith

LEMMA ObservedType ==
    ASSUME NEW CONSTANT specs, NEW CONSTANT statuses, NEW CONSTANT resources,
           TypeWith(specs, statuses, resources),
           NEW w \in Workers, NEW obj \in Object(specs, statuses),
           NEW obs \in Observation, Observed(w, obj, obs),
           edits' \in 0..MaxEdits, faults' \in 0..MaxFaults
    PROVE  TypeWith(specs, statuses, resources)'
  <1> DEFINE pc == CASE obj.deleting /\ obs.exists -> "delete"
                     [] obj.deleting /\ ~obs.exists -> "unfinalize"
                     [] ~obj.deleting /\ ~obj.finalizer -> "finalize"
                     [] OTHER -> Remaining(obs)
  <1>1. pc \in Steps \cup {"done"}
    BY DEF Remaining, Steps
  <1>2. IF ~obs.exists /\ InGracePeriod(obj)
        THEN Stop(w) /\ UNCHANGED <<mr, fresh>>
        ELSE IF pc = "done"
        THEN Finish(w, obj)
        ELSE Goto(w, pc, obj, obs) /\ UNCHANGED <<mr, fresh>>
    BY DEF Observed
  <1> HIDE DEF pc
  <1>3. /\ mr' \in Object(specs, statuses)
        /\ run' \in [Workers -> Runs(specs, statuses)]
        /\ fresh' \in [Workers -> BOOLEAN]
    <2>1. mr \in Object(specs, statuses) /\ run \in [Workers -> Runs(specs, statuses)]
            /\ fresh \in [Workers -> BOOLEAN]
      BY DEF TypeWith
    <2>2. CASE ~obs.exists /\ InGracePeriod(obj)
      BY <1>2, <2>1, <2>2, StopType
    <2>3. CASE ~(~obs.exists /\ InGracePeriod(obj)) /\ pc = "done"
      BY <1>2, <2>3, FinishType
    <2>4. CASE ~(~obs.exists /\ InGracePeriod(obj)) /\ pc # "done"
      BY <1>1, <1>2, <2>1, <2>4, GotoType
    <2> QED BY <2>2, <2>3, <2>4
  <1>4. UNCHANGED <<cloud, hidden, grace, lost>>
    BY DEF Observed
  <1> QED BY <1>3, <1>4 DEF TypeWith

LEMMA ReplyStatusType ==
    ASSUME NEW CONSTANT specs, NEW CONSTANT statuses,
           mr \in Object(specs, statuses),
           NEW obj \in Object(specs, statuses)
    PROVE  ReplyStatus(obj) \in statuses \cup {Nil}
  BY DEF ReplyStatus, Object

LEMMA UpdateObjectType ==
    ASSUME NEW CONSTANT specs, NEW CONSTANT statuses, NEW CONSTANT resources,
           TypeWith(specs, statuses, resources),
           NEW w \in Workers, run[w].pc # "idle",
           NEW changed \in Object(specs, statuses), NEW stored \in specs,
           NEW admitted \in BOOLEAN, NEW pc \in Steps \cup {"done"},
           UpdateObject(w, changed, stored, admitted, pc)
    PROVE  /\ mr' \in Object(specs, statuses)
           /\ run' \in [Workers -> Runs(specs, statuses)]
           /\ fresh' \in [Workers -> BOOLEAN]
  <1>1. /\ mr \in Object(specs, statuses)
        /\ run \in [Workers -> Runs(specs, statuses)]
        /\ fresh \in [Workers -> BOOLEAN]
    BY DEF TypeWith
  <1>2. run[w].obj \in Object(specs, statuses) /\ run[w].obs \in Observation
    BY <1>1, CopyType
  <1>3. CASE ~fresh[w]
    <2>1. Stop(w) /\ UNCHANGED <<mr, fresh>>
      BY <1>3 DEF UpdateObject
    <2> QED BY <1>1, <2>1, StopType
  <1>4. CASE fresh[w] /\ ~admitted
    <2>1. Finish(w, run[w].obj)
      BY <1>4 DEF UpdateObject
    <2> QED BY <1>2, <2>1, FinishType
  <1>5. CASE fresh[w] /\ admitted
    <2> DEFINE kept == [changed EXCEPT !.status = ReplyStatus(changed)]
    <2>1. /\ mr' = [changed EXCEPT !.spec = stored, !.status = mr.status]
          /\ fresh' = [v \in Workers |-> v = w]
          /\ GoOn(w, pc, kept, run[w].obs)
      BY <1>5 DEF UpdateObject, Store, OnlyFresh
    <2>2. mr' \in Object(specs, statuses)
      BY <1>1, <2>1 DEF Object
    <2>3. kept \in Object(specs, statuses)
      <3>1. ReplyStatus(changed) \in statuses \cup {Nil}
        BY <1>1, ReplyStatusType
      <3> QED BY <3>1 DEF Object
    <2> HIDE DEF kept
    <2>4. run' \in [Workers -> Runs(specs, statuses)]
      <3>1. CASE pc = "done"
        BY <1>1, <2>1, <3>1, StopType DEF GoOn
      <3>2. CASE pc # "done"
        <4>1. pc \in Steps /\ Goto(w, pc, kept, run[w].obs)
          BY <2>1, <3>2 DEF GoOn
        <4> QED BY <1>1, <1>2, <2>3, <4>1, GotoType
      <3> QED BY <3>1, <3>2
    <2>5. fresh' \in [Workers -> BOOLEAN]
      BY <2>1
    <2> QED BY <2>2, <2>4, <2>5
  <1> QED BY <1>3, <1>4, <1>5

\* The three writes of the object before Create, Update and Delete.
LEMMA ObjectWriteType ==
    ASSUME NEW CONSTANT specs, NEW CONSTANT statuses, NEW CONSTANT resources,
           TypeWith(specs, statuses, resources),
           NEW w \in Workers, NEW stored \in specs, NEW admitted \in BOOLEAN,
           \/ AddFinalizer(w, stored, admitted)
           \/ AnnounceCreate(w, stored, admitted)
           \/ LateInitialize(w, stored, admitted)
    PROVE  TypeWith(specs, statuses, resources)'
  <1>0. UNCHANGED <<cloud, hidden, grace, lost, edits, faults>>
    BY DEF AddFinalizer, AnnounceCreate, LateInitialize, environment
  <1>1. run[w].pc # "idle"
    BY DEF AddFinalizer, AnnounceCreate, LateInitialize
  <1>2. run[w].obj \in Object(specs, statuses)
    BY <1>1, CopyType DEF TypeWith
  <1>3. /\ mr' \in Object(specs, statuses)
        /\ run' \in [Workers -> Runs(specs, statuses)]
        /\ fresh' \in [Workers -> BOOLEAN]
    <2>1. CASE AddFinalizer(w, stored, admitted)
      <3> DEFINE changed == [run[w].obj EXCEPT !.finalizer = TRUE]
      <3>1. changed \in Object(specs, statuses)
        BY <1>2 DEF Object
      <3>2. Remaining(run[w].obs) \in Steps \cup {"done"}
        BY DEF Remaining, Steps
      <3>3. UpdateObject(w, changed, stored, admitted, Remaining(run[w].obs))
        BY <2>1 DEF AddFinalizer
      <3> HIDE DEF changed
      <3> QED BY <1>1, <3>1, <3>2, <3>3, UpdateObjectType
    <2>2. CASE AnnounceCreate(w, stored, admitted)
      <3> DEFINE changed == [run[w].obj EXCEPT !.create = "pending"]
      <3>1. changed \in Object(specs, statuses)
        BY <1>2 DEF Object, CreateStates
      <3>2. "create" \in Steps \cup {"done"}
        BY DEF Steps
      <3>3. UpdateObject(w, changed, stored, admitted, "create")
        BY <2>2 DEF AnnounceCreate
      <3> HIDE DEF changed
      <3> QED BY <1>1, <3>1, <3>2, <3>3, UpdateObjectType
    <2>3. CASE LateInitialize(w, stored, admitted)
      <3> DEFINE pc == IF run[w].obs.upToDate THEN "done" ELSE "update"
      <3>1. pc \in Steps \cup {"done"}
        BY DEF Steps
      <3>2. UpdateObject(w, run[w].obj, stored, admitted, pc)
        BY <2>3 DEF LateInitialize
      <3> HIDE DEF pc
      <3> QED BY <1>1, <1>2, <3>1, <3>2, UpdateObjectType
    <2> QED BY <2>1, <2>2, <2>3
  <1> QED BY <1>0, <1>3 DEF TypeWith

LEMMA UpdateObjectFailsType ==
    ASSUME NEW CONSTANT specs, NEW CONSTANT statuses, NEW CONSTANT resources,
           TypeWith(specs, statuses, resources), MaxFaults \in Nat,
           NEW w \in Workers, UpdateObjectFails(w)
    PROVE  TypeWith(specs, statuses, resources)'
  <1>1. run[w].pc # "idle" /\ Finish(w, run[w].obj)
    BY DEF UpdateObjectFails
  <1>2. run[w].obj \in Object(specs, statuses)
    BY <1>1, CopyType DEF TypeWith
  <1>3. /\ mr' \in Object(specs, statuses)
        /\ run' \in [Workers -> Runs(specs, statuses)]
        /\ fresh' \in [Workers -> BOOLEAN]
    BY <1>1, <1>2, FinishType
  <1>4. UNCHANGED <<cloud, hidden, grace, lost, edits>> /\ faults' \in 0..MaxFaults
    BY DEF UpdateObjectFails, Fault, TypeWith
  <1> QED BY <1>3, <1>4 DEF TypeWith

LEMMA CreateSkippedType ==
    ASSUME NEW CONSTANT specs, NEW CONSTANT statuses, NEW CONSTANT resources,
           TypeWith(specs, statuses, resources),
           NEW w \in Workers, CreateSkipped(w)
    PROVE  TypeWith(specs, statuses, resources)'
  <1>1. Goto(w, "persist", run[w].obj, run[w].obs) /\ run[w].pc # "idle"
    BY DEF CreateSkipped
  <1>2. run[w].obj \in Object(specs, statuses) /\ run[w].obs \in Observation
    BY <1>1, CopyType DEF TypeWith
  <1>3. run' \in [Workers -> Runs(specs, statuses)]
    BY <1>1, <1>2, GotoType DEF TypeWith, Steps
  <1> QED BY <1>3 DEF CreateSkipped, TypeWith, environment

\* Observe and Create may change the spec and the status of the copy, no more.
SameCopy(obj, copy) ==
    /\ obj.exists = copy.exists
    /\ obj.deleting = copy.deleting
    /\ obj.finalizer = copy.finalizer
    /\ obj.extName = copy.extName
    /\ obj.create = copy.create

LEMMA CreateReturnsType ==
    ASSUME NEW CONSTANT specs, NEW CONSTANT statuses, NEW CONSTANT resources,
           TypeWith(specs, statuses, resources),
           NEW w \in Workers, NEW resource \in resources,
           NEW obj \in Object(specs, statuses), CreateReturns(w, resource, obj)
    PROVE  TypeWith(specs, statuses, resources)'
  <1>1. PICK i \in Ids :
          /\ cloud' = [cloud EXCEPT ![i] = resource]
          /\ hidden' = hidden \cup {i}
          /\ Goto(w, "persist", [obj EXCEPT !.extName = i], run[w].obs)
    BY DEF CreateReturns
  <1> DEFINE named == [obj EXCEPT !.extName = i]
  <1>2. named \in Object(specs, statuses)
    BY DEF Object
  <1>3. Goto(w, "persist", named, run[w].obs) /\ run[w].obs \in Observation
    BY <1>1, CopyType DEF CreateReturns, TypeWith
  <1> HIDE DEF named
  <1>4. run' \in [Workers -> Runs(specs, statuses)]
    BY <1>2, <1>3, GotoType DEF TypeWith, Steps
  <1>5. cloud' \in [Ids -> resources \cup {Unused, Deleted}] /\ hidden' \in SUBSET Ids
    BY <1>1 DEF TypeWith
  <1> QED BY <1>4, <1>5 DEF CreateReturns, TypeWith, environment

LEMMA CreateFailsType ==
    ASSUME NEW CONSTANT specs, NEW CONSTANT statuses, NEW CONSTANT resources,
           TypeWith(specs, statuses, resources), MaxFaults \in Nat,
           NEW w \in Workers, NEW resource \in resources,
           CreateFails(w, resource)
    PROVE  TypeWith(specs, statuses, resources)'
  <1>1. /\ run[w].obj \in Object(specs, statuses) /\ run[w].obs \in Observation
        /\ Goto(w, "persistFailed", run[w].obj, run[w].obs)
    BY CopyType DEF CreateFails, TypeWith
  <1>2. run' \in [Workers -> Runs(specs, statuses)]
    BY <1>1, GotoType DEF TypeWith, Steps
  <1>3. /\ cloud' \in [Ids -> resources \cup {Unused, Deleted}]
        /\ hidden' \in SUBSET Ids /\ lost' \in SUBSET Ids
    <2>1. CASE UNCHANGED <<cloud, hidden, lost>>
      BY <2>1 DEF TypeWith
    <2>2. ASSUME NEW i \in Ids, cloud' = [cloud EXCEPT ![i] = resource],
                 hidden' = hidden \cup {i}, lost' = lost \cup {i}
          PROVE  /\ cloud' \in [Ids -> resources \cup {Unused, Deleted}]
                 /\ hidden' \in SUBSET Ids /\ lost' \in SUBSET Ids
      BY <2>2 DEF TypeWith
    <2> QED BY <2>1, <2>2 DEF CreateFails
  <1>4. UNCHANGED <<mr, fresh, grace, edits>> /\ faults' \in 0..MaxFaults
    BY DEF CreateFails, Fault, TypeWith
  <1> QED BY <1>2, <1>3, <1>4 DEF TypeWith

LEMMA CreateRefusedType ==
    ASSUME NEW CONSTANT specs, NEW CONSTANT statuses, NEW CONSTANT resources,
           TypeWith(specs, statuses, resources),
           NEW w \in Workers, CreateRefused(w)
    PROVE  TypeWith(specs, statuses, resources)'
  <1>1. Goto(w, "persistFailed", run[w].obj, run[w].obs) /\ run[w].pc # "idle"
    BY DEF CreateRefused
  <1>2. run[w].obj \in Object(specs, statuses) /\ run[w].obs \in Observation
    BY <1>1, CopyType DEF TypeWith
  <1>3. run' \in [Workers -> Runs(specs, statuses)]
    BY <1>1, <1>2, GotoType DEF TypeWith, Steps
  <1> QED BY <1>3 DEF CreateRefused, TypeWith, environment

\* The object recorded is the stored one, but perhaps for the spec.
LEMMA RecordType ==
    ASSUME NEW CONSTANT specs, NEW CONSTANT statuses, NEW CONSTANT resources,
           TypeWith(specs, statuses, resources),
           NEW w \in Workers, NEW object \in Object(specs, statuses),
           RecordCreateIn(w, object) \/ RecordFailedCreate(w)
    PROVE  TypeWith(specs, statuses, resources)'
  <1>1. /\ mr \in Object(specs, statuses)
        /\ run[w].obj \in Object(specs, statuses)
        /\ run \in [Workers -> Runs(specs, statuses)]
    BY CopyType DEF RecordCreateIn, RecordFailedCreate, TypeWith
  <1>2. ReplyStatus(run[w].obj) \in statuses \cup {Nil}
    BY <1>1, ReplyStatusType
  <1>3. run' \in [Workers -> Runs(specs, statuses)]
    BY <1>1, StopType DEF RecordCreateIn, RecordFailedCreate
  <1>4. mr' \in Object(specs, statuses)
    <2>1. CASE RecordCreateIn(w, object)
      <3>1. mr' = [object EXCEPT !.create = "succeeded",
                                 !.extName = run[w].obj.extName,
                                 !.status = ReplyStatus(run[w].obj)]
        BY <2>1 DEF RecordCreateIn, Store
      <3>2. run[w].obj.extName \in Ids \cup {Nil}
        BY <1>1 DEF Object
      <3> QED BY <1>2, <3>1, <3>2 DEF Object, CreateStates
    <2>2. CASE RecordFailedCreate(w)
      <3>1. mr' = [mr EXCEPT !.create = "failed",
                             !.status = ReplyStatus(run[w].obj)]
        BY <2>2 DEF RecordFailedCreate, Store
      <3> QED BY <1>1, <1>2, <3>1 DEF Object, CreateStates
    <2> QED BY <2>1, <2>2
  <1>5. /\ fresh' \in [Workers -> BOOLEAN] /\ grace' \in BOOLEAN
        /\ UNCHANGED <<cloud, hidden, lost, edits, faults>>
    BY DEF RecordCreateIn, RecordFailedCreate, NoneFresh, environment, TypeWith
  <1> QED BY <1>3, <1>4, <1>5 DEF TypeWith

LEMMA ExternalType ==
    ASSUME NEW CONSTANT specs, NEW CONSTANT statuses, NEW CONSTANT resources,
           TypeWith(specs, statuses, resources),
           NEW w \in Workers, NEW pc \in Steps, NEW obj \in Object(specs, statuses),
           NEW resource \in resources \cup {Unused, Deleted},
           External(w, pc, resource, obj) \/ ExternalUnchanged(w, pc, obj),
           edits' \in 0..MaxEdits, faults' \in 0..MaxFaults
    PROVE  TypeWith(specs, statuses, resources)'
  <1>1. Finish(w, obj) /\ UNCHANGED <<hidden, grace, lost>>
    BY DEF External, ExternalUnchanged
  <1>2. /\ mr' \in Object(specs, statuses)
        /\ run' \in [Workers -> Runs(specs, statuses)]
        /\ fresh' \in [Workers -> BOOLEAN]
    BY <1>1, FinishType
  <1>3. cloud' \in [Ids -> resources \cup {Unused, Deleted}]
    <2>1. \/ cloud' = cloud
          \/ cloud' = [cloud EXCEPT ![run[w].obj.extName] = resource]
      BY DEF External, ExternalUnchanged
    <2> QED BY <2>1 DEF TypeWith
  <1> QED BY <1>1, <1>2, <1>3 DEF TypeWith

LEMMA RemoveFinalizerType ==
    ASSUME NEW CONSTANT specs, NEW CONSTANT statuses, NEW CONSTANT resources,
           TypeWith(specs, statuses, resources),
           NEW w \in Workers, RemoveFinalizer(w)
    PROVE  TypeWith(specs, statuses, resources)'
  <1>1. run' \in [Workers -> Runs(specs, statuses)]
    BY StopType DEF RemoveFinalizer, TypeWith
  <1>2. mr' \in Object(specs, statuses) /\ fresh' \in [Workers -> BOOLEAN]
    <2>1. \/ mr' = [mr EXCEPT !.exists = FALSE] /\ fresh' = [v \in Workers |-> FALSE]
          \/ UNCHANGED <<mr, fresh>>
      BY DEF RemoveFinalizer, Store, NoneFresh
    <2> QED BY <2>1 DEF TypeWith, Object
  <1> QED BY <1>1, <1>2 DEF RemoveFinalizer, TypeWith, environment

LEMMA AbandonType ==
    ASSUME NEW CONSTANT specs, NEW CONSTANT statuses, NEW CONSTANT resources,
           TypeWith(specs, statuses, resources), MaxFaults \in Nat, Nil \notin Ids,
           NEW w \in Workers, run[w].pc = "persist" => run[w].obj.extName # Nil,
           Abandon(w)
    PROVE  TypeWith(specs, statuses, resources)'
  <1>1. run[w].obj \in Object(specs, statuses)
    BY CopyType DEF Abandon, TypeWith
  <1>2. run' \in [Workers -> Runs(specs, statuses)]
    BY StopType DEF Abandon, TypeWith
  <1>3. lost' \in SUBSET Ids
    BY <1>1 DEF Abandon, TypeWith, Object
  <1>4. faults' \in 0..MaxFaults
    BY DEF Abandon, Fault, TypeWith
  <1> QED BY <1>2, <1>3, <1>4 DEF Abandon, TypeWith

\* Users and the cloud.
LEMMA OutsideType ==
    ASSUME NEW CONSTANT specs, NEW CONSTANT statuses, NEW CONSTANT resources,
           TypeWith(specs, statuses, resources), MaxEdits \in Nat,
           \/ \E spec \in specs : EditSpec(spec)
           \/ DeleteObject
           \/ \E i \in Ids : RemoveOutOfBand(i) \/ BecomeReadable(i)
           \/ \E i \in Ids, r \in resources : ChangeOutOfBand(i, r)
           \/ EndGracePeriod
    PROVE  TypeWith(specs, statuses, resources)'
  <1>1. ASSUME NEW spec \in specs, EditSpec(spec)
        PROVE  TypeWith(specs, statuses, resources)'
    BY <1>1 DEF TypeWith, EditSpec, Edit, Store, NoneFresh, Object
  <1>2. CASE DeleteObject
    <2>1. \/ mr' = [mr EXCEPT !.deleting = TRUE]
          \/ mr' = [mr EXCEPT !.exists = FALSE]
      BY <1>2 DEF DeleteObject, Store
    <2>2. mr' \in Object(specs, statuses)
      BY <2>1 DEF TypeWith, Object
    <2> QED BY <1>2, <2>2 DEF TypeWith, DeleteObject, NoneFresh, environment
  <1>3. ASSUME NEW i \in Ids, RemoveOutOfBand(i) \/ BecomeReadable(i)
        PROVE  TypeWith(specs, statuses, resources)'
    BY <1>3 DEF TypeWith, RemoveOutOfBand, BecomeReadable, Edit, environment
  <1>4. ASSUME NEW i \in Ids, NEW r \in resources, ChangeOutOfBand(i, r)
        PROVE  TypeWith(specs, statuses, resources)'
    BY <1>4 DEF TypeWith, ChangeOutOfBand, Edit
  <1>5. CASE EndGracePeriod
    BY <1>5 DEF TypeWith, EndGracePeriod, environment
  <1> QED BY <1>1, <1>2, <1>3, <1>4, <1>5

----------------------------------------------------------------------------
(* The lifecycle: the inductive invariant behind OneResourcePerObject and  *)
(* NoOrphan.  A controller may count a resource that is there as absent,   *)
(* by its own state or by the spec of the object: absent holds these pairs *)
(* of a spec and a resource.                                               *)

Planning ==
    {"observe", "finalize", "announce", "lateInit", "update", "delete",
     "unfinalize"}

\* An announced creation holds the object and its finalizer in place ...
CreationAnnounced ==
    \A w \in Workers : Creating(w) =>
        mr.exists /\ mr.finalizer /\ mr.create = "pending"

\* ... and is the only one: the announcement of another meets a conflict.
OneCreator == \A v, w \in Workers : Creating(v) /\ Creating(w) => v = w

\* The creator's copy has the name of the object until Create has another.
CreatorAgrees ==
    \A w \in Workers :
        /\ run[w].pc = "create" => run[w].obj.extName = mr.extName
        /\ run[w].pc = "persist" =>
              /\ run[w].obj.extName # Nil
              /\ cloud[run[w].obj.extName] # Unused

\* A reconcile acts on an object without a creation under way, and a fresh
\* copy is the stored object but for the spec and the status.
CopiesAgree ==
    \A w \in Workers : run[w].pc \in Planning =>
        /\ run[w].obj.exists
        /\ run[w].obj.create # "pending"
        /\ run[w].pc = "announce" => run[w].obj.finalizer
        /\ fresh[w] =>
              /\ run[w].obj.exists = mr.exists
              /\ run[w].obj.deleting = mr.deleting
              /\ run[w].obj.finalizer = mr.finalizer
              /\ run[w].obj.extName = mr.extName
              /\ run[w].obj.create = mr.create

NameInUse == mr.extName # Nil => cloud[mr.extName] # Unused

Announced ==
    /\ CreationAnnounced
    /\ OneCreator
    /\ CreatorAgrees
    /\ CopiesAgree
    /\ NameInUse

\* Where a name is taken for a creation, what is recorded is the name the
\* object has, or its first one ...
NamesAgree ==
    \A w \in Workers :
        /\ run[w].pc = "persist" => mr.extName \in {run[w].obj.extName, Nil}
        /\ run[w].pc = "persistFailed" => mr.extName = Nil

\* ... and nothing the provider created is forgotten, but for what it never
\* knew.
AllKnown ==
    \A i \in Ids \ lost : cloud[i] # Unused => mr.extName = i \/ BeingRecorded(i)

Named == NamesAgree /\ AllKnown

Creation == Announced /\ Named

\* The resource of the object is unreadable in the grace period only ...
HiddenInGrace ==
    \A i \in hidden :
        mr.extName = i /\ Live(i) => grace /\ mr.create = "succeeded"

\* ... so that "does not exist" is true when a fresh copy acts upon it.
ActsOnAbsence(w) ==
    \/ run[w].pc \in {"announce", "unfinalize"}
    \/ run[w].pc = "finalize" /\ ~run[w].obs.exists

Missing(absent) ==
    \/ mr.extName = Nil
    \/ ~Live(mr.extName)
    \/ mr.extName \notin hidden /\ <<mr.spec, cloud[mr.extName]>> \in absent

AbsenceIsTrue(absent) ==
    \A w \in Workers : fresh[w] /\ ActsOnAbsence(w) => Missing(absent)

\* An object that had a finalizer leaves nothing behind.
NothingLeft(absent) ==
    ~mr.exists /\ mr.finalizer =>
        \A i \in Ids \ lost : Live(i) => <<mr.spec, cloud[i]>> \in absent

\* Without LagBounded only Creation is invariant.
Absence(absent) ==
    LagBounded =>
        /\ HiddenInGrace
        /\ AbsenceIsTrue(absent)
        /\ NothingLeft(absent)

----------------------------------------------------------------------------
(* Its preservation.  Most steps are quiet: at most they end reconciles,   *)
(* make copies stale, change what exists in the cloud or what is readable. *)

SameObject ==
    /\ mr'.exists = mr.exists
    /\ mr'.deleting = mr.deleting
    /\ mr'.finalizer = mr.finalizer
    /\ mr'.extName = mr.extName
    /\ mr'.create = mr.create

Quiet ==
    /\ SameObject
    /\ \A v \in Workers :
         \/ run'[v] = run[v]
         \/ /\ run'[v] = Idle
            /\ run[v].pc = "persist" => run[v].obj.extName \in lost' \cup {mr.extName}
    /\ \A v \in Workers : fresh'[v] => fresh[v]
    /\ \A i \in Ids : cloud'[i] = Unused <=> cloud[i] = Unused
    /\ \A i \in Ids : Live(i)' => Live(i)
    /\ hidden' \subseteq hidden
    /\ lost \subseteq lost'
    /\ grace' = grace \/ (LagBounded => hidden' = {})

\* A quiet step leaves absent what was absent, or is an edit of an object
\* that is there.
StillAbsent(absent) ==
    \/ \A i \in Ids :
         <<mr.spec, cloud[i]>> \in absent /\ Live(i)' =>
             <<mr'.spec, cloud'[i]>> \in absent
    \/ mr'.exists /\ \A v \in Workers : ~fresh'[v]

Rests(absent) == Quiet /\ StillAbsent(absent)

LEMMA RestsLife ==
    ASSUME NEW CONSTANT specs, NEW CONSTANT statuses, NEW CONSTANT resources,
           NEW CONSTANT absent,
           TypeWith(specs, statuses, resources),
           Announced, Absence(absent), Rests(absent)
    PROVE  Announced' /\ Absence(absent)' /\ (Named => Named')
  <1>0. Quiet
    BY DEF Rests
  <1>1. \A v \in Workers : run'[v].pc # "idle" => run'[v] = run[v]
    BY <1>0 DEF Quiet, Idle
  <1>2. \A v \in Workers : Creating(v)' => Creating(v) /\ run'[v] = run[v]
    BY <1>1 DEF Creating
  <1>3. \A v \in Workers : run[v].pc # "idle" => run[v].obj.extName \in Ids \cup {Nil}
    BY CopyType DEF TypeWith, Object
  <1>4. mr.extName \in Ids \cup {Nil}
    BY DEF TypeWith, Object
  <1>5. Announced'
    <2>1. CreationAnnounced'
      BY <1>0, <1>2 DEF Announced, CreationAnnounced, Quiet, SameObject
    <2>2. OneCreator'
      BY <1>2 DEF Announced, OneCreator
    <2>3. CreatorAgrees'
      BY <1>0, <1>1, <1>3 DEF Announced, CreatorAgrees, Quiet, SameObject
    <2>4. CopiesAgree'
      BY <1>0, <1>1 DEF Announced, CopiesAgree, Planning, Quiet, SameObject
    <2>5. NameInUse'
      BY <1>0, <1>4 DEF Announced, NameInUse, Quiet, SameObject
    <2> QED BY <2>1, <2>2, <2>3, <2>4, <2>5 DEF Announced
  <1>6. ASSUME Named
        PROVE  Named'
    <2>1. NamesAgree'
      BY <1>0, <1>1, <1>6 DEF Named, NamesAgree, Quiet, SameObject
    <2>2. AllKnown'
      <3> SUFFICES ASSUME NEW i \in Ids, i \notin lost', cloud'[i] # Unused,
                          mr'.extName # i
                   PROVE  BeingRecorded(i)'
        BY DEF AllKnown
      <3>1. i \notin lost /\ cloud[i] # Unused /\ mr.extName # i
        BY <1>0 DEF Quiet, SameObject
      <3>2. PICK v \in Workers : run[v].pc = "persist" /\ run[v].obj.extName = i
        BY <1>6, <3>1 DEF Named, AllKnown, BeingRecorded
      <3>3. run'[v] = run[v]
        BY <1>0, <3>1, <3>2 DEF Quiet
      <3> QED BY <3>2, <3>3 DEF BeingRecorded
    <2> QED BY <2>1, <2>2 DEF Named
  <1>7. Absence(absent)'
    <2> SUFFICES ASSUME LagBounded
                 PROVE  HiddenInGrace' /\ AbsenceIsTrue(absent)' /\ NothingLeft(absent)'
      BY DEF Absence
    <2>1. HiddenInGrace /\ AbsenceIsTrue(absent) /\ NothingLeft(absent)
      BY DEF Absence
    <2>2. HiddenInGrace'
      <3>1. hidden \subseteq Ids
        BY DEF TypeWith
      <3> QED BY <1>0, <2>1, <3>1 DEF HiddenInGrace, Quiet, SameObject
    <2>3. AbsenceIsTrue(absent)'
      <3> SUFFICES ASSUME NEW w \in Workers, fresh'[w], ActsOnAbsence(w)',
                          mr'.extName # Nil, Live(mr.extName)'
                   PROVE  mr'.extName \notin hidden'
                            /\ <<mr'.spec, cloud'[mr'.extName]>> \in absent
        BY DEF AbsenceIsTrue, Missing, Live
      <3>1. run'[w].pc # "idle"
        BY DEF ActsOnAbsence
      <3>2. run'[w] = run[w] /\ fresh[w]
        BY <1>0, <3>1 DEF Quiet, Idle
      <3>3. ActsOnAbsence(w)
        BY <3>2 DEF ActsOnAbsence
      <3>4. mr.extName \in Ids /\ mr'.extName = mr.extName
        BY <1>0, <1>4 DEF Quiet, SameObject
      <3>5. Live(mr.extName)
        BY <1>0, <3>4 DEF Quiet, Live
      <3>6. mr.extName \notin hidden /\ <<mr.spec, cloud[mr.extName]>> \in absent
        BY <2>1, <3>2, <3>3, <3>4, <3>5 DEF AbsenceIsTrue, Missing
      <3>7. <<mr'.spec, cloud'[mr.extName]>> \in absent
        BY <3>4, <3>6 DEF Rests, StillAbsent, Live
      <3> QED BY <1>0, <3>4, <3>6, <3>7 DEF Quiet
    <2>4. NothingLeft(absent)'
      <3> SUFFICES ASSUME ~mr'.exists, mr'.finalizer,
                          NEW i \in Ids, i \notin lost', Live(i)'
                   PROVE  <<mr'.spec, cloud'[i]>> \in absent
        BY DEF NothingLeft
      <3>1. ~mr.exists /\ mr.finalizer /\ i \notin lost /\ Live(i)
        BY <1>0 DEF Quiet, SameObject
      <3>2. <<mr.spec, cloud[i]>> \in absent
        BY <2>1, <3>1 DEF NothingLeft
      <3> QED BY <3>2 DEF Rests, StillAbsent
    <2> QED BY <2>2, <2>3, <2>4
  <1> QED BY <1>5, <1>6, <1>7

\* A step of w before or after which it has nothing to do with a creation;
\* the one change it may make to the lifecycle is to add the finalizer.
Agrees(w) ==
    /\ run[w].obj.exists = mr.exists
    /\ run[w].obj.deleting = mr.deleting
    /\ run[w].obj.finalizer = mr.finalizer
    /\ run[w].obj.extName = mr.extName
    /\ run[w].obj.create = mr.create

PlanStep(w) ==
    /\ \A v \in Workers \ {w} : run'[v] = run[v] /\ (fresh'[v] => fresh[v])
    /\ ~Creating(w)
    /\ run'[w].pc \in Planning \cup {"idle"}
    /\ run'[w].pc # "idle" =>
         /\ run'[w].obj.exists
         /\ run'[w].obj.create # "pending"
         /\ run'[w].pc = "announce" => run'[w].obj.finalizer
         /\ fresh'[w] => Agrees(w)'
    /\ mr'.exists = mr.exists
    /\ mr'.deleting = mr.deleting
    /\ mr'.extName = mr.extName
    /\ mr'.create = mr.create
    /\ \/ mr'.finalizer = mr.finalizer
       \/ mr'.finalizer /\ mr.exists /\ \A v \in Workers \ {w} : ~fresh'[v]
    /\ UNCHANGED <<cloud, hidden, grace, lost>>

\* It acts on absence only where there is one, and writes the spec only of an
\* object that is there.
Plans(w, absent) ==
    /\ PlanStep(w)
    /\ LagBounded /\ fresh'[w] /\ ActsOnAbsence(w)' => Missing(absent)'
    /\ \/ mr'.spec = mr.spec
       \/ mr'.exists /\ \A v \in Workers \ {w} : ~fresh'[v]

LEMMA PlansLife ==
    ASSUME NEW w \in Workers, NEW CONSTANT absent,
           Announced, Absence(absent), Plans(w, absent)
    PROVE  Announced' /\ Absence(absent)' /\ (Named => Named')
  <1>0. PlanStep(w)
    BY DEF Plans
  <1>1. \A v \in Workers : Creating(v)' => v # w /\ Creating(v) /\ run'[v] = run[v]
    BY <1>0 DEF PlanStep, Creating, Planning
  <1>2. Announced'
    <2>1. CreationAnnounced'
      BY <1>0, <1>1 DEF Announced, CreationAnnounced, PlanStep
    <2>2. OneCreator'
      BY <1>1 DEF Announced, OneCreator
    <2>3. CreatorAgrees'
      <3> SUFFICES ASSUME NEW v \in Workers, Creating(v)'
                   PROVE  (/\ run[v].pc = "create" => run[v].obj.extName = mr.extName
                           /\ run[v].pc = "persist" =>
                                 /\ run[v].obj.extName # Nil
                                 /\ cloud[run[v].obj.extName] # Unused)'
        BY DEF CreatorAgrees, Creating
      <3> QED BY <1>0, <1>1 DEF Announced, CreatorAgrees, PlanStep
    <2>4. CopiesAgree'
      <3> SUFFICES ASSUME NEW v \in Workers, run'[v].pc \in Planning
                   PROVE  (/\ run[v].obj.exists
                           /\ run[v].obj.create # "pending"
                           /\ run[v].pc = "announce" => run[v].obj.finalizer
                           /\ fresh[v] => Agrees(v))'
        BY DEF CopiesAgree, Agrees
      <3>1. CASE v = w
        BY <1>0, <3>1 DEF PlanStep, Planning, Agrees
      <3>2. CASE v # w
        BY <1>0, <3>2 DEF PlanStep, Announced, CopiesAgree, Agrees
      <3> QED BY <3>1, <3>2
    <2>5. NameInUse'
      BY <1>0 DEF Announced, NameInUse, PlanStep
    <2> QED BY <2>1, <2>2, <2>3, <2>4, <2>5 DEF Announced
  <1>3. ASSUME Named
        PROVE  Named'
    <2>1. NamesAgree'
      BY <1>0, <1>1, <1>3 DEF Named, NamesAgree, Creating, PlanStep
    <2>2. AllKnown'
      BY <1>0, <1>3 DEF Named, AllKnown, BeingRecorded, Creating, PlanStep
    <2> QED BY <2>1, <2>2 DEF Named
  <1>4. Absence(absent)'
    <2> SUFFICES ASSUME LagBounded
                 PROVE  HiddenInGrace' /\ AbsenceIsTrue(absent)' /\ NothingLeft(absent)'
      BY DEF Absence
    <2>1. HiddenInGrace /\ AbsenceIsTrue(absent) /\ NothingLeft(absent)
      BY DEF Absence
    <2>2. UNCHANGED <<cloud, hidden, grace, lost>> /\ mr'.extName = mr.extName
            /\ mr'.create = mr.create /\ mr'.exists = mr.exists
      BY <1>0 DEF PlanStep
    <2>3. HiddenInGrace'
      BY <2>1, <2>2 DEF HiddenInGrace, Live
    <2>4. AbsenceIsTrue(absent)'
      <3> SUFFICES ASSUME NEW v \in Workers, fresh'[v], ActsOnAbsence(v)'
                   PROVE  Missing(absent)'
        BY DEF AbsenceIsTrue
      <3>1. CASE v # w
        <4>1. run'[v] = run[v] /\ fresh[v]
          BY <1>0, <3>1 DEF PlanStep
        <4>2. ActsOnAbsence(v)
          BY <4>1 DEF ActsOnAbsence
        <4>3. Missing(absent) /\ mr'.spec = mr.spec
          BY <2>1, <3>1, <4>1, <4>2 DEF AbsenceIsTrue, Plans
        <4> QED BY <2>2, <4>3 DEF Missing, Live
      <3>2. CASE v = w
        BY <3>2 DEF Plans
      <3> QED BY <3>1, <3>2
    <2>5. NothingLeft(absent)'
      <3> SUFFICES ASSUME ~mr'.exists, mr'.finalizer
                   PROVE  \A i \in Ids \ lost : Live(i) => <<mr.spec, cloud[i]>> \in absent
        BY <2>2 DEF NothingLeft, Plans, Live
      <3>1. ~mr.exists /\ mr.finalizer
        BY <1>0 DEF PlanStep
      <3> QED BY <2>1, <3>1 DEF NothingLeft
    <2> QED BY <2>3, <2>4, <2>5
  <1> QED BY <1>2, <1>3, <1>4

\* What a step of w does that has nothing to do with a creation.
Moves(w, absent) == Rests(absent) \/ Plans(w, absent)

LEMMA MovesLife ==
    ASSUME NEW CONSTANT specs, NEW CONSTANT statuses, NEW CONSTANT resources,
           NEW CONSTANT absent,
           TypeWith(specs, statuses, resources),
           NEW w \in Workers, Announced, Absence(absent), Moves(w, absent)
    PROVE  Announced' /\ Absence(absent)' /\ (Named => Named')
  BY RestsLife, PlansLife DEF Moves

----------------------------------------------------------------------------
(* The steps that have nothing to do with a creation *)

\* Where the reconcile of w goes, and that of the others.
LEMMA GotoRun ==
    ASSUME NEW CONSTANT specs, NEW CONSTANT statuses, NEW CONSTANT resources,
           TypeWith(specs, statuses, resources),
           NEW w \in Workers, NEW pc, NEW obj, NEW obs, Goto(w, pc, obj, obs)
    PROVE  /\ run'[w].pc = pc /\ run'[w].obj = obj /\ run'[w].obs = obs
           /\ \A v \in Workers \ {w} : run'[v] = run[v]
  BY DEF Goto, TypeWith

LEMMA StopRun ==
    ASSUME NEW CONSTANT specs, NEW CONSTANT statuses, NEW CONSTANT resources,
           TypeWith(specs, statuses, resources), NEW w \in Workers, Stop(w)
    PROVE  /\ run'[w] = Idle
           /\ \A v \in Workers \ {w} : run'[v] = run[v]
  BY DEF Stop, TypeWith

\* A step that leaves all as it was.
LEMMA StutterRests ==
    ASSUME NEW CONSTANT absent,
           UNCHANGED <<mr, run, fresh, cloud, hidden, grace, lost>>
    PROVE  Rests(absent)
  BY DEF Rests, StillAbsent, Quiet, SameObject, Live

\* The end of a reconcile, with or without a new status, and what it leaves
\* of a resource.
LEMMA FinishRests ==
    ASSUME NEW CONSTANT specs, NEW CONSTANT statuses, NEW CONSTANT resources,
           NEW CONSTANT absent,
           TypeWith(specs, statuses, resources),
           NEW w \in Workers, run[w].pc # "persist", NEW obj, Finish(w, obj),
           UNCHANGED <<hidden, grace, lost>>,
           \A i \in Ids : cloud'[i] = Unused <=> cloud[i] = Unused,
           \A i \in Ids : Live(i)' => Live(i),
           \A i \in Ids : <<mr.spec, cloud[i]>> \in absent /\ Live(i)' =>
                              <<mr.spec, cloud'[i]>> \in absent
    PROVE  Rests(absent)
  <1>1. run' = [run EXCEPT ![w] = Idle]
    BY DEF Finish, Stop
  <1>2. \A v \in Workers : run'[v] = IF v = w THEN Idle ELSE run[v]
    BY <1>1 DEF TypeWith
  <1>3. \/ /\ mr' = [mr EXCEPT !.status = obj.status]
           /\ fresh' = [v \in Workers |-> FALSE]
        \/ UNCHANGED <<mr, fresh>>
    BY DEF Finish, SaveStatus, Store, NoneFresh
  <1>4. SameObject /\ mr'.spec = mr.spec
    BY <1>3 DEF SameObject, TypeWith, Object
  <1>5. \A v \in Workers : fresh'[v] => fresh[v]
    BY <1>3
  <1>6. Quiet
    BY <1>2, <1>4, <1>5 DEF Quiet
  <1> QED BY <1>4, <1>6 DEF Rests, StillAbsent

LEMMA FinishOnlyRests ==
    ASSUME NEW CONSTANT specs, NEW CONSTANT statuses, NEW CONSTANT resources,
           NEW CONSTANT absent,
           TypeWith(specs, statuses, resources),
           NEW w \in Workers, run[w].pc # "persist", NEW obj, Finish(w, obj),
           UNCHANGED <<cloud, hidden, grace, lost>>
    PROVE  Rests(absent)
  <1>1. /\ \A i \in Ids : cloud'[i] = Unused <=> cloud[i] = Unused
        /\ \A i \in Ids : Live(i)' => Live(i)
        /\ \A i \in Ids : <<mr.spec, cloud[i]>> \in absent /\ Live(i)' =>
                              <<mr.spec, cloud'[i]>> \in absent
    BY DEF Live
  <1> QED BY <1>1, FinishRests

LEMMA StopRests ==
    ASSUME NEW CONSTANT specs, NEW CONSTANT statuses, NEW CONSTANT resources,
           NEW CONSTANT absent,
           TypeWith(specs, statuses, resources),
           NEW w \in Workers, run[w].pc # "persist", Stop(w),
           UNCHANGED <<mr, fresh, cloud, hidden, grace, lost>>
    PROVE  Rests(absent)
  <1>1. run'[w] = Idle /\ \A v \in Workers \ {w} : run'[v] = run[v]
    BY StopRun
  <1> QED BY <1>1 DEF Rests, StillAbsent, Quiet, SameObject, Live

LEMMA AbandonRests ==
    ASSUME NEW CONSTANT specs, NEW CONSTANT statuses, NEW CONSTANT resources,
           NEW CONSTANT absent,
           TypeWith(specs, statuses, resources), NEW w \in Workers, Abandon(w)
    PROVE  Rests(absent)
  <1>1. run' = [run EXCEPT ![w] = Idle]
    BY DEF Abandon, Stop
  <1>2. \A v \in Workers : run'[v] = IF v = w THEN Idle ELSE run[v]
    BY <1>1 DEF TypeWith
  <1>3. run[w].pc = "persist" => run[w].obj.extName \in lost' \cup {mr.extName}
    BY DEF Abandon
  <1>4. lost \subseteq lost'
    BY DEF Abandon
  <1>5. Quiet
    BY <1>2, <1>3, <1>4 DEF Quiet, SameObject, Abandon, Live
  <1> QED BY <1>5 DEF Rests, StillAbsent, Abandon, Live

\* The cloud changes a live resource, or deletes it.
LEMMA CloudRests ==
    ASSUME NEW CONSTANT specs, NEW CONSTANT statuses, NEW CONSTANT resources,
           NEW CONSTANT absent,
           TypeWith(specs, statuses, resources),
           NEW i \in Ids, NEW r, Live(i), r # Unused,
           <<mr.spec, cloud[i]>> \in absent /\ r # Deleted =>
               <<mr.spec, r>> \in absent,
           cloud' = [cloud EXCEPT ![i] = r],
           UNCHANGED <<mr, run, fresh, hidden, grace, lost>>
    PROVE  Rests(absent)
  <1>1. \A j \in Ids : cloud'[j] = IF j = i THEN r ELSE cloud[j]
    BY DEF TypeWith
  <1>2. Quiet
    BY <1>1 DEF Quiet, SameObject, Live
  <1>3. StillAbsent(absent)
    BY <1>1 DEF StillAbsent, Live
  <1> QED BY <1>2, <1>3 DEF Rests

\* The other steps of users and of the cloud, but the deletion of the object.
LEMMA OutsideRests ==
    ASSUME NEW CONSTANT specs, NEW CONSTANT statuses, NEW CONSTANT resources,
           NEW CONSTANT absent,
           TypeWith(specs, statuses, resources), Unused # Deleted,
           \/ \E spec \in specs : EditSpec(spec)
           \/ \E i \in Ids : RemoveOutOfBand(i) \/ BecomeReadable(i)
           \/ EndGracePeriod
    PROVE  Rests(absent)
  <1>1. ASSUME NEW spec \in specs, EditSpec(spec)
        PROVE  Rests(absent)
    <2>1. mr' = [mr EXCEPT !.spec = spec] /\ fresh' = [v \in Workers |-> FALSE]
      BY <1>1 DEF EditSpec, Store, NoneFresh
    <2>2. SameObject /\ mr.exists
      BY <1>1, <2>1 DEF EditSpec, SameObject, TypeWith, Object
    <2>3. Quiet
      BY <1>1, <2>1, <2>2 DEF Quiet, EditSpec, Live
    <2>4. mr'.exists /\ \A v \in Workers : ~fresh'[v]
      BY <2>1, <2>2 DEF SameObject
    <2> QED BY <2>3, <2>4 DEF Rests, StillAbsent
  <1>2. ASSUME NEW i \in Ids, RemoveOutOfBand(i)
        PROVE  Rests(absent)
    BY <1>2, CloudRests DEF RemoveOutOfBand
  <1>3. ASSUME NEW i \in Ids, BecomeReadable(i)
        PROVE  Rests(absent)
    BY <1>3 DEF Rests, StillAbsent, Quiet, SameObject, BecomeReadable, Live
  <1>4. CASE EndGracePeriod
    BY <1>4 DEF Rests, StillAbsent, Quiet, SameObject, EndGracePeriod, Live
  <1> QED BY <1>1, <1>2, <1>3, <1>4

\* Begin copies the stored object.
LEMMA BeginMoves ==
    ASSUME NEW CONSTANT specs, NEW CONSTANT statuses, NEW CONSTANT resources,
           NEW CONSTANT absent,
           TypeWith(specs, statuses, resources),
           NEW w \in Workers, Begin(w)
    PROVE  Moves(w, absent)
  <1>1. CASE mr.create = "pending"
    BY <1>1, StutterRests DEF Begin, Moves
  <1>2. CASE mr.create # "pending"
    <2>1. /\ Goto(w, "observe", mr, Unobserved)
          /\ fresh' = [fresh EXCEPT ![w] = TRUE]
          /\ UNCHANGED <<mr, cloud, hidden, grace, lost>>
          /\ mr.exists /\ run[w].pc = "idle"
      BY <1>2 DEF Begin
    <2>2. /\ run'[w].pc = "observe" /\ run'[w].obj = mr
          /\ \A v \in Workers \ {w} : run'[v] = run[v]
      BY <2>1, GotoRun
    <2>3. \A v \in Workers \ {w} : fresh'[v] = fresh[v]
      BY <2>1 DEF TypeWith
    <2>4. Agrees(w)'
      BY <2>1, <2>2 DEF Agrees
    <2>5. PlanStep(w)
      BY <1>2, <2>1, <2>2, <2>3, <2>4 DEF PlanStep, Planning, Creating
    <2>6. ~ActsOnAbsence(w)'
      BY <2>2 DEF ActsOnAbsence
    <2> QED BY <2>1, <2>5, <2>6 DEF Moves, Plans
  <1> QED BY <1>1, <1>2

\* Observe reports what can be read and does not count as absent.
LEMMA ObservedMoves ==
    ASSUME NEW CONSTANT specs, NEW CONSTANT statuses, NEW CONSTANT resources,
           NEW CONSTANT absent,
           TypeWith(specs, statuses, resources),
           Announced, Absence(absent),
           NEW w \in Workers, NEW obj \in Object(specs, statuses),
           NEW obs \in Observation, Observed(w, obj, obs),
           SameCopy(obj, run[w].obj),
           fresh[w] /\ ~obs.exists =>
               \/ ~Readable(obj.extName)
               \/ <<mr.spec, cloud[obj.extName]>> \in absent
    PROVE  Moves(w, absent)
  <1> DEFINE pc == CASE obj.deleting /\ obs.exists -> "delete"
                     [] obj.deleting /\ ~obs.exists -> "unfinalize"
                     [] ~obj.deleting /\ ~obj.finalizer -> "finalize"
                     [] OTHER -> Remaining(obs)
  <1>1. /\ run[w].pc = "observe"
        /\ UNCHANGED <<cloud, hidden, grace, lost>>
        /\ IF ~obs.exists /\ InGracePeriod(obj)
           THEN Stop(w) /\ UNCHANGED <<mr, fresh>>
           ELSE IF pc = "done"
           THEN Finish(w, obj)
           ELSE Goto(w, pc, obj, obs) /\ UNCHANGED <<mr, fresh>>
    BY DEF Observed
  <1>2. CASE ~obs.exists /\ InGracePeriod(obj)
    BY <1>1, <1>2, StopRests DEF Moves
  <1>3. CASE ~(~obs.exists /\ InGracePeriod(obj)) /\ pc = "done"
    BY <1>1, <1>3, FinishOnlyRests DEF Moves
  <1>4. CASE ~(~obs.exists /\ InGracePeriod(obj)) /\ pc # "done"
    <2>1. Goto(w, pc, obj, obs) /\ UNCHANGED <<mr, fresh>>
      BY <1>1, <1>4
    <2>2. /\ pc \in Planning
          /\ pc = "announce" => obj.finalizer
          /\ pc \in {"announce", "unfinalize"} => ~obs.exists
      BY <1>4 DEF Remaining, Planning
    <2> HIDE DEF pc
    <2>3. /\ run'[w].pc = pc /\ run'[w].obj = obj /\ run'[w].obs = obs
          /\ \A v \in Workers \ {w} : run'[v] = run[v]
      BY <2>1, GotoRun
    <2>4. run[w].pc \in Planning
      BY <1>1 DEF Planning
    <2>5. /\ run[w].obj.exists /\ run[w].obj.create # "pending"
          /\ fresh[w] => Agrees(w)
      BY <2>4 DEF Announced, CopiesAgree, Agrees
    <2>6. fresh'[w] => Agrees(w)'
      BY <2>1, <2>3, <2>5 DEF Agrees, SameCopy
    <2>7. PlanStep(w)
      BY <1>1, <2>1, <2>2, <2>3, <2>5, <2>6 DEF PlanStep, SameCopy, Creating
    <2>8. ASSUME LagBounded, fresh'[w], ActsOnAbsence(w)'
          PROVE  Missing(absent)'
      <3>1. ~obs.exists
        BY <2>2, <2>3, <2>8 DEF ActsOnAbsence
      <3>2. fresh[w] /\ Agrees(w)
        BY <2>1, <2>5, <2>8
      <3>3. obj.extName = mr.extName /\ obj.create = mr.create
        BY <3>2 DEF Agrees, SameCopy
      <3> SUFFICES ASSUME mr.extName # Nil, Live(mr.extName)
                   PROVE  mr.extName \notin hidden
                            /\ <<mr.spec, cloud[mr.extName]>> \in absent
        BY <1>1, <2>1 DEF Missing, Live
      <3>4. mr.extName \in Ids
        BY DEF TypeWith, Object
      <3>5. mr.extName \notin hidden
        <4>1. ~(grace /\ mr.create = "succeeded")
          BY <1>4, <3>1, <3>3 DEF InGracePeriod
        <4> QED BY <2>8, <4>1 DEF Absence, HiddenInGrace
      <3>6. Readable(mr.extName)
        BY <3>4, <3>5 DEF Readable
      <3> QED BY <3>1, <3>2, <3>3, <3>5, <3>6
    <2> QED BY <2>1, <2>7, <2>8 DEF Moves, Plans
  <1> QED BY <1>2, <1>3, <1>4

LEMMA ObserveFailedMoves ==
    ASSUME NEW CONSTANT specs, NEW CONSTANT statuses, NEW CONSTANT resources,
           NEW CONSTANT absent,
           TypeWith(specs, statuses, resources), NEW w \in Workers,
           \/ ObserveFailed(w)
           \/ UpdateObjectFails(w)
    PROVE  Moves(w, absent)
  BY FinishOnlyRests DEF ObserveFailed, UpdateObjectFails, Moves

\* A write that is not made, or not accepted.
LEMMA RefusedWriteRests ==
    ASSUME NEW CONSTANT specs, NEW CONSTANT statuses, NEW CONSTANT resources,
           NEW CONSTANT absent,
           TypeWith(specs, statuses, resources),
           NEW w \in Workers, run[w].pc # "persist",
           NEW changed, NEW stored, NEW admitted \in BOOLEAN, NEW pc,
           UpdateObject(w, changed, stored, admitted, pc),
           UNCHANGED <<cloud, hidden, grace, lost>>,
           ~(fresh[w] /\ admitted)
    PROVE  Rests(absent)
  <1>1. CASE ~fresh[w]
    BY <1>1, StopRests DEF UpdateObject
  <1>2. CASE fresh[w] /\ ~admitted
    BY <1>2, FinishOnlyRests DEF UpdateObject
  <1> QED BY <1>1, <1>2

\* AddFinalizer and LateInitialize, when the write is accepted.
LEMMA WritePlans ==
    ASSUME NEW CONSTANT specs, NEW CONSTANT statuses, NEW CONSTANT resources,
           TypeWith(specs, statuses, resources), CopiesAgree,
           NEW w \in Workers, run[w].pc \in Planning,
           NEW changed \in Object(specs, statuses),
           NEW stored, NEW admitted, NEW pc \in Planning \cup {"done"},
           changed.exists = run[w].obj.exists,
           changed.deleting = run[w].obj.deleting,
           changed.extName = run[w].obj.extName,
           changed.create = run[w].obj.create,
           changed.finalizer \/ changed.finalizer = run[w].obj.finalizer,
           pc = "announce" => changed.finalizer,
           UpdateObject(w, changed, stored, admitted, pc),
           UNCHANGED <<cloud, hidden, grace, lost>>,
           fresh[w], admitted
    PROVE  /\ PlanStep(w)
           /\ run'[w].pc \in {pc, "idle"}
  <1> DEFINE kept == [changed EXCEPT !.status = ReplyStatus(changed)]
  <1>1. /\ mr' = [changed EXCEPT !.spec = stored, !.status = mr.status]
        /\ fresh' = [v \in Workers |-> v = w]
        /\ GoOn(w, pc, kept, run[w].obs)
    BY DEF UpdateObject, Store, OnlyFresh
  <1>2. SameCopy(mr', changed)
    BY <1>1 DEF SameCopy, Object
  <1>3. SameCopy(kept, changed)
    BY DEF SameCopy, Object
  <1> HIDE DEF kept
  <1>4. /\ \A v \in Workers \ {w} : run'[v] = run[v]
        /\ run'[w].pc \in {pc, "idle"}
        /\ run'[w].pc # "idle" => run'[w].pc = pc /\ run'[w].obj = kept
    <2>1. CASE pc = "done"
      BY <1>1, <2>1, StopRun DEF GoOn, Idle
    <2>2. CASE pc # "done"
      <3>1. Goto(w, pc, kept, run[w].obs)
        BY <1>1, <2>2 DEF GoOn
      <3> QED BY <3>1, GotoRun
    <2> QED BY <2>1, <2>2
  <1>5. /\ run[w].obj.exists /\ run[w].obj.create # "pending" /\ Agrees(w)
    BY DEF CopiesAgree, Agrees
  <1>6. run'[w].pc # "idle" => Agrees(w)'
    BY <1>2, <1>3, <1>4 DEF Agrees, SameCopy
  <1>7. /\ mr'.exists = mr.exists /\ mr'.deleting = mr.deleting
        /\ mr'.extName = mr.extName /\ mr'.create = mr.create
        /\ \/ mr'.finalizer = mr.finalizer
           \/ mr'.finalizer /\ mr.exists
    BY <1>2, <1>5 DEF SameCopy, Agrees
  <1>8. \A v \in Workers \ {w} : ~fresh'[v]
    BY <1>1
  <1>9. run'[w].pc # "idle" =>
          /\ run'[w].obj.exists
          /\ run'[w].obj.create # "pending"
          /\ run'[w].pc = "announce" => run'[w].obj.finalizer
    BY <1>3, <1>4, <1>5 DEF SameCopy
  <1>10. run'[w].pc \in Planning \cup {"idle"}
    <2>1. run'[w].pc # "done"
      <3>1. CASE pc = "done"
        BY <1>1, <3>1, StopRun DEF GoOn, Idle
      <3>2. CASE pc # "done"
        BY <1>4, <3>2
      <3> QED BY <3>1, <3>2
    <2> QED BY <1>4, <2>1
  <1> QED BY <1>4, <1>6, <1>7, <1>8, <1>9, <1>10 DEF PlanStep, Creating, Planning

\* The spec written, too, is one the resource is absent by, if it was.
LEMMA AddFinalizerMoves ==
    ASSUME NEW CONSTANT specs, NEW CONSTANT statuses, NEW CONSTANT resources,
           NEW CONSTANT absent,
           TypeWith(specs, statuses, resources),
           Announced, Absence(absent),
           NEW w \in Workers, NEW stored, NEW admitted \in BOOLEAN,
           AddFinalizer(w, stored, admitted),
           fresh[w] => \A c : <<mr.spec, c>> \in absent => <<stored, c>> \in absent
    PROVE  Moves(w, absent)
  <1> DEFINE changed == [run[w].obj EXCEPT !.finalizer = TRUE]
             pc == Remaining(run[w].obs)
  <1>1. /\ run[w].pc = "finalize"
        /\ UpdateObject(w, changed, stored, admitted, pc)
        /\ UNCHANGED <<cloud, hidden, grace, lost>>
    BY DEF AddFinalizer
  <1>2. run[w].obj \in Object(specs, statuses)
    BY <1>1, CopyType DEF TypeWith
  <1>3. /\ changed \in Object(specs, statuses)
        /\ changed.exists = run[w].obj.exists
        /\ changed.deleting = run[w].obj.deleting
        /\ changed.extName = run[w].obj.extName
        /\ changed.create = run[w].obj.create
        /\ changed.finalizer
    BY <1>2 DEF Object
  <1>4. /\ pc \in Planning \cup {"done"}
        /\ pc # "unfinalize" /\ pc # "finalize"
        /\ pc = "announce" => ~run[w].obs.exists
    BY DEF Remaining, Planning
  <1> HIDE DEF changed, pc
  <1>5. CASE ~(fresh[w] /\ admitted)
    BY <1>1, <1>5, RefusedWriteRests DEF Moves
  <1>6. CASE fresh[w] /\ admitted
    <2>0. CopiesAgree
      BY DEF Announced
    <2>1. PlanStep(w) /\ run'[w].pc \in {pc, "idle"}
      <3>1. run[w].pc \in Planning /\ (pc = "announce" => changed.finalizer)
        BY <1>1, <1>3 DEF Planning
      <3>2. UNCHANGED <<cloud, hidden, grace, lost>>
        BY <1>1
      <3>3. UpdateObject(w, changed, stored, admitted, pc)
        BY <1>1
      <3>4. fresh[w] /\ admitted
        BY <1>6
      <3>5. changed.finalizer \/ changed.finalizer = run[w].obj.finalizer
        BY <1>3
      <3> QED BY <1>3, <1>4, <2>0, <3>1, <3>2, <3>3, <3>4, <3>5, WritePlans
    <2>2. /\ mr'.exists /\ mr'.spec = stored
          /\ \A v \in Workers \ {w} : ~fresh'[v]
      <3>1. run[w].obj.exists
        BY <1>1, <2>0 DEF CopiesAgree, Planning
      <3>2. /\ mr' = [changed EXCEPT !.spec = stored, !.status = mr.status]
            /\ fresh' = [v \in Workers |-> v = w]
        BY <1>1, <1>6 DEF UpdateObject, Store, OnlyFresh
      <3>3. mr'.exists = changed.exists /\ mr'.spec = stored
        BY <1>3, <3>2 DEF Object
      <3> QED BY <1>3, <3>1, <3>2, <3>3
    <2>3. ASSUME LagBounded, ActsOnAbsence(w)'
          PROVE  Missing(absent)'
      <3>1. ActsOnAbsence(w)
        BY <1>1, <1>4, <2>1, <2>3 DEF ActsOnAbsence
      <3>2. Missing(absent)
        BY <1>6, <2>3, <3>1 DEF Absence, AbsenceIsTrue
      <3>3. mr'.extName = mr.extName
        BY <2>1 DEF PlanStep
      <3> QED BY <1>1, <1>6, <2>2, <3>2, <3>3 DEF Missing, Live
    <2> QED BY <2>1, <2>3, <2>2 DEF Moves, Plans
  <1> QED BY <1>5, <1>6

LEMMA LateInitializeMoves ==
    ASSUME NEW CONSTANT specs, NEW CONSTANT statuses, NEW CONSTANT resources,
           NEW CONSTANT absent,
           TypeWith(specs, statuses, resources),
           Announced, NEW w \in Workers, NEW stored, NEW admitted \in BOOLEAN,
           LateInitialize(w, stored, admitted)
    PROVE  Moves(w, absent)
  <1> DEFINE pc == IF run[w].obs.upToDate THEN "done" ELSE "update"
  <1>1. /\ run[w].pc = "lateInit"
        /\ UpdateObject(w, run[w].obj, stored, admitted, pc)
        /\ UNCHANGED <<cloud, hidden, grace, lost>>
    BY DEF LateInitialize
  <1>2. run[w].obj \in Object(specs, statuses)
    BY <1>1, CopyType DEF TypeWith
  <1>3. pc \in {"done", "update"}
    OBVIOUS
  <1> HIDE DEF pc
  <1>4. CASE ~(fresh[w] /\ admitted)
    BY <1>1, <1>4, RefusedWriteRests DEF Moves
  <1>5. CASE fresh[w] /\ admitted
    <2>0. CopiesAgree
      BY DEF Announced
    <2>1. PlanStep(w) /\ run'[w].pc \in {pc, "idle"}
      <3>1. /\ run[w].pc \in Planning /\ pc \in Planning \cup {"done"}
            /\ pc # "announce"
        BY <1>1, <1>3 DEF Planning
      <3> QED BY <1>1, <1>2, <1>5, <2>0, <3>1, WritePlans
    <2>2. mr'.exists /\ \A v \in Workers \ {w} : ~fresh'[v]
      <3>1. run[w].obj.exists
        BY <1>1, <2>0 DEF CopiesAgree, Planning
      <3>2. /\ mr' = [run[w].obj EXCEPT !.spec = stored, !.status = mr.status]
            /\ fresh' = [v \in Workers |-> v = w]
        BY <1>1, <1>5 DEF UpdateObject, Store, OnlyFresh
      <3>3. mr'.exists = run[w].obj.exists
        BY <1>2, <3>2 DEF Object
      <3> QED BY <3>1, <3>2, <3>3
    <2>3. ~ActsOnAbsence(w)'
      BY <1>3, <2>1 DEF ActsOnAbsence
    <2> QED BY <2>1, <2>2, <2>3 DEF Moves, Plans
  <1> QED BY <1>4, <1>5

\* Update and Delete act on a live resource, hand out no identifiers, and
\* leave absent what counts as absent.
LEMMA ExternalMoves ==
    ASSUME NEW CONSTANT specs, NEW CONSTANT statuses, NEW CONSTANT resources,
           NEW CONSTANT absent,
           TypeWith(specs, statuses, resources),
           NEW w \in Workers, NEW pc \in {"update", "delete"}, NEW obj,
           NEW resource, resource # Unused,
           \/ /\ External(w, pc, resource, obj)
              /\ Live(run[w].obj.extName)
              /\ <<mr.spec, cloud[run[w].obj.extName]>> \in absent
                    /\ resource # Deleted => <<mr.spec, resource>> \in absent
           \/ ExternalUnchanged(w, pc, obj)
    PROVE  Moves(w, absent)
  <1>1. /\ run[w].pc = pc /\ Finish(w, obj) /\ UNCHANGED <<hidden, grace, lost>>
    BY DEF External, ExternalUnchanged
  <1>2. CASE ExternalUnchanged(w, pc, obj)
    BY <1>1, <1>2, FinishOnlyRests DEF ExternalUnchanged, Moves
  <1>3. CASE ~ExternalUnchanged(w, pc, obj)
    <2>1. \A i \in Ids : cloud'[i] = IF i = run[w].obj.extName
                                     THEN resource ELSE cloud[i]
      BY <1>3 DEF External, TypeWith
    <2>2. /\ \A i \in Ids : cloud'[i] = Unused <=> cloud[i] = Unused
          /\ \A i \in Ids : Live(i)' => Live(i)
          /\ \A i \in Ids : <<mr.spec, cloud[i]>> \in absent /\ Live(i)' =>
                                <<mr.spec, cloud'[i]>> \in absent
      BY <1>3, <2>1 DEF Live
    <2> QED BY <1>1, <2>2, FinishRests DEF Moves
  <1> QED BY <1>2, <1>3


----------------------------------------------------------------------------
(* The steps of a creation, and the removal of the object *)

\* The conflict on the announcement is what makes the creator unique.
LEMMA AnnounceCreateLife ==
    ASSUME NEW CONSTANT specs, NEW CONSTANT statuses, NEW CONSTANT resources,
           NEW CONSTANT absent,
           TypeWith(specs, statuses, resources),
           Announced, Absence(absent),
           NEW w \in Workers, NEW stored, NEW admitted \in BOOLEAN,
           AnnounceCreate(w, stored, admitted)
    PROVE  Announced' /\ Absence(absent)' /\ (Named => Named')
  <1> DEFINE changed == [run[w].obj EXCEPT !.create = "pending"]
             kept == [changed EXCEPT !.status = ReplyStatus(changed)]
  <1>1. /\ run[w].pc = "announce"
        /\ UpdateObject(w, changed, stored, admitted, "create")
        /\ UNCHANGED <<cloud, hidden, grace, lost>>
    BY DEF AnnounceCreate
  <1>2. run[w].obj \in Object(specs, statuses)
    BY <1>1, CopyType DEF TypeWith
  <1>3. CASE ~(fresh[w] /\ admitted)
    <2> HIDE DEF changed
    <2>1. Rests(absent)
      BY <1>1, <1>3, RefusedWriteRests
    <2> QED BY <2>1, RestsLife
  <1>4. CASE fresh[w] /\ admitted
    <2>1. /\ mr' = [changed EXCEPT !.spec = stored, !.status = mr.status]
          /\ fresh' = [v \in Workers |-> v = w]
          /\ Goto(w, "create", kept, run[w].obs)
      BY <1>1, <1>4 DEF UpdateObject, Store, OnlyFresh, GoOn
    <2>2. /\ mr'.exists = run[w].obj.exists
          /\ mr'.finalizer = run[w].obj.finalizer
          /\ mr'.extName = run[w].obj.extName
          /\ mr'.create = "pending"
          /\ kept.extName = run[w].obj.extName
      BY <1>2, <2>1 DEF Object
    <2> HIDE DEF kept, changed
    <2>3. /\ run'[w].pc = "create" /\ run'[w].obj = kept
          /\ \A v \in Workers \ {w} : run'[v] = run[v]
      BY <2>1, GotoRun
    <2>4. /\ run[w].obj.exists /\ run[w].obj.create # "pending"
          /\ run[w].obj.finalizer /\ Agrees(w)
      BY <1>1, <1>4 DEF Announced, CopiesAgree, Agrees, Planning
    <2>5. \A v \in Workers : ~Creating(v)
      BY <2>4 DEF Agrees, Announced, CreationAnnounced
    <2>6. \A v \in Workers : Creating(v)' => v = w
      BY <2>3, <2>5 DEF Creating
    <2>7. mr'.extName = mr.extName /\ mr'.exists /\ mr'.finalizer
      BY <2>2, <2>4 DEF Agrees
    <2>8. Announced'
      <3>1. CreationAnnounced'
        BY <2>2, <2>7 DEF CreationAnnounced
      <3>2. OneCreator'
        BY <2>6 DEF OneCreator
      <3>3. CreatorAgrees'
        BY <2>2, <2>3, <2>6 DEF CreatorAgrees, Creating
      <3>4. CopiesAgree'
        BY <2>1, <2>3 DEF Announced, CopiesAgree, Planning
      <3>5. NameInUse'
        BY <1>1, <2>7 DEF Announced, NameInUse
      <3> QED BY <3>1, <3>2, <3>3, <3>4, <3>5 DEF Announced
    <2>9. Named => Named'
      <3>1. NamesAgree'
        BY <2>3, <2>6 DEF NamesAgree, Creating
      <3>2. AllKnown => AllKnown'
        BY <1>1, <2>5, <2>7 DEF AllKnown, BeingRecorded, Creating
      <3> QED BY <3>1, <3>2 DEF Named
    <2>10. Absence(absent)'
      <3> SUFFICES ASSUME LagBounded
                   PROVE  HiddenInGrace' /\ AbsenceIsTrue(absent)'
        BY <2>7 DEF Absence, NothingLeft
      <3>1. mr.extName = Nil \/ ~Live(mr.extName) \/ mr.extName \notin hidden
        BY <1>1, <1>4 DEF Absence, AbsenceIsTrue, ActsOnAbsence, Missing
      <3>2. HiddenInGrace'
        BY <1>1, <2>7, <3>1, NilAssumption DEF HiddenInGrace, Live, TypeWith
      <3>3. AbsenceIsTrue(absent)'
        BY <2>1, <2>3 DEF AbsenceIsTrue, ActsOnAbsence
      <3> QED BY <3>2, <3>3
    <2> QED BY <2>8, <2>9, <2>10
  <1> QED BY <1>3, <1>4

\* What the creator does is invisible to the others.
LEMMA CreateSkippedLife ==
    ASSUME NEW CONSTANT specs, NEW CONSTANT statuses, NEW CONSTANT resources,
           NEW CONSTANT absent,
           TypeWith(specs, statuses, resources),
           Announced, Absence(absent),
           NEW w \in Workers, CreateSkipped(w), run[w].obj.extName # Nil
    PROVE  Announced' /\ Absence(absent)' /\ (Named => Named')
  <1>1. /\ run[w].pc = "create"
        /\ Goto(w, "persist", run[w].obj, run[w].obs)
        /\ UNCHANGED <<mr, fresh, cloud, hidden, grace, lost>>
    BY DEF CreateSkipped
  <1>2. /\ run'[w].pc = "persist" /\ run'[w].obj = run[w].obj
        /\ \A v \in Workers \ {w} : run'[v] = run[v]
    BY <1>1, GotoRun
  <1>3. run[w].obj.extName = mr.extName
    BY <1>1 DEF Announced, CreatorAgrees
  <1>4. \A v \in Workers : Creating(v)' <=> Creating(v)
    BY <1>1, <1>2 DEF Creating
  <1>5. Announced'
    <2>1. CreationAnnounced' /\ OneCreator'
      BY <1>1, <1>4 DEF Announced, CreationAnnounced, OneCreator
    <2>2. CreatorAgrees'
      BY <1>1, <1>2, <1>3 DEF Announced, CreatorAgrees, NameInUse
    <2>3. CopiesAgree'
      BY <1>1, <1>2 DEF Announced, CopiesAgree, Planning
    <2>4. NameInUse'
      BY <1>1 DEF Announced, NameInUse
    <2> QED BY <2>1, <2>2, <2>3, <2>4 DEF Announced
  <1>6. Named => Named'
    <2>1. NamesAgree => NamesAgree'
      BY <1>1, <1>2, <1>3 DEF NamesAgree
    <2>2. AllKnown => AllKnown'
      BY <1>1, <1>2 DEF AllKnown, BeingRecorded
    <2> QED BY <2>1, <2>2 DEF Named
  <1>7. Absence(absent)'
    BY <1>1, <1>2 DEF Absence, HiddenInGrace, AbsenceIsTrue, NothingLeft,
                      ActsOnAbsence, Missing, Live
  <1> QED BY <1>5, <1>6, <1>7

\* A new resource has a name of its own; it becomes the one of the object if
\* that has none.
LEMMA CreateReturnsLife ==
    ASSUME NEW CONSTANT specs, NEW CONSTANT statuses, NEW CONSTANT resources,
           NEW CONSTANT absent,
           TypeWith(specs, statuses, resources),
           Announced, Absence(absent),
           NEW w \in Workers, NEW resource, resource # Unused,
           NEW obj \in Object(specs, statuses), CreateReturns(w, resource, obj)
    PROVE  /\ Announced' /\ Absence(absent)'
           /\ Named /\ mr.extName = Nil => Named'
  <1>0. run[w].pc = "create" /\ UNCHANGED <<mr, fresh, grace, lost>>
    BY DEF CreateReturns
  <1>1. PICK i \in Ids :
          /\ cloud[i] = Unused
          /\ cloud' = [cloud EXCEPT ![i] = resource]
          /\ hidden' = hidden \cup {i}
          /\ Goto(w, "persist", [obj EXCEPT !.extName = i], run[w].obs)
    BY DEF CreateReturns
  <1> DEFINE named == [obj EXCEPT !.extName = i]
  <1>2. Goto(w, "persist", named, run[w].obs) /\ named.extName = i
    BY <1>1 DEF Object
  <1> HIDE DEF named
  <1>3. /\ run'[w].pc = "persist" /\ run'[w].obj.extName = i
        /\ \A v \in Workers \ {w} : run'[v] = run[v]
    BY <1>2, GotoRun
  <1>4. mr.extName # i
    BY <1>1, NilAssumption DEF Announced, NameInUse
  <1>5. \A v \in Workers : Creating(v)' <=> Creating(v)
    BY <1>0, <1>3 DEF Creating
  <1>6. \A v \in Workers : Creating(v) => v = w
    BY <1>0 DEF Announced, OneCreator, Creating
  <1>7. \A j \in Ids : cloud'[j] = IF j = i THEN resource ELSE cloud[j]
    BY <1>1 DEF TypeWith
  <1>8. mr.exists
    BY <1>0 DEF Announced, CreationAnnounced, Creating
  <1>9. Announced'
    <2>1. CreationAnnounced' /\ OneCreator'
      BY <1>0, <1>5 DEF Announced, CreationAnnounced, OneCreator
    <2>2. CreatorAgrees'
      <3> SUFFICES ASSUME NEW v \in Workers, Creating(v)'
                   PROVE  (/\ run[v].pc = "create" => run[v].obj.extName = mr.extName
                           /\ run[v].pc = "persist" =>
                                 /\ run[v].obj.extName # Nil
                                 /\ cloud[run[v].obj.extName] # Unused)'
        BY DEF CreatorAgrees, Creating
      <3>1. v = w
        BY <1>5, <1>6
      <3> QED BY <3>1, <1>3, <1>7, NilAssumption
    <2>3. CopiesAgree'
      BY <1>0, <1>3 DEF Announced, CopiesAgree, Planning
    <2>4. NameInUse'
      <3>1. mr.extName \in Ids \cup {Nil}
        BY DEF TypeWith, Object
      <3> QED BY <1>0, <1>7, <3>1 DEF Announced, NameInUse
    <2> QED BY <2>1, <2>2, <2>3, <2>4 DEF Announced
  <1>10. ASSUME Named, mr.extName = Nil
         PROVE  Named'
    <2>1. NamesAgree'
      <3> SUFFICES ASSUME NEW v \in Workers, Creating(v)'
                   PROVE  (/\ run[v].pc = "persist" => mr.extName \in {run[v].obj.extName, Nil}
                           /\ run[v].pc = "persistFailed" => mr.extName = Nil)'
        BY DEF NamesAgree, Creating
      <3> QED BY <1>0, <1>10
    <2>2. AllKnown'
      <3> SUFFICES ASSUME NEW j \in Ids \ lost, cloud'[j] # Unused, j # i
                   PROVE  BeingRecorded(j)' \/ mr'.extName = j
        BY <1>0, <1>3 DEF AllKnown, BeingRecorded
      <3>1. cloud[j] # Unused
        BY <1>7
      <3>2. PICK v \in Workers : run[v].pc = "persist" /\ run[v].obj.extName = j
        BY <1>10, <3>1, NilAssumption DEF Named, AllKnown, BeingRecorded
      <3>3. v # w
        BY <3>2, <1>0
      <3> QED BY <3>2, <3>3, <1>3 DEF BeingRecorded
    <2> QED BY <2>1, <2>2 DEF Named
  <1>11. Absence(absent)'
    <2> SUFFICES ASSUME LagBounded
                 PROVE  HiddenInGrace' /\ AbsenceIsTrue(absent)'
      BY <1>0, <1>8 DEF Absence, NothingLeft
    <2>1. mr.extName \in Ids \cup {Nil}
      BY DEF TypeWith, Object
    <2>2. HiddenInGrace'
      <3> SUFFICES ASSUME NEW j \in hidden', mr'.extName = j, Live(j)'
                   PROVE  grace' /\ mr'.create = "succeeded"
        BY DEF HiddenInGrace
      <3>1. j \in hidden /\ j \in Ids
        BY <1>0, <1>1, <1>4 DEF TypeWith
      <3>2. Live(j)
        BY <1>0, <1>4, <1>7, <3>1 DEF Live
      <3> QED BY <1>0, <3>1, <3>2 DEF Absence, HiddenInGrace
    <2>3. AbsenceIsTrue(absent)'
      <3> SUFFICES ASSUME NEW v \in Workers, fresh'[v], ActsOnAbsence(v)'
                   PROVE  Missing(absent)'
        BY DEF AbsenceIsTrue
      <3>1. v # w
        BY <1>3 DEF ActsOnAbsence
      <3>2. fresh[v] /\ ActsOnAbsence(v)
        BY <1>0, <1>3, <3>1 DEF ActsOnAbsence
      <3>3. Missing(absent)
        BY <3>2 DEF Absence, AbsenceIsTrue
      <3>4. mr.extName = Nil \/ cloud'[mr.extName] = cloud[mr.extName]
        BY <1>4, <1>7, <2>1
      <3> QED BY <1>0, <1>1, <1>4, <3>3, <3>4 DEF Missing, Live
    <2> QED BY <2>2, <2>3
  <1> QED BY <1>9, <1>10, <1>11

\* A resource whose creation was not answered is lost, if there is one.
LEMMA CreateFailsLife ==
    ASSUME NEW CONSTANT specs, NEW CONSTANT statuses, NEW CONSTANT resources,
           NEW CONSTANT absent,
           TypeWith(specs, statuses, resources),
           Announced, Absence(absent),
           NEW w \in Workers, NEW resource,
           CreateFails(w, resource) \/ CreateRefused(w)
    PROVE  /\ Announced' /\ Absence(absent)'
           /\ Named /\ mr.extName = Nil => Named'
  <1>0. /\ run[w].pc = "create"
        /\ Goto(w, "persistFailed", run[w].obj, run[w].obs)
        /\ UNCHANGED <<mr, fresh, grace>>
    BY DEF CreateFails, CreateRefused
  <1>1. /\ run'[w].pc = "persistFailed"
        /\ \A v \in Workers \ {w} : run'[v] = run[v]
    BY <1>0, GotoRun
  <1>2. mr.exists
    BY <1>0 DEF Announced, CreationAnnounced, Creating
  <1>3. \A v \in Workers : Creating(v)' <=> Creating(v)
    BY <1>0, <1>1 DEF Creating
  <1>4. \A v \in Workers : Creating(v) => v = w
    BY <1>0 DEF Announced, OneCreator, Creating
  <1>5. mr.extName \in Ids \cup {Nil}
    BY DEF TypeWith, Object
  <1>6. /\ lost \subseteq lost' /\ hidden' \subseteq Ids
        /\ \A j \in Ids \ lost' : cloud'[j] = cloud[j]
        /\ \A j \in Ids : cloud[j] # Unused => cloud'[j] = cloud[j]
        /\ \A j \in hidden' : j \in hidden \/ cloud[j] = Unused
    <2>1. CASE UNCHANGED <<cloud, hidden, lost>>
      BY <2>1 DEF TypeWith
    <2>2. ASSUME NEW i \in Ids, cloud[i] = Unused,
                 cloud' = [cloud EXCEPT ![i] = resource],
                 hidden' = hidden \cup {i}, lost' = lost \cup {i}
          PROVE  /\ lost \subseteq lost' /\ hidden' \subseteq Ids
                 /\ \A j \in Ids \ lost' : cloud'[j] = cloud[j]
                 /\ \A j \in Ids : cloud[j] # Unused => cloud'[j] = cloud[j]
                 /\ \A j \in hidden' : j \in hidden \/ cloud[j] = Unused
      BY <2>2 DEF TypeWith
    <2> QED BY <2>1, <2>2 DEF CreateFails, CreateRefused
  <1>7. mr.extName = Nil \/ cloud'[mr.extName] = cloud[mr.extName]
    BY <1>5, <1>6 DEF Announced, NameInUse
  <1>8. mr.extName # Nil => cloud[mr.extName] # Unused
    BY DEF Announced, NameInUse
  <1>9. Announced'
    <2>1. CreationAnnounced' /\ OneCreator'
      BY <1>0, <1>3 DEF Announced, CreationAnnounced, OneCreator
    <2>2. CreatorAgrees'
      BY <1>0, <1>1, <1>3, <1>4 DEF CreatorAgrees, Creating
    <2>3. CopiesAgree'
      BY <1>0, <1>1 DEF Announced, CopiesAgree, Planning
    <2>4. NameInUse'
      BY <1>0, <1>7, <1>8 DEF NameInUse
    <2> QED BY <2>1, <2>2, <2>3, <2>4 DEF Announced
  <1>10. ASSUME Named, mr.extName = Nil
         PROVE  Named'
    <2>1. NamesAgree'
      BY <1>0, <1>10 DEF NamesAgree
    <2>2. AllKnown'
      BY <1>0, <1>1, <1>6, <1>10 DEF Named, AllKnown, BeingRecorded
    <2> QED BY <2>1, <2>2 DEF Named
  <1>11. Absence(absent)'
    <2> SUFFICES ASSUME LagBounded
                 PROVE  HiddenInGrace' /\ AbsenceIsTrue(absent)'
      BY <1>0, <1>2 DEF Absence, NothingLeft
    <2>1. HiddenInGrace'
      <3> SUFFICES ASSUME NEW j \in hidden', mr'.extName = j, Live(j)'
                   PROVE  grace' /\ mr'.create = "succeeded"
        BY DEF HiddenInGrace
      <3>1. mr.extName = j /\ j \in Ids
        BY <1>0, <1>6
      <3>2. j \in hidden /\ Live(j)
        BY <1>6, <1>7, <1>8, <3>1, NilAssumption DEF Live
      <3> QED BY <1>0, <3>1, <3>2 DEF Absence, HiddenInGrace
    <2>2. AbsenceIsTrue(absent)'
      <3> SUFFICES ASSUME NEW v \in Workers, fresh'[v], ActsOnAbsence(v)'
                   PROVE  Missing(absent)'
        BY DEF AbsenceIsTrue
      <3>1. v # w
        BY <1>1 DEF ActsOnAbsence
      <3>2. fresh[v] /\ ActsOnAbsence(v)
        BY <1>0, <1>1, <3>1 DEF ActsOnAbsence
      <3>3. Missing(absent)
        BY <3>2 DEF Absence, AbsenceIsTrue
      <3> QED BY <1>0, <1>6, <1>7, <1>8, <3>3 DEF Missing, Live
    <2> QED BY <2>1, <2>2
  <1> QED BY <1>9, <1>10, <1>11

\* The record gives the object the name of the resource that was created.
LEMMA RecordCreateLife ==
    ASSUME NEW CONSTANT specs, NEW CONSTANT statuses, NEW CONSTANT resources,
           NEW CONSTANT absent,
           TypeWith(specs, statuses, resources),
           Announced, Absence(absent),
           NEW w \in Workers, NEW object \in Object(specs, statuses),
           SameCopy(object, mr), RecordCreateIn(w, object)
    PROVE  Announced' /\ Absence(absent)' /\ (Named => Named')
  <1> DEFINE name == run[w].obj.extName
  <1>1. /\ run[w].pc = "persist" /\ Stop(w)
        /\ fresh' = [v \in Workers |-> FALSE] /\ grace' = TRUE
        /\ UNCHANGED <<cloud, hidden, lost>>
    BY DEF RecordCreateIn, NoneFresh
  <1>2. /\ mr'.exists = mr.exists /\ mr'.finalizer = mr.finalizer
        /\ mr'.create = "succeeded" /\ mr'.extName = name
    BY DEF RecordCreateIn, Store, SameCopy, Object
  <1>3. run'[w] = Idle /\ \A v \in Workers \ {w} : run'[v] = run[v]
    BY <1>1, StopRun
  <1>4. \A v \in Workers : Creating(v) => v = w
    BY <1>1 DEF Announced, OneCreator, Creating
  <1>5. \A v \in Workers : ~Creating(v)'
    BY <1>3, <1>4 DEF Creating, Idle
  <1>6. name # Nil /\ cloud[name] # Unused /\ mr.exists
    BY <1>1 DEF Announced, CreatorAgrees, CreationAnnounced, Creating
  <1>7. Announced'
    <2>1. CreationAnnounced' /\ OneCreator'
      BY <1>5 DEF CreationAnnounced, OneCreator
    <2>2. CreatorAgrees'
      BY <1>5 DEF CreatorAgrees, Creating
    <2>3. CopiesAgree'
      BY <1>1, <1>3 DEF Announced, CopiesAgree, Planning, Idle
    <2>4. NameInUse'
      BY <1>1, <1>2, <1>6 DEF NameInUse
    <2> QED BY <2>1, <2>2, <2>3, <2>4 DEF Announced
  <1>8. ASSUME Named
        PROVE  Named'
    <2>1. NamesAgree'
      BY <1>5 DEF NamesAgree, Creating
    <2>2. mr.extName \in {name, Nil}
      BY <1>1, <1>8 DEF Named, NamesAgree
    <2>3. AllKnown'
      BY <1>1, <1>2, <1>4, <1>6, <1>8, <2>2, NilAssumption
         DEF Named, AllKnown, BeingRecorded, Creating
    <2> QED BY <2>1, <2>3 DEF Named
  <1>9. Absence(absent)'
    BY <1>1, <1>2, <1>6 DEF Absence, HiddenInGrace, AbsenceIsTrue, NothingLeft
  <1> QED BY <1>7, <1>8, <1>9

LEMMA RecordFailedCreateLife ==
    ASSUME NEW CONSTANT specs, NEW CONSTANT statuses, NEW CONSTANT resources,
           NEW CONSTANT absent,
           TypeWith(specs, statuses, resources),
           Announced, Absence(absent),
           NEW w \in Workers, RecordFailedCreate(w)
    PROVE  Announced' /\ Absence(absent)' /\ (Named => Named')
  <1>1. /\ run[w].pc = "persistFailed" /\ Stop(w)
        /\ fresh' = [v \in Workers |-> FALSE]
        /\ UNCHANGED <<cloud, hidden, grace, lost>>
    BY DEF RecordFailedCreate, NoneFresh
  <1>2. /\ mr'.exists = mr.exists /\ mr'.finalizer = mr.finalizer
        /\ mr'.extName = mr.extName
    BY DEF RecordFailedCreate, Store, TypeWith, Object
  <1>3. run'[w] = Idle /\ \A v \in Workers \ {w} : run'[v] = run[v]
    BY <1>1, StopRun
  <1>4. \A v \in Workers : Creating(v) => v = w
    BY <1>1 DEF Announced, OneCreator, Creating
  <1>5. \A v \in Workers : ~Creating(v)'
    BY <1>3, <1>4 DEF Creating, Idle
  <1>6. mr.exists /\ mr.create = "pending"
    BY <1>1 DEF Announced, CreationAnnounced, Creating
  <1>7. Announced'
    <2>1. CreationAnnounced' /\ OneCreator'
      BY <1>5 DEF CreationAnnounced, OneCreator
    <2>2. CreatorAgrees'
      BY <1>5 DEF CreatorAgrees, Creating
    <2>3. CopiesAgree'
      BY <1>1, <1>3 DEF Announced, CopiesAgree, Planning, Idle
    <2>4. NameInUse'
      BY <1>1, <1>2 DEF Announced, NameInUse
    <2> QED BY <2>1, <2>2, <2>3, <2>4 DEF Announced
  <1>8. ASSUME Named
        PROVE  Named'
    <2>1. NamesAgree'
      BY <1>5 DEF NamesAgree, Creating
    <2>2. AllKnown'
      BY <1>1, <1>2, <1>4, <1>8
         DEF Named, AllKnown, BeingRecorded, Creating
    <2> QED BY <2>1, <2>2 DEF Named
  <1>9. Absence(absent)'
    BY <1>1, <1>2, <1>6
       DEF Absence, HiddenInGrace, AbsenceIsTrue, NothingLeft, Live
  <1> QED BY <1>7, <1>8, <1>9

\* When no creation is under way, what is left of the object's resources is
\* the one it names, or absent.
Accounted(absent) ==
    (\A v \in Workers : ~Creating(v)) =>
        \A i \in Ids \ lost :
            Live(i) => mr.extName = i \/ <<mr.spec, cloud[i]>> \in absent

LEMMA NamedAccounts ==
    ASSUME NEW CONSTANT absent, Named
    PROVE  Accounted(absent)
  BY DEF Named, AllKnown, Accounted, BeingRecorded, Creating, Live

\* A fresh copy was right about the absence, and no creation is under way.
LEMMA RemoveFinalizerLife ==
    ASSUME NEW CONSTANT specs, NEW CONSTANT statuses, NEW CONSTANT resources,
           NEW CONSTANT absent,
           TypeWith(specs, statuses, resources),
           Announced, Absence(absent), LagBounded => Accounted(absent),
           NEW w \in Workers, RemoveFinalizer(w)
    PROVE  Announced' /\ Absence(absent)' /\ (Named => Named')
  <1>1. /\ run[w].pc = "unfinalize" /\ Stop(w)
        /\ UNCHANGED <<cloud, hidden, grace, lost>>
    BY DEF RemoveFinalizer
  <1>2. run'[w] = Idle /\ \A v \in Workers \ {w} : run'[v] = run[v]
    BY <1>1, StopRun
  <1>3. CASE ~fresh[w]
    <2>1. UNCHANGED <<mr, fresh>>
      BY <1>3 DEF RemoveFinalizer
    <2>2. Rests(absent)
      BY <1>1, <2>1, StopRests
    <2> QED BY <2>2, RestsLife
  <1>4. CASE fresh[w]
    <2>1. /\ mr' = [mr EXCEPT !.exists = FALSE]
          /\ fresh' = [v \in Workers |-> FALSE]
      BY <1>4 DEF RemoveFinalizer, Store, NoneFresh
    <2>2. /\ mr'.finalizer = mr.finalizer /\ mr'.extName = mr.extName
          /\ mr'.create = mr.create /\ mr'.spec = mr.spec
      BY <2>1 DEF TypeWith, Object
    <2>3. mr.create # "pending"
      BY <1>1, <1>4 DEF Announced, CopiesAgree, Planning
    <2>4. \A v \in Workers : ~Creating(v)
      BY <2>3 DEF Announced, CreationAnnounced
    <2>5. \A v \in Workers : ~Creating(v)'
      BY <1>2, <2>4 DEF Creating, Idle
    <2>6. Announced'
      <3>1. CreationAnnounced' /\ OneCreator' /\ CreatorAgrees'
        BY <2>5 DEF CreationAnnounced, OneCreator, CreatorAgrees, Creating
      <3>2. CopiesAgree'
        BY <1>2, <2>1 DEF Announced, CopiesAgree, Planning, Idle
      <3>3. NameInUse'
        BY <1>1, <2>2 DEF Announced, NameInUse
      <3> QED BY <3>1, <3>2, <3>3 DEF Announced
    <2>7. Named => Named'
      BY <1>1, <2>2, <2>4, <2>5
         DEF Named, NamesAgree, AllKnown, BeingRecorded, Creating
    <2>8. Absence(absent)'
      <3> SUFFICES ASSUME LagBounded
                   PROVE  /\ HiddenInGrace'
                          /\ AbsenceIsTrue(absent)'
                          /\ NothingLeft(absent)'
        BY DEF Absence
      <3>1. HiddenInGrace'
        BY <1>1, <2>2 DEF Absence, HiddenInGrace, Live
      <3>2. AbsenceIsTrue(absent)'
        BY <2>1 DEF AbsenceIsTrue
      <3>3. Missing(absent)
        BY <1>1, <1>4 DEF Absence, AbsenceIsTrue, ActsOnAbsence
      <3>4. \A i \in Ids \ lost :
              Live(i) => mr.extName = i \/ <<mr.spec, cloud[i]>> \in absent
        BY <2>4 DEF Accounted
      <3>5. \A i \in Ids \ lost : Live(i) => <<mr.spec, cloud[i]>> \in absent
        BY <3>3, <3>4, NilAssumption DEF Missing
      <3>6. NothingLeft(absent)'
        BY <1>1, <2>2, <3>5 DEF NothingLeft, Live
      <3> QED BY <3>1, <3>2, <3>6
    <2> QED BY <2>6, <2>7, <2>8
  <1> QED BY <1>3, <1>4

\* An object with a finalizer stays until it is removed.
LEMMA DeleteObjectLife ==
    ASSUME NEW CONSTANT specs, NEW CONSTANT statuses, NEW CONSTANT resources,
           NEW CONSTANT absent,
           TypeWith(specs, statuses, resources),
           Announced, Absence(absent), DeleteObject
    PROVE  Announced' /\ Absence(absent)' /\ (Named => Named')
  <1>1. /\ fresh' = [v \in Workers |-> FALSE] /\ mr.exists
        /\ UNCHANGED <<run, cloud, hidden, grace, lost>>
    BY DEF DeleteObject, NoneFresh
  <1>2. /\ mr'.finalizer = mr.finalizer /\ mr'.extName = mr.extName
        /\ mr'.create = mr.create
        /\ mr.finalizer => mr'.exists
    BY DEF DeleteObject, Store, TypeWith, Object
  <1>3. Announced'
    <2>1. CreationAnnounced' /\ OneCreator'
      BY <1>1, <1>2 DEF Announced, CreationAnnounced, OneCreator, Creating
    <2>2. CreatorAgrees' /\ CopiesAgree'
      BY <1>1, <1>2 DEF Announced, CreatorAgrees, CopiesAgree
    <2>3. NameInUse'
      BY <1>1, <1>2 DEF Announced, NameInUse
    <2> QED BY <2>1, <2>2, <2>3 DEF Announced
  <1>4. Named => Named'
    BY <1>1, <1>2 DEF Named, NamesAgree, AllKnown, BeingRecorded
  <1>5. Absence(absent)'
    BY <1>1, <1>2 DEF Absence, HiddenInGrace, AbsenceIsTrue, NothingLeft, Live
  <1> QED BY <1>3, <1>4, <1>5

----------------------------------------------------------------------------
(* It holds at the start, and it is enough.                                *)

LEMMA InitLife ==
    ASSUME NEW CONSTANT specs, NEW CONSTANT statuses, NEW CONSTANT resources,
           NEW CONSTANT absent,
           MaxEdits \in Nat, MaxFaults \in Nat,
           Unused \notin resources, InitWith(specs, resources)
    PROVE  /\ TypeWith(specs, statuses, resources)
           /\ Creation /\ Absence(absent)
  <1>1. /\ run = [w \in Workers |-> Idle]
        /\ fresh = [w \in Workers |-> FALSE]
        /\ hidden = {} /\ grace = FALSE /\ lost = {}
        /\ edits = 0 /\ faults = 0
    BY DEF InitWith
  <1>2. PICK s \in specs, name \in Ids \cup {Nil} :
          /\ mr = NewObject(s, name)
          /\ cloud \in [Ids -> resources \cup {Unused, Deleted}]
          /\ \A i \in Ids : cloud[i] # Unused <=> i = name
    <2>1. PICK s \in specs :
            \/ mr = NewObject(s, Nil) /\ cloud = [i \in Ids |-> Unused]
            \/ \E i \in Ids, r \in resources :
                 /\ mr = NewObject(s, i)
                 /\ cloud = [j \in Ids |-> IF j = i THEN r ELSE Unused]
      BY DEF InitWith
    <2>2. CASE mr = NewObject(s, Nil) /\ cloud = [i \in Ids |-> Unused]
      BY <2>2, NilAssumption
    <2>3. ASSUME NEW i \in Ids, NEW r \in resources, mr = NewObject(s, i),
                 cloud = [j \in Ids |-> IF j = i THEN r ELSE Unused]
          PROVE  \E name \in Ids \cup {Nil} :
                   /\ mr = NewObject(s, name)
                   /\ cloud \in [Ids -> resources \cup {Unused, Deleted}]
                   /\ \A j \in Ids : cloud[j] # Unused <=> j = name
      <3>1. \A j \in Ids : cloud[j] # Unused <=> j = i
        BY <2>3
      <3>2. cloud \in [Ids -> resources \cup {Unused, Deleted}]
        BY <2>3
      <3> QED BY <2>3, <3>1, <3>2
    <2> QED BY <2>1, <2>2, <2>3
  <1>3. TypeWith(specs, statuses, resources)
    <2>1. mr \in Object(specs, statuses)
      BY <1>2 DEF NewObject, Object, CreateStates
    <2>2. run \in [Workers -> Runs(specs, statuses)]
      BY <1>1 DEF Runs
    <2>3. fresh \in [Workers -> BOOLEAN] /\ hidden \in SUBSET Ids
            /\ grace \in BOOLEAN /\ lost \in SUBSET Ids
      BY <1>1
    <2>4. edits \in 0..MaxEdits /\ faults \in 0..MaxFaults
      BY <1>1
    <2> QED BY <1>2, <2>1, <2>2, <2>3, <2>4 DEF TypeWith
  <1>4. \A w \in Workers : run[w].pc = "idle"
    BY <1>1 DEF Idle
  <1>5. mr.extName = name /\ ~mr.finalizer
    BY <1>2 DEF NewObject
  <1>6. Creation
    <2>1. /\ CreationAnnounced /\ OneCreator /\ CreatorAgrees
          /\ CopiesAgree /\ NamesAgree
      BY <1>4 DEF CreationAnnounced, OneCreator, CreatorAgrees, CopiesAgree,
                  NamesAgree, Creating, Planning
    <2>2. NameInUse /\ AllKnown
      BY <1>2, <1>5 DEF NameInUse, AllKnown
    <2> QED BY <2>1, <2>2 DEF Creation, Announced, Named
  <1>7. Absence(absent)
    BY <1>1, <1>4, <1>5 DEF Absence, HiddenInGrace, AbsenceIsTrue, NothingLeft
  <1> QED BY <1>3, <1>6, <1>7

LEMMA CreationIsEnough ==
    ASSUME Creation
    PROVE  OneResourcePerObject
  <1> SUFFICES ASSUME NEW i \in Ids \ lost, NEW j \in Ids \ lost,
                      cloud[i] # Unused, cloud[j] # Unused
               PROVE  i = j
    BY DEF OneResourcePerObject
  <1>1. mr.extName = i \/ BeingRecorded(i)
    BY DEF Creation, Named, AllKnown
  <1>2. mr.extName = j \/ BeingRecorded(j)
    BY DEF Creation, Named, AllKnown
  <1> QED BY <1>1, <1>2, NilAssumption
          DEF Creation, Named, Announced, NamesAgree, OneCreator,
              BeingRecorded, Creating

LEMMA AbsenceIsEnough ==
    ASSUME Absence({})
    PROVE  NoOrphan
  BY DEF Absence, NothingLeft, NoOrphan

----------------------------------------------------------------------------
(* The settings: what a controller writes into the object keeps what its   *)
(* user has set.  keeps holds the pairs of a spec and another that keeps   *)
(* its settings.                                                           *)

Writing == {"observe", "finalize", "announce", "lateInit"}

\* A fresh copy that may be written keeps the settings of the object.
Carries(keeps) ==
    \A w \in Workers :
        fresh[w] /\ run[w].pc \in Writing => <<mr.spec, run[w].obj.spec>> \in keeps

\* A step writes no spec, and changes no copy that may be written.
SpecsRest ==
    /\ mr'.spec = mr.spec
    /\ \A v \in Workers :
         fresh'[v] /\ run'[v].pc \in Writing => fresh[v] /\ run'[v] = run[v]

Reflexive(keeps, specs) == \A s \in specs : <<s, s>> \in keeps

LEMMA SpecsRestKeep ==
    ASSUME NEW CONSTANT specs, NEW CONSTANT statuses, NEW CONSTANT resources,
           NEW CONSTANT keeps, Reflexive(keeps, specs),
           TypeWith(specs, statuses, resources), Carries(keeps), SpecsRest
    PROVE  Carries(keeps)' /\ <<mr.spec, mr'.spec>> \in keeps
  <1>1. mr.spec \in specs
    BY DEF TypeWith, Object
  <1> QED BY <1>1 DEF SpecsRest, Carries, Reflexive

LEMMA UnchangedSpecs ==
    ASSUME UNCHANGED <<mr, run, fresh>>
    PROVE  SpecsRest
  BY DEF SpecsRest

LEMMA StopSpecs ==
    ASSUME NEW CONSTANT specs, NEW CONSTANT statuses, NEW CONSTANT resources,
           TypeWith(specs, statuses, resources),
           NEW w \in Workers, Stop(w), UNCHANGED <<mr, fresh>>
    PROVE  SpecsRest
  <1>1. run'[w].pc = "idle" /\ \A v \in Workers \ {w} : run'[v] = run[v]
    BY StopRun DEF Idle
  <1> QED BY <1>1 DEF SpecsRest, Writing

LEMMA FinishSpecs ==
    ASSUME NEW CONSTANT specs, NEW CONSTANT statuses, NEW CONSTANT resources,
           TypeWith(specs, statuses, resources),
           NEW w \in Workers, NEW obj, Finish(w, obj)
    PROVE  SpecsRest
  <1>1. CASE fresh[w] /\ mr.status # obj.status
    <2>1. mr' = [mr EXCEPT !.status = obj.status] /\ fresh' = [v \in Workers |-> FALSE]
      BY <1>1 DEF Finish, SaveStatus, Store, NoneFresh
    <2>2. mr'.spec = mr.spec
      BY <2>1 DEF TypeWith, Object
    <2> QED BY <2>1, <2>2 DEF SpecsRest
  <1>2. CASE ~(fresh[w] /\ mr.status # obj.status)
    <2>1. Stop(w) /\ UNCHANGED <<mr, fresh>>
      BY <1>2 DEF Finish, SaveStatus
    <2> QED BY <2>1, StopSpecs
  <1> QED BY <1>1, <1>2

\* A step of a creation: the copy is not written any more.
LEMMA GotoSpecs ==
    ASSUME NEW CONSTANT specs, NEW CONSTANT statuses, NEW CONSTANT resources,
           TypeWith(specs, statuses, resources),
           NEW w \in Workers, NEW pc, pc \notin Writing, NEW obj, NEW obs,
           Goto(w, pc, obj, obs), UNCHANGED <<mr, fresh>>
    PROVE  SpecsRest
  <1>1. run'[w].pc = pc /\ \A v \in Workers \ {w} : run'[v] = run[v]
    BY GotoRun
  <1> QED BY <1>1 DEF SpecsRest

\* The steps that write no spec.
LEMMA RunSpecs ==
    ASSUME NEW CONSTANT specs, NEW CONSTANT statuses, NEW CONSTANT resources,
           TypeWith(specs, statuses, resources),
           NEW w \in Workers, NEW pc, NEW resource, NEW obj,
           \/ ObserveFailed(w)
           \/ UpdateObjectFails(w)
           \/ CreateSkipped(w)
           \/ CreateReturns(w, resource, obj)
           \/ CreateFails(w, resource)
           \/ CreateRefused(w)
           \/ External(w, pc, resource, obj)
           \/ ExternalUnchanged(w, pc, obj)
           \/ RemoveFinalizer(w)
           \/ Abandon(w)
    PROVE  SpecsRest
  <1>1. CASE \/ ObserveFailed(w) \/ UpdateObjectFails(w)
             \/ External(w, pc, resource, obj) \/ ExternalUnchanged(w, pc, obj)
    <2>1. Finish(w, run[w].obj) \/ Finish(w, obj)
      BY <1>1 DEF ObserveFailed, UpdateObjectFails, External, ExternalUnchanged
    <2> QED BY <2>1, FinishSpecs
  <1>2. "persist" \notin Writing /\ "persistFailed" \notin Writing
    BY DEF Writing
  <1>3. CASE CreateSkipped(w) \/ CreateFails(w, resource) \/ CreateRefused(w)
    <2>1. /\ UNCHANGED <<mr, fresh>>
          /\ \/ Goto(w, "persist", run[w].obj, run[w].obs)
             \/ Goto(w, "persistFailed", run[w].obj, run[w].obs)
      BY <1>3 DEF CreateSkipped, CreateFails, CreateRefused
    <2> QED BY <1>2, <2>1, GotoSpecs
  <1>4. CASE CreateReturns(w, resource, obj)
    <2>1. PICK i \in Ids : Goto(w, "persist", [obj EXCEPT !.extName = i], run[w].obs)
      BY <1>4 DEF CreateReturns
    <2> DEFINE named == [obj EXCEPT !.extName = i]
    <2>2. Goto(w, "persist", named, run[w].obs) /\ UNCHANGED <<mr, fresh>>
      BY <1>4, <2>1 DEF CreateReturns
    <2> HIDE DEF named
    <2> QED BY <1>2, <2>2, GotoSpecs
  <1>5. CASE RemoveFinalizer(w)
    <2>1. CASE fresh[w]
      <3>1. mr' = [mr EXCEPT !.exists = FALSE] /\ fresh' = [v \in Workers |-> FALSE]
        BY <1>5, <2>1 DEF RemoveFinalizer, Store, NoneFresh
      <3>2. mr'.spec = mr.spec
        BY <3>1 DEF TypeWith, Object
      <3> QED BY <3>1, <3>2 DEF SpecsRest
    <2>2. CASE ~fresh[w]
      BY <1>5, <2>2, StopSpecs DEF RemoveFinalizer
    <2> QED BY <2>1, <2>2
  <1>6. CASE Abandon(w)
    BY <1>6, StopSpecs DEF Abandon
  <1> QED BY <1>1, <1>3, <1>4, <1>5, <1>6

\* What users and the cloud do, but for an edit.
LEMMA OutsideSpecs ==
    ASSUME NEW CONSTANT specs, NEW CONSTANT statuses, NEW CONSTANT resources,
           TypeWith(specs, statuses, resources),
           \/ DeleteObject
           \/ UNCHANGED <<mr, run, fresh>>
    PROVE  SpecsRest
  <1>1. CASE DeleteObject
    <2>1. /\ \/ mr' = [mr EXCEPT !.deleting = TRUE]
             \/ mr' = [mr EXCEPT !.exists = FALSE]
          /\ fresh' = [v \in Workers |-> FALSE]
      BY <1>1 DEF DeleteObject, Store, NoneFresh
    <2>2. mr'.spec = mr.spec
      BY <2>1 DEF TypeWith, Object
    <2> QED BY <2>1, <2>2 DEF SpecsRest
  <1> QED BY <1>1, UnchangedSpecs

\* An edit leaves no copy fresh.
LEMMA EditCarries ==
    ASSUME NEW CONSTANT keeps, NEW spec, EditSpec(spec)
    PROVE  Carries(keeps)'
  BY DEF EditSpec, NoneFresh, Carries

LEMMA BeginCarries ==
    ASSUME NEW CONSTANT specs, NEW CONSTANT statuses, NEW CONSTANT resources,
           NEW CONSTANT keeps, Reflexive(keeps, specs),
           TypeWith(specs, statuses, resources), Carries(keeps),
           NEW w \in Workers, Begin(w)
    PROVE  Carries(keeps)' /\ <<mr.spec, mr'.spec>> \in keeps
  <1>1. CASE mr.create = "pending"
    <2>1. SpecsRest
      BY <1>1, UnchangedSpecs DEF Begin
    <2> QED BY <2>1, SpecsRestKeep
  <1>2. CASE mr.create # "pending"
    <2>1. /\ Goto(w, "observe", mr, Unobserved)
          /\ fresh' = [fresh EXCEPT ![w] = TRUE] /\ mr' = mr
      BY <1>2 DEF Begin
    <2>2. run'[w].obj = mr /\ \A v \in Workers \ {w} : run'[v] = run[v]
      BY <2>1, GotoRun
    <2>3. \A v \in Workers \ {w} : fresh'[v] = fresh[v]
      BY <2>1 DEF TypeWith
    <2>4. mr.spec \in specs
      BY DEF TypeWith, Object
    <2> QED BY <2>1, <2>2, <2>3, <2>4 DEF Carries, Reflexive
  <1> QED BY <1>1, <1>2

\* Late initialisation in memory keeps the settings.
LEMMA ObservedCarries ==
    ASSUME NEW CONSTANT specs, NEW CONSTANT statuses, NEW CONSTANT resources,
           NEW CONSTANT keeps, Reflexive(keeps, specs),
           TypeWith(specs, statuses, resources), Carries(keeps),
           NEW w \in Workers, NEW obj, NEW obs, Observed(w, obj, obs),
           <<mr.spec, run[w].obj.spec>> \in keeps => <<mr.spec, obj.spec>> \in keeps
    PROVE  Carries(keeps)' /\ <<mr.spec, mr'.spec>> \in keeps
  <1> DEFINE pc == CASE obj.deleting /\ obs.exists -> "delete"
                     [] obj.deleting /\ ~obs.exists -> "unfinalize"
                     [] ~obj.deleting /\ ~obj.finalizer -> "finalize"
                     [] OTHER -> Remaining(obs)
  <1>1. /\ run[w].pc = "observe"
        /\ IF ~obs.exists /\ InGracePeriod(obj)
           THEN Stop(w) /\ UNCHANGED <<mr, fresh>>
           ELSE IF pc = "done"
           THEN Finish(w, obj)
           ELSE Goto(w, pc, obj, obs) /\ UNCHANGED <<mr, fresh>>
    BY DEF Observed
  <1> HIDE DEF pc
  <1>2. CASE ~(~obs.exists /\ InGracePeriod(obj)) /\ pc # "done"
    <2>1. Goto(w, pc, obj, obs) /\ UNCHANGED <<mr, fresh>>
      BY <1>1, <1>2
    <2>2. run'[w].obj = obj /\ \A v \in Workers \ {w} : run'[v] = run[v]
      BY <2>1, GotoRun
    <2>3. fresh[w] => <<mr.spec, obj.spec>> \in keeps
      BY <1>1 DEF Carries, Writing
    <2>4. mr.spec \in specs
      BY DEF TypeWith, Object
    <2> QED BY <2>1, <2>2, <2>3, <2>4 DEF Carries, Reflexive
  <1>3. CASE ~(~(~obs.exists /\ InGracePeriod(obj)) /\ pc # "done")
    <2>1. SpecsRest
      BY <1>1, <1>3, StopSpecs, FinishSpecs
    <2> QED BY <2>1, SpecsRestKeep
  <1> QED BY <1>2, <1>3

\* A write keeps the settings, and the copy keeps what is written.
LEMMA WriteCarries ==
    ASSUME NEW CONSTANT specs, NEW CONSTANT statuses, NEW CONSTANT resources,
           NEW CONSTANT keeps, Reflexive(keeps, specs),
           TypeWith(specs, statuses, resources), Carries(keeps),
           NEW w \in Workers, run[w].pc \in Writing,
           NEW changed \in Object(specs, statuses), changed.spec = run[w].obj.spec,
           NEW stored, NEW admitted \in BOOLEAN, NEW pc,
           UpdateObject(w, changed, stored, admitted, pc),
           <<mr.spec, run[w].obj.spec>> \in keeps => <<mr.spec, stored>> \in keeps,
           <<stored, run[w].obj.spec>> \in keeps
    PROVE  Carries(keeps)' /\ <<mr.spec, mr'.spec>> \in keeps
  <1>1. CASE ~(fresh[w] /\ admitted)
    <2>1. SpecsRest
      BY <1>1, StopSpecs, FinishSpecs DEF UpdateObject
    <2> QED BY <2>1, SpecsRestKeep
  <1>2. CASE fresh[w] /\ admitted
    <2> DEFINE kept == [changed EXCEPT !.status = ReplyStatus(changed)]
    <2>1. /\ mr' = [changed EXCEPT !.spec = stored, !.status = mr.status]
          /\ fresh' = [v \in Workers |-> v = w]
          /\ GoOn(w, pc, kept, run[w].obs)
      BY <1>2 DEF UpdateObject, Store, OnlyFresh
    <2>2. mr'.spec = stored /\ kept.spec = run[w].obj.spec
      BY <2>1 DEF Object
    <2> HIDE DEF kept
    <2>3. run'[w].pc = "idle" \/ run'[w].obj = kept
      <3>1. CASE pc = "done"
        BY <2>1, <3>1, StopRun DEF GoOn, Idle
      <3>2. CASE pc # "done"
        <4>1. Goto(w, pc, kept, run[w].obs)
          BY <2>1, <3>2 DEF GoOn
        <4> QED BY <4>1, GotoRun
      <3> QED BY <3>1, <3>2
    <2>4. Carries(keeps)'
      BY <2>1, <2>2, <2>3 DEF Carries, Writing
    <2>5. <<mr.spec, stored>> \in keeps
      BY <1>2 DEF Carries
    <2> QED BY <2>2, <2>4, <2>5
  <1> QED BY <1>1, <1>2

LEMMA ObjectWriteCarries ==
    ASSUME NEW CONSTANT specs, NEW CONSTANT statuses, NEW CONSTANT resources,
           NEW CONSTANT keeps, Reflexive(keeps, specs),
           TypeWith(specs, statuses, resources), Carries(keeps),
           NEW w \in Workers, NEW stored, NEW admitted \in BOOLEAN,
           \/ AddFinalizer(w, stored, admitted)
           \/ AnnounceCreate(w, stored, admitted)
           \/ LateInitialize(w, stored, admitted),
           <<mr.spec, run[w].obj.spec>> \in keeps => <<mr.spec, stored>> \in keeps,
           <<stored, run[w].obj.spec>> \in keeps
    PROVE  Carries(keeps)' /\ <<mr.spec, mr'.spec>> \in keeps
  <1>1. run[w].pc \in Writing
    BY DEF AddFinalizer, AnnounceCreate, LateInitialize, Writing
  <1>2. run[w].obj \in Object(specs, statuses)
    BY <1>1, CopyType DEF TypeWith, Writing
  <1>3. CASE AddFinalizer(w, stored, admitted)
    <2> DEFINE changed == [run[w].obj EXCEPT !.finalizer = TRUE]
    <2>1. changed \in Object(specs, statuses) /\ changed.spec = run[w].obj.spec
      BY <1>2 DEF Object
    <2>2. UpdateObject(w, changed, stored, admitted, Remaining(run[w].obs))
      BY <1>3 DEF AddFinalizer
    <2> HIDE DEF changed
    <2> QED BY <1>1, <2>1, <2>2, WriteCarries
  <1>4. CASE AnnounceCreate(w, stored, admitted)
    <2> DEFINE changed == [run[w].obj EXCEPT !.create = "pending"]
    <2>1. changed \in Object(specs, statuses) /\ changed.spec = run[w].obj.spec
      BY <1>2 DEF Object, CreateStates
    <2>2. UpdateObject(w, changed, stored, admitted, "create")
      BY <1>4 DEF AnnounceCreate
    <2> HIDE DEF changed
    <2> QED BY <1>1, <2>1, <2>2, WriteCarries
  <1>5. CASE LateInitialize(w, stored, admitted)
    <2> DEFINE pc == IF run[w].obs.upToDate THEN "done" ELSE "update"
    <2>1. UpdateObject(w, run[w].obj, stored, admitted, pc)
      BY <1>5 DEF LateInitialize
    <2> HIDE DEF pc
    <2> QED BY <1>1, <1>2, <2>1, WriteCarries
  <1> QED BY <1>3, <1>4, <1>5

\* The record writes the stored object, but for what Create notes in it.
LEMMA RecordCarries ==
    ASSUME NEW CONSTANT specs, NEW CONSTANT statuses, NEW CONSTANT resources,
           NEW CONSTANT keeps, Reflexive(keeps, specs),
           TypeWith(specs, statuses, resources),
           NEW w \in Workers, NEW object \in Object(specs, statuses),
           \/ RecordCreateIn(w, object) /\ <<mr.spec, object.spec>> \in keeps
           \/ RecordFailedCreate(w)
    PROVE  Carries(keeps)' /\ <<mr.spec, mr'.spec>> \in keeps
  <1>1. Carries(keeps)'
    BY DEF RecordCreateIn, RecordFailedCreate, NoneFresh, Carries
  <1>2. CASE RecordCreateIn(w, object) /\ <<mr.spec, object.spec>> \in keeps
    <2>1. mr'.spec = object.spec
      BY <1>2 DEF RecordCreateIn, Store, Object
    <2> QED BY <1>1, <1>2, <2>1
  <1>3. CASE RecordFailedCreate(w)
    <2>1. mr'.spec = mr.spec /\ mr.spec \in specs
      BY <1>3 DEF RecordFailedCreate, Store, TypeWith, Object
    <2> QED BY <1>1, <2>1 DEF Reflexive
  <1> QED BY <1>2, <1>3

----------------------------------------------------------------------------
(* Types, lifecycle and settings together: what each step preserves.  A    *)
(* step may further keep Named, as all do but a creation for an object     *)
(* that has a name.                                                        *)

Sound(specs, statuses, resources, absent, keeps) ==
    /\ TypeWith(specs, statuses, resources)
    /\ Announced
    /\ Absence(absent)
    /\ Carries(keeps)

SoundStep(specs, statuses, resources, absent, keeps) ==
    /\ Sound(specs, statuses, resources, absent, keeps)'
    /\ <<mr.spec, mr'.spec>> \in keeps

\* What a step may do to the counters.
Counted ==
    \/ UNCHANGED environment
    \/ Fault /\ UNCHANGED edits
    \/ Edit /\ UNCHANGED faults

LEMMA CountedType ==
    ASSUME edits \in 0..MaxEdits, faults \in 0..MaxFaults, Counted
    PROVE  edits' \in 0..MaxEdits /\ faults' \in 0..MaxFaults
  BY BoundsAssumption DEF Counted, environment, Fault, Edit

\* A step put together from what it does to the three.
LEMMA SoundLife ==
    ASSUME NEW CONSTANT specs, NEW CONSTANT statuses, NEW CONSTANT resources,
           NEW CONSTANT absent, NEW CONSTANT keeps, Reflexive(keeps, specs),
           Sound(specs, statuses, resources, absent, keeps),
           TypeWith(specs, statuses, resources)',
           Announced' /\ Absence(absent)' /\ (Named => Named'),
           \/ SpecsRest
           \/ Carries(keeps)' /\ <<mr.spec, mr'.spec>> \in keeps
    PROVE  /\ SoundStep(specs, statuses, resources, absent, keeps)
           /\ Named => Named'
  <1>1. Carries(keeps)' /\ <<mr.spec, mr'.spec>> \in keeps
    BY SpecsRestKeep DEF Sound
  <1> QED BY <1>1 DEF Sound, SoundStep

LEMMA SoundMoves ==
    ASSUME NEW CONSTANT specs, NEW CONSTANT statuses, NEW CONSTANT resources,
           NEW CONSTANT absent, NEW CONSTANT keeps, Reflexive(keeps, specs),
           Sound(specs, statuses, resources, absent, keeps),
           TypeWith(specs, statuses, resources)',
           NEW w \in Workers, Moves(w, absent),
           \/ SpecsRest
           \/ Carries(keeps)' /\ <<mr.spec, mr'.spec>> \in keeps
    PROVE  /\ SoundStep(specs, statuses, resources, absent, keeps)
           /\ Named => Named'
  <1>1. Announced' /\ Absence(absent)' /\ (Named => Named')
    BY MovesLife DEF Sound
  <1> QED BY <1>1, SoundLife

LEMMA SoundRests ==
    ASSUME NEW CONSTANT specs, NEW CONSTANT statuses, NEW CONSTANT resources,
           NEW CONSTANT absent, NEW CONSTANT keeps, Reflexive(keeps, specs),
           Sound(specs, statuses, resources, absent, keeps),
           TypeWith(specs, statuses, resources)', Rests(absent),
           \/ SpecsRest
           \/ Carries(keeps)' /\ <<mr.spec, mr'.spec>> \in keeps
    PROVE  /\ SoundStep(specs, statuses, resources, absent, keeps)
           /\ Named => Named'
  <1>1. Announced' /\ Absence(absent)' /\ (Named => Named')
    BY RestsLife DEF Sound
  <1> QED BY <1>1, SoundLife

LEMMA SoundStutter ==
    ASSUME NEW CONSTANT specs, NEW CONSTANT statuses, NEW CONSTANT resources,
           NEW CONSTANT absent, NEW CONSTANT keeps, Reflexive(keeps, specs),
           Sound(specs, statuses, resources, absent, keeps),
           UNCHANGED vars
    PROVE  /\ SoundStep(specs, statuses, resources, absent, keeps)
           /\ Named => Named'
  <1>1. TypeWith(specs, statuses, resources)'
    BY DEF Sound, TypeWith, vars
  <1>2. Rests(absent) /\ SpecsRest
    BY StutterRests, UnchangedSpecs DEF vars
  <1> QED BY <1>1, <1>2, SoundRests

\* The copy of a worker that is not idle.
LEMMA SoundCopy ==
    ASSUME NEW CONSTANT specs, NEW CONSTANT statuses, NEW CONSTANT resources,
           TypeWith(specs, statuses, resources),
           NEW w \in Workers, run[w].pc # "idle"
    PROVE  /\ run[w].obj \in Object(specs, statuses)
           /\ run[w].obj.spec \in specs
           /\ run[w].obj.extName \in Ids \cup {Nil}
           /\ run[w].obj.status \in statuses \cup {Nil}
  <1>1. run[w].obj \in Object(specs, statuses)
    BY CopyType DEF TypeWith
  <1> QED BY <1>1 DEF Object

\* The stored object.
LEMMA SoundObject ==
    ASSUME NEW CONSTANT specs, NEW CONSTANT statuses, NEW CONSTANT resources,
           TypeWith(specs, statuses, resources)
    PROVE  /\ mr \in Object(specs, statuses)
           /\ mr.spec \in specs
           /\ mr.extName \in Ids \cup {Nil}
  <1>1. mr \in Object(specs, statuses)
    BY DEF TypeWith
  <1> QED BY <1>1 DEF Object

\* Another spec, or another status, for an object.
LEMMA ChangedSpec ==
    ASSUME NEW CONSTANT specs, NEW CONSTANT statuses,
           NEW obj \in Object(specs, statuses), NEW spec \in specs
    PROVE  /\ [obj EXCEPT !.spec = spec] \in Object(specs, statuses)
           /\ [obj EXCEPT !.spec = spec].spec = spec
           /\ SameCopy([obj EXCEPT !.spec = spec], obj)
  BY DEF Object, SameCopy

LEMMA ChangedStatus ==
    ASSUME NEW CONSTANT specs, NEW CONSTANT statuses,
           NEW obj \in Object(specs, statuses), NEW status \in statuses \cup {Nil}
    PROVE  /\ [obj EXCEPT !.status = status] \in Object(specs, statuses)
           /\ [obj EXCEPT !.status = status].spec = obj.spec
           /\ SameCopy([obj EXCEPT !.status = status], obj)
  BY DEF Object, SameCopy

\* What is live is a resource.
LEMMA LiveResource ==
    ASSUME NEW CONSTANT specs, NEW CONSTANT statuses, NEW CONSTANT resources,
           TypeWith(specs, statuses, resources),
           NEW i, (i \in Ids /\ Live(i)) \/ Readable(i)
    PROVE  i \in Ids /\ cloud[i] \in resources
  BY DEF TypeWith, Live, Readable

\* The steps of a reconcile.
LEMMA BeginSound ==
    ASSUME NEW CONSTANT specs, NEW CONSTANT statuses, NEW CONSTANT resources,
           NEW CONSTANT absent, NEW CONSTANT keeps, Reflexive(keeps, specs),
           Sound(specs, statuses, resources, absent, keeps),
           NEW w \in Workers, Begin(w)
    PROVE  /\ SoundStep(specs, statuses, resources, absent, keeps)
           /\ Named => Named'
  <1>1. TypeWith(specs, statuses, resources)'
    BY BeginType DEF Sound
  <1>2. Moves(w, absent)
    BY BeginMoves DEF Sound
  <1>3. Carries(keeps)' /\ <<mr.spec, mr'.spec>> \in keeps
    BY BeginCarries DEF Sound
  <1> QED BY <1>1, <1>2, <1>3, SoundMoves

LEMMA AbandonSound ==
    ASSUME NEW CONSTANT specs, NEW CONSTANT statuses, NEW CONSTANT resources,
           NEW CONSTANT absent, NEW CONSTANT keeps, Reflexive(keeps, specs),
           Sound(specs, statuses, resources, absent, keeps),
           NEW w \in Workers, Abandon(w)
    PROVE  /\ SoundStep(specs, statuses, resources, absent, keeps)
           /\ Named => Named'
  <1>1. run[w].pc = "persist" => run[w].obj.extName # Nil
    BY DEF Sound, Announced, CreatorAgrees
  <1>2. TypeWith(specs, statuses, resources)'
    BY <1>1, BoundsAssumption, NilAssumption, AbandonType DEF Sound
  <1>3. Rests(absent) /\ SpecsRest
    BY AbandonRests, RunSpecs DEF Sound
  <1> QED BY <1>2, <1>3, SoundRests

LEMMA ObserveFailedSound ==
    ASSUME NEW CONSTANT specs, NEW CONSTANT statuses, NEW CONSTANT resources,
           NEW CONSTANT absent, NEW CONSTANT keeps, Reflexive(keeps, specs),
           Sound(specs, statuses, resources, absent, keeps),
           NEW w \in Workers, ObserveFailed(w), Counted
    PROVE  /\ SoundStep(specs, statuses, resources, absent, keeps)
           /\ Named => Named'
  <1>1. edits' \in 0..MaxEdits /\ faults' \in 0..MaxFaults
    BY CountedType DEF Sound, TypeWith
  <1>2. TypeWith(specs, statuses, resources)'
    BY <1>1, ObserveFailedType DEF Sound
  <1>3. Moves(w, absent) /\ SpecsRest
    BY ObserveFailedMoves, RunSpecs DEF Sound
  <1> QED BY <1>2, <1>3, SoundMoves

\* A reconcile ends early and reports the status it has in memory.
LEMMA FinishSound ==
    ASSUME NEW CONSTANT specs, NEW CONSTANT statuses, NEW CONSTANT resources,
           NEW CONSTANT absent, NEW CONSTANT keeps, Reflexive(keeps, specs),
           Sound(specs, statuses, resources, absent, keeps),
           NEW w \in Workers, run[w].pc # "persist",
           NEW obj \in Object(specs, statuses), Finish(w, obj),
           UNCHANGED <<cloud, hidden, grace, lost>>, Counted
    PROVE  /\ SoundStep(specs, statuses, resources, absent, keeps)
           /\ Named => Named'
  <1>1. edits' \in 0..MaxEdits /\ faults' \in 0..MaxFaults
    BY CountedType DEF Sound, TypeWith
  <1>2. TypeWith(specs, statuses, resources)'
    <2>1. /\ mr' \in Object(specs, statuses)
          /\ run' \in [Workers -> Runs(specs, statuses)]
          /\ fresh' \in [Workers -> BOOLEAN]
      BY FinishType DEF Sound
    <2> QED BY <1>1, <2>1 DEF Sound, TypeWith
  <1>3. Rests(absent)
    BY FinishOnlyRests DEF Sound
  <1>4. SpecsRest
    BY FinishSpecs DEF Sound
  <1> QED BY <1>2, <1>3, <1>4, SoundRests

LEMMA ObservedSound ==
    ASSUME NEW CONSTANT specs, NEW CONSTANT statuses, NEW CONSTANT resources,
           NEW CONSTANT absent, NEW CONSTANT keeps, Reflexive(keeps, specs),
           Sound(specs, statuses, resources, absent, keeps),
           NEW w \in Workers, NEW obj \in Object(specs, statuses),
           NEW obs \in Observation, Observed(w, obj, obs),
           SameCopy(obj, run[w].obj), Counted,
           fresh[w] /\ ~obs.exists =>
               \/ ~Readable(obj.extName)
               \/ <<mr.spec, cloud[obj.extName]>> \in absent,
           <<mr.spec, run[w].obj.spec>> \in keeps => <<mr.spec, obj.spec>> \in keeps
    PROVE  /\ SoundStep(specs, statuses, resources, absent, keeps)
           /\ Named => Named'
  <1>1. edits' \in 0..MaxEdits /\ faults' \in 0..MaxFaults
    BY CountedType DEF Sound, TypeWith
  <1>2. TypeWith(specs, statuses, resources)'
    BY <1>1, ObservedType DEF Sound
  <1>3. Moves(w, absent)
    BY ObservedMoves DEF Sound
  <1>4. Carries(keeps)' /\ <<mr.spec, mr'.spec>> \in keeps
    BY ObservedCarries DEF Sound
  <1> QED BY <1>2, <1>3, <1>4, SoundMoves

LEMMA UpdateObjectFailsSound ==
    ASSUME NEW CONSTANT specs, NEW CONSTANT statuses, NEW CONSTANT resources,
           NEW CONSTANT absent, NEW CONSTANT keeps, Reflexive(keeps, specs),
           Sound(specs, statuses, resources, absent, keeps),
           NEW w \in Workers, UpdateObjectFails(w)
    PROVE  /\ SoundStep(specs, statuses, resources, absent, keeps)
           /\ Named => Named'
  <1>1. TypeWith(specs, statuses, resources)'
    BY BoundsAssumption, UpdateObjectFailsType DEF Sound
  <1>2. Moves(w, absent) /\ SpecsRest
    BY ObserveFailedMoves, RunSpecs DEF Sound
  <1> QED BY <1>1, <1>2, SoundMoves

LEMMA ObjectWriteSound ==
    ASSUME NEW CONSTANT specs, NEW CONSTANT statuses, NEW CONSTANT resources,
           NEW CONSTANT absent, NEW CONSTANT keeps, Reflexive(keeps, specs),
           Sound(specs, statuses, resources, absent, keeps),
           NEW w \in Workers, NEW stored \in specs, NEW admitted \in BOOLEAN,
           \/ /\ AddFinalizer(w, stored, admitted)
              /\ fresh[w] =>
                   \A c : <<mr.spec, c>> \in absent => <<stored, c>> \in absent
           \/ AnnounceCreate(w, stored, admitted)
           \/ LateInitialize(w, stored, admitted),
           <<mr.spec, run[w].obj.spec>> \in keeps => <<mr.spec, stored>> \in keeps,
           <<stored, run[w].obj.spec>> \in keeps
    PROVE  /\ SoundStep(specs, statuses, resources, absent, keeps)
           /\ Named => Named'
  <1>1. TypeWith(specs, statuses, resources)'
    BY ObjectWriteType DEF Sound
  <1>2. Carries(keeps)' /\ <<mr.spec, mr'.spec>> \in keeps
    BY ObjectWriteCarries DEF Sound
  <1>3. CASE /\ AddFinalizer(w, stored, admitted)
             /\ fresh[w] =>
                  \A c : <<mr.spec, c>> \in absent => <<stored, c>> \in absent
    <2>1. Moves(w, absent)
      BY <1>3, AddFinalizerMoves DEF Sound
    <2> QED BY <1>1, <1>2, <2>1, SoundMoves
  <1>4. CASE LateInitialize(w, stored, admitted)
    <2>1. Moves(w, absent)
      BY <1>4, LateInitializeMoves DEF Sound
    <2> QED BY <1>1, <1>2, <2>1, SoundMoves
  <1>5. CASE AnnounceCreate(w, stored, admitted)
    <2>1. Announced' /\ Absence(absent)' /\ (Named => Named')
      BY <1>5, AnnounceCreateLife DEF Sound
    <2> QED BY <1>1, <1>2, <2>1, SoundLife
  <1> QED BY <1>3, <1>4, <1>5

LEMMA CreateSkippedSound ==
    ASSUME NEW CONSTANT specs, NEW CONSTANT statuses, NEW CONSTANT resources,
           NEW CONSTANT absent, NEW CONSTANT keeps, Reflexive(keeps, specs),
           Sound(specs, statuses, resources, absent, keeps),
           NEW w \in Workers, CreateSkipped(w), run[w].obj.extName # Nil
    PROVE  /\ SoundStep(specs, statuses, resources, absent, keeps)
           /\ Named => Named'
  <1>1. TypeWith(specs, statuses, resources)' /\ SpecsRest
    BY CreateSkippedType, RunSpecs DEF Sound
  <1>2. Announced' /\ Absence(absent)' /\ (Named => Named')
    BY CreateSkippedLife DEF Sound
  <1> QED BY <1>1, <1>2, SoundLife

\* A creation for an object without a name keeps Named.
LEMMA CreateSound ==
    ASSUME NEW CONSTANT specs, NEW CONSTANT statuses, NEW CONSTANT resources,
           NEW CONSTANT absent, NEW CONSTANT keeps, Reflexive(keeps, specs),
           Sound(specs, statuses, resources, absent, keeps),
           NEW w \in Workers, NEW resource \in resources, resource # Unused,
           NEW obj \in Object(specs, statuses),
           \/ CreateReturns(w, resource, obj)
           \/ CreateFails(w, resource)
           \/ CreateRefused(w)
    PROVE  /\ SoundStep(specs, statuses, resources, absent, keeps)
           /\ Named /\ mr.extName = Nil => Named'
  <1>1. TypeWith(specs, statuses, resources)'
    BY BoundsAssumption, CreateReturnsType, CreateFailsType, CreateRefusedType
       DEF Sound
  <1>2. SpecsRest
    BY RunSpecs DEF Sound
  <1>3. Carries(keeps)' /\ <<mr.spec, mr'.spec>> \in keeps
    BY <1>2, SpecsRestKeep DEF Sound
  <1>4. /\ Announced' /\ Absence(absent)'
        /\ Named /\ mr.extName = Nil => Named'
    BY CreateReturnsLife, CreateFailsLife DEF Sound
  <1> QED BY <1>1, <1>3, <1>4 DEF Sound, SoundStep

LEMMA RecordSound ==
    ASSUME NEW CONSTANT specs, NEW CONSTANT statuses, NEW CONSTANT resources,
           NEW CONSTANT absent, NEW CONSTANT keeps, Reflexive(keeps, specs),
           Sound(specs, statuses, resources, absent, keeps),
           NEW w \in Workers, NEW object \in Object(specs, statuses),
           \/ /\ RecordCreateIn(w, object) /\ SameCopy(object, mr)
              /\ <<mr.spec, object.spec>> \in keeps
           \/ RecordFailedCreate(w)
    PROVE  /\ SoundStep(specs, statuses, resources, absent, keeps)
           /\ Named => Named'
  <1>1. TypeWith(specs, statuses, resources)'
    BY RecordType DEF Sound
  <1>2. Announced' /\ Absence(absent)' /\ (Named => Named')
    BY RecordCreateLife, RecordFailedCreateLife DEF Sound
  <1>3. Carries(keeps)' /\ <<mr.spec, mr'.spec>> \in keeps
    BY RecordCarries DEF Sound
  <1> QED BY <1>1, <1>2, <1>3, SoundLife

\* Update and Delete leave a resource, or a deleted one, where one was live,
\* and absent what counted as absent.
LeftAbsent(absent, old, new) ==
    <<mr.spec, old>> \in absent /\ new # Deleted => <<mr.spec, new>> \in absent

LEMMA ExternalSound ==
    ASSUME NEW CONSTANT specs, NEW CONSTANT statuses, NEW CONSTANT resources,
           NEW CONSTANT absent, NEW CONSTANT keeps, Reflexive(keeps, specs),
           Sound(specs, statuses, resources, absent, keeps),
           NEW w \in Workers, NEW pc \in {"update", "delete"},
           NEW obj \in Object(specs, statuses),
           NEW resource \in resources \cup {Deleted}, resource # Unused,
           External(w, pc, resource, obj), Readable(run[w].obj.extName),
           LeftAbsent(absent, cloud[run[w].obj.extName], resource), Counted
    PROVE  /\ SoundStep(specs, statuses, resources, absent, keeps)
           /\ Named => Named'
  <1>1. edits' \in 0..MaxEdits /\ faults' \in 0..MaxFaults
    BY CountedType DEF Sound, TypeWith
  <1>2. pc \in Steps
    BY DEF Steps
  <1>3. TypeWith(specs, statuses, resources)'
    BY <1>1, <1>2, ExternalType DEF Sound
  <1>4. Moves(w, absent)
    BY ExternalMoves DEF Sound, Readable, LeftAbsent
  <1>5. SpecsRest
    BY RunSpecs DEF Sound
  <1> QED BY <1>3, <1>4, <1>5, SoundMoves

LEMMA UnchangedSound ==
    ASSUME NEW CONSTANT specs, NEW CONSTANT statuses, NEW CONSTANT resources,
           NEW CONSTANT absent, NEW CONSTANT keeps, Reflexive(keeps, specs),
           Sound(specs, statuses, resources, absent, keeps),
           NEW w \in Workers, NEW pc \in {"update", "delete"},
           NEW obj \in Object(specs, statuses), ExternalUnchanged(w, pc, obj),
           Counted
    PROVE  /\ SoundStep(specs, statuses, resources, absent, keeps)
           /\ Named => Named'
  <1>1. /\ run[w].pc # "persist" /\ Finish(w, obj)
        /\ UNCHANGED <<cloud, hidden, grace, lost>>
    BY DEF ExternalUnchanged
  <1> QED BY <1>1, FinishSound

LEMMA RemoveFinalizerSound ==
    ASSUME NEW CONSTANT specs, NEW CONSTANT statuses, NEW CONSTANT resources,
           NEW CONSTANT absent, NEW CONSTANT keeps, Reflexive(keeps, specs),
           Sound(specs, statuses, resources, absent, keeps),
           LagBounded => Accounted(absent), NEW w \in Workers, RemoveFinalizer(w)
    PROVE  /\ SoundStep(specs, statuses, resources, absent, keeps)
           /\ Named => Named'
  <1>1. TypeWith(specs, statuses, resources)' /\ SpecsRest
    BY RemoveFinalizerType, RunSpecs DEF Sound
  <1>2. Announced' /\ Absence(absent)' /\ (Named => Named')
    BY RemoveFinalizerLife DEF Sound
  <1> QED BY <1>1, <1>2, SoundLife

\* Users and the cloud.  An edit alone may change what was set.
LEMMA EditSound ==
    ASSUME NEW CONSTANT specs, NEW CONSTANT statuses, NEW CONSTANT resources,
           NEW CONSTANT absent, NEW CONSTANT keeps, Reflexive(keeps, specs),
           Sound(specs, statuses, resources, absent, keeps),
           Unused # Deleted, NEW spec \in specs, EditSpec(spec)
    PROVE  /\ Sound(specs, statuses, resources, absent, keeps)'
           /\ Named => Named'
           /\ edits' # edits /\ mr'.spec = spec
  <1>1. TypeWith(specs, statuses, resources)'
    BY BoundsAssumption, OutsideType DEF Sound
  <1>2. Rests(absent)
    BY OutsideRests DEF Sound
  <1>3. Announced' /\ Absence(absent)' /\ (Named => Named')
    BY <1>2, RestsLife DEF Sound
  <1>4. Carries(keeps)'
    BY EditCarries
  <1>5. edits' # edits
    BY DEF EditSpec, Edit, Sound, TypeWith
  <1>6. mr'.spec = spec
    BY DEF EditSpec, Store, Sound, TypeWith, Object
  <1> QED BY <1>1, <1>3, <1>4, <1>5, <1>6 DEF Sound

LEMMA DeleteObjectSound ==
    ASSUME NEW CONSTANT specs, NEW CONSTANT statuses, NEW CONSTANT resources,
           NEW CONSTANT absent, NEW CONSTANT keeps, Reflexive(keeps, specs),
           Sound(specs, statuses, resources, absent, keeps),
           DeleteObject
    PROVE  /\ SoundStep(specs, statuses, resources, absent, keeps)
           /\ Named => Named'
  <1>1. TypeWith(specs, statuses, resources)'
    BY BoundsAssumption, OutsideType DEF Sound
  <1>2. Announced' /\ Absence(absent)' /\ (Named => Named')
    BY DeleteObjectLife DEF Sound
  <1>3. SpecsRest
    BY OutsideSpecs DEF Sound
  <1> QED BY <1>1, <1>2, <1>3, SoundLife

LEMMA LagSound ==
    ASSUME NEW CONSTANT specs, NEW CONSTANT statuses, NEW CONSTANT resources,
           NEW CONSTANT absent, NEW CONSTANT keeps, Reflexive(keeps, specs),
           Sound(specs, statuses, resources, absent, keeps),
           Unused # Deleted,
           (\E i \in Ids : BecomeReadable(i)) \/ EndGracePeriod
    PROVE  /\ SoundStep(specs, statuses, resources, absent, keeps)
           /\ Named => Named'
  <1>1. TypeWith(specs, statuses, resources)'
    BY BoundsAssumption, OutsideType DEF Sound
  <1>2. Rests(absent)
    BY OutsideRests DEF Sound
  <1>3. UNCHANGED <<mr, run, fresh>>
    BY DEF BecomeReadable, EndGracePeriod
  <1> QED BY <1>1, <1>2, <1>3, UnchangedSpecs, SoundRests

\* The service or another client changes a resource, or deletes it.
LEMMA CloudSound ==
    ASSUME NEW CONSTANT specs, NEW CONSTANT statuses, NEW CONSTANT resources,
           NEW CONSTANT absent, NEW CONSTANT keeps, Reflexive(keeps, specs),
           Sound(specs, statuses, resources, absent, keeps),
           NEW i \in Ids, NEW resource \in resources \cup {Deleted},
           Live(i), resource # Unused,
           LeftAbsent(absent, cloud[i], resource),
           cloud' = [cloud EXCEPT ![i] = resource],
           UNCHANGED <<mr, run, fresh, hidden, grace, lost>>, Counted
    PROVE  /\ SoundStep(specs, statuses, resources, absent, keeps)
           /\ Named => Named'
  <1>1. edits' \in 0..MaxEdits /\ faults' \in 0..MaxFaults
    BY CountedType DEF Sound, TypeWith
  <1>2. TypeWith(specs, statuses, resources)'
    BY <1>1 DEF Sound, TypeWith
  <1>3. Rests(absent) /\ SpecsRest
    BY CloudRests, UnchangedSpecs DEF Sound, LeftAbsent
  <1> QED BY <1>2, <1>3, SoundRests

LEMMA InitSound ==
    ASSUME NEW CONSTANT specs, NEW CONSTANT statuses, NEW CONSTANT resources,
           NEW CONSTANT absent, NEW CONSTANT keeps,
           NEW applied \in SUBSET specs, NEW found \in SUBSET resources,
           Unused \notin resources, InitWith(applied, found)
    PROVE  Sound(specs, statuses, resources, absent, keeps) /\ Named
  <1>1. InitWith(specs, resources)
    BY DEF InitWith
  <1>2. TypeWith(specs, statuses, resources) /\ Creation /\ Absence(absent)
    BY <1>1, BoundsAssumption, InitLife
  <1>3. Carries(keeps)
    BY DEF InitWith, Carries
  <1> QED BY <1>2, <1>3 DEF Sound, Creation

============================================================================
