-------------------------- MODULE LifecycleProofs --------------------------
(***************************************************************************)
(* Every step of the reconcile loop, whatever the controller, is a step of *)
(* Lifecycle or a stutter, and what has to be known for that besides the   *)
(* invariants of ManagedReconcilerProofs.                                  *)
(***************************************************************************)
EXTENDS ManagedReconcilerProofs

\* An object leaves with its finalizer; its resource and the ones on their way
\* to it are not lost.
NothingLost ==
    /\ mr.deleting => mr.finalizer
    /\ mr.extName \notin lost
    /\ \A i \in lost : cloud[i] # Unused
    /\ \A w \in Workers :
          run[w].pc = "persist" => run[w].obj.extName \notin lost

\* A copy knows of no deletion and no name that the object has not, and a
\* resource is deleted, or missed, only for a deleted object.
CopiesFollow ==
    \A w \in Workers :
        /\ run[w].pc \in Steps /\ run[w].obj.deleting => mr.deleting
        /\ run[w].pc \in {"delete", "unfinalize"} => run[w].obj.deleting
        /\ run[w].pc \in Planning => run[w].obj.extName \in {Nil, mr.extName}

Tidy == NothingLost /\ CopiesFollow

Implements(bounded, dying) ==
    [Promise(bounded, dying)!Next]_(Promise(bounded, dying)!vars)

----------------------------------------------------------------------------
(* What steps have in common *)

SameResources(dying) ==
    /\ \A i \in Ids : cloud'[i] \in dying <=> cloud[i] \in dying
    /\ \A i \in Ids : cloud'[i] = Unused <=> cloud[i] = Unused
    /\ \A i \in Ids : cloud'[i] = Deleted <=> cloud[i] = Deleted
    /\ lost' = lost

\* A step that neither the object nor a resource notices.
LEMMA StutterImplements ==
    ASSUME NEW CONSTANT bounded, NEW CONSTANT dying,
           SameObject, SameResources(dying), edits' = edits
    PROVE  Implements(bounded, dying)
  <1>1. objectState' = objectState
    BY DEF SameObject, objectState
  <1>2. resourceState(dying)' = resourceState(dying)
    BY DEF SameResources, resourceState
  <1> QED BY <1>1, <1>2 DEF SameObject, Implements, Promise!vars

LEMMA TouchImplements ==
    ASSUME NEW CONSTANT bounded, NEW CONSTANT dying,
           SameObject, SameResources(dying), Edit
    PROVE  Implements(bounded, dying)
  <1>1. objectState' = objectState
    BY DEF SameObject, objectState
  <1>2. resourceState(dying)' = resourceState(dying)
    BY DEF SameResources, resourceState
  <1>3. Promise(bounded, dying)!Touch
    BY <1>1, <1>2 DEF SameObject, Edit, Promise!Touch
  <1> QED BY <1>3 DEF Implements, Promise!Next

\* Reconciles end, or go on with the copy they had.
LEMMA SameRunsTidy ==
    ASSUME Tidy, SameObject,
           \A i \in Ids : cloud'[i] = Unused <=> cloud[i] = Unused,
           lost \subseteq Ids, lost' = lost,
           \A v \in Workers :
              \/ run'[v] = run[v]
              \/ run'[v] = Idle
    PROVE  Tidy'
  <1>1. \A v \in Workers : run'[v].pc # "idle" => run'[v] = run[v]
    BY DEF Idle
  <1>2. NothingLost'
    BY <1>1 DEF Tidy, NothingLost, SameObject
  <1>3. CopiesFollow'
    BY <1>1 DEF Tidy, CopiesFollow, SameObject, Steps, Planning
  <1> QED BY <1>2, <1>3 DEF Tidy

\* Of all workers only w moves.
LEMMA MoveTidy ==
    ASSUME Tidy, NEW w \in Workers,
           mr'.deleting = mr.deleting, mr'.extName = mr.extName,
           mr.finalizer => mr'.finalizer,
           \A i \in Ids : cloud'[i] = Unused => cloud[i] = Unused,
           lost \subseteq Ids, lost' = lost,
           \A v \in Workers \ {w} : run'[v] = run[v],
           \/ run'[w] = Idle
           \/ /\ run'[w].obj.deleting => mr.deleting
              /\ run'[w].pc \in {"delete", "unfinalize"} => run'[w].obj.deleting
              /\ run'[w].pc \in Planning => run'[w].obj.extName \in {Nil, mr.extName}
              /\ run'[w].pc = "persist" => run'[w].obj.extName \notin lost
    PROVE  Tidy'
  <1>1. run'[w].pc # "idle" => run'[w] # Idle
    BY DEF Idle
  <1>2. NothingLost'
    BY <1>1 DEF Tidy, NothingLost
  <1>3. \A v \in Workers :
          /\ run'[v].pc \in Steps /\ run'[v].obj.deleting => mr.deleting
          /\ run'[v].pc \in {"delete", "unfinalize"} => run'[v].obj.deleting
          /\ run'[v].pc \in Planning => run'[v].obj.extName \in {Nil, mr.extName}
    BY <1>1 DEF Tidy, CopiesFollow, Steps, Planning
  <1>4. CopiesFollow'
    BY <1>3 DEF CopiesFollow
  <1> QED BY <1>2, <1>4 DEF Tidy

\* A reconcile ends that changed nothing.
LEMMA FinishImplements ==
    ASSUME NEW CONSTANT specs, NEW CONSTANT statuses, NEW CONSTANT resources,
           NEW CONSTANT bounded, NEW CONSTANT dying,
           TypeWith(specs, statuses, resources), Tidy,
           NEW w \in Workers, run[w].pc # "persist", NEW obj, Finish(w, obj),
           UNCHANGED <<hidden, grace, lost, edits>>, SameResources(dying)
    PROVE  Tidy' /\ Implements(bounded, dying)
  <1>1. /\ \A i \in Ids : cloud'[i] = Unused <=> cloud[i] = Unused
        /\ \A i \in Ids : Live(i)' => Live(i)
    BY DEF SameResources, Live
  <1>2. Quiet
    <2>1. Rests({})
      BY <1>1, FinishRests
    <2> QED BY <2>1 DEF Rests
  <1>3. SameObject /\ lost \subseteq Ids
    BY <1>2 DEF Quiet, TypeWith
  <1>4. Tidy'
    BY <1>1, <1>2, <1>3, SameRunsTidy DEF Quiet
  <1> QED BY <1>3, <1>4, StutterImplements

LEMMA StillSame ==
    ASSUME NEW CONSTANT dying, UNCHANGED <<cloud, lost>>
    PROVE  SameResources(dying)
  BY DEF SameResources

----------------------------------------------------------------------------
(* The steps of a reconcile *)

LEMMA BeginImplements ==
    ASSUME NEW CONSTANT specs, NEW CONSTANT statuses, NEW CONSTANT resources,
           NEW CONSTANT bounded, NEW CONSTANT dying,
           TypeWith(specs, statuses, resources), Tidy,
           NEW w \in Workers, Begin(w)
    PROVE  Tidy' /\ Implements(bounded, dying)
  <1>1. UNCHANGED <<mr, cloud, lost, edits>> /\ lost \subseteq Ids
    BY DEF Begin, environment, TypeWith
  <1>2. SameObject /\ SameResources(dying)
    BY <1>1, StillSame DEF SameObject
  <1>3. CASE mr.create = "pending"
    <2>1. run' = run
      BY <1>3 DEF Begin
    <2> QED BY <1>1, <1>2, <2>1, SameRunsTidy, StutterImplements
  <1>4. CASE mr.create # "pending"
    <2>1. Goto(w, "observe", mr, Unobserved)
      BY <1>4 DEF Begin
    <2>2. /\ run'[w].pc = "observe" /\ run'[w].obj = mr
          /\ \A v \in Workers \ {w} : run'[v] = run[v]
      BY <2>1, GotoRun
    <2>3. Tidy'
      BY <1>1, <2>2, MoveTidy
    <2> QED BY <1>1, <1>2, <2>3, StutterImplements
  <1> QED BY <1>3, <1>4

LEMMA ObservedImplements ==
    ASSUME NEW CONSTANT specs, NEW CONSTANT statuses, NEW CONSTANT resources,
           NEW CONSTANT bounded, NEW CONSTANT dying,
           TypeWith(specs, statuses, resources), Tidy,
           NEW w \in Workers, NEW obj \in Object(specs, statuses),
           NEW obs \in Observation, Observed(w, obj, obs),
           SameCopy(obj, run[w].obj), edits' = edits
    PROVE  Tidy' /\ Implements(bounded, dying)
  <1> DEFINE pc == CASE obj.deleting /\ obs.exists -> "delete"
                     [] obj.deleting /\ ~obs.exists -> "unfinalize"
                     [] ~obj.deleting /\ ~obj.finalizer -> "finalize"
                     [] OTHER -> Remaining(obs)
  <1>1. /\ run[w].pc = "observe" /\ UNCHANGED <<cloud, hidden, grace, lost>>
        /\ lost \subseteq Ids
    BY DEF Observed, TypeWith
  <1>2. SameResources(dying)
    BY <1>1, StillSame
  <1>3. CASE ~obs.exists /\ InGracePeriod(obj)
    <2>1. Stop(w) /\ UNCHANGED <<mr, fresh>>
      BY <1>3 DEF Observed
    <2>2. run'[w] = Idle /\ \A v \in Workers \ {w} : run'[v] = run[v]
      BY <2>1, StopRun
    <2>3. SameObject
      BY <2>1 DEF SameObject
    <2> QED BY <1>1, <1>2, <2>2, <2>3, SameRunsTidy, StutterImplements
  <1>4. CASE ~(~obs.exists /\ InGracePeriod(obj)) /\ pc = "done"
    <2>1. Finish(w, obj)
      BY <1>4 DEF Observed
    <2> QED BY <1>1, <1>2, <2>1, FinishImplements
  <1>5. CASE ~(~obs.exists /\ InGracePeriod(obj)) /\ pc # "done"
    <2>1. Goto(w, pc, obj, obs) /\ UNCHANGED <<mr, fresh>>
      BY <1>5 DEF Observed
    <2>2. pc \in {"delete", "unfinalize"} => obj.deleting
      BY DEF Remaining
    <2>3. pc # "persist"
      BY DEF Remaining
    <2>4. /\ obj.deleting => mr.deleting
          /\ obj.extName \in {Nil, mr.extName}
      BY <1>1 DEF Tidy, CopiesFollow, SameCopy, Steps, Planning
    <2> HIDE DEF pc
    <2>5. /\ run'[w].pc = pc /\ run'[w].obj = obj
          /\ \A v \in Workers \ {w} : run'[v] = run[v]
      BY <2>1, GotoRun
    <2>6. Tidy'
      BY <1>1, <2>1, <2>2, <2>3, <2>4, <2>5, MoveTidy
    <2>7. SameObject
      BY <2>1 DEF SameObject
    <2> QED BY <1>1, <1>2, <2>6, <2>7, StutterImplements
  <1> QED BY <1>3, <1>4, <1>5

\* AddFinalizer, AnnounceCreate and LateInitialize.
LEMMA WriteImplements ==
    ASSUME NEW CONSTANT specs, NEW CONSTANT statuses, NEW CONSTANT resources,
           NEW CONSTANT bounded, NEW CONSTANT dying,
           TypeWith(specs, statuses, resources), Creation, Tidy,
           NEW w \in Workers, run[w].pc \in {"finalize", "announce", "lateInit"},
           NEW changed \in Object(specs, statuses),
           NEW stored, NEW admitted \in BOOLEAN,
           NEW pc, pc \notin {"delete", "unfinalize", "persist"},
           changed.exists = run[w].obj.exists,
           changed.deleting = run[w].obj.deleting,
           changed.extName = run[w].obj.extName,
           changed.finalizer \/ changed.finalizer = run[w].obj.finalizer,
           UpdateObject(w, changed, stored, admitted, pc),
           UNCHANGED <<cloud, hidden, grace, lost, edits>>
    PROVE  Tidy' /\ Implements(bounded, dying)
  <1>1. SameResources(dying) /\ lost \subseteq Ids
    BY StillSame DEF TypeWith
  <1>2. CASE ~(fresh[w] /\ admitted)
    <2>1. Rests({})
      BY <1>2, RefusedWriteRests
    <2>2. SameObject /\ \A v \in Workers : run'[v] = run[v] \/ run'[v] = Idle
      BY <2>1 DEF Rests, Quiet
    <2> QED BY <1>1, <2>2, SameRunsTidy, StutterImplements
  <1>3. CASE fresh[w] /\ admitted
    <2> DEFINE kept == [changed EXCEPT !.status = ReplyStatus(changed)]
    <2>1. /\ mr' = [changed EXCEPT !.spec = stored, !.status = mr.status]
          /\ GoOn(w, pc, kept, run[w].obs)
      BY <1>3 DEF UpdateObject, Store, OnlyFresh
    <2>2. SameCopy(mr', changed) /\ SameCopy(kept, changed)
      BY <2>1 DEF SameCopy, Object
    <2>3. /\ run[w].obj.exists
          /\ run[w].obj.exists = mr.exists
          /\ run[w].obj.deleting = mr.deleting
          /\ run[w].obj.finalizer = mr.finalizer
          /\ run[w].obj.extName = mr.extName
      BY <1>3 DEF Creation, Announced, CopiesAgree, Planning
    <2>4. /\ mr'.exists /\ mr.exists
          /\ mr'.deleting = mr.deleting
          /\ mr'.extName = mr.extName
          /\ mr'.finalizer \/ mr'.finalizer = mr.finalizer
      BY <2>2, <2>3 DEF SameCopy
    <2> HIDE DEF kept
    <2>5. /\ \A v \in Workers \ {w} : run'[v] = run[v]
          /\ run'[w] = Idle \/ (run'[w].pc = pc /\ run'[w].obj = kept)
      <3>1. CASE pc = "done"
        BY <2>1, <3>1, StopRun DEF GoOn
      <3>2. CASE pc # "done"
        <4>1. Goto(w, pc, kept, run[w].obs)
          BY <2>1, <3>2 DEF GoOn
        <4> QED BY <4>1, GotoRun
      <3> QED BY <3>1, <3>2
    <2>6. kept.deleting = mr.deleting /\ kept.extName = mr.extName
      BY <2>2, <2>3 DEF SameCopy
    <2>7. Tidy'
      BY <1>1, <2>4, <2>5, <2>6, MoveTidy
    <2>8. resourceState(dying)' = resourceState(dying)
      BY DEF resourceState
    <2>9. CASE ~mr.deleting /\ ~mr.finalizer /\ mr'.finalizer
      <3>1. Promise(bounded, dying)!Hold
        BY <2>4, <2>8, <2>9 DEF Promise!Hold, objectState
      <3> QED BY <2>7, <3>1 DEF Implements, Promise!Next
    <2>10. CASE ~(~mr.deleting /\ ~mr.finalizer /\ mr'.finalizer)
      <3>1. objectState' = objectState
        BY <2>4, <2>10 DEF objectState
      <3> QED BY <2>4, <2>7, <2>8, <3>1 DEF Implements, Promise!vars
    <2> QED BY <2>9, <2>10
  <1> QED BY <1>2, <1>3

LEMMA ObjectWriteImplements ==
    ASSUME NEW CONSTANT specs, NEW CONSTANT statuses, NEW CONSTANT resources,
           NEW CONSTANT bounded, NEW CONSTANT dying,
           TypeWith(specs, statuses, resources), Creation, Tidy,
           NEW w \in Workers, NEW stored, NEW admitted \in BOOLEAN,
           \/ AddFinalizer(w, stored, admitted)
           \/ AnnounceCreate(w, stored, admitted)
           \/ LateInitialize(w, stored, admitted)
    PROVE  Tidy' /\ Implements(bounded, dying)
  <1>1. /\ run[w].pc \in {"finalize", "announce", "lateInit"}
        /\ UNCHANGED <<cloud, hidden, grace, lost, edits>>
    BY DEF AddFinalizer, AnnounceCreate, LateInitialize, environment
  <1>2. run[w].obj \in Object(specs, statuses)
    BY <1>1, CopyType DEF TypeWith
  <1>3. CASE AddFinalizer(w, stored, admitted)
    <2> DEFINE changed == [run[w].obj EXCEPT !.finalizer = TRUE]
    <2>1. /\ changed \in Object(specs, statuses)
          /\ changed.exists = run[w].obj.exists
          /\ changed.deleting = run[w].obj.deleting
          /\ changed.extName = run[w].obj.extName
          /\ changed.finalizer
      BY <1>2 DEF Object
    <2>2. Remaining(run[w].obs) \notin {"delete", "unfinalize", "persist"}
      BY DEF Remaining
    <2>3. UpdateObject(w, changed, stored, admitted, Remaining(run[w].obs))
      BY <1>3 DEF AddFinalizer
    <2> HIDE DEF changed
    <2> QED BY <1>1, <2>1, <2>2, <2>3, WriteImplements
  <1>4. CASE AnnounceCreate(w, stored, admitted)
    <2> DEFINE changed == [run[w].obj EXCEPT !.create = "pending"]
    <2>1. /\ changed \in Object(specs, statuses)
          /\ changed.exists = run[w].obj.exists
          /\ changed.deleting = run[w].obj.deleting
          /\ changed.extName = run[w].obj.extName
          /\ changed.finalizer = run[w].obj.finalizer
      BY <1>2 DEF Object, CreateStates
    <2>2. UpdateObject(w, changed, stored, admitted, "create")
      BY <1>4 DEF AnnounceCreate
    <2> HIDE DEF changed
    <2> QED BY <1>1, <2>1, <2>2, WriteImplements
  <1>5. CASE LateInitialize(w, stored, admitted)
    <2> DEFINE pc == IF run[w].obs.upToDate THEN "done" ELSE "update"
    <2>1. pc \notin {"delete", "unfinalize", "persist"}
      OBVIOUS
    <2>2. UpdateObject(w, run[w].obj, stored, admitted, pc)
      BY <1>5 DEF LateInitialize
    <2> HIDE DEF pc
    <2> QED BY <1>1, <1>2, <2>1, <2>2, WriteImplements
  <1> QED BY <1>3, <1>4, <1>5

LEMMA ObserveFailedImplements ==
    ASSUME NEW CONSTANT specs, NEW CONSTANT statuses, NEW CONSTANT resources,
           NEW CONSTANT bounded, NEW CONSTANT dying,
           TypeWith(specs, statuses, resources), Tidy,
           NEW w \in Workers, edits' = edits,
           ObserveFailed(w) \/ UpdateObjectFails(w)
    PROVE  Tidy' /\ Implements(bounded, dying)
  <1>1. /\ run[w].pc # "persist" /\ Finish(w, run[w].obj)
        /\ UNCHANGED <<cloud, hidden, grace, lost>>
    BY DEF ObserveFailed, UpdateObjectFails
  <1> QED BY <1>1, StillSame, FinishImplements

LEMMA CreateSkippedImplements ==
    ASSUME NEW CONSTANT specs, NEW CONSTANT statuses, NEW CONSTANT resources,
           NEW CONSTANT bounded, NEW CONSTANT dying,
           TypeWith(specs, statuses, resources), Creation, Tidy,
           NEW w \in Workers, CreateSkipped(w)
    PROVE  Tidy' /\ Implements(bounded, dying)
  <1>1. /\ run[w].pc = "create" /\ Goto(w, "persist", run[w].obj, run[w].obs)
        /\ UNCHANGED <<mr, cloud, lost, edits>> /\ lost \subseteq Ids
    BY DEF CreateSkipped, environment, TypeWith
  <1>2. /\ run'[w].pc = "persist" /\ run'[w].obj = run[w].obj
        /\ \A v \in Workers \ {w} : run'[v] = run[v]
    BY <1>1, GotoRun
  <1>3. run[w].obj.extName \notin lost
    BY <1>1 DEF Creation, Announced, CreatorAgrees, Tidy, NothingLost
  <1>4. run[w].obj.deleting => mr.deleting
    BY <1>1 DEF Tidy, CopiesFollow, Steps
  <1>5. Tidy'
    BY <1>1, <1>2, <1>3, <1>4, MoveTidy DEF Planning
  <1>6. SameObject /\ SameResources(dying)
    BY <1>1, StillSame DEF SameObject
  <1> QED BY <1>1, <1>5, <1>6, StutterImplements

\* The creator is about to make the first resource.
LEMMA CreatorMayMake ==
    ASSUME NEW CONSTANT bounded, NEW CONSTANT dying,
           Creation, NEW w \in Workers, run[w].pc = "create",
           run[w].obj.extName = Nil
    PROVE  /\ Promise(bounded, dying)!MayMake
           /\ mr.extName = Nil
           /\ \A v \in Workers : run[v].pc # "persist"
  <1>1. Creating(w)
    BY DEF Creating
  <1>2. mr.exists /\ mr.finalizer
    BY <1>1 DEF Creation, Announced, CreationAnnounced
  <1>3. objectState \in {"held", "leaving"}
    BY <1>2 DEF objectState
  <1>4. mr.extName = Nil
    BY DEF Creation, Announced, CreatorAgrees
  <1>5. \A v \in Workers : run[v].pc # "persist"
    BY <1>1 DEF Creation, Announced, OneCreator, Creating
  <1>6. \A j \in Ids \ lost : cloud[j] = Unused
    BY <1>4, <1>5, NilAssumption DEF Creation, Named, AllKnown, BeingRecorded
  <1>7. \A j \in Ids : resourceState(dying)[j] \in {"unused", "lost"}
    BY <1>6 DEF resourceState
  <1> QED BY <1>3, <1>4, <1>5, <1>7 DEF Promise!MayMake

LEMMA CreateReturnsImplements ==
    ASSUME NEW CONSTANT specs, NEW CONSTANT statuses, NEW CONSTANT resources,
           NEW CONSTANT bounded, NEW CONSTANT dying,
           TypeWith(specs, statuses, resources), Creation, Tidy,
           NEW w \in Workers, run[w].obj.extName = Nil,
           NEW resource, resource \notin {Unused, Deleted} \cup dying,
           NEW obj \in Object(specs, statuses), SameCopy(obj, run[w].obj),
           CreateReturns(w, resource, obj)
    PROVE  Tidy' /\ Implements(bounded, dying)
  <1>1. /\ run[w].pc = "create" /\ lost \subseteq Ids
        /\ UNCHANGED <<mr, lost, edits>>
    BY DEF CreateReturns, environment, TypeWith
  <1>2. PICK i \in Ids :
          /\ cloud[i] = Unused
          /\ cloud' = [cloud EXCEPT ![i] = resource]
          /\ Goto(w, "persist", [obj EXCEPT !.extName = i], run[w].obs)
    BY DEF CreateReturns
  <1> DEFINE named == [obj EXCEPT !.extName = i]
  <1>3. Goto(w, "persist", named, run[w].obs)
    BY <1>2
  <1>4. named.extName = i /\ named.deleting = run[w].obj.deleting
    BY DEF Object, SameCopy
  <1> HIDE DEF named
  <1>5. /\ run'[w].pc = "persist" /\ run'[w].obj.extName = i
        /\ run'[w].obj.deleting = run[w].obj.deleting
        /\ \A v \in Workers \ {w} : run'[v] = run[v]
    BY <1>3, <1>4, GotoRun
  <1>6. i \notin lost
    BY <1>2 DEF Tidy, NothingLost
  <1>7. \A j \in Ids : cloud'[j] = IF j = i THEN resource ELSE cloud[j]
    BY <1>2 DEF TypeWith
  <1>8. run[w].obj.deleting => mr.deleting
    BY <1>1 DEF Tidy, CopiesFollow, Steps
  <1>9. Tidy'
    <2>1. \A j \in Ids : cloud'[j] = Unused => cloud[j] = Unused
      BY <1>7
    <2> QED BY <1>1, <1>5, <1>6, <1>8, <2>1, MoveTidy DEF Planning
  <1>10. Promise(bounded, dying)!MayMake
    BY <1>1, CreatorMayMake
  <1>11. resourceState(dying)[i] = "unused" /\ Promise(bounded, dying)!Become(i, "live")
    <2>1. /\ lost' = lost
          /\ resource # Unused /\ resource # Deleted /\ resource \notin dying
      BY <1>1
    <2>2. resourceState(dying)' = [resourceState(dying) EXCEPT ![i] = "live"]
      BY <1>6, <1>7, <2>1 DEF resourceState
    <2> QED BY <1>2, <1>6, <2>2 DEF resourceState, Promise!Become
  <1>12. objectState' = objectState
    BY <1>1 DEF objectState
  <1>13. Promise(bounded, dying)!Make(i)
    BY <1>1, <1>10, <1>11, <1>12 DEF Promise!Make
  <1> QED BY <1>9, <1>13 DEF Implements, Promise!Next

LEMMA CreateFailsImplements ==
    ASSUME NEW CONSTANT specs, NEW CONSTANT statuses, NEW CONSTANT resources,
           NEW CONSTANT bounded, NEW CONSTANT dying,
           TypeWith(specs, statuses, resources), Creation, Tidy,
           NEW w \in Workers, run[w].obj.extName = Nil,
           NEW resource, resource \notin {Unused, Deleted},
           CreateFails(w, resource) \/ CreateRefused(w)
    PROVE  Tidy' /\ Implements(bounded, dying)
  <1>1. /\ run[w].pc = "create" /\ UNCHANGED <<mr, edits>> /\ lost \subseteq Ids
        /\ Goto(w, "persistFailed", run[w].obj, run[w].obs)
    BY DEF CreateFails, CreateRefused, environment, TypeWith
  <1>2. /\ run'[w].pc = "persistFailed" /\ run'[w].obj = run[w].obj
        /\ \A v \in Workers \ {w} : run'[v] = run[v]
    BY <1>1, GotoRun
  <1>3. run[w].obj.deleting => mr.deleting
    BY <1>1 DEF Tidy, CopiesFollow, Steps
  <1>4. SameObject
    BY <1>1 DEF SameObject
  <1>5. CASE UNCHANGED <<cloud, lost>>
    <2>1. Tidy'
      BY <1>1, <1>2, <1>3, <1>5, MoveTidy DEF Planning
    <2> QED BY <1>1, <1>4, <1>5, <2>1, StillSame, StutterImplements
  <1>6. ASSUME NEW i \in Ids, cloud[i] = Unused,
               cloud' = [cloud EXCEPT ![i] = resource],
               lost' = lost \cup {i}
        PROVE  Tidy' /\ Implements(bounded, dying)
    <2>1. \A j \in Ids : cloud'[j] = IF j = i THEN resource ELSE cloud[j]
      BY <1>6 DEF TypeWith
    <2>2. /\ Promise(bounded, dying)!MayMake /\ mr.extName = Nil
          /\ \A v \in Workers : run[v].pc # "persist"
      BY <1>1, CreatorMayMake
    <2>3. NothingLost'
      BY <1>1, <1>2, <1>6, <2>1, <2>2, NilAssumption DEF Tidy, NothingLost
    <2>4. CopiesFollow'
      <3>1. \A v \in Workers : run'[v] = run[v] \/ v = w
        BY <1>2
      <3> QED BY <1>1, <1>2, <1>3, <3>1 DEF Tidy, CopiesFollow, Planning
    <2>5. i \notin lost
      BY <1>6 DEF Tidy, NothingLost
    <2>6. resourceState(dying)[i] = "unused" /\ Promise(bounded, dying)!Become(i, "lost")
      BY <1>6, <2>1, <2>5 DEF resourceState, Promise!Become
    <2>7. objectState' = objectState
      BY <1>1 DEF objectState
    <2>8. Promise(bounded, dying)!MakeLost(i)
      BY <1>1, <2>2, <2>6, <2>7 DEF Promise!MakeLost
    <2> QED BY <2>3, <2>4, <2>8 DEF Tidy, Implements, Promise!Next
  <1> QED BY <1>5, <1>6 DEF CreateFails, CreateRefused

LEMMA RecordCreateImplements ==
    ASSUME NEW CONSTANT specs, NEW CONSTANT statuses, NEW CONSTANT resources,
           NEW CONSTANT bounded, NEW CONSTANT dying,
           TypeWith(specs, statuses, resources), Creation, Tidy,
           NEW w \in Workers, NEW object \in Object(specs, statuses),
           SameCopy(object, mr), RecordCreateIn(w, object)
    PROVE  Tidy' /\ Implements(bounded, dying)
  <1> DEFINE i == run[w].obj.extName
  <1>1. /\ run[w].pc = "persist" /\ Stop(w)
        /\ UNCHANGED <<cloud, lost, edits>>
    BY DEF RecordCreateIn, environment
  <1>2. mr' = [object EXCEPT !.create = "succeeded", !.extName = i,
                             !.status = ReplyStatus(run[w].obj)]
    BY DEF RecordCreateIn, Store
  <1>3. /\ mr'.exists = mr.exists /\ mr'.deleting = mr.deleting
        /\ mr'.finalizer = mr.finalizer /\ mr'.extName = i
    BY <1>2 DEF SameCopy, Object
  <1>4. /\ i # Nil /\ cloud[i] # Unused /\ mr.extName \in {i, Nil}
        /\ i \notin lost
    BY <1>1 DEF Creation, Announced, CreatorAgrees, Named, NamesAgree,
                Tidy, NothingLost
  <1>5. i \in Ids
    <2>1. run[w].obj \in Object(specs, statuses)
      BY <1>1, CopyType DEF TypeWith
    <2> QED BY <1>4, <2>1 DEF Object
  <1> HIDE DEF i
  <1>6. run'[w] = Idle /\ \A v \in Workers \ {w} : run'[v] = run[v]
    BY <1>1, StopRun
  <1>7. \A v \in Workers : run'[v].pc # "idle" => run'[v] = run[v]
    BY <1>6 DEF Idle
  <1>8. NothingLost'
    BY <1>1, <1>3, <1>4, <1>7 DEF Tidy, NothingLost
  <1>9. CopiesFollow'
    BY <1>3, <1>4, <1>7 DEF Tidy, CopiesFollow, Steps, Planning
  <1>10. objectState' = objectState
    BY <1>3 DEF objectState
  <1>11. resourceState(dying)' = resourceState(dying)
    BY <1>1 DEF resourceState
  <1>12. CASE mr.extName = i
    BY <1>1, <1>3, <1>8, <1>9, <1>10, <1>11, <1>12
       DEF Tidy, Implements, Promise!vars
  <1>13. CASE mr.extName = Nil
    <2>1. resourceState(dying)[i] \in {"live", "dying", "deleted"}
      BY <1>4, <1>5 DEF resourceState
    <2>2. Promise(bounded, dying)!Record(i)
      BY <1>1, <1>3, <1>10, <1>11, <1>13, <2>1 DEF Promise!Record
    <2> QED BY <1>5, <1>8, <1>9, <2>2 DEF Tidy, Implements, Promise!Next
  <1> QED BY <1>4, <1>12, <1>13

LEMMA RecordFailedCreateImplements ==
    ASSUME NEW CONSTANT specs, NEW CONSTANT statuses, NEW CONSTANT resources,
           NEW CONSTANT bounded, NEW CONSTANT dying,
           TypeWith(specs, statuses, resources), Tidy,
           NEW w \in Workers, RecordFailedCreate(w)
    PROVE  Tidy' /\ Implements(bounded, dying)
  <1>1. /\ Stop(w) /\ UNCHANGED <<cloud, lost, edits>> /\ lost \subseteq Ids
        /\ mr' = [mr EXCEPT !.create = "failed",
                            !.status = ReplyStatus(run[w].obj)]
    BY DEF RecordFailedCreate, Store, environment, TypeWith
  <1>2. /\ mr'.exists = mr.exists /\ mr'.deleting = mr.deleting
        /\ mr'.finalizer = mr.finalizer /\ mr'.extName = mr.extName
    BY <1>1 DEF TypeWith, Object
  <1>3. run'[w] = Idle /\ \A v \in Workers \ {w} : run'[v] = run[v]
    BY <1>1, StopRun
  <1>4. Tidy'
    BY <1>1, <1>2, <1>3, MoveTidy
  <1>5. objectState' = objectState /\ resourceState(dying)' = resourceState(dying)
    BY <1>1, <1>2 DEF objectState, resourceState
  <1> QED BY <1>1, <1>2, <1>4, <1>5 DEF Implements, Promise!vars

LEMMA ExternalUnchangedImplements ==
    ASSUME NEW CONSTANT specs, NEW CONSTANT statuses, NEW CONSTANT resources,
           NEW CONSTANT bounded, NEW CONSTANT dying,
           TypeWith(specs, statuses, resources), Tidy,
           NEW w \in Workers, NEW pc \in {"update", "delete"}, NEW obj,
           ExternalUnchanged(w, pc, obj), edits' = edits
    PROVE  Tidy' /\ Implements(bounded, dying)
  <1>1. /\ run[w].pc = pc /\ Finish(w, obj)
        /\ UNCHANGED <<cloud, hidden, grace, lost>>
    BY DEF ExternalUnchanged
  <1> QED BY <1>1, StillSame, FinishImplements

\* Update leaves a resource, Delete a deleted or a dying one.
LEMMA ExternalImplements ==
    ASSUME NEW CONSTANT specs, NEW CONSTANT statuses, NEW CONSTANT resources,
           NEW CONSTANT bounded, NEW CONSTANT dying,
           TypeWith(specs, statuses, resources), Tidy,
           NEW w \in Workers, NEW pc \in {"update", "delete"}, NEW obj,
           NEW resource, resource # Unused,
           Unused # Deleted, Deleted \notin dying,
           External(w, pc, resource, obj), Readable(run[w].obj.extName),
           edits' = edits,
           NEW was, was = cloud[run[w].obj.extName],
           was \in dying => resource \in dying,
           resource \in dying \cup {Deleted} => was \in dying \/ pc = "delete"
    PROVE  Tidy' /\ Implements(bounded, dying)
  <1> DEFINE i == run[w].obj.extName
  <1>1. /\ run[w].pc = pc /\ Finish(w, obj)
        /\ UNCHANGED <<hidden, grace, lost>>
    BY DEF External
  <1>2. i \in Ids /\ cloud[i] # Unused /\ cloud[i] # Deleted
    BY DEF Readable, Live
  <1>3. \A j \in Ids : cloud'[j] = IF j = i THEN resource ELSE cloud[j]
    BY DEF External, TypeWith
  <1>4. CASE resource # Deleted /\ (resource \in dying <=> was \in dying)
    <2>1. SameResources(dying)
      BY <1>1, <1>2, <1>3, <1>4 DEF SameResources
    <2> QED BY <1>1, <2>1, FinishImplements
  <1>5. CASE resource \in dying \cup {Deleted} /\ was \notin dying
    <2>1. /\ \A j \in Ids : cloud'[j] = Unused <=> cloud[j] = Unused
          /\ \A j \in Ids : Live(j)' => Live(j)
      BY <1>2, <1>3, <1>5 DEF Live
    <2>2. Quiet
      <3>1. Rests({})
        BY <1>1, <2>1, FinishRests
      <3> QED BY <3>1 DEF Rests
    <2>3. /\ SameObject /\ lost \subseteq Ids
          /\ \A v \in Workers : run'[v] = run[v] \/ run'[v] = Idle
      BY <2>2 DEF Quiet, TypeWith
    <2>4. Tidy'
      BY <1>1, <2>1, <2>3, SameRunsTidy
    <2>5. mr.extName = i /\ i \notin lost
      BY <1>1, <1>2, <1>5, NilAssumption
         DEF Tidy, NothingLost, CopiesFollow, Planning
    <2>6. mr.deleting
      BY <1>1, <1>5 DEF Tidy, CopiesFollow, Steps
    <2> DEFINE s == IF resource = Deleted THEN "deleted" ELSE "dying"
    <2>7. objectState \in {"leaving", "gone"} /\ objectState' = objectState
      BY <2>3, <2>6 DEF objectState, SameObject
    <2>8. resourceState(dying)[i] = "live" /\ Promise(bounded, dying)!Become(i, s)
      <3>1. resourceState(dying)' = [resourceState(dying) EXCEPT ![i] = s]
        BY <1>1, <1>2, <1>3, <1>5, <2>5 DEF resourceState
      <3> QED BY <1>2, <1>5, <2>5, <3>1 DEF resourceState, Promise!Become
    <2>9. Promise(bounded, dying)!Remove(i)
      BY <2>3, <2>5, <2>7, <2>8 DEF Promise!Remove, SameObject
    <2> QED BY <1>2, <2>4, <2>9 DEF Implements, Promise!Next
  <1> QED BY <1>4, <1>5

LEMMA NothingOrphaned ==
    ASSUME Absence({})'
    PROVE  NoOrphan'
  BY DEF Absence, NothingLeft, NoOrphan

\* The object goes; NoOrphan says that its resource is gone.
LEMMA RemoveFinalizerImplements ==
    ASSUME NEW CONSTANT specs, NEW CONSTANT statuses, NEW CONSTANT resources,
           NEW CONSTANT bounded, NEW CONSTANT dying,
           TypeWith(specs, statuses, resources), Creation, Tidy,
           bounded => LagBounded /\ NoOrphan',
           NEW w \in Workers, RemoveFinalizer(w)
    PROVE  Tidy' /\ Implements(bounded, dying)
  <1>1. /\ run[w].pc = "unfinalize" /\ Stop(w)
        /\ UNCHANGED <<cloud, lost, edits>> /\ lost \subseteq Ids
    BY DEF RemoveFinalizer, environment, TypeWith
  <1>2. run'[w] = Idle /\ \A v \in Workers \ {w} : run'[v] = run[v]
    BY <1>1, StopRun
  <1>3. resourceState(dying)' = resourceState(dying)
    BY <1>1 DEF resourceState
  <1>4. CASE ~fresh[w]
    <2>1. mr' = mr
      BY <1>4 DEF RemoveFinalizer
    <2>2. Tidy'
      BY <1>1, <1>2, <2>1, MoveTidy DEF Tidy, NothingLost
    <2> QED BY <1>1, <1>3, <2>1, <2>2 DEF Implements, Promise!vars, objectState
  <1>5. CASE fresh[w]
    <2>1. mr' = [mr EXCEPT !.exists = FALSE]
      BY <1>5 DEF RemoveFinalizer, Store
    <2>2. /\ ~mr'.exists /\ mr'.deleting = mr.deleting
          /\ mr'.finalizer = mr.finalizer /\ mr'.extName = mr.extName
      BY <2>1 DEF TypeWith, Object
    <2>3. mr.exists /\ mr.deleting /\ mr.finalizer
      BY <1>1, <1>5
         DEF Creation, Announced, CopiesAgree, Planning, Tidy, NothingLost,
             CopiesFollow, Steps
    <2>4. Tidy'
      BY <1>1, <1>2, <2>2, MoveTidy
    <2>5. objectState = "leaving" /\ objectState' = "gone"
      BY <2>2, <2>3 DEF objectState
    <2>6. bounded => \A i \in Ids : resourceState(dying)[i] \notin {"live", "dying"}
      <3>1. bounded => \A i \in Ids \ lost : ~Live(i)
        BY <1>1, <2>2, <2>3 DEF NoOrphan, Live
      <3> QED BY <3>1 DEF resourceState, Live
    <2>7. Promise(bounded, dying)!Release
      BY <1>1, <1>3, <2>2, <2>5, <2>6 DEF Promise!Release
    <2> QED BY <2>4, <2>7 DEF Implements, Promise!Next
  <1> QED BY <1>4, <1>5

\* A reconcile is cut off, at worst before the name is recorded.
LEMMA AbandonImplements ==
    ASSUME NEW CONSTANT specs, NEW CONSTANT statuses, NEW CONSTANT resources,
           NEW CONSTANT bounded, NEW CONSTANT dying,
           TypeWith(specs, statuses, resources), Creation, Tidy,
           NEW w \in Workers, Abandon(w)
    PROVE  Tidy' /\ Implements(bounded, dying)
  <1> DEFINE i == run[w].obj.extName
  <1>1. /\ Stop(w) /\ UNCHANGED <<mr, cloud, edits>> /\ lost \subseteq Ids
    BY DEF Abandon, TypeWith
  <1>2. run'[w] = Idle /\ \A v \in Workers \ {w} : run'[v] = run[v]
    BY <1>1, StopRun
  <1>3. CASE ~(run[w].pc = "persist" /\ i # mr.extName)
    <2>1. lost' = lost
      BY <1>3 DEF Abandon
    <2>2. Tidy'
      BY <1>1, <1>2, <2>1, MoveTidy DEF Tidy, NothingLost
    <2> QED BY <1>1, <2>1, <2>2
            DEF Implements, Promise!vars, objectState, resourceState
  <1>4. CASE run[w].pc = "persist" /\ i # mr.extName
    <2>1. lost' = lost \cup {i}
      BY <1>4 DEF Abandon
    <2>2. /\ i # Nil /\ cloud[i] # Unused /\ mr.extName = Nil /\ i \notin lost
      BY <1>4 DEF Creation, Announced, CreatorAgrees, Named, NamesAgree,
                  Tidy, NothingLost
    <2>3. i \in Ids
      <3>1. run[w].obj \in Object(specs, statuses)
        BY <1>4, CopyType DEF TypeWith
      <3> QED BY <2>2, <3>1 DEF Object
    <2>4. \A v \in Workers \ {w} : run[v].pc # "persist"
      BY <1>4 DEF Creation, Announced, OneCreator, Creating
    <2> HIDE DEF i
    <2>5. \A v \in Workers : run'[v].pc # "idle" => v # w /\ run'[v] = run[v]
      BY <1>2 DEF Idle
    <2>6. NothingLost'
      BY <1>1, <2>1, <2>2, <2>3, <2>4, <2>5, NilAssumption DEF Tidy, NothingLost
    <2>7. CopiesFollow'
      BY <1>1, <2>5 DEF Tidy, CopiesFollow, Steps, Planning
    <2>8. /\ resourceState(dying)[i] \in {"live", "dying", "deleted"}
          /\ Promise(bounded, dying)!Become(i, "lost")
      <3>1. resourceState(dying)' = [resourceState(dying) EXCEPT ![i] = "lost"]
        BY <1>1, <2>1 DEF resourceState
      <3> QED BY <2>2, <2>3, <3>1 DEF resourceState, Promise!Become
    <2>9. objectState' = objectState
      BY <1>1 DEF objectState
    <2>10. Promise(bounded, dying)!Lose(i)
      BY <1>1, <2>2, <2>8, <2>9 DEF Promise!Lose
    <2> QED BY <2>3, <2>6, <2>7, <2>10 DEF Tidy, Implements, Promise!Next
  <1> QED BY <1>3, <1>4

----------------------------------------------------------------------------
(* Users, the cloud, and the start *)

LEMMA DeleteObjectImplements ==
    ASSUME NEW CONSTANT specs, NEW CONSTANT statuses, NEW CONSTANT resources,
           NEW CONSTANT bounded, NEW CONSTANT dying,
           TypeWith(specs, statuses, resources), Tidy, DeleteObject
    PROVE  Tidy' /\ Implements(bounded, dying)
  <1>1. /\ mr.exists /\ ~mr.deleting
        /\ UNCHANGED <<run, cloud, lost, edits>>
    BY DEF DeleteObject, environment
  <1>2. resourceState(dying)' = resourceState(dying)
    BY <1>1 DEF resourceState
  <1>3. CASE mr.finalizer
    <2>1. mr' = [mr EXCEPT !.deleting = TRUE]
      BY <1>3 DEF DeleteObject, Store
    <2>2. /\ mr'.exists /\ mr'.deleting /\ mr'.finalizer
          /\ mr'.extName = mr.extName
      BY <1>1, <1>3, <2>1 DEF TypeWith, Object
    <2>3. Tidy'
      BY <1>1, <2>2 DEF Tidy, NothingLost, CopiesFollow
    <2>4. Promise(bounded, dying)!AskToLeave
      BY <1>1, <1>2, <1>3, <2>2 DEF Promise!AskToLeave, objectState
    <2> QED BY <2>3, <2>4 DEF Implements, Promise!Next
  <1>4. CASE ~mr.finalizer
    <2>1. mr' = [mr EXCEPT !.exists = FALSE]
      BY <1>4 DEF DeleteObject, Store
    <2>2. ~mr'.exists /\ ~mr'.deleting /\ mr'.extName = mr.extName
      BY <1>1, <2>1 DEF TypeWith, Object
    <2>3. Tidy'
      BY <1>1, <2>2 DEF Tidy, NothingLost, CopiesFollow
    <2>4. Promise(bounded, dying)!Discard
      BY <1>1, <1>2, <1>4, <2>2 DEF Promise!Discard, objectState
    <2> QED BY <2>3, <2>4 DEF Implements, Promise!Next
  <1> QED BY <1>3, <1>4

LEMMA OutsideImplements ==
    ASSUME NEW CONSTANT specs, NEW CONSTANT statuses, NEW CONSTANT resources,
           NEW CONSTANT bounded, NEW CONSTANT dying,
           TypeWith(specs, statuses, resources), Tidy,
           Unused # Deleted, resources \cap {Unused, Deleted} = {},
           Deleted \notin dying,
           \/ \E spec \in specs : EditSpec(spec)
           \/ \E i \in Ids : RemoveOutOfBand(i) \/ BecomeReadable(i)
           \/ \E i \in Ids, r \in resources :
                /\ ChangeOutOfBand(i, r)
                /\ cloud[i] \in dying => r \in dying
           \/ EndGracePeriod
    PROVE  Tidy' /\ Implements(bounded, dying)
  <1>1. SameObject
    BY DEF SameObject, EditSpec, Store, RemoveOutOfBand, BecomeReadable,
           ChangeOutOfBand, EndGracePeriod, TypeWith, Object
  <1>2. /\ SameObject /\ lost' = lost /\ lost \subseteq Ids /\ run' = run
        /\ \A i \in Ids : cloud'[i] = Unused <=> cloud[i] = Unused
    <2>1. /\ \A i \in Ids : cloud'[i] = Unused <=> cloud[i] = Unused
          /\ lost' = lost /\ run' = run
      BY DEF EditSpec, RemoveOutOfBand, BecomeReadable, ChangeOutOfBand,
             EndGracePeriod, Live, TypeWith
    <2> QED BY <1>1, <2>1 DEF TypeWith
  <1>3. Tidy'
    BY <1>2, SameRunsTidy
  <1>4. ASSUME NEW spec \in specs, EditSpec(spec)
        PROVE  Implements(bounded, dying)
    BY <1>2, <1>4, StillSame, TouchImplements DEF EditSpec
  <1>5. ASSUME NEW i \in Ids, NEW r \in resources, ChangeOutOfBand(i, r),
               cloud[i] \in dying => r \in dying
        PROVE  Implements(bounded, dying)
    <2>1. \A j \in Ids : cloud'[j] = IF j = i THEN r ELSE cloud[j]
      BY <1>5 DEF ChangeOutOfBand, TypeWith
    <2>2. /\ cloud[i] # Unused /\ cloud[i] # Deleted
          /\ r # Unused /\ r # Deleted
      BY <1>5 DEF ChangeOutOfBand, Live
    <2>3. Edit
      BY <1>5 DEF ChangeOutOfBand
    <2>4. CASE cloud[i] \in dying <=> r \in dying
      <3>1. SameResources(dying)
        BY <1>2, <2>1, <2>2, <2>4 DEF SameResources
      <3> QED BY <1>2, <2>3, <3>1, TouchImplements
    <2>5. CASE cloud[i] \notin dying /\ r \in dying
      <3>1. objectState' = objectState /\ mr'.extName = mr.extName
        BY <1>2 DEF SameObject, objectState
      <3>2. edits < MaxEdits /\ edits' = edits + 1
        BY <2>3 DEF Edit
      <3>3. CASE i \in lost
        <4>1. resourceState(dying)' = resourceState(dying)
          BY <1>2, <2>1, <3>3 DEF resourceState
        <4>2. Promise(bounded, dying)!Touch
          BY <3>1, <3>2, <4>1 DEF Promise!Touch
        <4> QED BY <4>2 DEF Implements, Promise!Next
      <3>4. CASE i \notin lost
        <4>1. resourceState(dying)' = [resourceState(dying) EXCEPT ![i] = "dying"]
          BY <1>2, <2>1, <2>2, <2>5, <3>4 DEF resourceState
        <4>2. resourceState(dying)[i] = "live"
          BY <2>2, <2>5, <3>4 DEF resourceState
        <4>3. Promise(bounded, dying)!Vanish(i)
          BY <3>1, <3>2, <4>1, <4>2 DEF Promise!Vanish, Promise!Become
        <4> QED BY <4>3 DEF Implements, Promise!Next
      <3> QED BY <3>3, <3>4
    <2> QED BY <1>5, <2>4, <2>5
  <1>6. ASSUME NEW i \in Ids, RemoveOutOfBand(i)
        PROVE  Implements(bounded, dying)
    <2>1. \A j \in Ids : cloud'[j] = IF j = i THEN Deleted ELSE cloud[j]
      BY <1>6 DEF RemoveOutOfBand, TypeWith
    <2>2. cloud[i] # Unused /\ cloud[i] # Deleted
      BY <1>6 DEF RemoveOutOfBand, Live
    <2>3. objectState' = objectState /\ mr'.extName = mr.extName
      BY <1>6 DEF RemoveOutOfBand, objectState
    <2>4. edits < MaxEdits /\ edits' = edits + 1
      BY <1>6 DEF RemoveOutOfBand, Edit
    <2>5. CASE i \in lost
      <3>1. resourceState(dying)' = resourceState(dying)
        BY <1>2, <2>1, <2>5 DEF resourceState
      <3>2. Promise(bounded, dying)!Touch
        BY <2>3, <2>4, <3>1 DEF Promise!Touch
      <3> QED BY <3>2 DEF Implements, Promise!Next
    <2>6. CASE i \notin lost
      <3>1. resourceState(dying)' = [resourceState(dying) EXCEPT ![i] = "deleted"]
        BY <1>2, <2>1, <2>2, <2>6 DEF resourceState
      <3>2. resourceState(dying)[i] \in {"live", "dying"}
        BY <2>2, <2>6 DEF resourceState
      <3>3. Promise(bounded, dying)!Vanish(i)
        BY <2>3, <2>4, <3>1, <3>2 DEF Promise!Vanish, Promise!Become
      <3> QED BY <3>3 DEF Implements, Promise!Next
    <2> QED BY <2>5, <2>6
  <1>7. ASSUME NEW i \in Ids, BecomeReadable(i)
        PROVE  Implements(bounded, dying)
    BY <1>2, <1>7, StillSame, StutterImplements DEF BecomeReadable, environment
  <1>8. CASE EndGracePeriod
    <2>1. UNCHANGED <<cloud, edits>>
      BY <1>8 DEF EndGracePeriod, environment
    <2>2. SameObject /\ SameResources(dying) /\ edits' = edits
      BY <1>2, <2>1, StillSame
    <2> QED BY <1>3, <2>2, StutterImplements
  <1> QED BY <1>3, <1>4, <1>5, <1>6, <1>7, <1>8

\* The service does what it was asked for: an end of a deletion is noticed.
LEMMA ServiceImplements ==
    ASSUME NEW CONSTANT specs, NEW CONSTANT statuses, NEW CONSTANT resources,
           NEW CONSTANT bounded, NEW CONSTANT dying,
           TypeWith(specs, statuses, resources), Tidy,
           NEW i \in Ids, NEW resource, resource # Unused,
           Live(i), cloud' = [cloud EXCEPT ![i] = resource],
           UNCHANGED <<mr, run, lost, edits>>,
           \/ resource = Deleted /\ cloud[i] \in dying
           \/ resource # Deleted /\ (resource \in dying <=> cloud[i] \in dying)
    PROVE  Tidy' /\ Implements(bounded, dying)
  <1>1. \A j \in Ids : cloud'[j] = IF j = i THEN resource ELSE cloud[j]
    BY DEF TypeWith
  <1>2. cloud[i] # Unused /\ cloud[i] # Deleted
    BY DEF Live
  <1>3. SameObject /\ lost \subseteq Ids
    BY DEF SameObject, TypeWith
  <1>4. Tidy'
    <2>1. \A j \in Ids : cloud'[j] = Unused <=> cloud[j] = Unused
      BY <1>1, <1>2
    <2> QED BY <1>3, <2>1, SameRunsTidy
  <1>5. CASE resource # Deleted
    <2>1. SameResources(dying)
      BY <1>1, <1>2, <1>5 DEF SameResources
    <2> QED BY <1>3, <1>4, <2>1, StutterImplements
  <1>6. CASE resource = Deleted
    <2>1. objectState' = objectState
      BY DEF objectState
    <2>2. CASE i \in lost
      <3>1. resourceState(dying)' = resourceState(dying)
        BY <1>1, <2>2 DEF resourceState
      <3> QED BY <1>4, <2>1, <3>1 DEF Implements, Promise!vars
    <2>3. CASE i \notin lost
      <3>1. resourceState(dying)' = [resourceState(dying) EXCEPT ![i] = "deleted"]
        BY <1>1, <1>6, <2>3 DEF resourceState
      <3>2. resourceState(dying)[i] = "dying"
        BY <1>2, <1>6, <2>3 DEF resourceState
      <3>3. Promise(bounded, dying)!Perish(i)
        BY <2>1, <3>1, <3>2 DEF Promise!Perish, Promise!Become
      <3> QED BY <1>4, <3>3 DEF Implements, Promise!Next
    <2> QED BY <2>2, <2>3
  <1> QED BY <1>5, <1>6

LEMMA UnchangedImplements ==
    ASSUME NEW CONSTANT bounded, NEW CONSTANT dying, Tidy, UNCHANGED vars
    PROVE  Tidy' /\ Implements(bounded, dying)
  BY DEF vars, environment, Tidy, NothingLost, CopiesFollow, Implements,
         Promise!vars, objectState, resourceState

LEMMA InitImplements ==
    ASSUME NEW CONSTANT specs, NEW CONSTANT resources,
           NEW CONSTANT bounded, NEW CONSTANT dying, Unused # Deleted,
           resources \cap ({Unused, Deleted} \cup dying) = {},
           InitWith(specs, resources)
    PROVE  Tidy /\ Promise(bounded, dying)!Init
  <1>1. /\ run = [w \in Workers |-> Idle] /\ lost = {} /\ edits = 0
    BY DEF InitWith
  <1>2. PICK s \in specs :
          \/ mr = NewObject(s, Nil) /\ cloud = [i \in Ids |-> Unused]
          \/ \E i \in Ids, r \in resources :
                /\ mr = NewObject(s, i)
                /\ cloud = [j \in Ids |-> IF j = i THEN r ELSE Unused]
    BY DEF InitWith
  <1>3. mr.exists /\ ~mr.deleting /\ ~mr.finalizer
    BY <1>2 DEF NewObject
  <1>4. Tidy
    BY <1>1, <1>3
       DEF Tidy, NothingLost, CopiesFollow, Idle, Steps, Planning
  <1>5. objectState = "new"
    BY <1>3 DEF objectState
  <1>6. CASE mr = NewObject(s, Nil) /\ cloud = [i \in Ids |-> Unused]
    <2>1. mr.extName = Nil
      BY <1>6 DEF NewObject
    <2>2. resourceState(dying) = [i \in Ids |-> "unused"]
      BY <1>1, <1>6 DEF resourceState
    <2> QED BY <1>1, <1>4, <1>5, <2>1, <2>2 DEF Promise!Init
  <1>7. ASSUME NEW i \in Ids, NEW r \in resources, mr = NewObject(s, i),
               cloud = [j \in Ids |-> IF j = i THEN r ELSE Unused]
        PROVE  Tidy /\ Promise(bounded, dying)!Init
    <2>1. mr.extName = i
      BY <1>7 DEF NewObject
    <2>2. r # Unused /\ r # Deleted /\ r \notin dying
      OBVIOUS
    <2>3. resourceState(dying) = [j \in Ids |-> IF j = i THEN "live" ELSE "unused"]
      BY <1>1, <1>7, <2>2 DEF resourceState
    <2> QED BY <1>1, <1>4, <1>5, <2>1, <2>3 DEF Promise!Init
  <1> QED BY <1>2, <1>6, <1>7

============================================================================
