------------------------- MODULE ManagedReconciler -------------------------
(***************************************************************************)
(* The reconcile loop the controllers of this provider run in: the managed *)
(* reconciler of crossplane-runtime that each Setup builds, the object it  *)
(* reconciles in the API server, and the resource in the cloud.  The loop  *)
(* and the API server are external to the repository and modelled from how *)
(* the controllers are plugged into them; a controller module EXTENDS this *)
(* one and supplies Observe, Create, Update and Delete.                    *)
(*                                                                         *)
(* A worker is a reconcile in progress.  One worker is the normal case (a  *)
(* work queue never runs one object twice at once).  Two are two replicas  *)
(* of the provider, which leader election does not exclude by default, and *)
(* equally one replica with a stale informer cache: the object a worker    *)
(* holds is the one it read when it began.                                 *)
(***************************************************************************)
EXTENDS Naturals, FiniteSets, Util

CONSTANTS
    Workers,    \* concurrent reconciles of the managed resource
    Ids,        \* identifiers the cloud hands out
    Unused,     \* cloud[i] before the cloud hands out i
    Deleted,    \* cloud[i] after the resource is deleted
    MaxEdits,   \* bound: changes by users, of the object or in the cloud
    MaxFaults,  \* bound: crashes, failed calls, lost replies
    LagBounded  \* TRUE: a created resource is readable before its creation
                \* grace period (WithCreationGracePeriod) is over

ASSUME BoundsAssumption ==
    /\ MaxEdits \in Nat
    /\ MaxFaults \in Nat
    /\ LagBounded \in BOOLEAN

ASSUME NilAssumption == Nil \notin Ids

VARIABLES
    mr,      \* the managed resource as the API server stores it
    run,     \* run[w]: where the reconcile of worker w is, and its copy
    fresh,   \* fresh[w]: the copy of w has the stored resourceVersion
    cloud,   \* cloud[i]: the resource with identifier i
    hidden,  \* created resources that reads do not return yet
    grace,   \* the creation grace period since the last success is running
    lost,    \* resources whose identifier never reached the provider
    edits,
    faults

vars == <<mr, run, fresh, cloud, hidden, grace, lost, edits, faults>>
environment == <<edits, faults>>

----------------------------------------------------------------------------
(* The object.  create is the latest of the three external-create          *)
(* annotations; extName the external-name annotation.                      *)

CreateStates == {"none", "pending", "failed", "succeeded"}

Object(specs, statuses) ==
    [exists : BOOLEAN, deleting : BOOLEAN, finalizer : BOOLEAN,
     extName : Ids \cup {Nil}, create : CreateStates,
     spec : specs, status : statuses \cup {Nil}]

\* An object as a user applies it, new or importing the resource extName.
NewObject(spec, extName) ==
    [exists |-> TRUE, deleting |-> FALSE, finalizer |-> FALSE,
     extName |-> extName, create |-> "none", spec |-> spec, status |-> Nil]

Steps == {"observe", "finalize", "announce", "create", "persist",
          "persistFailed", "lateInit", "update", "delete", "unfinalize"}

Observation == [exists : BOOLEAN, lateInit : BOOLEAN, upToDate : BOOLEAN]
Unobserved == [exists |-> FALSE, lateInit |-> FALSE, upToDate |-> FALSE]

Idle == [pc |-> "idle", obj |-> Nil, obs |-> Unobserved]

Runs(specs, statuses) ==
    {Idle} \cup [pc : Steps, obj : Object(specs, statuses), obs : Observation]

Live(i) == cloud[i] \notin {Unused, Deleted}
Readable(i) == i \in Ids /\ Live(i) /\ i \notin hidden

----------------------------------------------------------------------------
(* Moves *)

Goto(w, pc, obj, obs) ==
    run' = [run EXCEPT ![w] = [pc |-> pc, obj |-> obj, obs |-> obs]]

Stop(w) == run' = [run EXCEPT ![w] = Idle]

Store(object) == mr' = object

\* Storing a changed object leaves every other copy stale.
OnlyFresh(w) == fresh' = [v \in Workers |-> v = w]
NoneFresh == fresh' = [v \in Workers |-> FALSE]

Fault == faults < MaxFaults /\ faults' = faults + 1
Edit == edits < MaxEdits /\ edits' = edits + 1

\* Status().Update at the end of a reconcile: optimistic, and without effect
\* on anything but the status.
SaveStatus(w, status) ==
    IF fresh[w] /\ mr.status # status
    THEN Store([mr EXCEPT !.status = status]) /\ NoneFresh
    ELSE UNCHANGED <<mr, fresh>>

\* The reconcile returns after Observe found nothing to do or failed.
Finish(w, obj) == Stop(w) /\ SaveStatus(w, obj.status)

\* What is left to do after Observe once the finalizer is in place.
Remaining(obs) ==
    CASE ~obs.exists                               -> "announce"
      [] obs.exists /\ obs.lateInit                -> "lateInit"
      [] obs.exists /\ ~obs.lateInit /\ ~obs.upToDate -> "update"
      [] OTHER                                     -> "done"

GoOn(w, pc, obj, obs) ==
    IF pc = "done" THEN Stop(w) ELSE Goto(w, pc, obj, obs)

----------------------------------------------------------------------------
(* The steps of a reconcile, in the order of managed.Reconciler            *)

\* Get, and the checks before Connect: an announced creation without a known
\* outcome ends every reconcile, of a deleted object too.
Begin(w) ==
    /\ run[w].pc = "idle"
    /\ mr.exists
    /\ IF mr.create = "pending"
       THEN UNCHANGED <<run, fresh>>
       ELSE /\ Goto(w, "observe", mr, Unobserved)
            /\ fresh' = [fresh EXCEPT ![w] = TRUE]
    /\ UNCHANGED <<mr, cloud, hidden, grace, lost, environment>>

\* Observe failed: the reconcile reports the error and is requeued.
ObserveFailed(w) ==
    /\ run[w].pc = "observe"
    /\ Finish(w, run[w].obj)
    /\ UNCHANGED <<cloud, hidden, grace, lost>>

\* Within the grace period a missing resource is not believed to be missing.
\* (Faulty: WithCreationGracePeriod is not given.)
NoGracePeriod(obj) == FALSE

InGracePeriod(obj) == obj.create = "succeeded" /\ grace

\* Observe returned obs and left obj in memory.
Observed(w, obj, obs) ==
    LET pc == CASE obj.deleting /\ obs.exists -> "delete"
                [] obj.deleting /\ ~obs.exists -> "unfinalize"
                [] ~obj.deleting /\ ~obj.finalizer -> "finalize"
                [] OTHER -> Remaining(obs)
    IN
    /\ run[w].pc = "observe"
    /\ IF ~obs.exists /\ InGracePeriod(obj)
       THEN Stop(w) /\ UNCHANGED <<mr, fresh>>
       ELSE IF pc = "done"
       THEN Finish(w, obj)
       ELSE Goto(w, pc, obj, obs) /\ UNCHANGED <<mr, fresh>>
    /\ UNCHANGED <<cloud, hidden, grace, lost>>

\* The reply to a write is decoded into the copy in memory and resets its
\* status to the stored one, if there is a stored one.
ReplyStatus(obj) == IF mr.status = Nil THEN obj.status ELSE mr.status

\* client.Update of the whole object, with stored the spec as serialised: a
\* conflict ends the reconcile, as does a spec that admission rejects.
UpdateObject(w, changed, stored, admitted, pc) ==
    IF ~fresh[w]
    THEN Stop(w) /\ UNCHANGED <<mr, fresh>>
    ELSE IF ~admitted
    THEN Finish(w, run[w].obj)
    ELSE /\ Store([changed EXCEPT !.spec = stored, !.status = mr.status])
         /\ OnlyFresh(w)
         /\ GoOn(w, pc, [changed EXCEPT !.status = ReplyStatus(changed)],
                 run[w].obs)

\* client.Update fails for another reason; the status update does not.
UpdateObjectFails(w) ==
    /\ run[w].pc \in {"finalize", "announce", "lateInit"}
    /\ Fault
    /\ Finish(w, run[w].obj)
    /\ UNCHANGED <<cloud, hidden, grace, lost, edits>>

AddFinalizer(w, stored, admitted) ==
    /\ run[w].pc = "finalize"
    /\ UpdateObject(w, [run[w].obj EXCEPT !.finalizer = TRUE],
                    stored, admitted, Remaining(run[w].obs))
    /\ UNCHANGED <<cloud, hidden, grace, lost, environment>>

\* The create-pending annotation is stored before Create is called.
AnnounceCreate(w, stored, admitted) ==
    /\ run[w].pc = "announce"
    /\ UpdateObject(w, [run[w].obj EXCEPT !.create = "pending"],
                    stored, admitted, "create")
    /\ UNCHANGED <<cloud, hidden, grace, lost, environment>>

LateInitialize(w, stored, admitted) ==
    /\ run[w].pc = "lateInit"
    /\ UpdateObject(w, run[w].obj, stored, admitted,
                    IF run[w].obs.upToDate THEN "done" ELSE "update")
    /\ UNCHANGED <<cloud, hidden, grace, lost, environment>>

\* Create returned without error, and without a call.
CreateSkipped(w) ==
    /\ run[w].pc = "create"
    /\ Goto(w, "persist", run[w].obj, run[w].obs)
    /\ UNCHANGED <<mr, fresh, cloud, hidden, grace, lost, environment>>

\* The create call is answered with the identifier of the new resource;
\* Create leaves obj in memory, but for that.
CreateReturns(w, resource, obj) ==
    /\ run[w].pc = "create"
    /\ \E i \in Ids :
        /\ cloud[i] = Unused
        /\ cloud' = [cloud EXCEPT ![i] = resource]
        /\ hidden' = hidden \cup {i}
        /\ Goto(w, "persist", [obj EXCEPT !.extName = i], run[w].obs)
    /\ UNCHANGED <<mr, fresh, grace, lost, environment>>

CreateSucceeds(w, resource) == CreateReturns(w, resource, run[w].obj)

\* The create call fails, or is carried out and its reply lost.
CreateFails(w, resource) ==
    /\ run[w].pc = "create"
    /\ Fault
    /\ Goto(w, "persistFailed", run[w].obj, run[w].obs)
    /\ \/ UNCHANGED <<cloud, hidden, lost>>
       \/ \E i \in Ids :
            /\ cloud[i] = Unused
            /\ cloud' = [cloud EXCEPT ![i] = resource]
            /\ hidden' = hidden \cup {i}
            /\ lost' = lost \cup {i}
    /\ UNCHANGED <<mr, fresh, grace, edits>>

\* Create returned an error before any call.
CreateRefused(w) ==
    /\ run[w].pc = "create"
    /\ Goto(w, "persistFailed", run[w].obj, run[w].obs)
    /\ UNCHANGED <<mr, fresh, cloud, hidden, grace, lost, environment>>

\* UpdateCriticalAnnotations: retried on a re-read object until it succeeds,
\* so it never meets a conflict; then the status.  object is the one stored,
\* with such other annotations as Create has left in memory.
RecordCreateIn(w, object) ==
    /\ run[w].pc = "persist"
    /\ Store([object EXCEPT !.create = "succeeded",
                            !.extName = run[w].obj.extName,
                            !.status = ReplyStatus(run[w].obj)])
    /\ NoneFresh
    /\ grace' = TRUE
    /\ Stop(w)
    /\ UNCHANGED <<cloud, hidden, lost, environment>>

RecordCreate(w) == RecordCreateIn(w, mr)

RecordFailedCreate(w) ==
    /\ run[w].pc = "persistFailed"
    /\ Store([mr EXCEPT !.create = "failed",
                        !.status = ReplyStatus(run[w].obj)])
    /\ NoneFresh
    /\ Stop(w)
    /\ UNCHANGED <<cloud, hidden, grace, lost, environment>>

\* Update or Delete returned and left the resource of the object as resource.
\* Their error is reported, their success polled: both end the reconcile.
\* Nothing but the status they leave in memory is stored.
External(w, pc, resource, obj) ==
    /\ run[w].pc = pc
    /\ cloud' = [cloud EXCEPT ![run[w].obj.extName] = resource]
    /\ Finish(w, obj)
    /\ UNCHANGED <<hidden, grace, lost>>

\* Update or Delete returned without having changed anything in the cloud.
ExternalUnchanged(w, pc, obj) ==
    /\ run[w].pc = pc
    /\ Finish(w, obj)
    /\ UNCHANGED <<cloud, hidden, grace, lost>>

\* The last finalizer goes, and the object with it.
RemoveFinalizer(w) ==
    /\ run[w].pc = "unfinalize"
    /\ IF fresh[w]
       THEN Store([mr EXCEPT !.exists = FALSE]) /\ NoneFresh
       ELSE UNCHANGED <<mr, fresh>>
    /\ Stop(w)
    /\ UNCHANGED <<cloud, hidden, grace, lost, environment>>

\* The provider crashes, or a call to the API server fails: the reconcile is
\* over, and what was only in memory with it.
Abandon(w) ==
    /\ run[w].pc # "idle"
    /\ Fault
    /\ Stop(w)
    /\ lost' = IF run[w].pc = "persist" /\ run[w].obj.extName # mr.extName
               THEN lost \cup {run[w].obj.extName}
               ELSE lost
    /\ UNCHANGED <<mr, fresh, cloud, hidden, grace, edits>>

----------------------------------------------------------------------------
(* Users and the cloud *)

EditSpec(spec) ==
    /\ mr.exists
    /\ spec # mr.spec
    /\ Edit
    /\ Store([mr EXCEPT !.spec = spec])
    /\ NoneFresh
    /\ UNCHANGED <<run, cloud, hidden, grace, lost, faults>>

\* kubectl delete: without a finalizer the object goes at once.
DeleteObject ==
    /\ mr.exists
    /\ ~mr.deleting
    /\ Store(IF mr.finalizer THEN [mr EXCEPT !.deleting = TRUE]
                             ELSE [mr EXCEPT !.exists = FALSE])
    /\ NoneFresh
    /\ UNCHANGED <<run, cloud, hidden, grace, lost, environment>>

\* Somebody deletes, or changes, the resource by other means.
RemoveOutOfBand(i) ==
    /\ Live(i)
    /\ Edit
    /\ cloud' = [cloud EXCEPT ![i] = Deleted]
    /\ UNCHANGED <<mr, run, fresh, hidden, grace, lost, faults>>

ChangeOutOfBand(i, resource) ==
    /\ Live(i)
    /\ Edit
    /\ cloud' = [cloud EXCEPT ![i] = resource]
    /\ UNCHANGED <<mr, run, fresh, hidden, grace, lost, faults>>

BecomeReadable(i) ==
    /\ i \in hidden
    /\ hidden' = hidden \ {i}
    /\ UNCHANGED <<mr, run, fresh, cloud, grace, lost, environment>>

EndGracePeriod ==
    /\ grace
    /\ LagBounded => hidden = {}
    /\ grace' = FALSE
    /\ UNCHANGED <<mr, run, fresh, cloud, hidden, lost, environment>>

----------------------------------------------------------------------------
(* The parts of the specification and of the properties all controllers    *)
(* share.                                                                  *)

\* The object is applied anew, or imports the resource of identifier i.
InitWith(specs, resources) ==
    /\ run = [w \in Workers |-> Idle]
    /\ fresh = [w \in Workers |-> FALSE]
    /\ hidden = {} /\ grace = FALSE /\ lost = {}
    /\ edits = 0 /\ faults = 0
    /\ \E s \in specs :
        \/ /\ mr = NewObject(s, Nil)
           /\ cloud = [i \in Ids |-> Unused]
        \/ \E i \in Ids, r \in resources :
            /\ mr = NewObject(s, i)
            /\ cloud = [j \in Ids |-> IF j = i THEN r ELSE Unused]

TypeWith(specs, statuses, resources) ==
    /\ mr \in Object(specs, statuses)
    /\ run \in [Workers -> Runs(specs, statuses)]
    /\ fresh \in [Workers -> BOOLEAN]
    /\ cloud \in [Ids -> resources \cup {Unused, Deleted}]
    /\ hidden \in SUBSET Ids
    /\ grace \in BOOLEAN
    /\ lost \in SUBSET Ids
    /\ edits \in 0..MaxEdits
    /\ faults \in 0..MaxFaults

\* A worker between the announcement of a creation and its record.
Creating(w) == run[w].pc \in {"create", "persist", "persistFailed"}

\* The identifier is on its way into the object.
BeingRecorded(i) ==
    \E w \in Workers : run[w].pc = "persist" /\ run[w].obj.extName = i

\* An announced creation whose worker is gone: only a person can tell what
\* became of it, and remove the annotation.
CreationUnknown == mr.create = "pending" /\ \A w \in Workers : ~Creating(w)

\* However reconciles of two replicas or of stale copies interleave, crash
\* and fail: all resources ever created for the object are one and the same,
\* but for those whose identifier never reached the provider.  The guard on
\* the external name in Create and the conflict on the announcement see to
\* it, even when a new resource stays unreadable beyond the grace period.
OneResourcePerObject ==
    \A i, j \in Ids \ lost :
        cloud[i] # Unused /\ cloud[j] # Unused => i = j

\* An object that had a finalizer is gone only when its resource is deleted:
\* Observe's "does not exist" was right each time it was acted upon.  (An
\* object that is gone keeps its last fields here.)
NoOrphan ==
    LagBounded =>
        \A i \in Ids \ lost : ~mr.exists /\ mr.finalizer => ~Live(i)

----------------------------------------------------------------------------
(* What a controller promises, and where its parts are found here.         *)

objectState ==
    IF ~mr.exists THEN "gone"
    ELSE IF mr.deleting THEN "leaving"
    ELSE IF mr.finalizer THEN "held"
    ELSE "new"

\* dying: the resources whose deletion has begun and is not over.
resourceState(dying) ==
    [i \in Ids |->
        IF i \in lost THEN "lost"
        ELSE IF cloud[i] = Unused THEN "unused"
        ELSE IF cloud[i] = Deleted THEN "deleted"
        ELSE IF cloud[i] \in dying THEN "dying"
        ELSE "live"]

\* bounded: the object is let go of only after its resource.
Promise(bounded, dying) ==
    INSTANCE Lifecycle
    WITH LagBounded <- bounded, object <- objectState, name <- mr.extName,
         state <- resourceState(dying)

============================================================================
