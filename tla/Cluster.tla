------------------------------ MODULE Cluster ------------------------------
(***************************************************************************)
(* The CCE cluster controller (internal/controller/ccecluster), run by the *)
(* reconcile loop of ManagedReconciler.  Of the many fields only what the  *)
(* handlers treat in their own way is modelled: the description, the       *)
(* elastic IP, the component configurations with the annotation that holds *)
(* their hash, and masters, which stands for all that is adopted from the  *)
(* cloud and fixed by admission from then on.  Of the status only the host *)
(* of the external endpoint is, which Update reads.                        *)
(***************************************************************************)
EXTENDS ManagedReconciler, Sequences

CONSTANTS
    Applied,        \* the specs users write
    Found,          \* the clusters they import
    Descriptions,   \* values of description besides ""
    Addresses,      \* elastic IPs
    Configurations, \* values of componentConfigurations besides none
    MasterLists,    \* values of masters besides none
    MisfitMasters   \* those whose number does not fit the flavor

\* An empty list of masters, which omitempty drops.
NoMasters == "noMasters"

\* forProvider and the annotation.  eipId is the address the ID is of; an empty
\* eip counts as unset, and empty configurations do.
ClusterCopies ==
    [description : Descriptions \cup {"", Nil},
     eip : Addresses \cup {Nil}, eipId : Addresses \cup {Nil},
     configs : Configurations \cup {Nil},
     masters : MasterLists \cup {NoMasters, Nil}, multiAz : {TRUE, Nil},
     applied : Configurations \cup {""}]

\* "masters and multiAz are mutually exclusive".
Compatible(spec) == spec.masters = Nil \/ spec.multiAz = Nil

ClusterParameters ==
    {spec \in ClusterCopies : Compatible(spec) /\ spec.applied = ""}

Phases == {"Creating", "Available", "Deleting"}

CloudClusters ==
    [description : Descriptions \cup {""}, ip : Addresses \cup {Nil},
     configs : Configurations \cup {Nil}, masters : MasterLists \cup {Nil},
     phase : Phases]

ASSUME ClusterAssumption ==
    /\ Applied \subseteq ClusterParameters
    /\ Found \subseteq {c \in CloudClusters : c.phase = "Available"}
    /\ Nil \notin Descriptions \cup Addresses \cup Configurations \cup MasterLists
    /\ Nil \notin {"", TRUE}
    /\ "" \notin Descriptions \cup Configurations
    /\ MisfitMasters \subseteq MasterLists
    /\ NoMasters \notin MasterLists
    /\ Unused # Deleted /\ CloudClusters \cap {Unused, Deleted} = {}

----------------------------------------------------------------------------
(* What the handlers compute *)

\* validateMasterCount; vpcId and subnetId are set once the loop has resolved
\* references.
validateClusterSpec(spec) == spec.masters \notin MisfitMasters

\* (Faulty: without the rule on masters and multiAz.)
AdmittedFixed(old, new) ==
    /\ old.masters # Nil => new.masters = old.masters
    /\ old.multiAz # Nil => new.multiAz = old.multiAz

AdmittedCluster(old, new) ==
    /\ Compatible(new)
    /\ old.masters # Nil => new.masters = old.masters
    /\ old.multiAz # Nil => new.multiAz = old.multiAz

StoredCluster(spec) ==
    [spec EXCEPT !.masters = IF @ = NoMasters THEN Nil ELSE @]

\* Two lists of configurations have one hash only if they are the same.
componentConfigsHash(configs) == IF configs = Nil THEN "" ELSE configs

MastersAdopted(spec, c) ==
    IF spec.masters \in {Nil, NoMasters} /\ c.masters # Nil
    THEN c.masters ELSE spec.masters

lateInitializeCluster(spec, c) ==
    [spec EXCEPT
        !.description = LateInitIfNonZero(@, c.description, ""),
        !.masters = MastersAdopted(spec, c)]

\* isEIPUpToDate: an unset eip wants no address bound.
isEIPUpToDate(spec, c) == spec.eip = c.ip

isClusterUpToDate(spec, c) ==
    /\ IsOptionalUpToDate(spec.description, c.description)
    /\ isEIPUpToDate(spec, c)
    /\ componentConfigsHash(spec.configs) = spec.applied

\* buildCreateOpts; the service binds the address now or not at all, and
\* says which masters it chose, or nothing.
CreatedClusters(spec) ==
    [description : {Deref(spec.description, "")}, ip : {Nil, spec.eip},
     configs : {spec.configs},
     masters : IF spec.masters \in MasterLists THEN {spec.masters}
               ELSE (MasterLists \ MisfitMasters) \cup {Nil},
     phase : {"Creating"}]

\* updateDescription: by value, and so an empty one may be left out.
AfterDescription(spec, c) ==
    IF spec.description = Nil THEN {c}
    ELSE {[c EXCEPT !.description = spec.description]}
            \cup (IF spec.description = "" THEN {c} ELSE {})

\* updateEIP, by the address the status shows: the clusters after its calls,
\* and whether they were all made.  To bind takes the ID of an address, and a
\* cluster without one.
\* (Faulty: the old address is not unbound.)
UpdateEIPByBinding(spec, shown, c) ==
    IF spec.eip = shown THEN [calls |-> <<>>, done |-> TRUE]
    ELSE IF c.ip # Nil THEN [calls |-> <<>>, done |-> FALSE]
    ELSE [calls |-> <<[c EXCEPT !.ip = spec.eipId]>>, done |-> TRUE]

updateEIP(spec, shown, c) ==
    LET unbound == [c EXCEPT !.ip = Nil]
        bound == [c EXCEPT !.ip = spec.eipId]
    IN
    CASE spec.eip = shown -> [calls |-> <<>>, done |-> TRUE]
      [] spec.eip = Nil /\ shown # Nil -> [calls |-> <<unbound>>, done |-> TRUE]
      [] spec.eip # Nil /\ shown = Nil ->
            IF spec.eipId # Nil /\ c.ip = Nil
            THEN [calls |-> <<bound>>, done |-> TRUE]
            ELSE [calls |-> <<>>, done |-> FALSE]
      [] spec.eip # Nil /\ shown # Nil /\ spec.eip # shown ->
            IF spec.eipId # Nil
            THEN [calls |-> <<unbound, bound>>, done |-> TRUE]
            ELSE [calls |-> <<unbound>>, done |-> FALSE]

\* updateComponentConfigurations: sent always, and none to clear them.
AfterConfigurations(spec, c) == [c EXCEPT !.configs = spec.configs]

\* The clusters after each call of Update.  That it notes the hash in memory
\* has no effect: the loop stores nothing but the status after Update.
UpdateCalls(spec, shown, c) ==
    {LET eip == updateEIP(spec, shown, d)
         before == <<d>> \o eip.calls
     IN  IF eip.done
         THEN Append(before, AfterConfigurations(spec, before[Len(before)]))
         ELSE before :
     d \in AfterDescription(spec, c)}

----------------------------------------------------------------------------
(* The handlers *)

\* A 404 is no error of Observe.  (Faulty: it is one.)
MissingFails(w) == ObserveFailed(w)

ObserveMissing(w) == Observed(w, run[w].obj, Unobserved)

\* Observe validates the spec first, and sets the status before it lists the
\* security groups, which may fail.
Observe(w) ==
    LET obj == run[w].obj
        c == cloud[obj.extName]
        seen == [obj EXCEPT !.status = c.ip]
        spec == lateInitializeCluster(obj.spec, c)
        valid == validateClusterSpec(obj.spec)
    IN
    \/ /\ ~valid
       /\ ObserveFailed(w)
       /\ UNCHANGED environment
    \/ /\ valid /\ ~Readable(obj.extName)
       /\ ObserveMissing(w)
       /\ UNCHANGED environment
    \/ /\ valid /\ Readable(obj.extName)
       /\ Observed(w, [seen EXCEPT !.spec = spec],
                   [exists |-> TRUE,
                    lateInit |-> spec # obj.spec,
                    upToDate |-> isClusterUpToDate(spec, c)])
       /\ UNCHANGED environment
    \/ /\ valid /\ obj.extName # Nil
       /\ Fault
       /\ \/ ObserveFailed(w)
          \/ /\ Readable(obj.extName)
             /\ Finish(w, seen)
             /\ UNCHANGED <<cloud, hidden, grace, lost>>
       /\ UNCHANGED edits

\* An object with an external name is taken to be created already.  (Faulty:
\* it is not.)
NeverTakenAsCreated(obj) == FALSE

TakenAsCreated(obj) == obj.extName # Nil

\* Create notes the hash of what it sent, and the loop stores that.
Create(w) ==
    LET obj == run[w].obj
        noted == [obj EXCEPT
                    !.spec.applied = componentConfigsHash(obj.spec.configs)]
    IN
    \/ TakenAsCreated(obj) /\ CreateSkipped(w)
    \/ /\ ~TakenAsCreated(obj)
       /\ \E c \in CreatedClusters(obj.spec) :
             CreateReturns(w, c, noted) \/ CreateFails(w, c)

RecordCluster(w) ==
    RecordCreateIn(w, [mr EXCEPT !.spec.applied = run[w].obj.spec.applied])

\* Update reads nothing anew.  The service changes only available clusters.
Update(w) ==
    LET obj == run[w].obj
        c == cloud[obj.extName]
        runs == IF Readable(obj.extName) /\ c.phase = "Available"
                THEN UpdateCalls(obj.spec, obj.status, c) ELSE {}
    IN
    \/ /\ runs = {}
       /\ ExternalUnchanged(w, "update", obj)
       /\ UNCHANGED environment
    \/ /\ \E calls \in runs : External(w, "update", calls[Len(calls)], obj)
       /\ UNCHANGED environment
    \/ /\ Fault
       /\ \/ ExternalUnchanged(w, "update", obj)
          \/ \E calls \in runs : \E n \in 1..Len(calls) - 1 :
                External(w, "update", calls[n], obj)
       /\ UNCHANGED edits

\* Delete begins the deletion; it is over when the cluster is not found.
Delete(w) ==
    LET obj == run[w].obj IN
    \/ /\ Readable(obj.extName)
       /\ External(w, "delete", [cloud[obj.extName] EXCEPT !.phase = "Deleting"], obj)
       /\ UNCHANGED environment
    \/ /\ ~Readable(obj.extName)
       /\ ExternalUnchanged(w, "delete", obj)
       /\ UNCHANGED environment
    \/ /\ Fault
       /\ ExternalUnchanged(w, "delete", obj)
       /\ UNCHANGED edits

----------------------------------------------------------------------------
(* The system *)

Init == InitWith(Applied, Found)

Reconcile(w) ==
    LET stored == StoredCluster(run[w].obj.spec)
        admitted == AdmittedCluster(mr.spec, stored)
    IN
    \/ run[w].pc = "observe" /\ Observe(w)
    \/ AddFinalizer(w, stored, admitted)
    \/ AnnounceCreate(w, stored, admitted)
    \/ run[w].pc = "create" /\ Create(w)
    \/ RecordCluster(w)
    \/ RecordFailedCreate(w)
    \/ LateInitialize(w, stored, admitted)
    \/ UpdateObjectFails(w)
    \/ run[w].pc = "update" /\ Update(w)
    \/ run[w].pc = "delete" /\ Delete(w)
    \/ RemoveFinalizer(w)

\* Users leave the annotation alone.
UserEdit ==
    \E spec \in Applied :
        LET edited == [spec EXCEPT !.applied = mr.spec.applied]
        IN  AdmittedCluster(mr.spec, edited) /\ EditSpec(edited)

\* Other clients change the description, the address, or delete the cluster.
\* What they do to the configurations is left out: nothing shows it; and so
\* is what they do to a cluster that no object stands for.
Drift(i) ==
    /\ mr.exists /\ i \notin lost
    /\ Live(i) /\ cloud[i].phase = "Available"
    /\ \E c \in CloudClusters :
          /\ c # cloud[i]
          /\ c.configs = cloud[i].configs /\ c.masters = cloud[i].masters
          /\ \/ c.description # cloud[i].description
                    /\ c.ip = cloud[i].ip /\ c.phase = "Available"
             \/ c.description = cloud[i].description
                    /\ c.ip # cloud[i].ip /\ c.phase = "Available"
             \/ c = [cloud[i] EXCEPT !.phase = "Deleting"]
          /\ ChangeOutOfBand(i, c)

\* The service finishes the creation and the deletion of a cluster.
FinishCreation(i) ==
    /\ Live(i) /\ cloud[i].phase = "Creating"
    /\ cloud' = [cloud EXCEPT ![i].phase = "Available"]
    /\ UNCHANGED <<mr, run, fresh, hidden, grace, lost, environment>>

FinishDeletion(i) ==
    /\ Live(i) /\ cloud[i].phase = "Deleting"
    /\ cloud' = [cloud EXCEPT ![i] = Deleted]
    /\ UNCHANGED <<mr, run, fresh, hidden, grace, lost, environment>>

Next ==
    \/ \E w \in Workers : Begin(w) \/ Reconcile(w) \/ Abandon(w)
    \/ UserEdit
    \/ DeleteObject
    \/ \E i \in Ids :
          Drift(i) \/ FinishCreation(i) \/ FinishDeletion(i) \/ BecomeReadable(i)
    \/ EndGracePeriod

Spec == Init /\ [][Next]_vars

\* As for the VPC; besides, the service finishes what it began.
Fairness ==
    /\ \A w \in Workers : WF_vars(Begin(w)) /\ WF_vars(Reconcile(w))
    /\ \A i \in Ids :
          /\ WF_vars(BecomeReadable(i))
          /\ WF_vars(FinishCreation(i))
          /\ WF_vars(FinishDeletion(i))
    /\ WF_vars(EndGracePeriod)

FairSpec == Spec /\ Fairness

----------------------------------------------------------------------------
(* Properties *)

\* The types of all variables.  Late initialisation may leave a copy with
\* masters and multiAz in memory; the stored spec never has both.
ClusterTypeOK ==
    /\ TypeWith(ClusterCopies, Addresses, CloudClusters)
    /\ Compatible(mr.spec)

\* What the provider writes to the object never changes what its user has
\* set.  (An empty list of masters counts as unset.)
KeepsSettings(old, new) ==
    /\ \A f \in {"description", "eip", "eipId", "configs", "multiAz"} :
          old[f] # Nil => new[f] = old[f]
    /\ StoredCluster(old).masters # Nil => new.masters = old.masters

ClusterSettingsKept ==
    [][edits' = edits => KeepsSettings(mr.spec, mr'.spec)]_vars

\* The annotation says that the configurations are applied: that this may be
\* wrong is what ConfigurationsFollowSpec says.
CountAsApplied(spec) == componentConfigsHash(spec.configs) = spec.applied

\* Every write of the provider is rejected: it drops the empty masters the
\* user gave, or adds masters to multiAz.
WriteRejected(c) ==
    \/ mr.spec.masters = NoMasters
    \/ mr.spec.multiAz = TRUE /\ c.masters # Nil

\* When users and faults rest, the description and the address come to match
\* the object and stay so, and the configurations do unless the annotation
\* says they did: through transitional phases, a status that lags behind the
\* address, and exchanges of addresses that fail half way.  The address needs
\* the ID of that address.
ClusterConverges ==
    <>[](\/ CreationUnknown
         \/ ~mr.exists
         \/ mr.deleting
         \/ ~validateClusterSpec(mr.spec)
         \/ mr.extName = Nil /\ mr.spec.masters = NoMasters
         \/ /\ mr.extName # Nil
            /\ LET c == cloud[mr.extName] IN
               \/ ~Live(mr.extName)
               \/ WriteRejected(c)
               \/ /\ \/ mr.spec.description \in {"", Nil, c.description}
                  /\ \/ isEIPUpToDate(mr.spec, c)
                     \/ mr.spec.eip # Nil /\ mr.spec.eipId # mr.spec.eip
                  /\ \/ mr.spec.configs = c.configs
                     \/ CountAsApplied(mr.spec)
                     \/ mr.spec.eip # c.ip /\ mr.spec.eipId = Nil)

\* A deleted object goes away, and NoOrphan says that its cluster is gone
\* then - unless its masters do not fit: Observe fails before it looks, and
\* masters cannot be changed.
ClusterDeletionCompletes ==
    <>[](mr.exists /\ mr.deleting =>
            CreationUnknown \/ ~validateClusterSpec(mr.spec))

\* updateComponentConfigurations sends the list "so that removing all overrides
\* from spec actually clears them on the cluster".
ConfigurationsFollowSpec ==
    <>[](mr.exists /\ ~mr.deleting /\ mr.extName # Nil /\ Live(mr.extName) =>
            \/ cloud[mr.extName].phase = "Deleting"
            \/ cloud[mr.extName].configs = mr.spec.configs)

\* Clusters whose deletion has begun.
Dying == {c \in CloudClusters : c.phase = "Deleting"}

\* Every step is a step of Lifecycle, or none it sees: however reconciles
\* interleave, crash and fail, and however long the service takes, the
\* provider makes one cluster, notes its name once, begins its deletion only
\* for a deleted object, and lets go of the object only after the cluster is
\* gone.
KeepsPromise ==
    /\ Promise(LagBounded, Dying)!Init
    /\ [][Promise(LagBounded, Dying)!Next]_(Promise(LagBounded, Dying)!vars)

============================================================================
