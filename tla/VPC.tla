-------------------------------- MODULE VPC --------------------------------
(***************************************************************************)
(* The VPC controller (internal/controller/vpc): Observe, Create, Update   *)
(* and Delete of the external client, run by the reconcile loop of         *)
(* ManagedReconciler.  The status it writes is read by nobody and left     *)
(* out.                                                                    *)
(***************************************************************************)
EXTENDS ManagedReconciler

CONSTANTS
    VpcNames,        \* values of name
    Descriptions,    \* values of description besides ""
    Cidrs,           \* values of cidr
    SecondaryCidrs,  \* well-formed values of secondaryCidr
    TagKeys,
    TagValues

BadCidr == "not a CIDR"

TagMaps == UNION {[K -> TagValues] : K \in SUBSET TagKeys}

\* forProvider, as admission lets users write it: lengths are checked there,
\* the syntax of the secondary CIDR is not.
VPCParameters ==
    [name : VpcNames, description : Descriptions \cup {"", Nil}, cidr : Cidrs,
     secondaryCidr : SecondaryCidrs \cup {"", Nil, BadCidr},
     tags : TagMaps \cup {Nil}]

\* A VPC in the cloud.  Other clients may give it more than one secondary
\* CIDR; this one only handles one.
CloudVPC ==
    [name : VpcNames, description : Descriptions \cup {""}, cidr : Cidrs,
     secondaryCidrs : SUBSET SecondaryCidrs, tags : TagMaps]

ASSUME VPCAssumption ==
    /\ Nil \notin VpcNames \cup Descriptions \cup Cidrs \cup SecondaryCidrs
    /\ "" \notin Descriptions \cup SecondaryCidrs
    /\ BadCidr \notin SecondaryCidrs
    /\ Nil \notin TagMaps
    /\ Unused # Deleted /\ CloudVPC \cap {Unused, Deleted} = {}

----------------------------------------------------------------------------
(* What the handlers compute *)

validateVPCParameters(spec) == spec.secondaryCidr # BadCidr

\* The CEL rule on VPCParameters.
AdmittedVPC(old, new) == old.cidr = new.cidr

\* The JSON the provider writes: an empty tag map is omitted.
StoredVPC(spec) == [spec EXCEPT !.tags = OmitEmptyMap(@)]

\* observeSecondaryCIDR succeeds.
OneSecondaryCIDR(vpc) == Cardinality(vpc.secondaryCidrs) <= 1

observeSecondaryCIDR(vpc) ==
    IF vpc.secondaryCidrs = {} THEN "" ELSE CHOOSE c \in vpc.secondaryCidrs : TRUE

lateInitializeVPC(spec, vpc) ==
    [spec EXCEPT
        !.description = LateInitIfNonZero(@, vpc.description, ""),
        !.secondaryCidr = LateInitIfNonZero(@, observeSecondaryCIDR(vpc), ""),
        !.tags = LateInitIfNonZero(@, vpc.tags, EmptyMap)]

isVPCUpToDate(spec, vpc) ==
    /\ spec.name = vpc.name
    /\ spec.cidr = vpc.cidr
    /\ IsOptionalUpToDate(spec.description, vpc.description)
    /\ IsOptionalUpToDate(spec.secondaryCidr, observeSecondaryCIDR(vpc))
    /\ IsOptionalUpToDate(spec.tags, vpc.tags)

\* buildVPCCreateOpts: tags and the secondary CIDR are left to Update.
\* (Faulty: a nil description is not defaulted.)
CreatedVPCAsGiven(spec) ==
    [name |-> spec.name, description |-> spec.description,
     cidr |-> spec.cidr, secondaryCidrs |-> {}, tags |-> EmptyMap]

CreatedVPC(spec) ==
    [name |-> spec.name, description |-> Deref(spec.description, ""),
     cidr |-> spec.cidr, secondaryCidrs |-> {}, tags |-> EmptyMap]

\* One call to the VPC API each, identities where the code makes no call.
\* buildVPCUpdateOpts: name and, when given, description in one call.
AfterUpdateCall(spec, vpc) ==
    [vpc EXCEPT !.name = spec.name, !.description = Deref(spec.description, @)]

\* reconcileTags: first the missing and changed entries are written, then
\* the extra and changed ones deleted, with the values observed before.
AfterTagsCreate(spec, vpc) ==
    IF spec.tags = Nil THEN vpc
    ELSE [vpc EXCEPT !.tags = TagsWritten(@, TagDiff(spec.tags, @))]

AfterTagsDelete(spec, vpc) ==
    IF spec.tags = Nil THEN {vpc}
    ELSE LET written == AfterTagsCreate(spec, vpc)
             extra == TagDiff(vpc.tags, spec.tags)
         IN {[written EXCEPT !.tags = TagsDeletedByKey(@, extra)],
             [written EXCEPT !.tags = TagsDeletedByPair(@, extra)]}

\* reconcileSecondaryCIDR: the current one is removed before the new is added.
ChangesSecondaryCIDR(spec, vpc) ==
    /\ spec.secondaryCidr # Nil
    /\ spec.secondaryCidr # observeSecondaryCIDR(vpc)

AfterCidrRemoval(spec, vpc) ==
    IF ChangesSecondaryCIDR(spec, vpc)
    THEN [vpc EXCEPT !.secondaryCidrs = {}] ELSE vpc

\* (Faulty: the exchange of the CIDR stops half-way.)
AfterCidrRemovalOnly(spec, vpc) == AfterCidrRemoval(spec, vpc)

AfterCidrAddition(spec, vpc) ==
    IF ChangesSecondaryCIDR(spec, vpc) /\ spec.secondaryCidr # ""
    THEN [vpc EXCEPT !.secondaryCidrs = {spec.secondaryCidr}]
    ELSE AfterCidrRemoval(spec, vpc)

\* The VPC after all calls of Update, and after some of them.
Updated(spec, vpc) ==
    {AfterCidrAddition(spec, tagged) :
        tagged \in AfterTagsDelete(spec, AfterUpdateCall(spec, vpc))}

PartlyUpdated(spec, vpc) ==
    LET named == AfterUpdateCall(spec, vpc) IN
    {vpc, named, AfterTagsCreate(spec, named)}
        \cup AfterTagsDelete(spec, named)
        \cup {AfterCidrRemoval(spec, t) : t \in AfterTagsDelete(spec, named)}

----------------------------------------------------------------------------
(* The handlers *)

\* A 404 is no error of Observe.  (Faulty: it is one.)
ObserveMissingFails(w) == ObserveFailed(w)

ObserveMissing(w) == Observed(w, run[w].obj, Unobserved)

\* Observe fails on an invalid spec and on several secondary CIDRs, and when
\* one of its three reads fails.
Observe(w) ==
    LET obj == run[w].obj
        vpc == cloud[obj.extName]
    IN
    \/ /\ ~validateVPCParameters(obj.spec)
       /\ ObserveFailed(w)
       /\ UNCHANGED environment
    \/ /\ validateVPCParameters(obj.spec)
       /\ ~Readable(obj.extName)
       /\ ObserveMissing(w)
       /\ UNCHANGED environment
    \/ /\ validateVPCParameters(obj.spec)
       /\ Readable(obj.extName)
       /\ ~OneSecondaryCIDR(vpc)
       /\ ObserveFailed(w)
       /\ UNCHANGED environment
    \/ /\ validateVPCParameters(obj.spec)
       /\ Readable(obj.extName)
       /\ OneSecondaryCIDR(vpc)
       /\ LET spec == lateInitializeVPC(obj.spec, vpc) IN
          Observed(w, [obj EXCEPT !.spec = spec],
                   [exists |-> TRUE,
                    lateInit |-> spec # obj.spec,
                    upToDate |-> isVPCUpToDate(spec, vpc)])
       /\ UNCHANGED environment
    \/ /\ obj.extName # Nil
       /\ Fault
       /\ ObserveFailed(w)
       /\ UNCHANGED edits

\* An object with an external name is taken to be created already.  (Faulty:
\* it is not.)
NeverTakenAsCreated(obj) == FALSE

TakenAsCreated(obj) == obj.extName # Nil

\* Create does not fail on an invalid spec: Observe has validated this copy.
Create(w) ==
    LET obj == run[w].obj IN
    \/ TakenAsCreated(obj) /\ CreateSkipped(w)
    \/ /\ ~TakenAsCreated(obj)
       /\ \/ CreateSucceeds(w, CreatedVPC(obj.spec))
          \/ CreateFails(w, CreatedVPC(obj.spec))

\* Update observes anew, checks the immutable field, and makes its calls in
\* order until one fails.
CanUpdate(spec, vpc) ==
    /\ validateVPCParameters(spec)
    /\ OneSecondaryCIDR(vpc)
    /\ spec.cidr = vpc.cidr

Update(w) ==
    LET obj == run[w].obj
        vpc == cloud[obj.extName]
    IN
    \/ /\ ~(Readable(obj.extName) /\ CanUpdate(obj.spec, vpc))
       /\ ExternalUnchanged(w, "update", obj)
       /\ UNCHANGED environment
    \/ /\ Readable(obj.extName) /\ CanUpdate(obj.spec, vpc)
       /\ \E r \in Updated(obj.spec, vpc) : External(w, "update", r, obj)
       /\ UNCHANGED environment
    \/ /\ Readable(obj.extName) /\ CanUpdate(obj.spec, vpc)
       /\ Fault
       /\ \E r \in PartlyUpdated(obj.spec, vpc) : External(w, "update", r, obj)
       /\ UNCHANGED edits

\* Delete: a VPC that is not found is deleted.
Delete(w) ==
    LET obj == run[w].obj IN
    \/ /\ Readable(obj.extName)
       /\ External(w, "delete", Deleted, obj)
       /\ UNCHANGED environment
    \/ /\ ~Readable(obj.extName)
       /\ ExternalUnchanged(w, "delete", obj)
       /\ UNCHANGED environment
    \/ /\ Fault
       /\ ExternalUnchanged(w, "delete", obj)
       /\ UNCHANGED edits

----------------------------------------------------------------------------
(* The system *)

Init == InitWith(VPCParameters, CloudVPC)

Reconcile(w) ==
    LET stored == StoredVPC(run[w].obj.spec)
        admitted == AdmittedVPC(mr.spec, stored)
    IN
    \/ run[w].pc = "observe" /\ Observe(w)
    \/ AddFinalizer(w, stored, admitted)
    \/ AnnounceCreate(w, stored, admitted)
    \/ run[w].pc = "create" /\ Create(w)
    \/ RecordCreate(w)
    \/ RecordFailedCreate(w)
    \/ LateInitialize(w, stored, admitted)
    \/ UpdateObjectFails(w)
    \/ run[w].pc = "update" /\ Update(w)
    \/ run[w].pc = "delete" /\ Delete(w)
    \/ RemoveFinalizer(w)

UserEdit ==
    \E spec \in VPCParameters : AdmittedVPC(mr.spec, spec) /\ EditSpec(spec)

\* Other clients of the cloud may change all that this controller manages.
Drift(i) ==
    \/ RemoveOutOfBand(i)
    \/ /\ Live(i)
       /\ \E r \in CloudVPC : r # cloud[i] /\ r.cidr = cloud[i].cidr
                                 /\ ChangeOutOfBand(i, r)

Next ==
    \/ \E w \in Workers : Begin(w) \/ Reconcile(w) \/ Abandon(w)
    \/ UserEdit
    \/ DeleteObject
    \/ \E i \in Ids : Drift(i) \/ BecomeReadable(i)
    \/ EndGracePeriod

Spec == Init /\ [][Next]_vars

\* The manager runs every step of a reconcile that started, starts one at
\* every poll interval, and resources and timers do what they are waited for.
Fairness ==
    /\ \A w \in Workers : WF_vars(Begin(w)) /\ WF_vars(Reconcile(w))
    /\ \A i \in Ids : WF_vars(BecomeReadable(i))
    /\ WF_vars(EndGracePeriod)

FairSpec == Spec /\ Fairness

----------------------------------------------------------------------------
(* Properties *)

TypeOK == TypeWith(VPCParameters, {}, CloudVPC)

\* What the provider writes to the object never changes what its user has
\* set; late initialisation only fills in what is unset.  (An empty tag map
\* counts as unset: omitempty drops it from every write.)
KeepsSettings(old, new) ==
    /\ new.name = old.name
    /\ new.cidr = old.cidr
    /\ old.description # Nil => new.description = old.description
    /\ old.secondaryCidr # Nil => new.secondaryCidr = old.secondaryCidr
    /\ OmitEmptyMap(old.tags) # Nil => new.tags = old.tags

UserSettingsKept ==
    [][edits' = edits => KeepsSettings(mr.spec, mr'.spec)]_vars

\* Neither Update nor Delete can help: the spec is invalid, a second
\* secondary CIDR appeared, or a creation was cut off by a crash.
Blocked ==
    \/ CreationUnknown
    \/ ~validateVPCParameters(mr.spec)
    \/ mr.extName # Nil /\ Live(mr.extName) /\ ~OneSecondaryCIDR(cloud[mr.extName])

\* When users and faults rest, the VPC comes to match the object and stays so,
\* through partly failed updates, changed tags and exchanged CIDRs - unless
\* it was deleted by others, or imported with another primary CIDR.
Converges ==
    <>[](\/ Blocked
         \/ ~mr.exists
         \/ mr.deleting
         \/ /\ mr.extName # Nil
            /\ \/ ~Live(mr.extName)
               \/ cloud[mr.extName].cidr # mr.spec.cidr
               \/ isVPCUpToDate(mr.spec, cloud[mr.extName]))

\* A deleted object goes away, and NoOrphan says its VPC is deleted then.
DeletionCompletes == <>[](Blocked \/ ~(mr.exists /\ mr.deleting))

\* Every step of the reconcile loop, of users and of the cloud is a step of
\* Lifecycle, or none it sees: however reconciles interleave, crash and fail,
\* the provider makes one VPC, notes its name once, deletes it only for a
\* deleted object, and lets go of the object only after it.
KeepsPromise ==
    /\ Promise(LagBounded, {})!Init
    /\ [][Promise(LagBounded, {})!Next]_(Promise(LagBounded, {})!vars)

============================================================================
