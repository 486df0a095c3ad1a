------------------------ MODULE ProviderConfigUsage ------------------------
(***************************************************************************)
(* Who keeps a provider config alive.  Every reconcile records that its    *)
(* managed resource uses a config (usage.Track in Connect) before it reads *)
(* the config; the two controllers of internal/controller/config let go of *)
(* a deleted config, by removing its finalizer, once they count no usages. *)
(* The resources, the tracker and the counting belong to the Crossplane    *)
(* runtime; which kind of usage is recorded, and which is counted, is      *)
(* decided by this provider.                                               *)
(***************************************************************************)
EXTENDS Naturals, FiniteSets

CONSTANTS
    Resources,  \* managed resources, all in one namespace
    Names,      \* names of provider configs
    MaxEdits,   \* bound: configs created and references changed
    Nil

Kinds == {"ProviderConfig", "ClusterProviderConfig"}
Configs == [kind : Kinds, name : Names]

ASSUME UsageAssumption == MaxEdits \in Nat /\ Nil \notin Configs

VARIABLES
    config,    \* config[k]: the state of the config k
    released,  \* deleted configs whose usages were counted to be none
    resource,  \* resource[m]: its providerConfigRef and its progress
    usages,    \* the usage objects, one of each resource at most
    edits

vars == <<config, released, resource, usages, edits>>

UsageKinds == {"ProviderConfigUsage", "ClusterProviderConfigUsage"}

\* inTime: recorded while the config was not being deleted (history).
Usage == [kind : UsageKinds, of : Resources, config : Configs, inTime : BOOLEAN]

TypeOK ==
    /\ config \in [Configs -> {"absent", "new", "held", "deleted"}]
    /\ released \in SUBSET Configs
    /\ resource \in [Resources ->
                       [ref : Configs, pc : {"idle", "tracked", "connected", "gone"}]]
    /\ usages \in SUBSET Usage
    /\ edits \in 0..MaxEdits

\* ProviderConfigKinds of the two controllers.  (Faulty: both count the
\* usages of the cluster-scoped kind.)
CountsClusterUsages(kind) == "ClusterProviderConfigUsage"

CountedKind(kind) ==
    IF kind = "ProviderConfig"
    THEN "ProviderConfigUsage" ELSE "ClusterProviderConfigUsage"

\* NewProviderConfigUsageTracker, in the Setup of every controller.
\* (Faulty: it is given the config's kind.)
TrackedConfigKind == "ProviderConfig"

TrackedKind == "ProviderConfigUsage"

Init ==
    /\ config \in [Configs -> {"absent", "new"}]
    /\ released = {}
    /\ \E ref \in [Resources -> Configs] :
         resource = [m \in Resources |-> [ref |-> ref[m], pc |-> "idle"]]
    /\ usages = {}
    /\ edits = 0

Exists(k) == config[k] # "absent"

----------------------------------------------------------------------------
(* The config controllers *)

AddFinalizer(k) ==
    /\ config[k] = "new"
    /\ config' = [config EXCEPT ![k] = "held"]
    /\ UNCHANGED <<released, resource, usages, edits>>

\* Lists the usages, after having read that the config is being deleted ...
CountUsages(k) ==
    /\ config[k] = "deleted"
    /\ ~\E u \in usages : u.kind = CountedKind(k.kind) /\ u.config = k
    /\ released' = released \cup {k}
    /\ UNCHANGED <<config, resource, usages, edits>>

\* ... and then removes the finalizer.
RemoveFinalizer(k) ==
    /\ k \in released
    /\ config' = [config EXCEPT ![k] = "absent"]
    /\ released' = released \ {k}
    /\ UNCHANGED <<resource, usages, edits>>

----------------------------------------------------------------------------
(* Connect of the managed resources' controllers *)

Mine(m) == {u \in usages : u.of = m /\ u.kind = TrackedKind}

NewUsage(m) ==
    LET ref == resource[m].ref IN
    [kind |-> TrackedKind, of |-> m, config |-> ref,
     inTime |-> config[ref] \in {"new", "held"}]

\* The tracker replaces a usage recorded with another config.
\* (Faulty: it leaves every usage alone.)
RecordedOnce(m) ==
    IF Mine(m) # {} THEN usages ELSE usages \cup {NewUsage(m)}

Recorded(m) ==
    IF \E u \in Mine(m) : u.config = resource[m].ref THEN usages
    ELSE (usages \ Mine(m)) \cup {NewUsage(m)}

Track(m) ==
    /\ resource[m].pc \in {"idle", "connected"}
    /\ usages' = Recorded(m)
    /\ resource' = [resource EXCEPT ![m].pc = "tracked"]
    /\ UNCHANGED <<config, released, edits>>

\* GetProviderConfigSpec.
Connect(m) ==
    /\ resource[m].pc = "tracked"
    /\ resource' = [resource EXCEPT ![m].pc =
                      IF Exists(resource[m].ref) THEN "connected" ELSE "idle"]
    /\ UNCHANGED <<config, released, usages, edits>>

\* The resource is deleted, in the cloud first, and its usage is collected.
DeleteResource(m) ==
    /\ resource[m].pc = "connected"
    /\ resource' = [resource EXCEPT ![m].pc = "gone"]
    /\ UNCHANGED <<config, released, usages, edits>>

CollectUsage(u) ==
    /\ resource[u.of].pc = "gone"
    /\ usages' = usages \ {u}
    /\ UNCHANGED <<config, released, resource, edits>>

----------------------------------------------------------------------------
(* Users *)

Edit == edits < MaxEdits /\ edits' = edits + 1

CreateConfig(k) ==
    /\ ~Exists(k)
    /\ Edit
    /\ config' = [config EXCEPT ![k] = "new"]
    /\ UNCHANGED <<released, resource, usages>>

\* Without a finalizer the config goes at once.
DeleteConfig(k) ==
    /\ config[k] \in {"new", "held"}
    /\ config' = [config EXCEPT ![k] = IF @ = "held" THEN "deleted" ELSE "absent"]
    /\ UNCHANGED <<released, resource, usages, edits>>

EditRef(m, ref) ==
    /\ resource[m].pc \in {"idle", "connected"}
    /\ ref # resource[m].ref
    /\ Edit
    /\ resource' = [resource EXCEPT ![m] = [ref |-> ref, pc |-> "idle"]]
    /\ UNCHANGED <<config, released, usages>>

Next ==
    \/ \E k \in Configs :
         \/ AddFinalizer(k) \/ CountUsages(k) \/ RemoveFinalizer(k)
         \/ CreateConfig(k) \/ DeleteConfig(k)
    \/ \E m \in Resources :
         \/ Track(m) \/ Connect(m) \/ DeleteResource(m)
         \/ \E ref \in Configs : EditRef(m, ref)
    \/ \E u \in usages : CollectUsage(u)

Spec == Init /\ [][Next]_vars

----------------------------------------------------------------------------
(* Properties *)

\* The use of a config was recorded in time, and goes on.
InUse(k) ==
    \E u \in usages :
        /\ u.config = k /\ u.inTime
        /\ resource[u.of].ref = k /\ resource[u.of].pc # "gone"

\* A resource that passed Track has recorded the config it now refers to,
\* and no other, however often its reference was changed before.
UsageRecorded ==
    \A m \in Resources :
        resource[m].pc \in {"tracked", "connected"} =>
            \E u \in usages : Mine(m) = {u} /\ u.config = resource[m].ref

\* The finalizer of a ProviderConfig holds it while a managed resource uses
\* it that recorded so before the deletion - so that the resource can still
\* be deleted itself -, however tracking, counting and collecting interleave
\* ("reconciles ProviderConfigs by accounting for their current usage").
ProviderConfigHeld ==
    [][\A k \in Configs :
         k.kind = "ProviderConfig" /\ InUse(k) /\ config[k] = "deleted"
            => config'[k] = "deleted"]_vars

\* The same of ClusterProviderConfigs, in the words of
\* ClusterProviderConfigUsage: "indicates that a resource is using a
\* ClusterProviderConfig".
ClusterProviderConfigHeld ==
    [][\A k \in Configs :
         k.kind = "ClusterProviderConfig" /\ InUse(k) /\ config[k] = "deleted"
            => config'[k] = "deleted"]_vars

============================================================================
