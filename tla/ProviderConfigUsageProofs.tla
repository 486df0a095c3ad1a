--------------------- MODULE ProviderConfigUsageProofs ---------------------
(***************************************************************************)
(* The usages of provider configs, for all resources, configs and numbers  *)
(* of edits: a ProviderConfig in use is not let go of.                     *)
(***************************************************************************)
EXTENDS ProviderConfigUsage, TLAPS

\* Whatever is recorded is recorded once for a resource, as TrackedKind.
OneUsage ==
    /\ \A u \in usages : u.kind = TrackedKind
    /\ \A u, v \in usages : u.of = v.of => u = v

\* Between the count and the removal of the finalizer a usage may appear,
\* but only one that was recorded after the deletion.
ReleasedUnused ==
    \A k \in released :
        /\ config[k] = "deleted"
        /\ \A u \in usages :
             u.kind = CountedKind(k.kind) /\ u.config = k => ~u.inTime

IInv == TypeOK /\ OneUsage /\ ReleasedUnused /\ UsageRecorded

\* A new usage is typed, and in time only if its config is not being deleted.
LEMMA NewUsageType ==
    ASSUME TypeOK, NEW m \in Resources
    PROVE  /\ NewUsage(m) \in Usage
           /\ NewUsage(m).kind = TrackedKind /\ NewUsage(m).of = m
           /\ NewUsage(m).config = resource[m].ref
           /\ NewUsage(m).inTime => config[resource[m].ref] \in {"new", "held"}
  <1>1. resource[m].ref \in Configs
    BY DEF TypeOK
  <1> DEFINE inTime == config[resource[m].ref] \in {"new", "held"}
  <1>2. NewUsage(m) = [kind |-> TrackedKind, of |-> m, config |-> resource[m].ref,
                       inTime |-> inTime]
    BY DEF NewUsage
  <1>3. inTime \in BOOLEAN
    OBVIOUS
  <1> HIDE DEF inTime
  <1>4. NewUsage(m) \in Usage
    BY <1>1, <1>2, <1>3 DEF Usage, UsageKinds, TrackedKind
  <1>5. NewUsage(m).inTime => inTime
    BY <1>2
  <1> QED BY <1>2, <1>4, <1>5 DEF inTime

\* Track leaves the usages of others alone, and one of m, of its config.
LEMMA RecordedUsages ==
    ASSUME TypeOK, OneUsage, NEW m \in Resources
    PROVE  /\ Recorded(m) \subseteq usages \cup {NewUsage(m)}
           /\ \E r \in Recorded(m) :
                /\ r.of = m /\ r.config = resource[m].ref /\ r.kind = TrackedKind
                /\ \A u \in Recorded(m) : u.of = m => u = r
           /\ \A u \in usages : u.of # m => u \in Recorded(m)
  <1>1. CASE \E u \in Mine(m) : u.config = resource[m].ref
    <2>1. Recorded(m) = usages
      BY <1>1 DEF Recorded
    <2> QED BY <1>1, <2>1 DEF OneUsage, Mine
  <1>2. CASE ~\E u \in Mine(m) : u.config = resource[m].ref
    <2>1. Recorded(m) = (usages \ Mine(m)) \cup {NewUsage(m)}
      BY <1>2 DEF Recorded
    <2>2. \A u \in usages : u \in Mine(m) <=> u.of = m
      BY DEF Mine, OneUsage
    <2> QED BY <2>1, <2>2, NewUsageType
  <1> QED BY <1>1, <1>2

LEMMA TrackKeeps ==
    ASSUME IInv, NEW m \in Resources, Track(m)
    PROVE  IInv'
  <1>1. /\ usages' = Recorded(m)
        /\ resource' = [resource EXCEPT ![m].pc = "tracked"]
        /\ UNCHANGED <<config, released, edits>>
    BY DEF Track
  <1>2. PICK r \in usages' :
          /\ r.of = m /\ r.config = resource[m].ref /\ r.kind = TrackedKind
          /\ \A u \in usages' : u.of = m => u = r
    BY <1>1, RecordedUsages DEF IInv
  <1>3. /\ usages' \subseteq usages \cup {NewUsage(m)}
        /\ \A u \in usages : u.of # m => u \in usages'
    BY <1>1, RecordedUsages DEF IInv
  <1>4. /\ \A n \in Resources \ {m} : resource'[n] = resource[n]
        /\ resource'[m].ref = resource[m].ref
        /\ resource' \in [Resources ->
                 [ref : Configs, pc : {"idle", "tracked", "connected", "gone"}]]
    BY <1>1 DEF IInv, TypeOK
  <1>5. TypeOK'
    <2>1. usages' \in SUBSET Usage
      BY <1>3, NewUsageType DEF IInv, TypeOK
    <2> QED BY <1>1, <1>4, <2>1 DEF IInv, TypeOK
  <1>6. OneUsage'
    BY <1>2, <1>3, NewUsageType DEF IInv, OneUsage, TrackedKind
  <1>7. ReleasedUnused'
    BY <1>1, <1>3, NewUsageType DEF IInv, ReleasedUnused, CountedKind
  <1>8. UsageRecorded'
    <2> SUFFICES ASSUME NEW n \in Resources,
                        resource'[n].pc \in {"tracked", "connected"}
                 PROVE  \E u \in usages' :
                          /\ \A v \in usages' :
                               (v.of = n /\ v.kind = TrackedKind) <=> v = u
                          /\ u.config = resource'[n].ref
      BY DEF UsageRecorded, Mine, TrackedKind
    <2>1. CASE n = m
      BY <1>2, <1>4, <2>1
    <2>2. CASE n # m
      <3>1. PICK u \in usages : Mine(n) = {u} /\ u.config = resource[n].ref
        BY <1>4, <2>2 DEF IInv, UsageRecorded
      <3>2. u.of = n /\ u.kind = TrackedKind /\ u \in usages'
        BY <1>3, <2>2, <3>1 DEF Mine
      <3>3. \A v \in usages' : v.of = n => v \in usages
        BY <1>3, <2>2, NewUsageType DEF IInv
      <3> QED BY <1>4, <2>2, <3>1, <3>2, <3>3 DEF Mine
    <2> QED BY <2>1, <2>2
  <1> QED BY <1>5, <1>6, <1>7, <1>8 DEF IInv

LEMMA CollectKeeps ==
    ASSUME IInv, NEW u \in usages, CollectUsage(u)
    PROVE  IInv'
  <1>1. /\ resource[u.of].pc = "gone" /\ usages' = usages \ {u}
        /\ UNCHANGED <<config, released, resource, edits>>
    BY DEF CollectUsage
  <1>2. TypeOK' /\ OneUsage' /\ ReleasedUnused'
    BY <1>1 DEF IInv, TypeOK, OneUsage, ReleasedUnused, CountedKind, TrackedKind
  <1>3. UsageRecorded'
    <2> SUFFICES ASSUME NEW n \in Resources,
                        resource[n].pc \in {"tracked", "connected"}
                 PROVE  \E v \in usages' : Mine(n)' = {v} /\ v.config = resource[n].ref
      BY <1>1 DEF UsageRecorded
    <2>1. PICK v \in usages : Mine(n) = {v} /\ v.config = resource[n].ref
      BY DEF IInv, UsageRecorded
    <2>2. v.of = n /\ v # u
      BY <1>1, <2>1 DEF Mine
    <2>3. Mine(n)' = Mine(n)
      BY <1>1, <2>1, <2>2 DEF Mine, TrackedKind
    <2> QED BY <1>1, <2>1, <2>2, <2>3
  <1> QED BY <1>2, <1>3 DEF IInv

\* The other steps of a resource leave the usages alone, and connect only
\* what has been tracked.
LEMMA ResourceKeeps ==
    ASSUME IInv, NEW m \in Resources,
           \/ Connect(m)
           \/ DeleteResource(m)
           \/ \E ref \in Configs : EditRef(m, ref)
    PROVE  IInv'
  <1>1. UNCHANGED <<config, released, usages>>
    BY DEF Connect, DeleteResource, EditRef
  <1>2. /\ \A n \in Resources \ {m} : resource'[n] = resource[n]
        /\ resource'[m].pc \in {"tracked", "connected"} =>
             /\ resource[m].pc \in {"tracked", "connected"}
             /\ resource'[m].ref = resource[m].ref
        /\ resource' \in [Resources ->
                 [ref : Configs, pc : {"idle", "tracked", "connected", "gone"}]]
    <2>1. CASE Connect(m)
      BY <2>1 DEF IInv, TypeOK, Connect
    <2>2. CASE DeleteResource(m)
      BY <2>2 DEF IInv, TypeOK, DeleteResource
    <2>3. ASSUME NEW ref \in Configs, EditRef(m, ref)
          PROVE  /\ \A n \in Resources \ {m} : resource'[n] = resource[n]
                 /\ resource'[m].pc \notin {"tracked", "connected"}
                 /\ resource' \in [Resources ->
                      [ref : Configs, pc : {"idle", "tracked", "connected", "gone"}]]
      BY <2>3 DEF IInv, TypeOK, EditRef
    <2> QED BY <2>1, <2>2, <2>3
  <1>3. edits' \in 0..MaxEdits
    BY UsageAssumption DEF IInv, TypeOK, Connect, DeleteResource, EditRef, Edit
  <1>4. TypeOK' /\ OneUsage' /\ ReleasedUnused'
    BY <1>1, <1>2, <1>3
       DEF IInv, TypeOK, OneUsage, ReleasedUnused, CountedKind, TrackedKind
  <1>5. UsageRecorded'
    BY <1>1, <1>2 DEF IInv, UsageRecorded, Mine, TrackedKind
  <1> QED BY <1>4, <1>5 DEF IInv

\* A config comes, is being deleted and goes without touching a usage.
LEMMA ConfigKeeps ==
    ASSUME IInv, NEW k \in Configs,
           \/ AddFinalizer(k) \/ CountUsages(k) \/ RemoveFinalizer(k)
           \/ CreateConfig(k) \/ DeleteConfig(k)
    PROVE  IInv'
  <1>1. UNCHANGED <<resource, usages>>
    BY DEF AddFinalizer, CountUsages, RemoveFinalizer, CreateConfig, DeleteConfig
  <1>2. TypeOK'
    <2>1. CASE AddFinalizer(k)
      BY <2>1 DEF IInv, TypeOK, AddFinalizer
    <2>2. CASE CountUsages(k)
      BY <2>2 DEF IInv, TypeOK, CountUsages
    <2>3. CASE RemoveFinalizer(k)
      BY <2>3 DEF IInv, TypeOK, RemoveFinalizer
    <2>4. CASE CreateConfig(k)
      BY <2>4, UsageAssumption DEF IInv, TypeOK, CreateConfig, Edit
    <2>5. CASE DeleteConfig(k)
      BY <2>5 DEF IInv, TypeOK, DeleteConfig
    <2> QED BY <2>1, <2>2, <2>3, <2>4, <2>5
  <1>3. ReleasedUnused'
    <2>1. CASE AddFinalizer(k)
      BY <1>1, <2>1 DEF IInv, TypeOK, ReleasedUnused, CountedKind, AddFinalizer
    <2>2. CASE CountUsages(k)
      BY <1>1, <2>2 DEF IInv, ReleasedUnused, CountedKind, CountUsages
    <2>3. CASE RemoveFinalizer(k)
      BY <1>1, <2>3 DEF IInv, TypeOK, ReleasedUnused, CountedKind, RemoveFinalizer
    <2>4. CASE CreateConfig(k)
      BY <1>1, <2>4
         DEF IInv, TypeOK, ReleasedUnused, CountedKind, CreateConfig, Exists
    <2>5. CASE DeleteConfig(k)
      BY <1>1, <2>5 DEF IInv, TypeOK, ReleasedUnused, CountedKind, DeleteConfig
    <2> QED BY <2>1, <2>2, <2>3, <2>4, <2>5
  <1>4. OneUsage' /\ UsageRecorded'
    BY <1>1 DEF IInv, OneUsage, UsageRecorded, Mine, TrackedKind
  <1> QED BY <1>2, <1>3, <1>4 DEF IInv

LEMMA InitInv == Init => IInv
  <1> SUFFICES ASSUME Init
               PROVE  IInv
    OBVIOUS
  <1>1. PICK ref \in [Resources -> Configs] :
          resource = [m \in Resources |-> [ref |-> ref[m], pc |-> "idle"]]
    BY DEF Init
  <1>2. TypeOK
    BY <1>1, UsageAssumption DEF Init, TypeOK
  <1>3. OneUsage /\ ReleasedUnused /\ UsageRecorded
    BY <1>1 DEF Init, OneUsage, ReleasedUnused, UsageRecorded
  <1> QED BY <1>2, <1>3 DEF IInv

LEMMA NextInv == IInv /\ [Next]_vars => IInv'
  <1> SUFFICES ASSUME IInv, [Next]_vars
               PROVE  IInv'
    OBVIOUS
  <1>1. CASE UNCHANGED vars
    BY <1>1 DEF vars, IInv, TypeOK, OneUsage, ReleasedUnused, UsageRecorded,
                Mine, TrackedKind, CountedKind
  <1> QED BY <1>1, TrackKeeps, CollectKeeps, ResourceKeeps, ConfigKeeps DEF Next

\* A deleted ProviderConfig goes with a step that removes its finalizer.
LEMMA NextHolds ==
    ASSUME IInv, [Next]_vars, NEW k \in Configs,
           k.kind = "ProviderConfig", InUse(k), config[k] = "deleted"
    PROVE  config'[k] = "deleted"
  <1>1. k \notin released
    BY DEF IInv, OneUsage, ReleasedUnused, CountedKind, TrackedKind, InUse
  <1>2. ASSUME NEW c \in Configs,
               \/ AddFinalizer(c) \/ CountUsages(c) \/ RemoveFinalizer(c)
               \/ CreateConfig(c) \/ DeleteConfig(c)
        PROVE  config'[k] = "deleted"
    BY <1>1, <1>2 DEF IInv, TypeOK, AddFinalizer, CountUsages, RemoveFinalizer,
                      CreateConfig, DeleteConfig, Exists
  <1>3. CASE UNCHANGED config
    BY <1>3
  <1> QED BY <1>2, <1>3
          DEF Next, vars, Track, Connect, DeleteResource, EditRef, CollectUsage

LEMMA Invariance == Spec => []IInv
  BY InitInv, NextInv, PTL DEF Spec

\* Configs, resources and usages stay within their types.
THEOREM TypeCorrect == Spec => []TypeOK
  <1>1. IInv => TypeOK
    BY DEF IInv
  <1> QED BY <1>1, Invariance, PTL

\* A resource that passed Track in Connect has one usage, of the config it
\* refers to.
THEOREM UsageRecordedAlways == Spec => []UsageRecorded
  <1>1. IInv => UsageRecorded
    BY DEF IInv
  <1> QED BY <1>1, Invariance, PTL

\* The controller of ProviderConfigs counts what the trackers record, and so
\* never lets go of a ProviderConfig whose use was recorded in time.
THEOREM ProviderConfigHeldAlways == Spec => ProviderConfigHeld
  <1>1. IInv /\ [Next]_vars =>
          [\A k \in Configs :
             k.kind = "ProviderConfig" /\ InUse(k) /\ config[k] = "deleted"
               => config'[k] = "deleted"]_vars
    BY NextHolds
  <1> QED BY <1>1, Invariance, PTL DEF Spec, ProviderConfigHeld

============================================================================
