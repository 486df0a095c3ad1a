--------------------------- MODULE ClusterProofs ---------------------------
(***************************************************************************)
(* Type correctness of the CCE cluster controller, the two promises it     *)
(* makes about the clusters it creates, that it keeps what its users have  *)
(* set, and that it is a Lifecycle, for every number of workers,           *)
(* identifiers, edits and faults and all values of a cluster's settings.   *)
(***************************************************************************)
EXTENDS Cluster, LifecycleProofs, SequenceTheorems

----------------------------------------------------------------------------
(* What the handlers compute has the right type. *)

LEMMA ClusterFields ==
    ASSUME NEW spec \in ClusterCopies
    PROVE  /\ spec.description \in Descriptions \cup {"", Nil}
           /\ spec.eip \in Addresses \cup {Nil}
           /\ spec.eipId \in Addresses \cup {Nil}
           /\ spec.configs \in Configurations \cup {Nil}
           /\ spec.masters \in MasterLists \cup {NoMasters, Nil}
           /\ spec.multiAz \in {TRUE, Nil}
           /\ spec.applied \in Configurations \cup {""}
  BY DEF ClusterCopies

LEMMA CloudFields ==
    ASSUME NEW c \in CloudClusters
    PROVE  /\ c.description \in Descriptions \cup {""}
           /\ c.ip \in Addresses \cup {Nil}
           /\ c.configs \in Configurations \cup {Nil}
           /\ c.masters \in MasterLists \cup {Nil}
           /\ c.phase \in Phases
  BY DEF CloudClusters

\* A change of one field of a spec or of a cluster.
LEMMA SpecChange ==
    ASSUME NEW spec \in ClusterCopies
    PROVE  /\ \A d \in Descriptions \cup {"", Nil},
                 m \in MasterLists \cup {NoMasters, Nil} :
                [spec EXCEPT !.description = d, !.masters = m] \in ClusterCopies
           /\ \A a \in Configurations \cup {""} :
                [spec EXCEPT !.applied = a] \in ClusterCopies
           /\ StoredCluster(spec) \in ClusterCopies
  <1>1. ASSUME NEW d \in Descriptions \cup {"", Nil},
               NEW m \in MasterLists \cup {NoMasters, Nil}
        PROVE  [spec EXCEPT !.description = d, !.masters = m] \in ClusterCopies
    BY ZenonT(30) DEF ClusterCopies
  <1>2. ASSUME NEW a \in Configurations \cup {""}
        PROVE  [spec EXCEPT !.applied = a] \in ClusterCopies
    BY DEF ClusterCopies
  <1>3. StoredCluster(spec) \in ClusterCopies
    BY DEF ClusterCopies, StoredCluster
  <1> QED BY <1>1, <1>2, <1>3

InPhase(p) == {c \in CloudClusters : c.phase = p}

LEMMA CloudChange ==
    ASSUME NEW p, NEW c \in InPhase(p)
    PROVE  /\ \A d \in Descriptions \cup {""} :
                [c EXCEPT !.description = d] \in InPhase(p)
           /\ \A a \in Addresses \cup {Nil} : [c EXCEPT !.ip = a] \in InPhase(p)
           /\ \A s \in Configurations \cup {Nil} :
                [c EXCEPT !.configs = s] \in InPhase(p)
  BY DEF CloudClusters, InPhase

LEMMA PhaseChange ==
    ASSUME NEW c \in CloudClusters, NEW p \in Phases
    PROVE  [c EXCEPT !.phase = p] \in InPhase(p)
  BY DEF CloudClusters, InPhase

LEMMA LateInitType ==
    ASSUME NEW spec \in ClusterCopies, NEW c \in CloudClusters
    PROVE  lateInitializeCluster(spec, c) \in ClusterCopies
  <1>1. LateInitIfNonZero(spec.description, c.description, "")
          \in Descriptions \cup {"", Nil}
    BY ClusterFields, CloudFields DEF LateInitIfNonZero
  <1>2. MastersAdopted(spec, c) \in MasterLists \cup {NoMasters, Nil}
    BY ClusterFields, CloudFields DEF MastersAdopted
  <1> QED BY <1>1, <1>2, SpecChange DEF lateInitializeCluster

LEMMA HashType ==
    ASSUME NEW spec \in ClusterCopies
    PROVE  componentConfigsHash(spec.configs) \in Configurations \cup {""}
  BY ClusterFields DEF componentConfigsHash

LEMMA CreatedTypes ==
    ASSUME NEW spec \in ClusterCopies
    PROVE  CreatedClusters(spec) \subseteq CloudClusters
  <1>1. Deref(spec.description, "") \in Descriptions \cup {""}
    BY ClusterFields DEF Deref
  <1>2. {spec.eip, Nil} \subseteq Addresses \cup {Nil}
          /\ spec.configs \in Configurations \cup {Nil}
    BY ClusterFields
  <1>3. (IF spec.masters \in MasterLists THEN {spec.masters}
         ELSE (MasterLists \ MisfitMasters) \cup {Nil}) \subseteq MasterLists \cup {Nil}
    OBVIOUS
  <1> QED BY <1>1, <1>2, <1>3 DEF CreatedClusters, CloudClusters, Phases

\* Every sequence of calls of Update starts, and each leaves a cluster in the
\* phase it was in.
LEMMA UpdateCallTypes ==
    ASSUME NEW spec \in ClusterCopies, NEW shown, NEW p, NEW c \in InPhase(p),
           NEW calls \in UpdateCalls(spec, shown, c)
    PROVE  /\ Len(calls) \in Nat \ {0}
           /\ \A n \in 1..Len(calls) : calls[n] \in InPhase(p)
  <1>1. PICK d \in AfterDescription(spec, c) :
             calls = LET eip == updateEIP(spec, shown, d)
                         before == <<d>> \o eip.calls
                     IN  IF eip.done
                         THEN Append(before,
                                     AfterConfigurations(spec, before[Len(before)]))
                         ELSE before
    BY DEF UpdateCalls
  <1>2. d \in InPhase(p)
    <2>1. spec.description # Nil => spec.description \in Descriptions \cup {""}
      BY ClusterFields
    <2>2. d = c \/ (spec.description # Nil /\ d = [c EXCEPT !.description = spec.description])
      BY DEF AfterDescription
    <2>3. \A e \in Descriptions \cup {""} : [c EXCEPT !.description = e] \in InPhase(p)
      BY CloudChange
    <2> QED BY <2>1, <2>2, <2>3
  <1> DEFINE eip == updateEIP(spec, shown, d)
             before == <<d>> \o eip.calls
             unbound == [d EXCEPT !.ip = Nil]
             bound == [d EXCEPT !.ip = spec.eipId]
  <1>3. unbound \in InPhase(p) /\ bound \in InPhase(p)
    BY <1>2, ClusterFields, CloudChange
  <1>4. eip.calls \in {<<>>, <<unbound>>, <<bound>>, <<unbound, bound>>}
    <2> HIDE DEF unbound, bound
    <2>1. eip = CASE spec.eip = shown -> [calls |-> <<>>, done |-> TRUE]
      [] spec.eip = Nil /\ shown # Nil -> [calls |-> <<unbound>>, done |-> TRUE]
      [] spec.eip # Nil /\ shown = Nil ->
            IF spec.eipId # Nil /\ d.ip = Nil
            THEN [calls |-> <<bound>>, done |-> TRUE]
            ELSE [calls |-> <<>>, done |-> FALSE]
      [] spec.eip # Nil /\ shown # Nil /\ spec.eip # shown ->
            IF spec.eipId # Nil
            THEN [calls |-> <<unbound, bound>>, done |-> TRUE]
            ELSE [calls |-> <<unbound>>, done |-> FALSE]
      BY DEF updateEIP, unbound, bound
    <2>2. CASE spec.eip = shown
      BY <2>1, <2>2
    <2>3. CASE spec.eip # shown /\ spec.eip = Nil
      BY <2>1, <2>3
    <2>4. CASE spec.eip # shown /\ spec.eip # Nil /\ shown = Nil
      BY <2>1, <2>4
    <2>5. CASE spec.eip # shown /\ spec.eip # Nil /\ shown # Nil
      BY <2>1, <2>5
    <2> QED BY <2>2, <2>3, <2>4, <2>5
  <1> HIDE DEF eip, unbound, bound
  <1>5. before \in Seq(InPhase(p)) /\ Len(before) \in Nat \ {0}
    <2>1. eip.calls \in Seq(InPhase(p))
      <3>1. /\ <<>> \in Seq(InPhase(p))
            /\ <<unbound>> \in Seq(InPhase(p))
            /\ <<bound>> \in Seq(InPhase(p))
            /\ <<unbound, bound>> \in Seq(InPhase(p))
        BY <1>3
      <3> QED BY <1>4, <3>1
    <2>2. <<d>> \in Seq(InPhase(p)) /\ Len(<<d>>) = 1
      BY <1>2
    <2> DEFINE rest == eip.calls
               first == <<d>>
    <2>3. rest \in Seq(InPhase(p)) /\ first \in Seq(InPhase(p)) /\ Len(first) = 1
      BY <2>1, <2>2
    <2> HIDE DEF rest, first
    <2>4. /\ first \o rest \in Seq(InPhase(p))
          /\ Len(first \o rest) = Len(first) + Len(rest)
      BY <2>3, ConcatProperties
    <2>7. Len(rest) \in Nat
      BY <2>3, LenProperties
    <2>5. Len(first \o rest) \in Nat \ {0}
      BY <2>3, <2>4, <2>7
    <2>6. before = first \o rest
      BY DEF rest, first
    <2> HIDE DEF before
    <2> QED BY <2>4, <2>5, <2>6
  <1>6. calls = before \/ calls = Append(before, AfterConfigurations(spec, before[Len(before)]))
    BY <1>1 DEF eip
  <1> HIDE DEF before
  <1>7. before[Len(before)] \in InPhase(p)
    BY <1>5
  <1>8. AfterConfigurations(spec, before[Len(before)]) \in InPhase(p)
    BY <1>7, ClusterFields, CloudChange DEF AfterConfigurations
  <1>9. calls \in Seq(InPhase(p)) /\ Len(calls) \in Nat \ {0}
    BY <1>5, <1>6, <1>8
  <1> QED BY <1>9

----------------------------------------------------------------------------
(* The settings a user has set *)

Kept == {p \in ClusterCopies \X ClusterCopies : KeepsSettings(p[1], p[2])}

LEMMA KeptPair ==
    ASSUME NEW old \in ClusterCopies, NEW new \in ClusterCopies
    PROVE  <<old, new>> \in Kept <=> KeepsSettings(old, new)
  <1>1. <<old, new>>[1] = old /\ <<old, new>>[2] = new
    OBVIOUS
  <1>2. <<old, new>> \in ClusterCopies \X ClusterCopies
    OBVIOUS
  <1> QED BY <1>1, <1>2 DEF Kept

LEMMA KeptReflexive == Reflexive(Kept, ClusterCopies)
  BY KeptPair DEF Reflexive, KeepsSettings

\* One spec keeps the settings of another when they agree in what is not
\* adopted, and on what is if it was set.
LEMMA KeptFields ==
    ASSUME NEW old \in ClusterCopies, NEW spec \in ClusterCopies,
           NEW new \in ClusterCopies,
           new.eip = spec.eip, new.eipId = spec.eipId,
           new.configs = spec.configs, new.multiAz = spec.multiAz,
           spec.description # Nil => new.description = spec.description,
           spec.masters \notin {NoMasters, Nil} => new.masters = spec.masters,
           KeepsSettings(old, spec)
    PROVE  KeepsSettings(old, new)
  <1>1. ASSUME NEW f \in {"description", "eip", "eipId", "configs", "multiAz"},
               old[f] # Nil
        PROVE  new[f] = old[f]
    <2>1. spec[f] = old[f]
      BY <1>1 DEF KeepsSettings
    <2>2. CASE f = "description"
      <3>1. spec.description # Nil
        BY <1>1, <2>1, <2>2
      <3> QED BY <2>1, <2>2, <3>1
    <2>3. CASE f \in {"eip", "eipId", "configs", "multiAz"}
      BY <2>1, <2>3
    <2> QED BY <2>2, <2>3
  <1>2. ASSUME StoredCluster(old).masters # Nil
        PROVE  new.masters = old.masters
    <2>1. spec.masters = old.masters
      BY <1>2 DEF KeepsSettings
    <2>2. old.masters \notin {NoMasters, Nil}
      BY <1>2 DEF StoredCluster, ClusterCopies
    <2> QED BY <2>1, <2>2
  <1> QED BY <1>1, <1>2 DEF KeepsSettings

\* What late initialisation fills in, and what serialisation drops, was not
\* set; nor is the annotation a setting.
LEMMA SettingsSurvive ==
    ASSUME NEW old \in ClusterCopies, NEW spec \in ClusterCopies
    PROVE  /\ <<old, spec>> \in Kept =>
                /\ <<old, StoredCluster(spec)>> \in Kept
                /\ \A c \in CloudClusters :
                     <<old, lateInitializeCluster(spec, c)>> \in Kept
           /\ <<StoredCluster(spec), spec>> \in Kept
           /\ \A a \in Configurations \cup {""} :
                <<spec, [spec EXCEPT !.applied = a]>> \in Kept
  <1>1. KeepsSettings(spec, spec)
    BY DEF KeepsSettings
  <1>2. ASSUME <<old, spec>> \in Kept
        PROVE  <<old, StoredCluster(spec)>> \in Kept
    <2> DEFINE stored == StoredCluster(spec)
    <2>1. stored \in ClusterCopies
      BY SpecChange
    <2>2. /\ stored.eip = spec.eip /\ stored.eipId = spec.eipId
          /\ stored.configs = spec.configs /\ stored.multiAz = spec.multiAz
          /\ stored.description = spec.description
          /\ spec.masters \notin {NoMasters, Nil} => stored.masters = spec.masters
      BY DEF StoredCluster, ClusterCopies
    <2> HIDE DEF stored
    <2>3. KeepsSettings(old, stored)
      BY <1>2, <2>1, <2>2, KeptPair, KeptFields
    <2> QED BY <2>1, <2>3, KeptPair DEF stored
  <1>3. ASSUME <<old, spec>> \in Kept, NEW c \in CloudClusters
        PROVE  <<old, lateInitializeCluster(spec, c)>> \in Kept
    <2> DEFINE filled == lateInitializeCluster(spec, c)
    <2>1. filled \in ClusterCopies
      BY LateInitType
    <2>2. /\ filled.eip = spec.eip /\ filled.eipId = spec.eipId
          /\ filled.configs = spec.configs /\ filled.multiAz = spec.multiAz
          /\ spec.description # Nil => filled.description = spec.description
          /\ spec.masters \notin {NoMasters, Nil} => filled.masters = spec.masters
      BY DEF lateInitializeCluster, LateInitIfNonZero, MastersAdopted, ClusterCopies
    <2> HIDE DEF filled
    <2>3. KeepsSettings(old, filled)
      BY <1>3, <2>1, <2>2, KeptPair, KeptFields
    <2> QED BY <2>1, <2>3, KeptPair DEF filled
  <1>4. <<StoredCluster(spec), spec>> \in Kept
    <2> DEFINE stored == StoredCluster(spec)
    <2>1. stored \in ClusterCopies
      BY SpecChange
    <2>2. /\ stored.eip = spec.eip /\ stored.eipId = spec.eipId
          /\ stored.configs = spec.configs /\ stored.multiAz = spec.multiAz
          /\ stored.description = spec.description
          /\ stored.masters \notin {NoMasters, Nil} => spec.masters = stored.masters
      BY DEF StoredCluster, ClusterCopies
    <2>3. KeepsSettings(stored, stored)
      BY DEF KeepsSettings
    <2> HIDE DEF stored
    <2>4. KeepsSettings(stored, spec)
      BY <2>1, <2>2, <2>3, KeptFields
    <2> QED BY <2>1, <2>4, KeptPair DEF stored
  <1>5. ASSUME NEW a \in Configurations \cup {""}
        PROVE  <<spec, [spec EXCEPT !.applied = a]>> \in Kept
    <2> DEFINE noted == [spec EXCEPT !.applied = a]
    <2>1. noted \in ClusterCopies
      BY SpecChange
    <2>2. /\ noted.eip = spec.eip /\ noted.eipId = spec.eipId
          /\ noted.configs = spec.configs /\ noted.multiAz = spec.multiAz
          /\ noted.description = spec.description /\ noted.masters = spec.masters
      BY DEF ClusterCopies
    <2> HIDE DEF noted
    <2>3. KeepsSettings(spec, noted)
      BY <1>1, <2>1, <2>2, KeptFields
    <2> QED BY <2>1, <2>3, KeptPair DEF noted
  <1> QED BY <1>2, <1>3, <1>4, <1>5

----------------------------------------------------------------------------
(* The inductive invariant, handler by handler *)

ClusterSound == Sound(ClusterCopies, Addresses, CloudClusters, {}, Kept)

ClusterStep == SoundStep(ClusterCopies, Addresses, CloudClusters, {}, Kept)

IInv == ClusterSound /\ Named /\ Compatible(mr.spec)

\* What a step does to the settings.
SettingsStep == edits' = edits => KeepsSettings(mr.spec, mr'.spec)

Keeps == IInv' /\ SettingsStep

\* A step of the loop writes no spec, or one that admission accepts.
LEMMA Assembled ==
    ASSUME IInv, ClusterStep, Named => Named',
           SpecsRest \/ Compatible(mr'.spec)
    PROVE  Keeps
  <1>1. mr.spec \in ClusterCopies /\ mr'.spec \in ClusterCopies
    <2>1. mr \in Object(ClusterCopies, Addresses) /\ mr' \in Object(ClusterCopies, Addresses)
      BY DEF IInv, ClusterSound, ClusterStep, SoundStep, Sound, TypeWith
    <2> QED BY <2>1 DEF Object
  <1>2. KeepsSettings(mr.spec, mr'.spec)
    BY <1>1, KeptPair DEF ClusterStep, SoundStep
  <1>3. Compatible(mr'.spec)
    BY DEF IInv, SpecsRest
  <1>4. ClusterSound'
    BY DEF ClusterSound, ClusterStep, SoundStep
  <1> QED BY <1>2, <1>3, <1>4 DEF Keeps, IInv, SettingsStep

LEMMA HoldsCopy ==
    ASSUME IInv, NEW w \in Workers, run[w].pc # "idle"
    PROVE  /\ run[w].obj \in Object(ClusterCopies, Addresses)
           /\ run[w].obj.spec \in ClusterCopies
           /\ run[w].obj.extName \in Ids \cup {Nil}
  BY SoundCopy DEF IInv, ClusterSound, Sound

LEMMA StoredType ==
    ASSUME IInv
    PROVE  mr \in Object(ClusterCopies, Addresses) /\ mr.spec \in ClusterCopies
  BY SoundObject DEF IInv, ClusterSound, Sound

\* What can be read is a cluster.
LEMMA ReadableType ==
    ASSUME IInv, NEW i, (i \in Ids /\ Live(i)) \/ Readable(i)
    PROVE  i \in Ids /\ cloud[i] \in CloudClusters
  BY LiveResource DEF IInv, ClusterSound, Sound

LEMMA NotUnused ==
    ASSUME NEW r \in CloudClusters \cup {Deleted}
    PROVE  r # Unused
  BY ClusterAssumption

\* The copy Observe fills.
LEMMA FilledTypes ==
    ASSUME NEW obj \in Object(ClusterCopies, Addresses), NEW c \in CloudClusters
    PROVE  LET seen == [obj EXCEPT !.status = c.ip]
               spec == lateInitializeCluster(obj.spec, c)
               filled == [seen EXCEPT !.spec = spec]
           IN  /\ seen \in Object(ClusterCopies, Addresses) /\ SameCopy(seen, obj)
               /\ filled \in Object(ClusterCopies, Addresses) /\ SameCopy(filled, obj)
               /\ filled.spec = spec
  <1> DEFINE seen == [obj EXCEPT !.status = c.ip]
             spec == lateInitializeCluster(obj.spec, c)
             filled == [seen EXCEPT !.spec = spec]
  <1>1. obj.spec \in ClusterCopies
    BY DEF Object
  <1>2. c.ip \in Addresses \cup {Nil} /\ spec \in ClusterCopies
    BY <1>1, CloudFields, LateInitType
  <1> HIDE DEF spec
  <1>3. seen \in Object(ClusterCopies, Addresses) /\ SameCopy(seen, obj)
    BY <1>2, ChangedStatus
  <1> HIDE DEF seen
  <1>4. /\ filled \in Object(ClusterCopies, Addresses) /\ SameCopy(filled, seen)
        /\ filled.spec = spec
    BY <1>2, <1>3, ChangedSpec
  <1>5. SameCopy(filled, obj)
    BY <1>3, <1>4 DEF SameCopy
  <1> HIDE DEF filled
  <1>6. /\ seen \in Object(ClusterCopies, Addresses) /\ SameCopy(seen, obj)
        /\ filled \in Object(ClusterCopies, Addresses) /\ SameCopy(filled, obj)
        /\ filled.spec = spec
    BY <1>3, <1>4, <1>5
  <1> QED BY <1>6 DEF seen, spec, filled

\* An object with the hash of some configurations.
LEMMA NotedTypes ==
    ASSUME NEW obj \in Object(ClusterCopies, Addresses),
           NEW hash \in Configurations \cup {""}
    PROVE  /\ [obj EXCEPT !.spec.applied = hash] \in Object(ClusterCopies, Addresses)
           /\ SameCopy([obj EXCEPT !.spec.applied = hash], obj)
  <1>1. obj.spec \in ClusterCopies
    BY DEF Object
  <1>2. [obj.spec EXCEPT !.applied = hash] \in ClusterCopies
    BY <1>1, SpecChange
  <1> QED BY <1>2 DEF Object, SameCopy

LEMMA ObserveKeeps ==
    ASSUME IInv, NEW w \in Workers, run[w].pc = "observe", Observe(w)
    PROVE  Keeps
  <1> DEFINE obj == run[w].obj
             c == cloud[obj.extName]
             seen == [obj EXCEPT !.status = c.ip]
             spec == lateInitializeCluster(obj.spec, c)
             filled == [seen EXCEPT !.spec = spec]
             obs == [exists |-> TRUE, lateInit |-> spec # obj.spec,
                     upToDate |-> isClusterUpToDate(spec, c)]
  <1>1. obj \in Object(ClusterCopies, Addresses) /\ obj.spec \in ClusterCopies
    BY HoldsCopy
  <1>2. ASSUME Readable(obj.extName)
        PROVE  /\ c \in CloudClusters
               /\ seen \in Object(ClusterCopies, Addresses) /\ SameCopy(seen, obj)
               /\ filled \in Object(ClusterCopies, Addresses) /\ SameCopy(filled, obj)
               /\ filled.spec = spec
    <2>1. c \in CloudClusters
      BY <1>2, ReadableType
    <2> HIDE DEF c, obj
    <2> QED BY <1>1, <2>1, FilledTypes
  <1>3. CASE ObserveFailed(w) /\ Counted
    <2>1. ClusterStep /\ (Named => Named')
      BY <1>3, KeptReflexive, ObserveFailedSound DEF IInv, ClusterSound, ClusterStep
    <2>2. SpecsRest
      BY <1>3, RunSpecs DEF IInv, ClusterSound, Sound
    <2> QED BY <2>1, <2>2, Assembled
  <1>4. ASSUME Readable(obj.extName), Finish(w, seen), Counted,
               UNCHANGED <<cloud, hidden, grace, lost>>
        PROVE  Keeps
    <2>1. seen \in Object(ClusterCopies, Addresses)
      BY <1>2, <1>4
    <2> HIDE DEF seen
    <2>2. ClusterStep /\ (Named => Named')
      BY <1>4, <2>1, KeptReflexive, FinishSound DEF IInv, ClusterSound, ClusterStep
    <2>3. SpecsRest
      BY <1>4, FinishSpecs DEF IInv, ClusterSound, Sound
    <2> QED BY <2>2, <2>3, Assembled
  <1>5. ASSUME NEW object \in Object(ClusterCopies, Addresses),
               NEW found \in Observation,
               SameCopy(object, run[w].obj), Observed(w, object, found),
               UNCHANGED environment,
               found.exists \/ ~Readable(object.extName),
               <<mr.spec, obj.spec>> \in Kept => <<mr.spec, object.spec>> \in Kept
        PROVE  Keeps
    <2>1. Counted
      BY <1>5 DEF Counted
    <2>2. ClusterStep /\ (Named => Named')
      BY <1>5, <2>1, KeptReflexive, ObservedSound DEF IInv, ClusterSound, ClusterStep
    <2>3. mr'.spec = mr.spec
      <3>1. UNCHANGED mr \/ Finish(w, object)
        BY <1>5 DEF Observed
      <3> QED BY <3>1, FinishSpecs DEF IInv, ClusterSound, Sound, SpecsRest
    <2>4. Compatible(mr'.spec)
      BY <2>3 DEF IInv
    <2> QED BY <2>2, <2>4, Assembled
  <1>6. CASE /\ ~Readable(obj.extName) /\ Observed(w, obj, Unobserved)
             /\ UNCHANGED environment
    <2>1. Unobserved \in Observation
      BY DEF Unobserved, Observation
    <2>2. SameCopy(obj, run[w].obj)
      BY DEF SameCopy
    <2> HIDE DEF obj
    <2> QED BY <1>1, <1>5, <1>6, <2>1, <2>2
  <1>7. CASE Readable(obj.extName) /\ Observed(w, filled, obs) /\ UNCHANGED environment
    <2>1. obs \in Observation /\ obs.exists
      BY DEF Observation, isClusterUpToDate, isEIPUpToDate
    <2>2. <<mr.spec, obj.spec>> \in Kept => <<mr.spec, spec>> \in Kept
      BY <1>1, <1>2, <1>7, StoredType, SettingsSurvive
    <2> HIDE DEF c, seen, spec, filled, obs
    <2> QED BY <1>2, <1>5, <1>7, <2>1, <2>2
  <1>8. Counted
    BY DEF Observe, Counted
  <1>9. \/ ObserveFailed(w)
        \/ /\ Readable(obj.extName) /\ Finish(w, seen)
           /\ UNCHANGED <<cloud, hidden, grace, lost>>
        \/ /\ ~Readable(obj.extName) /\ Observed(w, obj, Unobserved)
           /\ UNCHANGED environment
        \/ /\ Readable(obj.extName) /\ Observed(w, filled, obs)
           /\ UNCHANGED environment
    BY DEF Observe, ObserveMissing
  <1> HIDE DEF obj, c, seen, spec, filled, obs
  <1> QED BY <1>3, <1>4, <1>6, <1>7, <1>8, <1>9

LEMMA CreateKeeps ==
    ASSUME IInv, NEW w \in Workers, run[w].pc = "create", Create(w)
    PROVE  Keeps
  <1> DEFINE obj == run[w].obj
             hash == componentConfigsHash(obj.spec.configs)
             noted == [obj EXCEPT !.spec.applied = hash]
  <1>1. /\ obj \in Object(ClusterCopies, Addresses) /\ obj.spec \in ClusterCopies
        /\ obj.extName = mr.extName
    BY HoldsCopy DEF IInv, ClusterSound, Sound, Announced, CreatorAgrees
  <1>2. noted \in Object(ClusterCopies, Addresses)
    <2>1. hash \in Configurations \cup {""}
      BY <1>1, HashType
    <2> HIDE DEF hash, obj
    <2> QED BY <1>1, <2>1, NotedTypes
  <1> HIDE DEF hash, noted
  <1>3. CASE obj.extName # Nil /\ CreateSkipped(w)
    <2>1. ClusterStep /\ (Named => Named')
      BY <1>3, KeptReflexive, CreateSkippedSound DEF IInv, ClusterSound, ClusterStep
    <2>2. SpecsRest
      BY <1>3, RunSpecs DEF IInv, ClusterSound, Sound
    <2> QED BY <2>1, <2>2, Assembled
  <1>4. ASSUME obj.extName = Nil, NEW c \in CreatedClusters(obj.spec),
               CreateReturns(w, c, noted) \/ CreateFails(w, c)
        PROVE  Keeps
    <2>1. c \in CloudClusters /\ c # Unused
      BY <1>1, CreatedTypes, NotUnused
    <2>2. ClusterStep /\ (Named /\ mr.extName = Nil => Named')
      BY <1>2, <1>4, <2>1, KeptReflexive, CreateSound
         DEF IInv, ClusterSound, ClusterStep
    <2>3. Named => Named'
      BY <1>1, <1>4, <2>2
    <2>4. SpecsRest
      BY <1>4, RunSpecs DEF IInv, ClusterSound, Sound
    <2> QED BY <2>2, <2>3, <2>4, Assembled
  <1> QED BY <1>3, <1>4 DEF Create, TakenAsCreated, noted, hash

\* Update and Delete leave a cluster where one was live.
LEMMA ExternalKeeps ==
    ASSUME IInv, NEW w \in Workers, NEW pc \in {"update", "delete"},
           NEW resource \in CloudClusters,
           External(w, pc, resource, run[w].obj), Readable(run[w].obj.extName),
           UNCHANGED environment \/ (Fault /\ UNCHANGED edits)
    PROVE  Keeps
  <1>1. run[w].obj \in Object(ClusterCopies, Addresses)
    BY HoldsCopy DEF External
  <1>2. resource \in CloudClusters \cup {Deleted} /\ resource # Unused /\ Counted
    BY NotUnused DEF Counted
  <1>3. ClusterStep /\ (Named => Named')
    <2>1. LeftAbsent({}, cloud[run[w].obj.extName], resource)
      BY DEF LeftAbsent
    <2> QED BY <1>1, <1>2, <2>1, KeptReflexive, ExternalSound
            DEF IInv, ClusterSound, ClusterStep
  <1>4. SpecsRest
    BY RunSpecs DEF IInv, ClusterSound, Sound
  <1> QED BY <1>3, <1>4, Assembled

\* ... or nothing changed.
LEMMA UnchangedKeeps ==
    ASSUME IInv, NEW w \in Workers, NEW pc \in {"update", "delete"},
           ExternalUnchanged(w, pc, run[w].obj),
           UNCHANGED environment \/ (Fault /\ UNCHANGED edits)
    PROVE  Keeps
  <1>1. run[w].obj \in Object(ClusterCopies, Addresses)
    BY HoldsCopy DEF ExternalUnchanged
  <1>2. Counted
    BY DEF Counted
  <1>3. ClusterStep /\ (Named => Named')
    BY <1>1, <1>2, KeptReflexive, UnchangedSound DEF IInv, ClusterSound, ClusterStep
  <1>4. SpecsRest
    BY RunSpecs DEF IInv, ClusterSound, Sound
  <1> QED BY <1>3, <1>4, Assembled

LEMMA UpdateKeeps ==
    ASSUME IInv, NEW w \in Workers, run[w].pc = "update", Update(w)
    PROVE  Keeps
  <1> DEFINE obj == run[w].obj
             c == cloud[obj.extName]
             runs == IF Readable(obj.extName) /\ c.phase = "Available"
                     THEN UpdateCalls(obj.spec, obj.status, c) ELSE {}
  <1>1. CASE /\ ExternalUnchanged(w, "update", obj)
             /\ UNCHANGED environment \/ (Fault /\ UNCHANGED edits)
    BY <1>1, UnchangedKeeps
  <1>2. ASSUME NEW calls \in runs, NEW n \in 1..Len(calls),
               External(w, "update", calls[n], obj),
               UNCHANGED environment \/ (Fault /\ UNCHANGED edits)
        PROVE  Keeps
    <2>1. Readable(obj.extName) /\ calls \in UpdateCalls(obj.spec, obj.status, c)
      OBVIOUS
    <2>2. c \in InPhase(c.phase) /\ obj.spec \in ClusterCopies
      BY <2>1, ReadableType, HoldsCopy DEF InPhase
    <2>3. calls[n] \in CloudClusters
      BY <2>1, <2>2, UpdateCallTypes DEF InPhase
    <2> HIDE DEF runs
    <2> QED BY <1>2, <2>1, <2>3, ExternalKeeps
  <1>3. ASSUME NEW calls \in runs
        PROVE  /\ Len(calls) \in 1..Len(calls)
               /\ 1..Len(calls) - 1 \subseteq 1..Len(calls)
    <2>1. Readable(obj.extName) /\ calls \in UpdateCalls(obj.spec, obj.status, c)
      OBVIOUS
    <2>2. c \in InPhase(c.phase) /\ obj.spec \in ClusterCopies
      BY <2>1, ReadableType, HoldsCopy DEF InPhase
    <2>3. Len(calls) \in Nat \ {0}
      BY <2>1, <2>2, UpdateCallTypes
    <2> QED BY <2>3
  <1>4. \/ /\ ExternalUnchanged(w, "update", obj)
           /\ UNCHANGED environment \/ (Fault /\ UNCHANGED edits)
        \/ /\ \E calls \in runs : External(w, "update", calls[Len(calls)], obj)
           /\ UNCHANGED environment
        \/ /\ \E calls \in runs : \E n \in 1..Len(calls) - 1 :
                External(w, "update", calls[n], obj)
           /\ Fault /\ UNCHANGED edits
    BY DEF Update
  <1> HIDE DEF runs, obj
  <1> QED BY <1>1, <1>2, <1>3, <1>4

LEMMA DeleteKeeps ==
    ASSUME IInv, NEW w \in Workers, run[w].pc = "delete", Delete(w)
    PROVE  Keeps
  <1> DEFINE obj == run[w].obj
             leaving == [cloud[obj.extName] EXCEPT !.phase = "Deleting"]
  <1>1. CASE ExternalUnchanged(w, "delete", obj)
    BY <1>1, UnchangedKeeps DEF Delete
  <1>2. CASE Readable(obj.extName) /\ External(w, "delete", leaving, obj)
               /\ UNCHANGED environment
    <2>1. leaving \in CloudClusters
      BY <1>2, ReadableType, PhaseChange DEF Phases, InPhase
    <2> HIDE DEF leaving
    <2> QED BY <1>2, <2>1, ExternalKeeps
  <1> QED BY <1>1, <1>2 DEF Delete

\* The three writes of the object before Create, Update and Delete.
LEMMA ObjectWriteKeeps ==
    ASSUME IInv, NEW w \in Workers,
           NEW stored, stored = StoredCluster(run[w].obj.spec),
           NEW admitted \in BOOLEAN, admitted => Compatible(stored),
           \/ AddFinalizer(w, stored, admitted)
           \/ AnnounceCreate(w, stored, admitted)
           \/ LateInitialize(w, stored, admitted)
    PROVE  Keeps
  <1>1. run[w].pc # "idle"
    BY DEF AddFinalizer, AnnounceCreate, LateInitialize
  <1>2. run[w].obj \in Object(ClusterCopies, Addresses) /\ run[w].obj.spec \in ClusterCopies
    BY <1>1, HoldsCopy
  <1>3. stored \in ClusterCopies
    BY <1>2, SpecChange
  <1>4. /\ <<mr.spec, run[w].obj.spec>> \in Kept => <<mr.spec, stored>> \in Kept
        /\ <<stored, run[w].obj.spec>> \in Kept
    BY <1>2, StoredType, SettingsSurvive
  <1>5. ClusterStep /\ (Named => Named')
    BY <1>3, <1>4, KeptReflexive, ObjectWriteSound DEF IInv, ClusterSound, ClusterStep
  <1>6. Compatible(mr'.spec)
    <2>1. ASSUME NEW changed \in Object(ClusterCopies, Addresses), NEW pc,
                 UpdateObject(w, changed, stored, admitted, pc)
          PROVE  Compatible(mr'.spec)
      <3>1. CASE ~(fresh[w] /\ admitted)
        <4>1. UNCHANGED mr \/ Finish(w, run[w].obj)
          BY <2>1, <3>1 DEF UpdateObject
        <4>2. mr'.spec = mr.spec
          BY <4>1, FinishSpecs DEF IInv, ClusterSound, Sound, SpecsRest
        <4> QED BY <4>2 DEF IInv
      <3>2. CASE fresh[w] /\ admitted
        <4>1. mr' = [changed EXCEPT !.spec = stored, !.status = mr.status]
          BY <2>1, <3>2 DEF UpdateObject, Store
        <4>2. mr'.spec = stored
          BY <4>1 DEF Object
        <4> QED BY <3>2, <4>2
      <3> QED BY <3>1, <3>2
    <2>2. /\ [run[w].obj EXCEPT !.finalizer = TRUE] \in Object(ClusterCopies, Addresses)
          /\ [run[w].obj EXCEPT !.create = "pending"] \in Object(ClusterCopies, Addresses)
      BY <1>2 DEF Object, CreateStates
    <2> QED BY <1>2, <2>1, <2>2 DEF AddFinalizer, AnnounceCreate, LateInitialize
  <1> QED BY <1>5, <1>6, Assembled

\* The record notes the hash in the stored object.
LEMMA RecordKeeps ==
    ASSUME IInv, NEW w \in Workers, RecordCluster(w) \/ RecordFailedCreate(w)
    PROVE  Keeps
  <1> DEFINE applied == run[w].obj.spec.applied
             spec == [mr.spec EXCEPT !.applied = applied]
             object == [mr EXCEPT !.spec.applied = applied]
  <1>1. mr \in Object(ClusterCopies, Addresses) /\ mr.spec \in ClusterCopies
    BY StoredType
  <1>2. CASE RecordCluster(w)
    <2>1. applied \in Configurations \cup {""}
      BY <1>2, HoldsCopy, ClusterFields DEF RecordCluster, RecordCreateIn
    <2>2. /\ spec \in ClusterCopies /\ <<mr.spec, spec>> \in Kept
          /\ spec.masters = mr.spec.masters /\ spec.multiAz = mr.spec.multiAz
      BY <1>1, <2>1, SpecChange, SettingsSurvive, ClusterFields DEF ClusterCopies
    <2>3. object = [mr EXCEPT !.spec = spec]
      BY <1>1 DEF Object
    <2> HIDE DEF applied, spec, object
    <2>4. /\ object \in Object(ClusterCopies, Addresses) /\ object.spec = spec
          /\ SameCopy(object, mr)
      BY <1>1, <2>2, <2>3, ChangedSpec
    <2>5. RecordCreateIn(w, object)
      BY <1>2 DEF RecordCluster, object, applied
    <2>6. ClusterStep /\ (Named => Named')
      BY <2>2, <2>4, <2>5, KeptReflexive, RecordSound DEF IInv, ClusterSound, ClusterStep
    <2>7. mr'.spec = spec
      BY <2>4, <2>5 DEF RecordCreateIn, Store, Object
    <2>8. Compatible(mr'.spec)
      BY <2>2, <2>7 DEF IInv, Compatible
    <2> QED BY <2>6, <2>8, Assembled
  <1>3. CASE RecordFailedCreate(w)
    <2>1. ClusterStep /\ (Named => Named')
      BY <1>1, <1>3, KeptReflexive, RecordSound DEF IInv, ClusterSound, ClusterStep
    <2>2. mr'.spec = mr.spec
      BY <1>1, <1>3 DEF RecordFailedCreate, Store, Object
    <2>3. Compatible(mr'.spec)
      BY <2>2 DEF IInv
    <2> QED BY <2>1, <2>3, Assembled
  <1> QED BY <1>2, <1>3

LEMMA ReconcileKeeps ==
    ASSUME IInv, NEW w \in Workers, Reconcile(w)
    PROVE  Keeps
  <1> DEFINE stored == StoredCluster(run[w].obj.spec)
             admitted == AdmittedCluster(mr.spec, stored)
  <1>1. CASE \/ AddFinalizer(w, stored, admitted)
             \/ AnnounceCreate(w, stored, admitted)
             \/ LateInitialize(w, stored, admitted)
    <2>1. admitted \in BOOLEAN /\ (admitted => Compatible(stored))
      BY DEF AdmittedCluster
    <2> HIDE DEF admitted
    <2> QED BY <1>1, <2>1, ObjectWriteKeeps
  <1>2. CASE UpdateObjectFails(w)
    <2>1. ClusterStep /\ (Named => Named')
      BY <1>2, KeptReflexive, UpdateObjectFailsSound DEF IInv, ClusterSound, ClusterStep
    <2>2. SpecsRest
      BY <1>2, RunSpecs DEF IInv, ClusterSound, Sound
    <2> QED BY <2>1, <2>2, Assembled
  <1>3. CASE RemoveFinalizer(w)
    <2>1. Accounted({})
      BY NamedAccounts DEF IInv
    <2>2. ClusterStep /\ (Named => Named')
      BY <1>3, <2>1, KeptReflexive, RemoveFinalizerSound
         DEF IInv, ClusterSound, ClusterStep
    <2>3. SpecsRest
      BY <1>3, RunSpecs DEF IInv, ClusterSound, Sound
    <2> QED BY <2>2, <2>3, Assembled
  <1> HIDE DEF stored, admitted
  <1> QED BY <1>1, <1>2, <1>3, RecordKeeps,
             ObserveKeeps, CreateKeeps, UpdateKeeps, DeleteKeeps
          DEF Reconcile, stored, admitted

\* The service and other clients change clusters, or delete them.
LEMMA CloudKeeps ==
    ASSUME IInv, NEW i \in Ids, NEW resource \in CloudClusters \cup {Deleted},
           Live(i), cloud' = [cloud EXCEPT ![i] = resource],
           UNCHANGED <<mr, run, fresh, hidden, grace, lost>>,
           UNCHANGED environment \/ (Edit /\ UNCHANGED faults)
    PROVE  Keeps
  <1>1. resource # Unused /\ Counted
    BY NotUnused DEF Counted
  <1>2. LeftAbsent({}, cloud[i], resource)
    BY DEF LeftAbsent
  <1>3. ClusterStep /\ (Named => Named')
    BY <1>1, <1>2, KeptReflexive, CloudSound DEF IInv, ClusterSound, ClusterStep
  <1> QED BY <1>3, UnchangedSpecs, Assembled

LEMMA OutsideKeeps ==
    ASSUME IInv,
           \/ UserEdit
           \/ DeleteObject
           \/ \E i \in Ids :
                Drift(i) \/ FinishCreation(i) \/ FinishDeletion(i) \/ BecomeReadable(i)
           \/ EndGracePeriod
    PROVE  Keeps
  <1>1. Unused # Deleted
    BY ClusterAssumption
  <1>2. CASE UserEdit
    <2>1. PICK s \in Applied :
            LET edited == [s EXCEPT !.applied = mr.spec.applied]
            IN  AdmittedCluster(mr.spec, edited) /\ EditSpec(edited)
      BY <1>2 DEF UserEdit
    <2> DEFINE edited == [s EXCEPT !.applied = mr.spec.applied]
    <2>2. s \in ClusterCopies /\ mr.spec.applied \in Configurations \cup {""}
      BY ClusterAssumption, StoredType, ClusterFields DEF ClusterParameters
    <2>3. edited \in ClusterCopies
      BY <2>2, SpecChange
    <2>4. Compatible(edited) /\ EditSpec(edited)
      BY <2>1 DEF AdmittedCluster
    <2> HIDE DEF edited
    <2>5. ClusterSound' /\ (Named => Named') /\ edits' # edits /\ mr'.spec = edited
      BY <1>1, <2>3, <2>4, KeptReflexive, EditSound DEF IInv, ClusterSound
    <2>6. Compatible(mr'.spec)
      BY <2>4, <2>5
    <2> QED BY <2>5, <2>6 DEF Keeps, IInv, SettingsStep
  <1>3. CASE DeleteObject
    <2>1. ClusterStep /\ (Named => Named')
      BY <1>3, KeptReflexive, DeleteObjectSound DEF IInv, ClusterSound, ClusterStep
    <2>2. SpecsRest
      BY <1>3, OutsideSpecs DEF IInv, ClusterSound, Sound
    <2> QED BY <2>1, <2>2, Assembled
  <1>4. CASE (\E i \in Ids : BecomeReadable(i)) \/ EndGracePeriod
    <2>1. ClusterStep /\ (Named => Named')
      BY <1>1, <1>4, KeptReflexive, LagSound DEF IInv, ClusterSound, ClusterStep
    <2>2. SpecsRest
      BY <1>4, UnchangedSpecs DEF BecomeReadable, EndGracePeriod
    <2> QED BY <2>1, <2>2, Assembled
  <1>5. ASSUME NEW i \in Ids, Drift(i)
        PROVE  Keeps
    <2>1. PICK c \in CloudClusters : ChangeOutOfBand(i, c)
      BY <1>5 DEF Drift
    <2> QED BY <2>1, CloudKeeps DEF ChangeOutOfBand
  <1>6. ASSUME NEW i \in Ids, FinishCreation(i) \/ FinishDeletion(i)
        PROVE  Keeps
    <2>1. cloud[i] \in CloudClusters /\ Live(i)
      BY <1>6, ReadableType DEF FinishCreation, FinishDeletion
    <2>2. [cloud[i] EXCEPT !.phase = "Available"] \in CloudClusters
      BY <2>1, PhaseChange DEF Phases, InPhase
    <2>3. PICK r \in CloudClusters \cup {Deleted} : cloud' = [cloud EXCEPT ![i] = r]
      BY <1>6, <2>2 DEF FinishCreation, FinishDeletion
    <2>4. UNCHANGED <<mr, run, fresh, hidden, grace, lost>> /\ UNCHANGED environment
      BY <1>6 DEF FinishCreation, FinishDeletion
    <2> QED BY <2>1, <2>3, <2>4, CloudKeeps
  <1> QED BY <1>2, <1>3, <1>4, <1>5, <1>6

----------------------------------------------------------------------------
(* The theorems *)

LEMMA InitInv == Init => IInv
  <1> SUFFICES ASSUME Init
               PROVE  IInv
    OBVIOUS
  <1>1. /\ Unused \notin CloudClusters
        /\ Applied \in SUBSET ClusterCopies /\ Found \in SUBSET CloudClusters
    BY ClusterAssumption DEF ClusterParameters
  <1>2. ClusterSound /\ Named
    BY <1>1, InitSound DEF Init, ClusterSound
  <1>3. mr.spec \in Applied
    BY DEF Init, InitWith, NewObject
  <1> QED BY <1>2, <1>3, ClusterAssumption DEF IInv, ClusterParameters

LEMMA NextInv == IInv /\ [Next]_vars => Keeps
  <1> SUFFICES ASSUME IInv, [Next]_vars
               PROVE  Keeps
    OBVIOUS
  <1>1. ASSUME NEW w \in Workers, Begin(w)
        PROVE  Keeps
    <2>1. ClusterStep /\ (Named => Named')
      BY <1>1, KeptReflexive, BeginSound DEF IInv, ClusterSound, ClusterStep
    <2>2. Compatible(mr'.spec)
      BY <1>1 DEF Begin, IInv
    <2> QED BY <2>1, <2>2, Assembled
  <1>2. ASSUME NEW w \in Workers, Abandon(w)
        PROVE  Keeps
    <2>1. ClusterStep /\ (Named => Named')
      BY <1>2, KeptReflexive, AbandonSound DEF IInv, ClusterSound, ClusterStep
    <2>2. SpecsRest
      BY <1>2, RunSpecs DEF IInv, ClusterSound, Sound
    <2> QED BY <2>1, <2>2, Assembled
  <1>3. CASE UNCHANGED vars
    <2>1. ClusterStep /\ (Named => Named')
      BY <1>3, KeptReflexive, SoundStutter DEF IInv, ClusterSound, ClusterStep
    <2>2. SpecsRest
      BY <1>3, UnchangedSpecs DEF vars
    <2> QED BY <2>1, <2>2, Assembled
  <1> QED BY <1>1, <1>2, <1>3, ReconcileKeeps, OutsideKeeps DEF Next

LEMMA Invariance == Spec => []IInv
  <1>1. IInv /\ [Next]_vars => IInv'
    BY NextInv DEF Keeps
  <1> QED BY InitInv, <1>1, PTL DEF Spec

\* Objects, copies, clusters and counters stay within their types, and the
\* stored spec never has both masters and multiAz, whatever Observe adopts
\* from the cloud: admission refuses the write.
THEOREM TypeCorrect == Spec => []ClusterTypeOK
  <1>1. IInv => ClusterTypeOK
    BY DEF IInv, ClusterSound, Sound, ClusterTypeOK
  <1> QED BY <1>1, Invariance, PTL

\* Create makes one cluster for an object at most, though a creation lasts
\* and shows in no read for a while, for any number of replicas and stale
\* copies, under crashes and failed calls.
THEOREM OneClusterPerObject == Spec => []OneResourcePerObject
  <1>1. IInv => OneResourcePerObject
    BY CreationIsEnough DEF IInv, ClusterSound, Sound, Creation
  <1> QED BY <1>1, Invariance, PTL

\* When reads lag behind no longer than the creation grace period, an object
\* that had a finalizer is gone only after the service has finished the
\* deletion of its cluster.
THEOREM NoOrphanedCluster == Spec => []NoOrphan
  <1>1. IInv => NoOrphan
    BY AbsenceIsEnough DEF IInv, ClusterSound, Sound
  <1> QED BY <1>1, Invariance, PTL

\* The writes of the finalizer, of the announcement and of late
\* initialisation, and the record of a creation with the hash it notes, never
\* change what the user has set in forProvider.
THEOREM SettingsKept == Spec => ClusterSettingsKept
  <1>1. IInv /\ [Next]_vars => [edits' = edits => KeepsSettings(mr.spec, mr'.spec)]_vars
    BY NextInv DEF Keeps, SettingsStep
  <1> QED BY <1>1, Invariance, PTL DEF Spec, ClusterSettingsKept

----------------------------------------------------------------------------
(* The refinement, handler by handler *)

Refines == Tidy' /\ Implements(LagBounded, Dying)

\* The part of the invariant that the lemmas of LifecycleProofs ask for.
LEMMA Known ==
    ASSUME IInv
    PROVE  TypeWith(ClusterCopies, Addresses, CloudClusters) /\ Creation
  BY DEF IInv, ClusterSound, Sound, Creation

LEMMA ClustersAreLive ==
    /\ Unused # Deleted /\ CloudClusters \cap {Unused, Deleted} = {}
    /\ Deleted \notin Dying /\ Unused \notin Dying
    /\ \A c \in CloudClusters : c \in Dying <=> c.phase = "Deleting"
  BY ClusterAssumption DEF Dying

LEMMA ObserveImplements ==
    ASSUME IInv, Tidy, NEW w \in Workers, run[w].pc = "observe", Observe(w)
    PROVE  Refines
  <1> DEFINE obj == run[w].obj
             c == cloud[obj.extName]
             seen == [obj EXCEPT !.status = c.ip]
             spec == lateInitializeCluster(obj.spec, c)
             filled == [seen EXCEPT !.spec = spec]
             obs == [exists |-> TRUE, lateInit |-> spec # obj.spec,
                     upToDate |-> isClusterUpToDate(spec, c)]
  <1>1. obj \in Object(ClusterCopies, Addresses) /\ edits' = edits
    BY HoldsCopy DEF Observe, environment
  <1>2. \/ ObserveFailed(w)
        \/ /\ Readable(obj.extName) /\ Finish(w, seen)
           /\ UNCHANGED <<cloud, hidden, grace, lost>>
        \/ Observed(w, obj, Unobserved)
        \/ Readable(obj.extName) /\ Observed(w, filled, obs)
    BY DEF Observe, ObserveMissing
  <1>3. CASE ObserveFailed(w)
    BY <1>1, <1>3, Known, ObserveFailedImplements DEF Refines
  <1>4. CASE /\ Readable(obj.extName) /\ Finish(w, seen)
             /\ UNCHANGED <<cloud, hidden, grace, lost>>
    <2> HIDE DEF seen
    <2> QED BY <1>1, <1>4, Known, StillSame, FinishImplements DEF Refines
  <1>5. CASE Observed(w, obj, Unobserved)
    <2>1. Unobserved \in Observation /\ SameCopy(obj, run[w].obj)
      BY DEF Unobserved, Observation, SameCopy
    <2> HIDE DEF obj
    <2> QED BY <1>1, <1>5, <2>1, Known, ObservedImplements DEF Refines
  <1>6. CASE Readable(obj.extName) /\ Observed(w, filled, obs)
    <2>1. c \in CloudClusters
      BY <1>6, ReadableType
    <2>2. filled \in Object(ClusterCopies, Addresses) /\ SameCopy(filled, run[w].obj)
      <3> HIDE DEF c
      <3> QED BY <1>1, <2>1, FilledTypes
    <2>3. obs \in Observation
      BY DEF Observation, isClusterUpToDate, isEIPUpToDate
    <2> HIDE DEF obj, c, seen, spec, filled, obs
    <2> QED BY <1>1, <1>6, <2>2, <2>3, Known, ObservedImplements DEF Refines
  <1> HIDE DEF obj, c, seen, spec, filled, obs
  <1> QED BY <1>2, <1>3, <1>4, <1>5, <1>6

LEMMA CreateImplements ==
    ASSUME IInv, Tidy, NEW w \in Workers, run[w].pc = "create", Create(w)
    PROVE  Refines
  <1> DEFINE obj == run[w].obj
             noted == [obj EXCEPT
                         !.spec.applied = componentConfigsHash(obj.spec.configs)]
  <1>1. obj \in Object(ClusterCopies, Addresses) /\ obj.spec \in ClusterCopies
    BY HoldsCopy
  <1>2. noted \in Object(ClusterCopies, Addresses) /\ SameCopy(noted, run[w].obj)
    BY <1>1, HashType, NotedTypes
  <1> HIDE DEF noted
  <1>3. CASE CreateSkipped(w)
    BY <1>3, Known, CreateSkippedImplements DEF Refines
  <1>4. ASSUME obj.extName = Nil, NEW c \in CreatedClusters(obj.spec),
               CreateReturns(w, c, noted) \/ CreateFails(w, c)
        PROVE  Refines
    <2>1. c \in CloudClusters /\ c.phase = "Creating"
      BY <1>1, CreatedTypes DEF CreatedClusters
    <2>2. c \notin {Unused, Deleted} \cup Dying
      BY <2>1, ClustersAreLive
    <2> QED BY <1>2, <1>4, <2>2, Known, CreateReturnsImplements,
               CreateFailsImplements
            DEF Refines
  <1> QED BY <1>3, <1>4 DEF Create, TakenAsCreated, noted

\* Update leaves a cluster in its phase, Delete begins its deletion.
LEMMA ExternalRefines ==
    ASSUME IInv, Tidy, NEW w \in Workers, NEW pc \in {"update", "delete"},
           NEW was, was = cloud[run[w].obj.extName],
           NEW resource \in CloudClusters,
           resource.phase = was.phase \/ (resource.phase = "Deleting" /\ pc = "delete"),
           External(w, pc, resource, run[w].obj), Readable(run[w].obj.extName),
           edits' = edits
    PROVE  Refines
  <1>1. was \in CloudClusters
    BY ReadableType
  <1>2. /\ resource # Unused /\ resource # Deleted
        /\ was \in Dying <=> was.phase = "Deleting"
        /\ resource \in Dying <=> resource.phase = "Deleting"
        /\ Unused # Deleted /\ Deleted \notin Dying
    BY <1>1, ClustersAreLive
  <1>3. /\ was \in Dying => resource \in Dying
        /\ resource \in Dying \cup {Deleted} => was \in Dying \/ pc = "delete"
    BY <1>2
  <1> QED BY <1>2, <1>3, Known, ExternalImplements DEF Refines

LEMMA UpdateImplements ==
    ASSUME IInv, Tidy, NEW w \in Workers, run[w].pc = "update", Update(w)
    PROVE  Refines
  <1> DEFINE obj == run[w].obj
             c == cloud[obj.extName]
             runs == IF Readable(obj.extName) /\ c.phase = "Available"
                     THEN UpdateCalls(obj.spec, obj.status, c) ELSE {}
  <1>1. edits' = edits
    BY DEF Update, environment
  <1>2. CASE ExternalUnchanged(w, "update", obj)
    BY <1>1, <1>2, Known, ExternalUnchangedImplements DEF Refines
  <1>3. ASSUME NEW calls \in runs
        PROVE  /\ Readable(obj.extName)
               /\ Len(calls) \in 1..Len(calls)
               /\ 1..Len(calls) - 1 \subseteq 1..Len(calls)
               /\ \A n \in 1..Len(calls) : calls[n] \in InPhase(c.phase)
    <2>1. Readable(obj.extName) /\ calls \in UpdateCalls(obj.spec, obj.status, c)
      OBVIOUS
    <2>2. c \in InPhase(c.phase) /\ obj.spec \in ClusterCopies
      BY <2>1, ReadableType, HoldsCopy DEF InPhase
    <2>3. /\ Len(calls) \in Nat \ {0}
          /\ \A n \in 1..Len(calls) : calls[n] \in InPhase(c.phase)
      <3> HIDE DEF c, obj, runs
      <3> QED BY <2>1, <2>2, UpdateCallTypes
    <2> QED BY <2>1, <2>3
  <1>4. ASSUME NEW calls \in runs, NEW n \in 1..Len(calls),
               External(w, "update", calls[n], obj)
        PROVE  Refines
    <2>1. calls[n] \in CloudClusters /\ calls[n].phase = c.phase
      BY <1>3 DEF InPhase
    <2>2. Readable(obj.extName)
      BY <1>3
    <2> HIDE DEF runs
    <2> QED BY <1>1, <1>4, <2>1, <2>2, ExternalRefines
  <1>5. \/ ExternalUnchanged(w, "update", obj)
        \/ \E calls \in runs : External(w, "update", calls[Len(calls)], obj)
        \/ \E calls \in runs : \E n \in 1..Len(calls) - 1 :
              External(w, "update", calls[n], obj)
    BY DEF Update
  <1> HIDE DEF runs, obj
  <1> QED BY <1>2, <1>3, <1>4, <1>5

LEMMA DeleteImplements ==
    ASSUME IInv, Tidy, NEW w \in Workers, run[w].pc = "delete", Delete(w)
    PROVE  Refines
  <1> DEFINE obj == run[w].obj
             leaving == [cloud[obj.extName] EXCEPT !.phase = "Deleting"]
  <1>1. edits' = edits
    BY DEF Delete, environment
  <1>2. CASE ExternalUnchanged(w, "delete", obj)
    BY <1>1, <1>2, Known, ExternalUnchangedImplements DEF Refines
  <1>3. CASE Readable(obj.extName) /\ External(w, "delete", leaving, obj)
    <2>1. leaving \in CloudClusters /\ leaving.phase = "Deleting"
      BY <1>3, ReadableType, PhaseChange DEF Phases, InPhase
    <2> HIDE DEF leaving
    <2> QED BY <1>1, <1>3, <2>1, ExternalRefines
  <1> QED BY <1>2, <1>3 DEF Delete

LEMMA ReconcileImplements ==
    ASSUME IInv, IInv', Tidy, NEW w \in Workers, Reconcile(w)
    PROVE  Refines
  <1> DEFINE stored == StoredCluster(run[w].obj.spec)
             admitted == AdmittedCluster(mr.spec, stored)
  <1>1. CASE \/ AddFinalizer(w, stored, admitted)
             \/ AnnounceCreate(w, stored, admitted)
             \/ LateInitialize(w, stored, admitted)
    <2>1. admitted \in BOOLEAN
      BY DEF AdmittedCluster
    <2> HIDE DEF stored, admitted
    <2> QED BY <1>1, <2>1, Known, ObjectWriteImplements DEF Refines
  <1>2. CASE RecordCluster(w)
    <2> DEFINE hash == run[w].obj.spec.applied
               object == [mr EXCEPT !.spec.applied = hash]
    <2>1. hash \in Configurations \cup {""}
      BY <1>2, HoldsCopy, ClusterFields DEF RecordCluster, RecordCreateIn
    <2>2. RecordCreateIn(w, object)
      BY <1>2 DEF RecordCluster
    <2> HIDE DEF hash
    <2>3. object \in Object(ClusterCopies, Addresses) /\ SameCopy(object, mr)
      BY <2>1, StoredType, NotedTypes
    <2> HIDE DEF object
    <2> QED BY <2>2, <2>3, Known, RecordCreateImplements DEF Refines
  <1>3. CASE RecordFailedCreate(w)
    BY <1>3, Known, RecordFailedCreateImplements DEF Refines
  <1>4. CASE UpdateObjectFails(w)
    <2>1. edits' = edits
      BY <1>4 DEF UpdateObjectFails
    <2> QED BY <1>4, <2>1, Known, ObserveFailedImplements DEF Refines
  <1>5. CASE RemoveFinalizer(w)
    <2>1. Absence({})'
      BY DEF IInv, ClusterSound, Sound
    <2>2. NoOrphan'
      BY <2>1, NothingOrphaned
    <2> QED BY <1>5, <2>2, Known, RemoveFinalizerImplements DEF Refines
  <1> HIDE DEF stored, admitted
  <1> QED BY <1>1, <1>2, <1>3, <1>4, <1>5,
             ObserveImplements, CreateImplements, UpdateImplements,
             DeleteImplements
          DEF Reconcile, stored, admitted

\* The service finishes what it began; what others begin, they change.
LEMMA CloudImplements ==
    ASSUME IInv, Tidy, NEW i \in Ids,
           Drift(i) \/ FinishCreation(i) \/ FinishDeletion(i)
    PROVE  Refines
  <1>1. Live(i) /\ cloud[i] \in CloudClusters
    <2>1. Live(i)
      BY DEF Drift, FinishCreation, FinishDeletion
    <2> QED BY <2>1, ReadableType
  <1>2. CASE Drift(i)
    <2>1. PICK c \in CloudClusters : ChangeOutOfBand(i, c)
      BY <1>2 DEF Drift
    <2>2. cloud[i] \notin Dying
      BY <1>1, <1>2, ClustersAreLive DEF Drift
    <2> QED BY <2>1, <2>2, Known, ClustersAreLive, OutsideImplements DEF Refines
  <1>3. CASE FinishCreation(i)
    <2> DEFINE c == [cloud[i] EXCEPT !.phase = "Available"]
    <2>1. c \in CloudClusters /\ c.phase = "Available"
      BY <1>1, PhaseChange DEF Phases, InPhase
    <2>2. /\ cloud' = [cloud EXCEPT ![i] = c]
          /\ UNCHANGED <<mr, run, lost, edits>>
      BY <1>3 DEF FinishCreation, environment
    <2> HIDE DEF c
    <2>3. c # Unused /\ c # Deleted /\ c \notin Dying /\ cloud[i] \notin Dying
      BY <1>1, <1>3, <2>1, ClustersAreLive DEF FinishCreation
    <2> QED BY <1>1, <2>2, <2>3, Known, ServiceImplements DEF Refines
  <1>4. CASE FinishDeletion(i)
    <2>1. /\ cloud' = [cloud EXCEPT ![i] = Deleted]
          /\ UNCHANGED <<mr, run, lost, edits>>
          /\ cloud[i].phase = "Deleting"
      BY <1>4 DEF FinishDeletion, environment
    <2>2. Deleted # Unused /\ cloud[i] \in Dying
      BY <1>1, <2>1, ClustersAreLive
    <2> QED BY <1>1, <2>1, <2>2, Known, ServiceImplements DEF Refines
  <1> QED BY <1>2, <1>3, <1>4

LEMMA StepImplements ==
    ASSUME IInv, IInv', Tidy, [Next]_vars
    PROVE  Refines
  <1>1. ASSUME NEW w \in Workers, Begin(w)
        PROVE  Refines
    BY <1>1, Known, BeginImplements DEF Refines
  <1>2. ASSUME NEW w \in Workers, Abandon(w)
        PROVE  Refines
    BY <1>2, Known, AbandonImplements DEF Refines
  <1>3. CASE DeleteObject
    BY <1>3, Known, DeleteObjectImplements DEF Refines
  <1>4. CASE UserEdit
    <2>1. PICK s \in Applied : EditSpec([s EXCEPT !.applied = mr.spec.applied])
      BY <1>4 DEF UserEdit
    <2>2. s \in ClusterCopies /\ mr.spec.applied \in Configurations \cup {""}
      BY ClusterAssumption, StoredType, ClusterFields DEF ClusterParameters
    <2>3. \E spec \in ClusterCopies : EditSpec(spec)
      BY <2>1, <2>2, SpecChange
    <2> QED BY <2>3, Known, ClustersAreLive, OutsideImplements DEF Refines
  <1>5. CASE (\E i \in Ids : BecomeReadable(i)) \/ EndGracePeriod
    BY <1>5, Known, ClustersAreLive, OutsideImplements DEF Refines
  <1>6. CASE UNCHANGED vars
    BY <1>6, UnchangedImplements DEF Refines
  <1> QED BY <1>1, <1>2, <1>3, <1>4, <1>5, <1>6, ReconcileImplements,
             CloudImplements
          DEF Next

\* Every behaviour of the controller, with any number of replicas and stale
\* copies, crashes and failed calls, and a service that takes its time, is one
\* of Lifecycle: it makes one cluster, notes its name once, begins its deletion
\* only for a deleted object, and lets go of the object only after the cluster
\* is gone.
THEOREM ClusterImplementsLifecycle == Spec => KeepsPromise
  <1>1. Init => Tidy /\ Promise(LagBounded, Dying)!Init
    <2>1. Found \cap ({Unused, Deleted} \cup Dying) = {} /\ Unused # Deleted
      BY ClusterAssumption, ClustersAreLive
    <2> QED BY <2>1, InitImplements DEF Init
  <1>2. IInv /\ IInv' /\ Tidy /\ [Next]_vars
            => /\ Tidy'
               /\ [Promise(LagBounded, Dying)!Next]_(Promise(LagBounded, Dying)!vars)
    BY StepImplements DEF Refines, Implements
  <1> QED BY <1>1, <1>2, Invariance, PTL DEF Spec, KeepsPromise

============================================================================
