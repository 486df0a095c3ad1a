------------------------- MODULE ControllersProofs -------------------------
(***************************************************************************)
(* Of the controllers of the nine field-wise resources, for every number   *)
(* of workers, identifiers, edits and faults and all values of the fields: *)
(* type correctness, that an object has one resource and leaves behind     *)
(* none but a record set gone astray, that what the user has set is kept,  *)
(* what an Update leaves alone, and that each controller is a Lifecycle    *)
(* but for that record set.                                                *)
(***************************************************************************)
EXTENDS Controllers, LifecycleProofs, SequenceTheorems, FiniteSetTheorems

----------------------------------------------------------------------------
(* The specs and resources of a kind. *)

SettableOf(k, f) == Fields!Settable(f, RequiredOf(k), CheckedOf(k))

\* A required field of a resource is never empty.
FilledOf(k, f) ==
    (Fields!InCloud(f) \cup {Fields!Zero(f)})
        \ (IF f \in RequiredOf(k) THEN {Fields!Zero(f)} ELSE {})

KindSpecs(k) ==
    {spec \in [FieldsOf(k) -> UNION {SettableOf(k, f) : f \in FieldsOf(k)}] :
        /\ \A f \in FieldsOf(k) : spec[f] \in SettableOf(k, f)
        /\ k = "RecordSet" => RS!OneZone(spec)}

KindResources(k) ==
    {r \in [FieldsOf(k) -> ResourceValues(k)] :
        \A f \in FieldsOf(k) : r[f] \in FilledOf(k, f)}

\* The nine kinds.
LEMMA EveryKind ==
    Kinds = {"Subnet", "SecurityGroup", "SecurityGroupRule", "Gateway", "SNATRule",
             "PublicZone", "ElasticIP", "PrivateZone", "RecordSet"}
  BY DEF Kinds, Statics

\* The fields of each kind, as its module lists them.
LEMMA FieldsOfKinds ==
    /\ RequiredOf("Subnet") = SN!Required
    /\ FieldsOf("Subnet") = SN!Required \cup SN!Optional
    /\ RequiredOf("SecurityGroup") = SG!Required
    /\ FieldsOf("SecurityGroup") = SG!Required \cup SG!Optional
    /\ RequiredOf("SecurityGroupRule") = SR!Required
    /\ FieldsOf("SecurityGroupRule") = SR!Required \cup SR!Optional
    /\ RequiredOf("Gateway") = GW!Required
    /\ FieldsOf("Gateway") = GW!Required \cup GW!Optional
    /\ RequiredOf("SNATRule") = NR!Required
    /\ FieldsOf("SNATRule") = NR!Required \cup NR!Optional
    /\ RequiredOf("PublicZone") = PZ!Required
    /\ FieldsOf("PublicZone") = PZ!Required \cup PZ!Optional
    /\ RequiredOf("ElasticIP") = EI!Required
    /\ FieldsOf("ElasticIP") = EI!Required \cup EI!Optional
    /\ RequiredOf("PrivateZone") = PV!Required
    /\ FieldsOf("PrivateZone") = PV!Required \cup PV!Optional
    /\ RequiredOf("RecordSet") = RS!Required
    /\ FieldsOf("RecordSet") = RS!Required \cup RS!Optional
  BY DEF RequiredOf, FieldsOf, Statics, Static

\* Which fields are required, and which kinds have lists, types and zones.
LEMMA FieldFacts ==
    ASSUME NEW k \in Kinds
    PROVE  /\ RequiredOf(k) \subseteq FieldsOf(k)
           /\ RequiredOf(k) \cap ({"tags"} \cup Fields!Flags) = {}
           /\ FieldsOf(k) \cap {"vpcs", "records", "type"} \subseteq RequiredOf(k)
           /\ "vpcs" \in FieldsOf(k) => k = "PrivateZone"
           /\ FieldsOf(k) \cap {"records", "type"} # {} => k = "RecordSet"
           /\ k # "Subnet" => CheckedOf(k) = {}
           /\ CheckedOf(k) \cap (Fields!Lists \cup Fields!Flags \cup {"tags", "type"}) = {}
  <1> USE FieldsOfKinds DEF Fields!Flags, Fields!Lists
  <1>1. k # "Subnet" => CheckedOf(k) = {}
    BY DEF CheckedOf
  <1>2. CheckedOf(k) \subseteq {"cidr", "gatewayIp", "primaryDns", "secondaryDns", "dnsList"}
    BY DEF CheckedOf, SN!Checked
  <1>3. CASE k = "Subnet"
    BY <1>2, <1>3 DEF SN!Required, SN!Optional
  <1>4. CASE k = "SecurityGroup"
    BY <1>1, <1>2, <1>4 DEF SG!Required, SG!Optional
  <1>5. CASE k = "SecurityGroupRule"
    BY <1>1, <1>2, <1>5 DEF SR!Required, SR!Optional
  <1>6. CASE k = "Gateway"
    BY <1>1, <1>2, <1>6 DEF GW!Required, GW!Optional
  <1>7. CASE k = "SNATRule"
    BY <1>1, <1>2, <1>7 DEF NR!Required, NR!Optional
  <1>8. CASE k = "PublicZone"
    BY <1>1, <1>2, <1>8 DEF PZ!Required, PZ!Optional
  <1>9. CASE k = "ElasticIP"
    BY <1>1, <1>2, <1>9 DEF EI!Required, EI!Optional
  <1>10. CASE k = "PrivateZone"
    BY <1>1, <1>2, <1>10 DEF PV!Required, PV!Optional
  <1>11. CASE k = "RecordSet"
    BY <1>1, <1>2, <1>11 DEF RS!Required, RS!Optional, RS!Zones
  <1> QED BY <1>3, <1>4, <1>5, <1>6, <1>7, <1>8, <1>9, <1>10, <1>11, EveryKind

\* What a spec has in each field.
LEMMA SpecFields ==
    ASSUME NEW k \in Kinds, NEW spec \in KindSpecs(k)
    PROVE  /\ DOMAIN spec = FieldsOf(k)
           /\ \A f \in FieldsOf(k) : spec[f] \in SettableOf(k, f)
           /\ k = "RecordSet" => RS!OneZone(spec)
  BY DEF KindSpecs

\* What a resource has in each field.
LEMMA ResourceFields ==
    ASSUME NEW k \in Kinds, NEW r \in KindResources(k)
    PROVE  /\ DOMAIN r = FieldsOf(k)
           /\ \A f \in FieldsOf(k) : r[f] \in FilledOf(k, f)
  BY DEF KindResources

\* A function of the fields is a spec, or a resource, if each value fits.
LEMMA IsKindSpec ==
    ASSUME NEW k \in Kinds, NEW spec, spec = [f \in FieldsOf(k) |-> spec[f]],
           \A f \in FieldsOf(k) : spec[f] \in SettableOf(k, f),
           k = "RecordSet" => RS!OneZone(spec)
    PROVE  spec \in KindSpecs(k)
  <1>1. \A f \in FieldsOf(k) : spec[f] \in UNION {SettableOf(k, g) : g \in FieldsOf(k)}
    OBVIOUS
  <1>2. spec \in [FieldsOf(k) -> UNION {SettableOf(k, f) : f \in FieldsOf(k)}]
    BY <1>1
  <1> QED BY <1>2 DEF KindSpecs

\* As for specs.
LEMMA IsKindResource ==
    ASSUME NEW k \in Kinds, NEW r, r = [f \in FieldsOf(k) |-> r[f]],
           \A f \in FieldsOf(k) : r[f] \in FilledOf(k, f)
    PROVE  r \in KindResources(k)
  <1>1. \A f \in FieldsOf(k) : r[f] \in ResourceValues(k)
    BY DEF FilledOf, ResourceValues
  <1>2. r \in [FieldsOf(k) -> ResourceValues(k)]
    BY <1>1
  <1> QED BY <1>2 DEF KindResources

\* A required field is set.
LEMMA RequiredIsSet ==
    ASSUME NEW k \in Kinds, NEW spec \in KindSpecs(k), NEW f \in RequiredOf(k)
    PROVE  spec[f] # Nil
  <1>1. f \in FieldsOf(k)
    BY FieldFacts
  <1>2. spec[f] \in SettableOf(k, f)
    BY <1>1, SpecFields
  <1>3. Nil \notin SettableOf(k, f)
    BY ControllersAssumption DEF SettableOf
  <1> QED BY <1>2, <1>3

\* What is set and well-formed may be sent; what the cloud shows, adopted.
LEMMA Sendable ==
    ASSUME NEW k \in Kinds, NEW f \in FieldsOf(k) \ Fields!Lists,
           NEW v \in SettableOf(k, f), v # Nil,
           f \in CheckedOf(k) => v # Fields!Malformed
    PROVE  v \in FilledOf(k, f)
  <1>1. CASE f \in {"tags", "type"} \cup Fields!Flags
    BY <1>1, FieldFacts
       DEF SettableOf, FilledOf, Fields!Settable, Fields!InCloud, Fields!Zero,
           Fields!Flags, Fields!Lists, Fields!RecordTypes
  <1>2. CASE f \notin {"tags", "type"} \cup Fields!Flags
    BY <1>2, ControllersAssumption
       DEF SettableOf, FilledOf, Fields!Settable, Fields!InCloud, Fields!Zero,
           Fields!Flags, Fields!Lists
  <1> QED BY <1>1, <1>2

\* What a resource has may be set in a spec, but for the empty value.
LEMMA Adoptable ==
    ASSUME NEW k \in Kinds, NEW f \in FieldsOf(k) \ RequiredOf(k),
           NEW v \in FilledOf(k, f), v # Fields!Zero(f) \/ f \in Fields!Flags
    PROVE  v \in SettableOf(k, f)
  <1>1. f \notin Fields!Lists \cup {"type"}
    BY FieldFacts DEF Fields!Lists
  <1>2. CASE f \in {"tags"} \cup Fields!Flags
    BY <1>1, <1>2
       DEF SettableOf, FilledOf, Fields!Settable, Fields!InCloud, Fields!Zero,
           Fields!Flags, Fields!Lists
  <1>3. CASE f \notin {"tags"} \cup Fields!Flags
    BY <1>1, <1>3
       DEF SettableOf, FilledOf, Fields!Settable, Fields!InCloud, Fields!Zero,
           Fields!Flags, Fields!Lists
  <1> QED BY <1>2, <1>3

\* lateInitialize... adopts optional fields, and never the zone.
LEMMA AdoptedType ==
    ASSUME NEW k \in Kinds, NEW spec \in KindSpecs(k), NEW r \in KindResources(k),
           NEW F, k = "RecordSet" => F \cap RS!Zones = {}
    PROVE  /\ Fields!Adopted(spec, r, F) \in KindSpecs(k)
           /\ \A f \in FieldsOf(k) :
                 spec[f] # Nil => Fields!Adopted(spec, r, F)[f] = spec[f]
  <1> DEFINE filled == Fields!Adopted(spec, r, F)
  <1>1. filled = [f \in FieldsOf(k) |->
                    IF f \in F /\ spec[f] = Nil /\ r[f] # Fields!Zero(f)
                    THEN r[f] ELSE spec[f]]
    BY SpecFields DEF Fields!Adopted, Fields!LateInitIfNonZero
  <1> HIDE DEF filled
  <1>2. ASSUME NEW f \in FieldsOf(k)
        PROVE  filled[f] \in SettableOf(k, f)
    <2>1. spec[f] \in SettableOf(k, f) /\ r[f] \in FilledOf(k, f)
      BY SpecFields, ResourceFields
    <2>2. CASE f \in RequiredOf(k)
      BY <1>1, <2>1, <2>2, RequiredIsSet
    <2>3. CASE f \notin RequiredOf(k)
      BY <1>1, <2>1, <2>3, Adoptable
    <2> QED BY <2>2, <2>3
  <1>3. ASSUME k = "RecordSet"
        PROVE  RS!OneZone(filled)
    <2>1. RS!Zones \subseteq FieldsOf(k) /\ RS!OneZone(spec)
      BY <1>3, FieldsOfKinds, SpecFields DEF RS!Optional
    <2>2. \A f \in RS!Zones : filled[f] = spec[f]
      BY <1>1, <1>3, <2>1
    <2> QED BY <2>1, <2>2 DEF RS!OneZone, RS!Zones
  <1>4. filled = [f \in FieldsOf(k) |-> filled[f]]
    BY <1>1
  <1>5. filled \in KindSpecs(k)
    BY <1>2, <1>3, <1>4, IsKindSpec
  <1>6. \A f \in FieldsOf(k) : spec[f] # Nil => filled[f] = spec[f]
    BY <1>1
  <1> QED BY <1>5, <1>6 DEF filled

----------------------------------------------------------------------------
(* What is written to the object. *)

\* The fields under omitempty that may be empty.
Omitted(k) ==
    CASE k = "Subnet"                            -> {"dnsList", "tags"}
      [] k \in {"SecurityGroupRule", "SNATRule"} -> {}
      [] OTHER                                   -> {"tags"}

\* Every kind writes its spec with the empty fields under omitempty left out.
LEMMA StoredForm ==
    ASSUME NEW spec \in KindSpecs(kind), kind \in Kinds
    PROVE  Stored(spec) = Fields!OmitEmpty(spec, Omitted(kind))
  <1>1. CASE kind = "Subnet"
    BY <1>1 DEF Stored, Omitted, SN!StoredSubnet, SN!OmitEmpty, Fields!OmitEmpty,
                SN!Zero, Fields!Zero, SN!Flags, Fields!Flags, SN!Lists, Fields!Lists,
                SN!EmptyMap, Fields!EmptyMap, SN!EmptyBag, Fields!EmptyBag,
                SN!SetToBag, Fields!SetToBag
  <1>2. CASE kind \in {"SecurityGroupRule", "SNATRule"}
    <2>1. Stored(spec) = spec
      BY <1>2 DEF Stored
    <2>2. Omitted(kind) = {}
      BY <1>2 DEF Omitted
    <2>3. spec = [f \in DOMAIN spec |-> spec[f]]
      BY DEF KindSpecs
    <2> QED BY <2>1, <2>2, <2>3 DEF Fields!OmitEmpty
  <1>3. CASE kind = "SecurityGroup"
    BY <1>3 DEF Stored, Omitted, SG!StoredGroup, SG!OmitEmpty, Fields!OmitEmpty,
                SG!Zero, Fields!Zero, SG!Flags, Fields!Flags, SG!Lists, Fields!Lists,
                SG!EmptyMap, Fields!EmptyMap, SG!EmptyBag, Fields!EmptyBag,
                SG!SetToBag, Fields!SetToBag
  <1>4. CASE kind = "Gateway"
    BY <1>4 DEF Stored, Omitted, GW!StoredGateway, GW!OmitEmpty, Fields!OmitEmpty,
                GW!Zero, Fields!Zero, GW!Flags, Fields!Flags, GW!Lists, Fields!Lists,
                GW!EmptyMap, Fields!EmptyMap, GW!EmptyBag, Fields!EmptyBag,
                GW!SetToBag, Fields!SetToBag
  <1>5. CASE kind = "PublicZone"
    BY <1>5 DEF Stored, Omitted, PZ!StoredZone, PZ!OmitEmpty, Fields!OmitEmpty,
                PZ!Zero, Fields!Zero, PZ!Flags, Fields!Flags, PZ!Lists, Fields!Lists,
                PZ!EmptyMap, Fields!EmptyMap, PZ!EmptyBag, Fields!EmptyBag,
                PZ!SetToBag, Fields!SetToBag
  <1>6. CASE kind = "ElasticIP"
    BY <1>6 DEF Stored, Omitted, EI!StoredAddress, EI!OmitEmpty, Fields!OmitEmpty,
                EI!Zero, Fields!Zero, EI!Flags, Fields!Flags, EI!Lists, Fields!Lists,
                EI!EmptyMap, Fields!EmptyMap, EI!EmptyBag, Fields!EmptyBag,
                EI!SetToBag, Fields!SetToBag
  <1>7. CASE kind = "PrivateZone"
    BY <1>7 DEF Stored, Omitted, PV!StoredZone, PV!OmitEmpty, Fields!OmitEmpty,
                PV!Zero, Fields!Zero, PV!Flags, Fields!Flags, PV!Lists, Fields!Lists,
                PV!EmptyMap, Fields!EmptyMap, PV!EmptyBag, Fields!EmptyBag,
                PV!SetToBag, Fields!SetToBag
  <1>8. CASE kind = "RecordSet"
    BY <1>8 DEF Stored, Omitted, RS!StoredRecordSet, RS!OmitEmpty, Fields!OmitEmpty,
                RS!Zero, Fields!Zero, RS!Flags, Fields!Flags, RS!Lists, Fields!Lists,
                RS!EmptyMap, Fields!EmptyMap, RS!EmptyBag, Fields!EmptyBag,
                RS!SetToBag, Fields!SetToBag
  <1> QED BY <1>1, <1>2, <1>3, <1>4, <1>5, <1>6, <1>7, <1>8, EveryKind

\* What is written is a spec still.
LEMMA OmittedType ==
    ASSUME NEW k \in Kinds, NEW spec \in KindSpecs(k)
    PROVE  Fields!OmitEmpty(spec, Omitted(k)) \in KindSpecs(k)
  <1> DEFINE written == Fields!OmitEmpty(spec, Omitted(k))
  <1>1. written = [f \in FieldsOf(k) |->
                     IF f \in Omitted(k) /\ spec[f] = Fields!Zero(f) THEN Nil ELSE spec[f]]
    BY SpecFields DEF Fields!OmitEmpty
  <1>2. /\ Omitted(k) \cap RS!Zones = {}
        /\ Omitted(k) \cap RequiredOf(k) = {}
        /\ Omitted(k) \cap (Fields!Flags \cup Fields!Lists \cup {"type"}) = {}
    BY FieldFacts, FieldsOfKinds
       DEF Omitted, RS!Zones, Fields!Flags, Fields!Lists, SN!Required
  <1> HIDE DEF written
  <1>3. ASSUME NEW f \in FieldsOf(k)
        PROVE  written[f] \in SettableOf(k, f)
    <2>1. spec[f] \in SettableOf(k, f)
      BY SpecFields
    <2>2. f \in Omitted(k) => Nil \in SettableOf(k, f)
      BY <1>2 DEF SettableOf, Fields!Settable, Fields!Lists, Fields!Flags
    <2> QED BY <1>1, <2>1, <2>2
  <1>4. ASSUME k = "RecordSet"
        PROVE  RS!OneZone(written)
    <2>1. RS!Zones \subseteq FieldsOf(k) /\ RS!OneZone(spec)
      BY <1>4, FieldsOfKinds, SpecFields DEF RS!Optional
    <2>2. \A f \in RS!Zones : written[f] = spec[f]
      BY <1>1, <1>2, <2>1
    <2> QED BY <2>1, <2>2 DEF RS!OneZone, RS!Zones
  <1>5. written = [f \in FieldsOf(k) |-> written[f]]
    BY <1>1
  <1> QED BY <1>3, <1>4, <1>5, IsKindSpec DEF written

\* What a user has given, and JSON keeps, another spec keeps.
Kept(k) ==
    {pair \in KindSpecs(k) \X KindSpecs(k) :
        \A f \in FieldsOf(k) :
            Fields!OmitEmpty(pair[1], Omitted(k))[f] # Nil =>
                pair[2][f] = pair[1][f]}

\* Field by field.
LEMMA KeptPair ==
    ASSUME NEW k \in Kinds, NEW a \in KindSpecs(k), NEW b \in KindSpecs(k)
    PROVE  <<a, b>> \in Kept(k) <=>
             \A f \in FieldsOf(k) :
                 (f \in Omitted(k) => a[f] # Fields!Zero(f)) /\ a[f] # Nil =>
                     b[f] = a[f]
  <1>1. \A f \in FieldsOf(k) :
          Fields!OmitEmpty(a, Omitted(k))[f] # Nil <=>
             (f \in Omitted(k) => a[f] # Fields!Zero(f)) /\ a[f] # Nil
    BY SpecFields DEF Fields!OmitEmpty
  <1>2. <<a, b>> \in Kept(k) <=>
          \A f \in FieldsOf(k) :
            Fields!OmitEmpty(a, Omitted(k))[f] # Nil => b[f] = a[f]
    BY DEF Kept
  <1> QED BY <1>1, <1>2

\* A spec keeps itself.
LEMMA KeptReflexive ==
    ASSUME NEW k \in Kinds
    PROVE  Reflexive(Kept(k), KindSpecs(k))
  BY KeptPair DEF Reflexive

\* Writing the copy, and reading it back, loses nothing more.
LEMMA WritingKeeps ==
    ASSUME NEW k \in Kinds, NEW a \in KindSpecs(k), NEW b \in KindSpecs(k)
    PROVE  LET written == Fields!OmitEmpty(b, Omitted(k))
           IN  /\ <<a, b>> \in Kept(k) => <<a, written>> \in Kept(k)
               /\ <<written, b>> \in Kept(k)
  <1> DEFINE written == Fields!OmitEmpty(b, Omitted(k))
  <1>1. written \in KindSpecs(k)
    BY OmittedType
  <1>2. \A f \in FieldsOf(k) :
          written[f] = IF f \in Omitted(k) /\ b[f] = Fields!Zero(f) THEN Nil ELSE b[f]
    BY SpecFields DEF Fields!OmitEmpty
  <1> HIDE DEF written
  <1>3. <<a, b>> \in Kept(k) => <<a, written>> \in Kept(k)
    BY <1>1, <1>2, KeptPair
  <1>4. <<written, b>> \in Kept(k)
    BY <1>1, <1>2, KeptPair
  <1> QED BY <1>3, <1>4 DEF written

\* Filling in what is not set keeps what is.
LEMMA FillingKeeps ==
    ASSUME NEW k \in Kinds, NEW a \in KindSpecs(k), NEW b \in KindSpecs(k),
           NEW filled \in KindSpecs(k), <<a, b>> \in Kept(k),
           \A f \in FieldsOf(k) : b[f] # Nil => filled[f] = b[f]
    PROVE  <<a, filled>> \in Kept(k)
  BY KeptPair

\* A record set is sought in the zone its object names: elsewhere it counts
\* as absent.
Elsewhere(k) ==
    {pair \in KindSpecs(k) \X KindResources(k) :
        k = "RecordSet" /\ ~RS!InZone(pair[1], pair[2])}

\* The zone is a setting, and written as it is.
LEMMA ZoneKept ==
    ASSUME NEW k \in Kinds, NEW a, NEW b, NEW r, <<a, b>> \in Kept(k),
           <<a, r>> \in Elsewhere(k) \/ <<b, r>> \in Elsewhere(k)
    PROVE  <<a, r>> \in Elsewhere(k) /\ <<b, r>> \in Elsewhere(k)
  <1>1. k = "RecordSet" /\ a \in KindSpecs(k) /\ b \in KindSpecs(k) /\ r \in KindResources(k)
    BY DEF Elsewhere, Kept
  <1>2. RS!OneZone(a) /\ RS!OneZone(b)
    BY <1>1, SpecFields
  <1>3. \A z \in RS!Zones : a[z] # Nil => b[z] = a[z]
    BY <1>1, KeptPair, FieldsOfKinds DEF Omitted, RS!Zones, RS!Optional
  <1>4. RS!ZoneIn(a, Nil) = RS!ZoneIn(b, Nil)
    BY <1>2, <1>3 DEF RS!ZoneIn, RS!Zones, RS!OneZone
  <1>5. RS!InZone(a, r) <=> RS!InZone(b, r)
    BY <1>4 DEF RS!InZone
  <1> QED BY <1>1, <1>5 DEF Elsewhere

----------------------------------------------------------------------------
(* What Observe makes of a resource it finds. *)

\* All kinds but subnets adopt some fields, as Fields says.
LEMMA SeenForm ==
    ASSUME kind \in Kinds \ {"Subnet"}, NEW spec, NEW r
    PROVE  \E F, upToDate :
             /\ Seen(spec, r) = Fields!Observation(Fields!Adopted(spec, r, F), upToDate)
             /\ upToDate \in BOOLEAN
             /\ kind = "RecordSet" => F \cap RS!Zones = {}
  <1>1. CASE kind = "SecurityGroup"
    <2> DEFINE filled == SG!Adopted(spec, r, SG!Optional)
    <2>1. Seen(spec, r) = Fields!Observation(filled, SG!isSecurityGroupUpToDate(filled, r))
      BY <1>1 DEF Seen, SG!Observe, SG!lateInitializeSecurityGroup,
                  SG!Observation, Fields!Observation
    <2>2. filled = Fields!Adopted(spec, r, SG!Optional)
      BY DEF SG!Adopted, Fields!Adopted, SG!LateInitIfNonZero,
             Fields!LateInitIfNonZero, SG!Zero, Fields!Zero, SG!Flags, Fields!Flags,
             SG!Lists, Fields!Lists, SG!EmptyMap, Fields!EmptyMap,
             SG!EmptyBag, Fields!EmptyBag, SG!SetToBag, Fields!SetToBag
    <2>3. SG!isSecurityGroupUpToDate(filled, r) \in BOOLEAN
      BY DEF SG!isSecurityGroupUpToDate, SG!UpToDateOn
    <2> QED BY <1>1, <2>1, <2>2, <2>3
  <1>2. CASE kind = "SecurityGroupRule"
    <2> DEFINE filled == SR!Adopted(spec, r, SR!Optional)
    <2>1. Seen(spec, r) = Fields!Observation(filled, SR!isSecurityGroupRuleUpToDate(filled, r))
      BY <1>2 DEF Seen, SR!Observe, SR!lateInitializeSecurityGroupRule,
                  SR!Observation, Fields!Observation
    <2>2. filled = Fields!Adopted(spec, r, SR!Optional)
      BY DEF SR!Adopted, Fields!Adopted, SR!LateInitIfNonZero,
             Fields!LateInitIfNonZero, SR!Zero, Fields!Zero, SR!Flags, Fields!Flags,
             SR!Lists, Fields!Lists, SR!EmptyMap, Fields!EmptyMap,
             SR!EmptyBag, Fields!EmptyBag, SR!SetToBag, Fields!SetToBag
    <2>3. SR!isSecurityGroupRuleUpToDate(filled, r) \in BOOLEAN
      BY DEF SR!isSecurityGroupRuleUpToDate, SR!UpToDateOn
    <2> QED BY <1>2, <2>1, <2>2, <2>3
  <1>3. CASE kind = "Gateway"
    <2> DEFINE filled == GW!Adopted(spec, r, {"description", "vpcId", "subnetId", "tags"})
    <2>1. Seen(spec, r) = Fields!Observation(filled, GW!isGatewayUpToDate(filled, r))
      BY <1>3 DEF Seen, GW!Observe, GW!lateInitializeGateway,
                  GW!Observation, Fields!Observation
    <2>2. filled = Fields!Adopted(spec, r, {"description", "vpcId", "subnetId", "tags"})
      BY DEF GW!Adopted, Fields!Adopted, GW!LateInitIfNonZero,
             Fields!LateInitIfNonZero, GW!Zero, Fields!Zero, GW!Flags, Fields!Flags,
             GW!Lists, Fields!Lists, GW!EmptyMap, Fields!EmptyMap,
             GW!EmptyBag, Fields!EmptyBag, GW!SetToBag, Fields!SetToBag
    <2>3. GW!isGatewayUpToDate(filled, r) \in BOOLEAN
      BY DEF GW!isGatewayUpToDate, GW!UpToDateOn
    <2> QED BY <1>3, <2>1, <2>2, <2>3
  <1>4. CASE kind = "SNATRule"
    <2> DEFINE filled == NR!Adopted(spec, r, NR!Optional)
    <2>1. Seen(spec, r) = Fields!Observation(filled, NR!isSNATRuleUpToDate(filled, r))
      BY <1>4 DEF Seen, NR!Observe, NR!lateInitializeSNATRule,
                  NR!Observation, Fields!Observation
    <2>2. filled = Fields!Adopted(spec, r, NR!Optional)
      BY DEF NR!Adopted, Fields!Adopted, NR!LateInitIfNonZero,
             Fields!LateInitIfNonZero, NR!Zero, Fields!Zero, NR!Flags, Fields!Flags,
             NR!Lists, Fields!Lists, NR!EmptyMap, Fields!EmptyMap,
             NR!EmptyBag, Fields!EmptyBag, NR!SetToBag, Fields!SetToBag
    <2>3. NR!isSNATRuleUpToDate(filled, r) \in BOOLEAN
      BY DEF NR!isSNATRuleUpToDate, NR!UpToDateOn
    <2> QED BY <1>4, <2>1, <2>2, <2>3
  <1>5. CASE kind = "PublicZone"
    <2> DEFINE filled == PZ!Adopted(spec, r, PZ!Optional)
    <2>1. Seen(spec, r) = Fields!Observation(filled, PZ!isPublicZoneUpToDate(filled, r))
      BY <1>5 DEF Seen, PZ!Observe, PZ!lateInitializePublicZone,
                  PZ!Observation, Fields!Observation
    <2>2. filled = Fields!Adopted(spec, r, PZ!Optional)
      BY DEF PZ!Adopted, Fields!Adopted, PZ!LateInitIfNonZero,
             Fields!LateInitIfNonZero, PZ!Zero, Fields!Zero, PZ!Flags, Fields!Flags,
             PZ!Lists, Fields!Lists, PZ!EmptyMap, Fields!EmptyMap,
             PZ!EmptyBag, Fields!EmptyBag, PZ!SetToBag, Fields!SetToBag
    <2>3. PZ!isPublicZoneUpToDate(filled, r) \in BOOLEAN
      BY DEF PZ!isPublicZoneUpToDate, PZ!UpToDateOn
    <2> QED BY <1>5, <2>1, <2>2, <2>3
  <1>6. CASE kind = "ElasticIP"
    <2> DEFINE filled == EI!Adopted(spec, r, EI!Optional)
    <2>1. Seen(spec, r) = Fields!Observation(filled, EI!isElasticIPUpToDate(filled, r))
      BY <1>6 DEF Seen, EI!Observe, EI!lateInitializeElasticIP,
                  EI!Observation, Fields!Observation
    <2>2. filled = Fields!Adopted(spec, r, EI!Optional)
      BY DEF EI!Adopted, Fields!Adopted, EI!LateInitIfNonZero,
             Fields!LateInitIfNonZero, EI!Zero, Fields!Zero, EI!Flags, Fields!Flags,
             EI!Lists, Fields!Lists, EI!EmptyMap, Fields!EmptyMap,
             EI!EmptyBag, Fields!EmptyBag, EI!SetToBag, Fields!SetToBag
    <2>3. EI!isElasticIPUpToDate(filled, r) \in BOOLEAN
      BY DEF EI!isElasticIPUpToDate, EI!UpToDateOn
    <2> QED BY <1>6, <2>1, <2>2, <2>3
  <1>7. CASE kind = "PrivateZone"
    <2> DEFINE filled == PV!Adopted(spec, r, PV!Optional)
    <2>1. Seen(spec, r) = Fields!Observation(filled, PV!isPrivateZoneUpToDate(filled, r))
      BY <1>7 DEF Seen, PV!Observe, PV!lateInitializePrivateZone,
                  PV!Observation, Fields!Observation
    <2>2. filled = Fields!Adopted(spec, r, PV!Optional)
      BY DEF PV!Adopted, Fields!Adopted, PV!LateInitIfNonZero,
             Fields!LateInitIfNonZero, PV!Zero, Fields!Zero, PV!Flags, Fields!Flags,
             PV!Lists, Fields!Lists, PV!EmptyMap, Fields!EmptyMap,
             PV!EmptyBag, Fields!EmptyBag, PV!SetToBag, Fields!SetToBag
    <2>3. PV!isPrivateZoneUpToDate(filled, r) \in BOOLEAN
      BY DEF PV!isPrivateZoneUpToDate, PV!UpToDateOn
    <2> QED BY <1>7, <2>1, <2>2, <2>3
  <1>8. CASE kind = "RecordSet"
    <2> DEFINE filled == RS!Adopted(spec, r, {"ttl", "description", "tags"})
    <2>1. Seen(spec, r) = Fields!Observation(filled, RS!isRecordSetUpToDate(filled, r))
      BY <1>8 DEF Seen, RS!Observe, RS!lateInitializeRecordSet,
                  RS!Observation, Fields!Observation
    <2>2. filled = Fields!Adopted(spec, r, {"ttl", "description", "tags"})
      BY DEF RS!Adopted, Fields!Adopted, RS!LateInitIfNonZero,
             Fields!LateInitIfNonZero, RS!Zero, Fields!Zero, RS!Flags, Fields!Flags,
             RS!Lists, Fields!Lists, RS!EmptyMap, Fields!EmptyMap,
             RS!EmptyBag, Fields!EmptyBag, RS!SetToBag, Fields!SetToBag
    <2>3. RS!isRecordSetUpToDate(filled, r) \in BOOLEAN
      BY DEF RS!isRecordSetUpToDate, RS!UpToDateOn, RS!SameRecords
    <2>4. {"ttl", "description", "tags"} \cap RS!Zones = {}
      BY DEF RS!Zones
    <2> QED BY <1>8, <2>1, <2>2, <2>3, <2>4
  <1> QED BY <1>1, <1>2, <1>3, <1>4, <1>5, <1>6, <1>7, <1>8, EveryKind

\* Of a subnet, the flags are adopted even if FALSE.
LEMMA SubnetSeen ==
    ASSUME kind = "Subnet", NEW spec \in KindSpecs("Subnet"),
           NEW r \in KindResources("Subnet"), SN!validateSubnetParameters(spec)
    PROVE  /\ Seen(spec, r).spec \in KindSpecs("Subnet")
           /\ Seen(spec, r).upToDate \in BOOLEAN
           /\ \A f \in FieldsOf("Subnet") :
                 spec[f] # Nil => Seen(spec, r).spec[f] = spec[f]
  <1> DEFINE k == "Subnet"
             filled == SN!lateInitializeSubnet(spec, r)
  <1>1. k \in Kinds
    BY EveryKind
  <1>2. Seen(spec, r) = Fields!Observation(filled, SN!isSubnetUpToDate(filled, r))
    BY DEF Seen, SN!Observe, SN!Observation, Fields!Observation
  <1>3. SN!isSubnetUpToDate(filled, r) \in BOOLEAN
    BY DEF SN!isSubnetUpToDate, SN!UpToDateOn
  <1>4. /\ filled = [f \in FieldsOf(k) |-> filled[f]]
        /\ \A f \in FieldsOf(k) :
             \/ filled[f] = spec[f]
             \/ /\ spec[f] = Nil /\ filled[f] = r[f]
                /\ r[f] # Fields!Zero(f) \/ f \in Fields!Flags
    <2>1. DOMAIN spec = FieldsOf(k)
      BY <1>1, SpecFields
    <2> QED BY <2>1
            DEF SN!lateInitializeSubnet, SN!Adopted, SN!LateInitPtr,
                SN!LateInitIfNonZero, SN!Zero, Fields!Zero, SN!Flags, Fields!Flags,
                SN!Lists, Fields!Lists, SN!EmptyMap, Fields!EmptyMap,
                SN!EmptyBag, Fields!EmptyBag, SN!SetToBag, Fields!SetToBag
  <1> HIDE DEF filled
  <1>5. ASSUME NEW f \in FieldsOf(k)
        PROVE  filled[f] \in SettableOf(k, f)
    <2>1. spec[f] \in SettableOf(k, f) /\ r[f] \in FilledOf(k, f)
      BY <1>1, SpecFields, ResourceFields
    <2>2. f \in RequiredOf(k) => spec[f] # Nil
      BY <1>1, RequiredIsSet
    <2> QED BY <1>1, <1>4, <2>1, <2>2, Adoptable
  <1>6. filled \in KindSpecs(k)
    BY <1>1, <1>4, <1>5, IsKindSpec
  <1>7. \A f \in FieldsOf(k) : spec[f] # Nil => filled[f] = spec[f]
    BY <1>4
  <1> QED BY <1>2, <1>3, <1>6, <1>7 DEF Fields!Observation

\* What Observe returns fits the kind, and keeps what is set.
LEMMA SeenType ==
    ASSUME NEW k \in Kinds, kind = k, NEW spec \in KindSpecs(k),
           NEW r \in KindResources(k),
           k = "Subnet" => SN!validateSubnetParameters(spec)
    PROVE  /\ Seen(spec, r).spec \in KindSpecs(k)
           /\ Seen(spec, r).upToDate \in BOOLEAN
           /\ \A f \in FieldsOf(k) :
                 spec[f] # Nil => Seen(spec, r).spec[f] = spec[f]
  <1>1. CASE k = "Subnet"
    BY <1>1, SubnetSeen
  <1>2. CASE k # "Subnet"
    <2>1. PICK F, upToDate :
            /\ Seen(spec, r) = Fields!Observation(Fields!Adopted(spec, r, F), upToDate)
            /\ upToDate \in BOOLEAN
            /\ kind = "RecordSet" => F \cap RS!Zones = {}
      BY <1>2, SeenForm
    <2>2. /\ Seen(spec, r).spec = Fields!Adopted(spec, r, F)
          /\ Seen(spec, r).upToDate = upToDate
      BY <2>1 DEF Fields!Observation
    <2> QED BY <2>1, <2>2, AdoptedType
  <1> QED BY <1>1, <1>2

----------------------------------------------------------------------------
(* What Create makes. *)

\* A list has entries, and may have one alone.
LEMMA ListEntries ==
    ASSUME NEW E
    PROVE  /\ \A L \in Fields!ListsOver(E) : DOMAIN L \in (SUBSET E) \ {{}}
           /\ \A x \in E : [e \in {x} |-> 1] \in Fields!ListsOver(E)
  <1> DEFINE lists == UNION {[1..n -> E] : n \in 1..MaxEntries}
  <1>1. Fields!ListsOver(E) = {Fields!ToBag(list) : list \in lists}
    BY DEF Fields!ListsOver
  <1>2. \A list : DOMAIN Fields!ToBag(list) = {list[i] : i \in DOMAIN list}
    BY DEF Fields!ToBag, Fields!Range
  <1>3. ASSUME NEW list \in lists
        PROVE  {list[i] : i \in DOMAIN list} \in (SUBSET E) \ {{}}
    <2>1. PICK n \in 1..MaxEntries : list \in [1..n -> E]
      OBVIOUS
    <2>2. 1 \in DOMAIN list /\ \A i \in DOMAIN list : list[i] \in E
      BY <2>1
    <2>3. list[1] \in {list[i] : i \in DOMAIN list}
      BY <2>2
    <2> QED BY <2>2, <2>3
  <1>4. ASSUME NEW x \in E
        PROVE  [e \in {x} |-> 1] \in Fields!ListsOver(E)
    <2> DEFINE list == [i \in 1..1 |-> x]
               at(e) == {i \in DOMAIN list : list[i] = e}
    <2>1. list \in lists
      <3>1. 1 \in 1..MaxEntries
        <4>1. MaxEntries \in Nat \ {0}
          BY ControllersAssumption
        <4> QED BY <4>1
      <3>2. list \in [1..1 -> E]
        OBVIOUS
      <3> HIDE DEF list
      <3> QED BY <3>1, <3>2
    <2>2. at(x) = {1}
      OBVIOUS
    <2>3. Fields!Cardinality(at(x)) = 1
      <3>1. Cardinality(at(x)) = 1
        BY <2>2, FS_Singleton
      <3> HIDE DEF at
      <3> QED BY <3>1 DEF Fields!Cardinality, Cardinality
    <2>4. {list[i] : i \in DOMAIN list} = {x}
      OBVIOUS
    <2>5. Fields!ToBag(list) = [e \in {x} |-> Fields!Cardinality(at(e))]
      BY <2>4 DEF Fields!ToBag, Fields!Range
    <2> HIDE DEF at, list
    <2>6. Fields!ToBag(list) = [e \in {x} |-> 1]
      BY <2>3, <2>5
    <2> QED BY <1>1, <2>1, <2>6
  <1> HIDE DEF lists
  <1>5. ASSUME NEW L \in Fields!ListsOver(E)
        PROVE  DOMAIN L \in (SUBSET E) \ {{}}
    <2>1. PICK list \in lists : L = Fields!ToBag(list)
      BY <1>1
    <2> QED BY <1>2, <1>3, <2>1
  <1> QED BY <1>4, <1>5

\* Lists that the service has made sets of.
LEMMA ListInCloud ==
    ASSUME NEW k \in Kinds, NEW f \in Fields!Lists
    PROVE  /\ \A S \in SUBSET Fields!Entries(f) :
                 S # {} => [e \in S |-> 1] \in FilledOf(k, f)
           /\ \A v \in FilledOf(k, f) : f \in RequiredOf(k) =>
                 \E S \in SUBSET Fields!Entries(f) : S # {} /\ v = [e \in S |-> 1]
  <1>1. /\ Fields!InCloud(f) =
             {[e \in S |-> 1] : S \in (SUBSET Fields!Entries(f)) \ {{}}}
        /\ Fields!Zero(f) = [e \in {} |-> 1]
    BY DEF Fields!InCloud, Fields!Zero, Fields!Lists, Fields!Flags,
           Fields!SetToBag, Fields!EmptyBag
  <1>2. ASSUME NEW S, S # {}
        PROVE  [e \in S |-> 1] # [e \in {} |-> 1]
    <2>1. DOMAIN [e \in S |-> 1] = S /\ DOMAIN [e \in {} |-> 1] = {}
      OBVIOUS
    <2> QED BY <1>2, <2>1
  <1> QED BY <1>1, <1>2 DEF FilledOf

\* A spec without a value that validation refuses.
WellFormed(k, spec) == \A f \in CheckedOf(k) : spec[f] # Fields!Malformed

\* build...CreateOpts sends at least what is required.
LEMMA CreatedWithType ==
    ASSUME NEW k \in Kinds, NEW spec \in KindSpecs(k), WellFormed(k, spec),
           NEW F, RequiredOf(k) \subseteq F, NEW default,
           \A f \in FieldsOf(k) : default[f] \in Fields!InCloud(f) \cup {Fields!Zero(f)}
    PROVE  LET created == Fields!CreatedWith(spec, F, default)
           IN  /\ created = [f \in FieldsOf(k) |-> created[f]]
               /\ \A f \in FieldsOf(k) \ Fields!Lists : created[f] \in FilledOf(k, f)
  <1> DEFINE created == Fields!CreatedWith(spec, F, default)
  <1>1. created = [f \in FieldsOf(k) |->
                     IF f \notin F THEN Fields!Zero(f)
                     ELSE IF spec[f] = Nil THEN default[f] ELSE spec[f]]
    BY SpecFields DEF Fields!CreatedWith, Fields!Deref
  <1> HIDE DEF created
  <1>2. ASSUME NEW f \in FieldsOf(k) \ Fields!Lists
        PROVE  created[f] \in FilledOf(k, f)
    <2>1. CASE spec[f] # Nil /\ f \in F
      <3>1. spec[f] \in SettableOf(k, f)
        BY SpecFields
      <3>2. spec[f] \in FilledOf(k, f)
        BY <2>1, <3>1, Sendable DEF WellFormed
      <3> QED BY <1>1, <2>1, <3>2
    <2>2. CASE ~(spec[f] # Nil /\ f \in F)
      <3>1. f \notin RequiredOf(k)
        BY <2>2, RequiredIsSet
      <3>2. created[f] \in Fields!InCloud(f) \cup {Fields!Zero(f)}
        BY <1>1, <2>2
      <3> QED BY <3>1, <3>2 DEF FilledOf
    <2> QED BY <2>1, <2>2
  <1>3. created = [f \in FieldsOf(k) |-> created[f]]
    BY <1>1
  <1> QED BY <1>2, <1>3 DEF created

\* The kinds without lists.
LEMMA CreatedForm ==
    ASSUME NEW k \in Kinds \ {"PrivateZone", "RecordSet"}, kind = k,
           NEW spec, NEW default \in KindResources(k)
    PROVE  \E F, chosen :
             /\ Created(spec, default) = Fields!CreatedWith(spec, F, chosen)
             /\ RequiredOf(k) \subseteq F
             /\ \A f \in FieldsOf(k) :
                   chosen[f] \in Fields!InCloud(f) \cup {Fields!Zero(f)}
  <1>1. /\ DOMAIN default = FieldsOf(k)
        /\ \A f \in FieldsOf(k) :
              default[f] \in Fields!InCloud(f) \cup {Fields!Zero(f)}
    BY ResourceFields DEF FilledOf
  <1>2. /\ \A f \in Fields!Flags : BOOLEAN \subseteq Fields!InCloud(f)
        /\ Fields!EmptyMap = Fields!Zero("tags")
        /\ \A f \in {"subnetId", "cidr"} : "" = Fields!Zero(f)
    BY DEF Fields!InCloud, Fields!Zero, Fields!Flags, Fields!Lists
  <1>3. CASE k = "Subnet"
    <2> DEFINE F == (SN!Required \cup SN!Optional) \ {"tags"}
               chosen == [default EXCEPT !["dhcpEnable"] = TRUE, !["ipv6Enable"] = FALSE]
    <2>1. Created(spec, default) = Fields!CreatedWith(spec, F, chosen)
      BY <1>3 DEF Created, SN!Create, SN!CreatedWith, Fields!CreatedWith,
                  SN!Deref, Fields!Deref, SN!Zero, Fields!Zero, SN!Flags, Fields!Flags,
                  SN!Lists, Fields!Lists, SN!EmptyMap, Fields!EmptyMap,
                  SN!EmptyBag, Fields!EmptyBag, SN!SetToBag, Fields!SetToBag
    <2>2. RequiredOf(k) \subseteq F
      BY <1>3, FieldsOfKinds DEF SN!Required
    <2>3. \A f \in FieldsOf(k) :
            chosen[f] \in Fields!InCloud(f) \cup {Fields!Zero(f)}
      BY <1>1, <1>2 DEF Fields!Flags
    <2> HIDE DEF F, chosen
    <2> QED BY <2>1, <2>2, <2>3
  <1>4. CASE k = "SecurityGroup"
    <2> DEFINE F == SG!Required \cup SG!Optional
               chosen == [default EXCEPT !["tags"] = Fields!EmptyMap]
    <2>1. Created(spec, default) = Fields!CreatedWith(spec, F, chosen)
      BY <1>4 DEF Created, SG!Create, SG!CreatedWith, Fields!CreatedWith,
                  SG!Deref, Fields!Deref, SG!Zero, Fields!Zero, SG!Flags, Fields!Flags,
                  SG!Lists, Fields!Lists, SG!EmptyMap, Fields!EmptyMap,
                  SG!EmptyBag, Fields!EmptyBag, SG!SetToBag, Fields!SetToBag
    <2>2. RequiredOf(k) \subseteq F
      BY <1>4, FieldsOfKinds DEF SG!Required
    <2>3. \A f \in FieldsOf(k) :
            chosen[f] \in Fields!InCloud(f) \cup {Fields!Zero(f)}
      BY <1>1, <1>2 DEF Fields!Flags
    <2> HIDE DEF F, chosen
    <2> QED BY <2>1, <2>2, <2>3
  <1>5. CASE k = "SecurityGroupRule"
    <2> DEFINE F == SR!Required \cup SR!Optional
    <2>1. Created(spec, default) = Fields!CreatedWith(spec, F, default)
      BY <1>5 DEF Created, SR!Create, SR!CreatedWith, Fields!CreatedWith,
                  SR!Deref, Fields!Deref, SR!Zero, Fields!Zero, SR!Flags, Fields!Flags,
                  SR!Lists, Fields!Lists, SR!EmptyMap, Fields!EmptyMap,
                  SR!EmptyBag, Fields!EmptyBag, SR!SetToBag, Fields!SetToBag
    <2>2. RequiredOf(k) \subseteq F
      BY <1>5, FieldsOfKinds DEF SR!Required
    <2> HIDE DEF F
    <2> QED BY <1>1, <2>1, <2>2
  <1>6. CASE k = "Gateway"
    <2> DEFINE F == (GW!Required \cup GW!Optional) \ {"tags"}
    <2>1. Created(spec, default) = Fields!CreatedWith(spec, F, default)
      BY <1>6 DEF Created, GW!Create, GW!CreatedWith, Fields!CreatedWith,
                  GW!Deref, Fields!Deref, GW!Zero, Fields!Zero, GW!Flags, Fields!Flags,
                  GW!Lists, Fields!Lists, GW!EmptyMap, Fields!EmptyMap,
                  GW!EmptyBag, Fields!EmptyBag, GW!SetToBag, Fields!SetToBag
    <2>2. RequiredOf(k) \subseteq F
      BY <1>6, FieldsOfKinds DEF GW!Required
    <2> HIDE DEF F
    <2> QED BY <1>1, <2>1, <2>2
  <1>7. CASE k = "SNATRule"
    <2> DEFINE F == NR!Required \cup NR!Optional
               chosen == [default EXCEPT !["subnetId"] = "", !["cidr"] = ""]
    <2>1. Created(spec, default) = Fields!CreatedWith(spec, F, chosen)
      BY <1>7 DEF Created, NR!Create, NR!CreatedWith, Fields!CreatedWith,
                  NR!Deref, Fields!Deref, NR!Zero, Fields!Zero, NR!Flags, Fields!Flags,
                  NR!Lists, Fields!Lists, NR!EmptyMap, Fields!EmptyMap,
                  NR!EmptyBag, Fields!EmptyBag, NR!SetToBag, Fields!SetToBag
    <2>2. RequiredOf(k) \subseteq F
      BY <1>7, FieldsOfKinds DEF NR!Required
    <2>3. \A f \in FieldsOf(k) :
            chosen[f] \in Fields!InCloud(f) \cup {Fields!Zero(f)}
      BY <1>1, <1>2 DEF Fields!Flags
    <2> HIDE DEF F, chosen
    <2> QED BY <2>1, <2>2, <2>3
  <1>8. CASE k = "PublicZone"
    <2> DEFINE F == (PZ!Required \cup PZ!Optional) \ {"tags"}
    <2>1. Created(spec, default) = Fields!CreatedWith(spec, F, default)
      BY <1>8 DEF Created, PZ!Create, PZ!CreatedWith, Fields!CreatedWith,
                  PZ!Deref, Fields!Deref, PZ!Zero, Fields!Zero, PZ!Flags, Fields!Flags,
                  PZ!Lists, Fields!Lists, PZ!EmptyMap, Fields!EmptyMap,
                  PZ!EmptyBag, Fields!EmptyBag, PZ!SetToBag, Fields!SetToBag
    <2>2. RequiredOf(k) \subseteq F
      BY <1>8, FieldsOfKinds DEF PZ!Required
    <2> HIDE DEF F
    <2> QED BY <1>1, <2>1, <2>2
  <1>9. CASE k = "ElasticIP"
    <2> DEFINE F == (EI!Required \cup EI!Optional) \ {"portId", "tags"}
    <2>1. Created(spec, default) = Fields!CreatedWith(spec, F, default)
      BY <1>9 DEF Created, EI!Create, EI!CreatedWith, Fields!CreatedWith,
                  EI!Deref, Fields!Deref, EI!Zero, Fields!Zero, EI!Flags, Fields!Flags,
                  EI!Lists, Fields!Lists, EI!EmptyMap, Fields!EmptyMap,
                  EI!EmptyBag, Fields!EmptyBag, EI!SetToBag, Fields!SetToBag
    <2>2. RequiredOf(k) \subseteq F
      BY <1>9, FieldsOfKinds DEF EI!Required
    <2> HIDE DEF F
    <2> QED BY <1>1, <2>1, <2>2
  <1> QED BY <1>3, <1>4, <1>5, <1>6, <1>7, <1>8, <1>9, EveryKind

\* The first VPC is one the object asks for, and has an ID.
LEMMA FirstVPCType ==
    ASSUME NEW spec \in KindSpecs("PrivateZone"), PV!validatePrivateZoneParameters(spec),
           NEW default
    PROVE  PV!FirstVPC(spec, default) \in Values
  <1> DEFINE vpcs == DOMAIN spec["vpcs"]
             chosen == vpcs \cap DOMAIN default["vpcs"]
  <1>1. spec["vpcs"] \in Fields!ListsOver(Values \cup {""})
    <2>1. "vpcs" \in FieldsOf("PrivateZone") /\ "PrivateZone" \in Kinds
      BY FieldsOfKinds, EveryKind DEF PV!Required
    <2> QED BY <2>1, SpecFields DEF SettableOf, Fields!Settable, Fields!Flags
  <1>2. vpcs \in (SUBSET (Values \cup {""})) \ {{}}
    BY <1>1, ListEntries
  <1>3. "" \notin vpcs
    BY DEF PV!validatePrivateZoneParameters, PV!BagToSet
  <1>4. \E v \in vpcs : chosen # {} => v \in chosen
    BY <1>2
  <1>5. (CHOOSE v \in vpcs : chosen # {} => v \in chosen) \in vpcs
    BY <1>4
  <1>6. PV!FirstVPC(spec, default) = CHOOSE v \in vpcs : chosen # {} => v \in chosen
    BY DEF PV!FirstVPC, PV!BagToSet
  <1> QED BY <1>2, <1>3, <1>5, <1>6

\* A private zone is created with the first of its VPCs.
LEMMA PrivateZoneCreated ==
    ASSUME kind = "PrivateZone", NEW spec \in KindSpecs(kind),
           NEW default \in KindResources(kind), ~CreateRejects(spec)
    PROVE  Created(spec, default) \in KindResources(kind)
  <1> DEFINE k == "PrivateZone"
             F == (PV!Required \cup PV!Optional) \ {"tags"}
             basic == Fields!CreatedWith(spec, F, default)
             first == PV!FirstVPC(spec, default)
             created == [basic EXCEPT !["vpcs"] = [e \in {first} |-> 1]]
  <1>1. Created(spec, default) = created
    BY DEF Created, PV!Create, PV!CreatedWith, Fields!CreatedWith, PV!SetToBag,
           PV!Deref, Fields!Deref, PV!Zero, Fields!Zero, PV!Flags, Fields!Flags,
           PV!Lists, Fields!Lists, PV!EmptyMap, Fields!EmptyMap,
           PV!EmptyBag, Fields!EmptyBag, Fields!SetToBag
  <1>2. k \in Kinds /\ RequiredOf(k) \subseteq F /\ WellFormed(k, spec)
    BY FieldsOfKinds, FieldFacts, EveryKind DEF PV!Required, WellFormed
  <1>3. \A f \in FieldsOf(k) :
          default[f] \in Fields!InCloud(f) \cup {Fields!Zero(f)}
    BY <1>2, ResourceFields DEF FilledOf
  <1> HIDE DEF F, basic, first
  <1>4. /\ basic = [f \in FieldsOf(k) |-> basic[f]]
        /\ \A f \in FieldsOf(k) \ Fields!Lists : basic[f] \in FilledOf(k, f)
    BY <1>2, <1>3, CreatedWithType DEF basic
  <1>5. first \in Values
    BY FirstVPCType DEF first, CreateRejects
  <1>6. [e \in {first} |-> 1] \in FilledOf(k, "vpcs")
    BY <1>2, <1>5, ListInCloud DEF Fields!Lists, Fields!Entries
  <1>7. FieldsOf(k) \cap Fields!Lists = {"vpcs"}
    BY FieldsOfKinds DEF PV!Required, PV!Optional, Fields!Lists
  <1>8. /\ created = [f \in FieldsOf(k) |-> created[f]]
        /\ \A f \in FieldsOf(k) : created[f] \in FilledOf(k, f)
    BY <1>4, <1>6, <1>7
  <1> QED BY <1>1, <1>2, <1>8, IsKindResource

\* The records sent are a set of records the service keeps.
LEMMA SentRecordsType ==
    ASSUME NEW spec \in KindSpecs("RecordSet")
    PROVE  RS!SentRecords(spec) \in FilledOf("RecordSet", "records")
  <1> DEFINE records == spec["records"]
             sent == DOMAIN RS!quoteTXTRecords(spec["type"], records)
  <1>1. "records" \in FieldsOf("RecordSet") /\ "RecordSet" \in Kinds
    BY FieldsOfKinds, EveryKind DEF RS!Required
  <1>2. records \in Fields!ListsOver(0..1)
    BY <1>1, SpecFields DEF SettableOf, Fields!Settable, Fields!Flags
  <1>3. DOMAIN records \in (SUBSET (0..1)) \ {{}}
    BY <1>2, ListEntries
  <1>4. sent = IF spec["type"] # "TXT" THEN DOMAIN records
               ELSE {r + 1 : r \in DOMAIN records}
    BY DEF RS!quoteTXTRecords, RS!BagOfAll, RS!BagToSet
  <1> HIDE DEF records
  <1>5. sent \in (SUBSET (0..2)) \ {{}}
    BY <1>3, <1>4
  <1>6. RS!SentRecords(spec) = [e \in sent |-> 1]
    BY DEF RS!SentRecords, RS!SetToBag, RS!BagToSet, records
  <1> HIDE DEF sent
  <1>7. [e \in sent |-> 1] \in FilledOf("RecordSet", "records")
    BY <1>1, <1>5, ListInCloud DEF Fields!Lists, Fields!Entries
  <1> QED BY <1>6, <1>7

\* A record set is created with its records as they are sent.
LEMMA RecordSetCreated ==
    ASSUME kind = "RecordSet", NEW spec \in KindSpecs(kind),
           NEW default \in KindResources(kind)
    PROVE  Created(spec, default) \in KindResources(kind)
  <1> DEFINE k == "RecordSet"
             F == (RS!Required \cup RS!Optional) \ {"tags"}
             chosen == [default EXCEPT !["privateZoneId"] = "", !["publicZoneId"] = ""]
             basic == Fields!CreatedWith(spec, F, chosen)
             created == [basic EXCEPT !["records"] = RS!SentRecords(spec)]
  <1>1. Created(spec, default) = created
    BY DEF Created, RS!Create, RS!CreatedWith, Fields!CreatedWith,
           RS!Deref, Fields!Deref, RS!Zero, Fields!Zero, RS!Flags, Fields!Flags,
           RS!Lists, Fields!Lists, RS!EmptyMap, Fields!EmptyMap,
           RS!EmptyBag, Fields!EmptyBag, RS!SetToBag, Fields!SetToBag
  <1>2. k \in Kinds /\ RequiredOf(k) \subseteq F /\ WellFormed(k, spec)
    BY FieldsOfKinds, FieldFacts, EveryKind DEF RS!Required, WellFormed
  <1>3. \A f \in FieldsOf(k) :
          chosen[f] \in Fields!InCloud(f) \cup {Fields!Zero(f)}
    <2>1. /\ DOMAIN default = FieldsOf(k)
          /\ \A f \in FieldsOf(k) :
                default[f] \in Fields!InCloud(f) \cup {Fields!Zero(f)}
      BY <1>2, ResourceFields DEF FilledOf
    <2>2. \A f \in {"privateZoneId", "publicZoneId"} : "" = Fields!Zero(f)
      BY DEF Fields!Zero, Fields!Flags, Fields!Lists
    <2> QED BY <2>1, <2>2
  <1> HIDE DEF F, chosen, basic
  <1>4. /\ basic = [f \in FieldsOf(k) |-> basic[f]]
        /\ \A f \in FieldsOf(k) \ Fields!Lists : basic[f] \in FilledOf(k, f)
    BY <1>2, <1>3, CreatedWithType DEF basic
  <1>5. RS!SentRecords(spec) \in FilledOf(k, "records")
    BY SentRecordsType
  <1>6. FieldsOf(k) \cap Fields!Lists = {"records"}
    BY FieldsOfKinds DEF RS!Required, RS!Optional, RS!Zones, Fields!Lists
  <1>7. /\ created = [f \in FieldsOf(k) |-> created[f]]
        /\ \A f \in FieldsOf(k) : created[f] \in FilledOf(k, f)
    BY <1>4, <1>5, <1>6
  <1> QED BY <1>1, <1>2, <1>7, IsKindResource

\* A creation that is not refused makes a resource of the kind.
LEMMA CreatedType ==
    ASSUME NEW k \in Kinds, kind = k, NEW spec \in KindSpecs(k),
           NEW default \in KindResources(k), ~CreateRejects(spec)
    PROVE  Created(spec, default) \in KindResources(k)
  <1>1. CASE k = "PrivateZone"
    BY <1>1, PrivateZoneCreated
  <1>2. CASE k = "RecordSet"
    BY <1>2, RecordSetCreated
  <1>3. CASE k \notin {"PrivateZone", "RecordSet"}
    <2>1. PICK F, chosen :
            /\ Created(spec, default) = Fields!CreatedWith(spec, F, chosen)
            /\ RequiredOf(k) \subseteq F
            /\ \A f \in FieldsOf(k) :
                  chosen[f] \in Fields!InCloud(f) \cup {Fields!Zero(f)}
      BY <1>3, CreatedForm
    <2>2. WellFormed(k, spec)
      BY FieldFacts DEF WellFormed, CheckedOf, CreateRejects, SN!validateSubnetParameters,
                        SN!Malformed, Fields!Malformed
    <2>3. FieldsOf(k) \cap Fields!Lists = {}
      BY <1>3, FieldFacts DEF Fields!Lists
    <2> QED BY <2>1, <2>2, <2>3, CreatedWithType, IsKindResource
  <1> QED BY <1>1, <1>2, <1>3

----------------------------------------------------------------------------
(* What Update makes of a resource. *)

\* What the calls of an Update for spec may leave of the resource r: what is
\* not set is left alone but for the port of an address, a record set stays
\* in its zone, and a private zone keeps the VPCs that are asked for.
Reached(k, spec, r) ==
    {x \in KindResources(k) :
        /\ \A f \in FieldsOf(k) \ {"portId"} : spec[f] = Nil => x[f] = r[f]
        /\ k = "RecordSet" => \A f \in RS!Zones : x[f] = r[f]
        /\ k = "PrivateZone" =>
              BagToSet(r["vpcs"]) \cap BagToSet(spec["vpcs"]) \subseteq BagToSet(x["vpcs"])}

\* Some calls, each of which leaves one of the resources S.
CallsTo(S) == {calls \in Seq(S) : Len(calls) > 0}

\* An Update may leave the resource as it was.
LEMMA NothingReached ==
    ASSUME NEW k \in Kinds, NEW spec, NEW r \in KindResources(k)
    PROVE  r \in Reached(k, spec, r)
  BY DEF Reached

\* A field that is set may change.
LEMMA ChangeReached ==
    ASSUME NEW k \in Kinds, NEW spec, NEW r, NEW x \in Reached(k, spec, r),
           NEW f \in FieldsOf(k), f \notin {"vpcs"} \cup RS!Zones,
           spec[f] # Nil \/ f = "portId", NEW v \in FilledOf(k, f)
    PROVE  [x EXCEPT ![f] = v] \in Reached(k, spec, r)
  <1> DEFINE y == [x EXCEPT ![f] = v]
  <1>1. /\ x \in KindResources(k) /\ DOMAIN x = FieldsOf(k)
        /\ \A g \in FieldsOf(k) : x[g] \in FilledOf(k, g)
    BY ResourceFields DEF Reached
  <1>2. x = [g \in FieldsOf(k) |-> x[g]]
    BY <1>1 DEF KindResources
  <1>3. y = [g \in FieldsOf(k) |-> IF g = f THEN v ELSE x[g]]
    BY <1>1
  <1> HIDE DEF y
  <1>4. y \in KindResources(k)
    BY <1>1, <1>3, IsKindResource
  <1>5. k = "RecordSet" => RS!Zones \subseteq FieldsOf(k)
    BY FieldsOfKinds DEF RS!Optional
  <1>6. k = "PrivateZone" => "vpcs" \in FieldsOf(k)
    BY FieldsOfKinds DEF PV!Required
  <1>7. \A g \in FieldsOf(k) \ {"portId"} : spec[g] = Nil => y[g] = r[g]
    BY <1>3 DEF Reached
  <1>8. k = "RecordSet" => \A g \in RS!Zones : y[g] = r[g]
    BY <1>3, <1>5 DEF Reached
  <1>9. k = "PrivateZone" => y["vpcs"] = x["vpcs"]
    BY <1>3, <1>6
  <1> QED BY <1>4, <1>7, <1>8, <1>9 DEF Reached, y

\* The outcomes of an update call that sends no list and no zone.
LEMMA AfterCallReached ==
    ASSUME NEW k \in Kinds, NEW spec \in KindSpecs(k), WellFormed(k, spec),
           NEW r \in KindResources(k), NEW F, NEW plain,
           F \cap (Fields!Lists \cup RS!Zones) = {},
           NEW x \in Fields!AfterCall(spec, r, F, plain)
    PROVE  x \in Reached(k, spec, r)
  <1>1. /\ DOMAIN r = FieldsOf(k)
        /\ \A f \in FieldsOf(k) : r[f] \in FilledOf(k, f)
    BY ResourceFields
  <1>2. PICK dropped :
          x = [f \in FieldsOf(k) |->
                 IF f \in F \ dropped /\ spec[f] # Nil THEN spec[f] ELSE r[f]]
    <2>1. PICK dropped :
            x = [f \in DOMAIN r |->
                   IF f \in F \ dropped THEN Fields!Deref(spec[f], r[f]) ELSE r[f]]
      BY DEF Fields!AfterCall
    <2>2. x = [f \in FieldsOf(k) |->
                 IF f \in F \ dropped /\ spec[f] # Nil THEN spec[f] ELSE r[f]]
      BY <1>1, <2>1 DEF Fields!Deref
    <2> QED BY <2>2
  <1>3. ASSUME NEW f \in FieldsOf(k)
        PROVE  x[f] \in FilledOf(k, f)
    <2>1. CASE f \in F \ dropped /\ spec[f] # Nil
      <3>1. spec[f] \in SettableOf(k, f)
        BY SpecFields
      <3>2. spec[f] \in FilledOf(k, f)
        BY <2>1, <3>1, Sendable DEF WellFormed
      <3> QED BY <1>2, <2>1, <3>2
    <2>2. CASE ~(f \in F \ dropped /\ spec[f] # Nil)
      BY <1>1, <1>2, <2>2
    <2> QED BY <2>1, <2>2
  <1>4. x = [f \in FieldsOf(k) |-> x[f]]
    BY <1>2
  <1>5. x \in KindResources(k)
    BY <1>3, <1>4, IsKindResource
  <1>6. \A f \in FieldsOf(k) : spec[f] = Nil => x[f] = r[f]
    BY <1>2
  <1>7. k = "RecordSet" => \A f \in RS!Zones : x[f] = r[f]
    BY <1>2, FieldsOfKinds DEF RS!Optional
  <1>8. k = "PrivateZone" => x["vpcs"] = r["vpcs"]
    BY <1>2, FieldsOfKinds DEF PV!Required, Fields!Lists
  <1> QED BY <1>5, <1>6, <1>7, <1>8 DEF Reached

\* The tag helpers return tag maps.
LEMMA TagOperations ==
    ASSUME NEW a \in Fields!TagMaps, NEW b \in Fields!TagMaps
    PROVE  /\ Fields!TagDiff(a, b) \in Fields!TagMaps
           /\ Fields!TagsWritten(a, b) \in Fields!TagMaps
           /\ Fields!TagsDeletedByKey(a, b) \in Fields!TagMaps
           /\ Fields!TagsDeletedByPair(a, b) \in Fields!TagMaps
  <1>1. ASSUME NEW t \in Fields!TagMaps
        PROVE  DOMAIN t \in SUBSET TagKeys /\ t \in [DOMAIN t -> TagValues]
    BY <1>1 DEF Fields!TagMaps
  <1>2. ASSUME NEW K \in SUBSET TagKeys, NEW t \in [K -> TagValues]
        PROVE  t \in Fields!TagMaps
    BY DEF Fields!TagMaps
  <1>3. ASSUME NEW S \in SUBSET DOMAIN a
        PROVE  Fields!Restrict(a, S) \in Fields!TagMaps
    <2>1. Fields!Restrict(a, S) \in [S -> TagValues]
      BY <1>1 DEF Fields!Restrict
    <2>2. S \in SUBSET TagKeys
      BY <1>1
    <2> QED BY <1>2, <2>1, <2>2
  <1>4. Fields!TagsWritten(a, b) \in Fields!TagMaps
    <2>1. Fields!TagsWritten(a, b) \in [DOMAIN a \cup DOMAIN b -> TagValues]
      BY <1>1 DEF Fields!TagsWritten
    <2>2. DOMAIN a \cup DOMAIN b \in SUBSET TagKeys
      BY <1>1
    <2> QED BY <1>2, <2>1, <2>2
  <1> QED BY <1>3, <1>4
          DEF Fields!TagDiff, Fields!TagsDeletedByKey, Fields!TagsDeletedByPair

\* reconcileTags changes tags that are set, and nothing else.
LEMMA TagCallsReached ==
    ASSUME NEW k \in Kinds, "tags" \in FieldsOf(k), NEW spec \in KindSpecs(k),
           NEW r \in KindResources(k), NEW observed \in KindResources(k),
           NEW x \in Reached(k, spec, r),
           NEW calls \in Fields!TagCalls(spec, observed, x)
    PROVE  calls \in Seq(Reached(k, spec, r))
  <1> DEFINE written == Fields!TagsWritten(x["tags"],
                                           Fields!TagDiff(spec["tags"], observed["tags"]))
             extra == Fields!TagDiff(observed["tags"], spec["tags"])
             With(tags) == [x EXCEPT !["tags"] = tags]
  <1>1. CASE spec["tags"] = Nil
    <2>1. calls = <<>>
      BY <1>1 DEF Fields!TagCalls
    <2> QED BY <2>1
  <1>2. CASE spec["tags"] # Nil
    <2>1. /\ spec["tags"] \in Fields!TagMaps /\ observed["tags"] \in Fields!TagMaps
          /\ x["tags"] \in Fields!TagMaps
      <3>1. ASSUME NEW y \in KindResources(k)
            PROVE  y["tags"] \in Fields!TagMaps
        <4>1. y["tags"] \in FilledOf(k, "tags")
          BY ResourceFields
        <4>2. Fields!EmptyMap \in Fields!TagMaps
          <5>1. Fields!EmptyMap \in [{} -> TagValues]
            BY DEF Fields!EmptyMap
          <5> QED BY <5>1 DEF Fields!TagMaps
        <4> QED BY <4>1, <4>2 DEF FilledOf, Fields!InCloud, Fields!Zero,
                                 Fields!Flags, Fields!Lists
      <3>2. spec["tags"] \in SettableOf(k, "tags")
        BY SpecFields
      <3>3. spec["tags"] \in Fields!TagMaps
        BY <1>2, <3>2 DEF SettableOf, Fields!Settable, Fields!Flags
      <3> QED BY <3>1, <3>3 DEF Reached
    <2>2. extra \in Fields!TagMaps /\ written \in Fields!TagMaps
      BY <2>1, TagOperations
    <2>3. /\ Fields!TagsDeletedByKey(written, extra) \in Fields!TagMaps
          /\ Fields!TagsDeletedByPair(written, extra) \in Fields!TagMaps
      BY <2>2, TagOperations
    <2>4. calls \in {<<With(written), With(Fields!TagsDeletedByKey(written, extra))>>,
                     <<With(written), With(Fields!TagsDeletedByPair(written, extra))>>}
      BY <1>2 DEF Fields!TagCalls
    <2>5. ASSUME NEW t \in Fields!TagMaps
          PROVE  With(t) \in Reached(k, spec, r)
      <3>1. t \in FilledOf(k, "tags")
        BY FieldFacts DEF FilledOf, Fields!InCloud, Fields!Flags, Fields!Lists
      <3> QED BY <1>2, <3>1, ChangeReached DEF RS!Zones
    <2>6. \A p, q \in Reached(k, spec, r) : <<p, q>> \in Seq(Reached(k, spec, r))
      OBVIOUS
    <2> HIDE DEF written, extra, With
    <2> QED BY <2>2, <2>3, <2>4, <2>5, <2>6
  <1> QED BY <1>1, <1>2

\* One call, or two, and then the tags.
LEMMA ThenTags ==
    ASSUME NEW k \in Kinds, "tags" \in FieldsOf(k), NEW spec \in KindSpecs(k),
           NEW r \in KindResources(k),
           NEW first \in CallsTo(Reached(k, spec, r)),
           NEW tagged \in Fields!TagCalls(spec, r, first[Len(first)])
    PROVE  first \o tagged \in CallsTo(Reached(k, spec, r))
  <1>1. first \in Seq(Reached(k, spec, r)) /\ Len(first) \in Nat \ {0}
    BY LenProperties DEF CallsTo
  <1>2. first[Len(first)] \in Reached(k, spec, r)
    BY <1>1, ElementOfSeq
  <1>3. tagged \in Seq(Reached(k, spec, r))
    BY <1>2, TagCallsReached
  <1> QED BY <1>1, <1>3, ConcatProperties, LenProperties DEF CallsTo

\* A single call.
LEMMA OneCall ==
    ASSUME NEW S, NEW x \in S
    PROVE  /\ <<x>> \in CallsTo(S)
           /\ Len(<<x>>) = 1 /\ <<x>>[Len(<<x>>)] = x
  BY DEF CallsTo

\* A call, and the calls for the tags.
LEMMA CallThenTags ==
    ASSUME NEW k \in Kinds, "tags" \in FieldsOf(k), NEW spec \in KindSpecs(k),
           NEW r \in KindResources(k), NEW x \in Reached(k, spec, r),
           NEW tagged \in Fields!TagCalls(spec, r, x)
    PROVE  <<x>> \o tagged \in CallsTo(Reached(k, spec, r))
  BY OneCall, ThenTags

\* The calls of each kind, in what they reach.
LEMMA SubnetUpdate ==
    ASSUME kind = "Subnet", NEW spec \in KindSpecs(kind),
           NEW r \in KindResources(kind), NEW calls \in UpdateCalls(spec, r)
    PROVE  calls \in CallsTo(Reached(kind, spec, r))
  <1> DEFINE F == {"name", "description", "primaryDns", "secondaryDns", "dnsList",
                   "dhcpEnable", "ntpAddresses"}
  <1>1. kind \in Kinds /\ "tags" \in FieldsOf(kind)
    BY EveryKind, FieldsOfKinds DEF SN!Optional
  <1>2. PICK x \in SN!AfterUpdateCall(spec, r) :
          \E tagged \in SN!TagCalls(spec, r, x) : calls = <<x>> \o tagged
    BY DEF UpdateCalls, SN!Update
  <1>3. WellFormed(kind, spec)
    BY <1>2 DEF WellFormed, CheckedOf, SN!validateSubnetParameters,
                SN!Malformed, Fields!Malformed, UpdateCalls, SN!Update
  <1>4. x \in Fields!AfterCall(spec, r, F, SN!ByValue)
    BY DEF SN!AfterUpdateCall, SN!AfterCall, Fields!AfterCall, SN!Deref, Fields!Deref,
             SN!Zero, Fields!Zero, SN!Flags, Fields!Flags, SN!Lists, Fields!Lists,
             SN!EmptyMap, Fields!EmptyMap, SN!EmptyBag, Fields!EmptyBag,
             SN!SetToBag, Fields!SetToBag
  <1>5. SN!TagCalls(spec, r, x) = Fields!TagCalls(spec, r, x)
    BY DEF SN!TagCalls, Fields!TagCalls, SN!TagsWritten, Fields!TagsWritten,
             SN!TagDiff, Fields!TagDiff, SN!TagsDeletedByKey,
             Fields!TagsDeletedByKey, SN!TagsDeletedByPair,
             Fields!TagsDeletedByPair, SN!Restrict, Fields!Restrict
  <1>6. F \cap (Fields!Lists \cup RS!Zones) = {}
    BY DEF Fields!Lists, RS!Zones
  <1> HIDE DEF F
  <1>7. x \in Reached(kind, spec, r)
    BY <1>1, <1>3, <1>4, <1>6, AfterCallReached
  <1> QED BY <1>1, <1>2, <1>5, <1>7, CallThenTags

\* A NAT gateway is sent what differs, and its tags.
LEMMA GatewayUpdate ==
    ASSUME kind = "Gateway", NEW spec \in KindSpecs(kind),
           NEW r \in KindResources(kind), NEW calls \in UpdateCalls(spec, r)
    PROVE  calls \in CallsTo(Reached(kind, spec, r))
  <1> DEFINE F == {"name", "size", "description"}
  <1>1. kind \in Kinds /\ "tags" \in FieldsOf(kind)
    BY EveryKind, FieldsOfKinds DEF GW!Optional
  <1>2. PICK x \in GW!AfterUpdateCall(spec, r) :
          \E tagged \in GW!TagCalls(spec, r, x) : calls = <<x>> \o tagged
    BY DEF UpdateCalls, GW!Update
  <1>3. WellFormed(kind, spec)
    BY <1>1, FieldFacts DEF WellFormed
  <1>4. x \in Fields!AfterCall(spec, r, F, GW!ByValue)
    BY DEF GW!AfterUpdateCall, GW!AfterCall, Fields!AfterCall, GW!Deref, Fields!Deref,
             GW!Zero, Fields!Zero, GW!Flags, Fields!Flags, GW!Lists, Fields!Lists,
             GW!EmptyMap, Fields!EmptyMap, GW!EmptyBag, Fields!EmptyBag,
             GW!SetToBag, Fields!SetToBag
  <1>5. GW!TagCalls(spec, r, x) = Fields!TagCalls(spec, r, x)
    BY DEF GW!TagCalls, Fields!TagCalls, GW!TagsWritten, Fields!TagsWritten,
             GW!TagDiff, Fields!TagDiff, GW!TagsDeletedByKey,
             Fields!TagsDeletedByKey, GW!TagsDeletedByPair,
             Fields!TagsDeletedByPair, GW!Restrict, Fields!Restrict
  <1>6. F \cap (Fields!Lists \cup RS!Zones) = {}
    BY DEF Fields!Lists, RS!Zones
  <1> HIDE DEF F
  <1>7. x \in Reached(kind, spec, r)
    BY <1>1, <1>3, <1>4, <1>6, AfterCallReached
  <1> QED BY <1>1, <1>2, <1>5, <1>7, CallThenTags

\* A public zone is sent what differs, and its tags.
LEMMA PublicZoneUpdate ==
    ASSUME kind = "PublicZone", NEW spec \in KindSpecs(kind),
           NEW r \in KindResources(kind), NEW calls \in UpdateCalls(spec, r)
    PROVE  calls \in CallsTo(Reached(kind, spec, r))
  <1> DEFINE F == PZ!ByValue
  <1>1. kind \in Kinds /\ "tags" \in FieldsOf(kind)
    BY EveryKind, FieldsOfKinds DEF PZ!Optional
  <1>2. PICK x \in PZ!AfterUpdateCall(spec, r) :
          \E tagged \in PZ!TagCalls(spec, r, x) : calls = <<x>> \o tagged
    BY DEF UpdateCalls, PZ!Update
  <1>3. WellFormed(kind, spec)
    BY <1>1, FieldFacts DEF WellFormed
  <1>4. x \in Fields!AfterCall(spec, r, F, PZ!ByValue)
    BY DEF PZ!AfterUpdateCall, PZ!AfterCall, Fields!AfterCall, PZ!Deref, Fields!Deref,
             PZ!Zero, Fields!Zero, PZ!Flags, Fields!Flags, PZ!Lists, Fields!Lists,
             PZ!EmptyMap, Fields!EmptyMap, PZ!EmptyBag, Fields!EmptyBag,
             PZ!SetToBag, Fields!SetToBag
  <1>5. PZ!TagCalls(spec, r, x) = Fields!TagCalls(spec, r, x)
    BY DEF PZ!TagCalls, Fields!TagCalls, PZ!TagsWritten, Fields!TagsWritten,
             PZ!TagDiff, Fields!TagDiff, PZ!TagsDeletedByKey,
             Fields!TagsDeletedByKey, PZ!TagsDeletedByPair,
             Fields!TagsDeletedByPair, PZ!Restrict, Fields!Restrict
  <1>6. F \cap (Fields!Lists \cup RS!Zones) = {}
    BY DEF Fields!Lists, RS!Zones, PZ!ByValue
  <1> HIDE DEF F
  <1>7. x \in Reached(kind, spec, r)
    BY <1>1, <1>3, <1>4, <1>6, AfterCallReached
  <1> QED BY <1>1, <1>2, <1>5, <1>7, CallThenTags

\* A security group is sent its name and description.
LEMMA SecurityGroupUpdate ==
    ASSUME kind = "SecurityGroup", NEW spec \in KindSpecs(kind),
           NEW r \in KindResources(kind), NEW calls \in UpdateCalls(spec, r)
    PROVE  calls \in CallsTo(Reached(kind, spec, r))
  <1> DEFINE F == {"name", "description"}
  <1>1. kind \in Kinds /\ WellFormed(kind, spec)
    BY EveryKind, FieldFacts DEF WellFormed
  <1>2. PICK x \in SG!AfterCall(spec, r, F, SG!ByValue) : calls = <<x>>
    BY DEF UpdateCalls, SG!Update
  <1>3. x \in Fields!AfterCall(spec, r, F, SG!ByValue)
    BY DEF SG!AfterCall, Fields!AfterCall, SG!Deref, Fields!Deref,
             SG!Zero, Fields!Zero, SG!Flags, Fields!Flags, SG!Lists, Fields!Lists,
             SG!EmptyMap, Fields!EmptyMap, SG!EmptyBag, Fields!EmptyBag,
             SG!SetToBag, Fields!SetToBag
  <1>4. F \cap (Fields!Lists \cup RS!Zones) = {}
    BY DEF Fields!Lists, RS!Zones
  <1> HIDE DEF F
  <1>5. x \in Reached(kind, spec, r)
    BY <1>1, <1>3, <1>4, AfterCallReached
  <1> QED BY <1>2, <1>5, OneCall

\* An address gets its bandwidth, its size and its port, then its tags.
LEMMA ElasticIPUpdate ==
    ASSUME kind = "ElasticIP", NEW spec \in KindSpecs(kind),
           NEW r \in KindResources(kind), NEW calls \in UpdateCalls(spec, r)
    PROVE  calls \in CallsTo(Reached(kind, spec, r))
  <1> DEFINE named == [r EXCEPT !["bandwidth"] = spec["bandwidth"]]
             resized == [named EXCEPT !["size"] = spec["size"]]
             port == IF spec["portId"] = Nil THEN "" ELSE spec["portId"]
             bound == [resized EXCEPT !["portId"] = port]
  <1>1. /\ kind \in Kinds /\ DOMAIN r = FieldsOf(kind)
        /\ {"bandwidth", "size", "portId", "tags"} \subseteq FieldsOf(kind)
        /\ {"bandwidth", "size"} \subseteq RequiredOf(kind)
        /\ CheckedOf(kind) = {}
    BY EveryKind, FieldsOfKinds, FieldFacts, ResourceFields DEF EI!Required, EI!Optional
  <1>2. resized = EI!AfterBandwidth(spec, r) /\ bound = EI!AfterPortBinding(spec, r)
    BY <1>1 DEF EI!AfterBandwidth, EI!AfterPortBinding, EI!Deref
  <1>3. PICK tagged \in EI!TagCalls(spec, r, bound) :
          calls = <<resized, bound>> \o tagged
    BY <1>2 DEF UpdateCalls, EI!Update
  <1>4. EI!TagCalls(spec, r, bound) = Fields!TagCalls(spec, r, bound)
    BY DEF EI!TagCalls, Fields!TagCalls, EI!TagsWritten, Fields!TagsWritten,
             EI!TagDiff, Fields!TagDiff, EI!TagsDeletedByKey,
             Fields!TagsDeletedByKey, EI!TagsDeletedByPair,
             Fields!TagsDeletedByPair, EI!Restrict, Fields!Restrict
  <1>5. ASSUME NEW f \in {"bandwidth", "size", "portId"}, spec[f] # Nil
        PROVE  spec[f] \in FilledOf(kind, f)
    <2>1. spec[f] \in SettableOf(kind, f)
      BY <1>1, SpecFields
    <2> QED BY <1>1, <1>5, <2>1, Sendable DEF Fields!Lists
  <1>6. spec["bandwidth"] # Nil /\ spec["size"] # Nil
    BY <1>1, RequiredIsSet
  <1>7. named \in Reached(kind, spec, r)
    BY <1>1, <1>5, <1>6, NothingReached, ChangeReached DEF RS!Zones
  <1> HIDE DEF named
  <1>8. resized \in Reached(kind, spec, r)
    BY <1>1, <1>5, <1>6, <1>7, ChangeReached DEF RS!Zones
  <1>9. port \in FilledOf(kind, "portId")
    <2>1. "" \in FilledOf(kind, "portId")
      BY FieldsOfKinds
         DEF FilledOf, EI!Required, Fields!Zero, Fields!Flags, Fields!Lists
    <2> QED BY <1>5, <2>1
  <1> HIDE DEF resized, port
  <1>10. bound \in Reached(kind, spec, r)
    BY <1>1, <1>8, <1>9, ChangeReached DEF RS!Zones
  <1> HIDE DEF bound
  <1>11. /\ <<resized, bound>> \in CallsTo(Reached(kind, spec, r))
         /\ <<resized, bound>>[Len(<<resized, bound>>)] = bound
    BY <1>8, <1>10 DEF CallsTo
  <1> QED BY <1>1, <1>3, <1>4, <1>11, ThenTags

\* A record set is sent what differs, its records and its tags.
LEMMA RecordSetUpdate ==
    ASSUME kind = "RecordSet", NEW spec \in KindSpecs(kind),
           NEW r \in KindResources(kind), NEW calls \in UpdateCalls(spec, r)
    PROVE  calls \in CallsTo(Reached(kind, spec, r))
  <1>1. /\ kind \in Kinds /\ "tags" \in FieldsOf(kind)
        /\ "records" \in RequiredOf(kind) /\ "records" \in FieldsOf(kind)
    BY EveryKind, FieldsOfKinds DEF RS!Required, RS!Optional
  <1>2. PICK x \in RS!AfterUpdateCall(spec, r) :
          \E tagged \in RS!TagCalls(spec, r, x) : calls = <<x>> \o tagged
    BY DEF UpdateCalls, RS!Update
  <1>3. RS!TagCalls(spec, r, x) = Fields!TagCalls(spec, r, x)
    BY DEF RS!TagCalls, Fields!TagCalls, RS!TagsWritten, Fields!TagsWritten,
             RS!TagDiff, Fields!TagDiff, RS!TagsDeletedByKey,
             Fields!TagsDeletedByKey, RS!TagsDeletedByPair,
             Fields!TagsDeletedByPair, RS!Restrict, Fields!Restrict
  <1>4. x \in Reached(kind, spec, r)
    <2>1. CASE x = r
      BY <1>1, <2>1, NothingReached
    <2>2. CASE x # r
      <3>1. PICK s \in RS!AfterCall(spec, r, RS!ByValue, RS!ByValue) :
              x = [s EXCEPT !["records"] = RS!SentRecords(spec)]
        BY <2>2 DEF RS!AfterUpdateCall
      <3>2. s \in Fields!AfterCall(spec, r, RS!ByValue, RS!ByValue)
        BY DEF RS!AfterCall, Fields!AfterCall, RS!Deref, Fields!Deref,
               RS!Zero, Fields!Zero, RS!Flags, Fields!Flags, RS!Lists, Fields!Lists,
               RS!EmptyMap, Fields!EmptyMap, RS!EmptyBag, Fields!EmptyBag,
               RS!SetToBag, Fields!SetToBag
      <3>3. WellFormed(kind, spec) /\ RS!ByValue \cap (Fields!Lists \cup RS!Zones) = {}
        BY <1>1, FieldFacts DEF WellFormed, RS!ByValue, Fields!Lists, RS!Zones
      <3>4. s \in Reached(kind, spec, r)
        BY <1>1, <3>2, <3>3, AfterCallReached
      <3>5. RS!SentRecords(spec) \in FilledOf(kind, "records") /\ spec["records"] # Nil
        BY <1>1, SentRecordsType, RequiredIsSet
      <3> QED BY <1>1, <3>1, <3>4, <3>5, ChangeReached DEF RS!Zones
    <2> QED BY <2>1, <2>2
  <1> QED BY <1>1, <1>2, <1>3, <1>4, CallThenTags

----------------------------------------------------------------------------
(* The VPCs of a private zone. *)

\* A function of 1..n is a sequence.
LEMMA SequenceOf ==
    ASSUME NEW S, NEW n \in Nat, NEW s \in [1..n -> S]
    PROVE  s \in Seq(S) /\ Len(s) = n
  OBVIOUS

\* The module of private zones takes bags as this one does.
LEMMA VPCOperators ==
    /\ \A L : PV!BagToSet(L) = BagToSet(L)
    /\ \A s : PV!ToSet(s) = {s[i] : i \in DOMAIN s}
    /\ \A s : PV!Last(s) = s[Len(s)]
    /\ \A zone, S : PV!WithVPCs(zone, S) = [zone EXCEPT !["vpcs"] = [e \in S |-> 1]]
  BY DEF PV!BagToSet, BagToSet, PV!ToSet, PV!Last, PV!WithVPCs, PV!SetToBag

\* An order in which to name finitely many VPCs.
LEMMA Orders ==
    ASSUME NEW S, S \subseteq Values, NEW vs \in PV!SetToSeqs(S)
    PROVE  vs \in Seq(S)
  <1>1. IsFiniteSet(Values)
    BY ControllersAssumption
  <1>2. Cardinality(S) \in Nat
    BY <1>1, FS_Subset, FS_CardinalityType
  <1>3. PV!Cardinality(S) = Cardinality(S)
    BY DEF PV!Cardinality, Cardinality
  <1>4. vs \in [1..Cardinality(S) -> S]
    BY <1>3 DEF PV!SetToSeqs
  <1> QED BY <1>2, <1>4, SequenceOf

\* The first calls of such an order.
LEMMA PartOfOrder ==
    ASSUME NEW S, NEW vs \in Seq(S), NEW n \in 0..Len(vs)
    PROVE  SubSeq(vs, 1, n) \in Seq(S) /\ PV!ToSet(SubSeq(vs, 1, n)) \subseteq S
  <1>1. Len(vs) \in Nat /\ \A i \in 1..n : vs[i] \in S
    BY LenProperties, ElementOfSeq
  <1> DEFINE part == SubSeq(vs, 1, n)
  <1>2. part \in Seq(S)
    BY <1>1, SubSeqProperties
  <1> HIDE DEF part
  <1>3. part \in [1..Len(part) -> S] /\ DOMAIN part = 1..Len(part)
    BY <1>2, LenProperties
  <1>4. PV!ToSet(part) \subseteq S
    BY <1>3, VPCOperators
  <1> QED BY <1>2, <1>4 DEF part

\* A zone in the cloud has VPCs with IDs.
LEMMA VPCsOfZone ==
    ASSUME NEW zone \in KindResources("PrivateZone")
    PROVE  BagToSet(zone["vpcs"]) \in (SUBSET Values) \ {{}}
  <1>1. "vpcs" \in RequiredOf("PrivateZone") /\ "PrivateZone" \in Kinds
    BY FieldsOfKinds, EveryKind DEF PV!Required
  <1>2. zone["vpcs"] \in FilledOf("PrivateZone", "vpcs")
    BY <1>1, FieldFacts, ResourceFields
  <1>3. PICK S \in SUBSET Fields!Entries("vpcs") :
          S # {} /\ zone["vpcs"] = [e \in S |-> 1]
    BY <1>1, <1>2, ListInCloud DEF Fields!Lists
  <1>4. BagToSet(zone["vpcs"]) = S
    BY <1>3 DEF BagToSet
  <1> QED BY <1>3, <1>4 DEF Fields!Entries

\* An object asks for some VPC.
LEMMA VPCsAsked ==
    ASSUME NEW spec \in KindSpecs("PrivateZone")
    PROVE  /\ BagToSet(spec["vpcs"]) \in (SUBSET (Values \cup {""})) \ {{}}
           /\ spec["vpcs"] # Nil
  <1>1. "vpcs" \in RequiredOf("PrivateZone") /\ "PrivateZone" \in Kinds
    BY FieldsOfKinds, EveryKind DEF PV!Required
  <1>2. spec["vpcs"] \in SettableOf("PrivateZone", "vpcs")
    BY <1>1, FieldFacts, SpecFields
  <1>3. spec["vpcs"] \in Fields!ListsOver(Values \cup {""})
    BY <1>2 DEF SettableOf, Fields!Settable, Fields!Flags
  <1> QED BY <1>1, <1>3, RequiredIsSet, ListEntries DEF BagToSet

\* Other VPCs, with those that are asked for and were there.
LEMMA OtherVPCsReached ==
    ASSUME NEW spec \in KindSpecs("PrivateZone"), NEW r,
           NEW z \in Reached("PrivateZone", spec, r),
           NEW S \in (SUBSET Values) \ {{}},
           BagToSet(r["vpcs"]) \cap BagToSet(spec["vpcs"]) \subseteq S
    PROVE  /\ PV!WithVPCs(z, S) \in Reached("PrivateZone", spec, r)
           /\ BagToSet(PV!WithVPCs(z, S)["vpcs"]) = S
  <1> DEFINE k == "PrivateZone"
             list == [e \in S |-> 1]
             x == [z EXCEPT !["vpcs"] = list]
  <1>1. k \in Kinds /\ "vpcs" \in FieldsOf(k)
    BY FieldsOfKinds, EveryKind DEF PV!Required
  <1>2. /\ z \in KindResources(k) /\ DOMAIN z = FieldsOf(k)
        /\ \A f \in FieldsOf(k) : z[f] \in FilledOf(k, f)
    BY <1>1, ResourceFields DEF Reached
  <1>3. z = [f \in FieldsOf(k) |-> z[f]]
    BY <1>2 DEF KindResources
  <1>4. list \in FilledOf(k, "vpcs")
    BY <1>1, ListInCloud DEF Fields!Lists, Fields!Entries
  <1>5. BagToSet(list) = S
    BY DEF BagToSet
  <1> HIDE DEF list
  <1>6. x = [f \in FieldsOf(k) |-> IF f = "vpcs" THEN list ELSE z[f]]
    BY <1>2, <1>3
  <1>7. PV!WithVPCs(z, S) = x
    BY VPCOperators DEF list
  <1> HIDE DEF x
  <1>8. x \in KindResources(k)
    BY <1>1, <1>2, <1>4, <1>6, IsKindResource
  <1>9. x["vpcs"] = list /\ \A f \in FieldsOf(k) \ {"vpcs"} : x[f] = z[f]
    BY <1>1, <1>6
  <1>10. spec["vpcs"] # Nil
    BY VPCsAsked
  <1>11. \A f \in FieldsOf(k) \ {"portId"} : spec[f] = Nil => x[f] = r[f]
    BY <1>9, <1>10 DEF Reached
  <1>12. x \in Reached(k, spec, r)
    BY <1>5, <1>8, <1>9, <1>11 DEF Reached
  <1> QED BY <1>5, <1>7, <1>9, <1>12

\* New VPCs are associated ...
LEMMA AssociationsReached ==
    ASSUME NEW spec \in KindSpecs("PrivateZone"), NEW r,
           NEW z \in Reached("PrivateZone", spec, r), NEW vs \in Seq(Values)
    PROVE  PV!Associations(z, vs) \in Seq(Reached("PrivateZone", spec, r))
  <1> DEFINE had == BagToSet(z["vpcs"])
  <1>1. Len(vs) \in Nat /\ DOMAIN vs = 1..Len(vs)
    BY LenProperties
  <1>2. /\ had \in (SUBSET Values) \ {{}}
        /\ BagToSet(r["vpcs"]) \cap BagToSet(spec["vpcs"]) \subseteq had
    BY VPCsOfZone DEF Reached
  <1>3. PV!Associations(z, vs) =
          [n \in 1..Len(vs) |->
              PV!WithVPCs(z, had \cup PV!ToSet(SubSeq(vs, 1, n)))]
    BY <1>1, VPCOperators DEF PV!Associations
  <1> HIDE DEF had
  <1>4. ASSUME NEW n \in 1..Len(vs)
        PROVE  PV!WithVPCs(z, had \cup PV!ToSet(SubSeq(vs, 1, n)))
                 \in Reached("PrivateZone", spec, r)
    <2>1. PV!ToSet(SubSeq(vs, 1, n)) \subseteq Values
      BY <1>1, PartOfOrder
    <2> QED BY <1>2, <2>1, OtherVPCsReached
  <1> QED BY <1>1, <1>3, <1>4, SequenceOf

\* ... and then old ones are let go, that nobody asks for.
LEMMA DisassociationsReached ==
    ASSUME NEW spec \in KindSpecs("PrivateZone"), NEW r,
           NEW z \in Reached("PrivateZone", spec, r),
           NEW rest \in SUBSET Values, NEW us \in Seq(rest),
           rest \cap BagToSet(spec["vpcs"]) = {},
           BagToSet(spec["vpcs"]) \subseteq BagToSet(z["vpcs"])
    PROVE  PV!Disassociations(z, us) \in Seq(Reached("PrivateZone", spec, r))
  <1> DEFINE had == BagToSet(z["vpcs"])
             asked == BagToSet(spec["vpcs"])
  <1>1. Len(us) \in Nat /\ DOMAIN us = 1..Len(us)
    BY LenProperties
  <1>2. had \in (SUBSET Values) \ {{}} /\ asked # {} /\ asked \subseteq had
    BY VPCsOfZone, VPCsAsked DEF Reached
  <1>3. PV!Disassociations(z, us) =
          [n \in 1..Len(us) |->
              PV!WithVPCs(z, had \ PV!ToSet(SubSeq(us, 1, n)))]
    BY <1>1, VPCOperators DEF PV!Disassociations
  <1>4. ASSUME NEW n \in 1..Len(us)
        PROVE  PV!WithVPCs(z, had \ PV!ToSet(SubSeq(us, 1, n)))
                 \in Reached("PrivateZone", spec, r)
    <2>2. n \in 0..Len(us)
      BY <1>1
    <2>4. PV!ToSet(SubSeq(us, 1, n)) \cap asked = {}
      <3>1. PV!ToSet(SubSeq(us, 1, n)) \subseteq rest
        BY <2>2, PartOfOrder
      <3> QED BY <3>1
    <2> DEFINE left == had \ PV!ToSet(SubSeq(us, 1, n))
    <2>3. left \in (SUBSET Values) \ {{}} /\ asked \subseteq left
      BY <1>2, <2>4
    <2> HIDE DEF left, had
    <2> QED BY <2>3, OtherVPCsReached DEF left
  <1> HIDE DEF had
  <1> QED BY <1>1, <1>3, <1>4, SequenceOf

\* New VPCs are associated before old ones are disassociated.
LEMMA VPCCallsReached ==
    ASSUME NEW spec \in KindSpecs("PrivateZone"), NEW r,
           NEW z \in Reached("PrivateZone", spec, r),
           NEW calls \in PV!VPCCalls(spec, z)
    PROVE  calls \in Seq(Reached("PrivateZone", spec, r))
  <1> DEFINE had == BagToSet(z["vpcs"])
             asked == BagToSet(spec["vpcs"])
             missing == PV!Missing(spec, z)
             extra == PV!Extra(spec, z)
             all == PV!WithVPCs(z, had \cup missing)
  <1>1. /\ "" \notin asked
        /\ missing = asked \ had /\ extra = had \ asked
        /\ \E vs \in PV!SetToSeqs(missing), us \in PV!SetToSeqs(extra) :
              calls = PV!Associations(z, vs) \o PV!Disassociations(all, us)
    <2>1. PV!BagToSet(z["vpcs"]) = had /\ PV!BagToSet(spec["vpcs"]) = asked
      BY VPCOperators
    <2>2. missing = asked \ had /\ extra = had \ asked
      BY <2>1 DEF PV!Missing, PV!Extra
    <2> DEFINE full == PV!WithVPCs(z, PV!BagToSet(z["vpcs"]) \cup PV!Missing(spec, z))
               Calls(vs, us) == PV!Associations(z, vs) \o PV!Disassociations(full, us)
               first == PV!SetToSeqs(missing)
               second == PV!SetToSeqs(extra)
               sets == UNION {{Calls(vs, us) : us \in second} : vs \in first}
    <2>3. PV!VPCCalls(spec, z) =
            IF "" \in PV!BagToSet(spec["vpcs"]) THEN {} ELSE sets
      BY DEF PV!VPCCalls
    <2>4. full = all
      BY <2>1
    <2> HIDE DEF Calls, first, second
    <2>5. calls \in sets => \E vs \in first, us \in second : calls = Calls(vs, us)
      OBVIOUS
    <2> HIDE DEF sets
    <2>6. "" \notin asked /\ calls \in sets
      BY <2>1, <2>3
    <2> HIDE DEF full, all
    <2>7. \E vs \in first, us \in second :
            calls = PV!Associations(z, vs) \o PV!Disassociations(all, us)
      BY <2>4, <2>5, <2>6 DEF Calls
    <2> QED BY <2>2, <2>6, <2>7 DEF first, second, all
  <1>2. /\ had \in (SUBSET Values) \ {{}} /\ asked \in (SUBSET Values) \ {{}}
        /\ BagToSet(r["vpcs"]) \cap asked \subseteq had
    BY <1>1, VPCsOfZone, VPCsAsked DEF Reached
  <1>3. PICK vs \in PV!SetToSeqs(missing), us \in PV!SetToSeqs(extra) :
          calls = PV!Associations(z, vs) \o PV!Disassociations(all, us)
    BY <1>1
  <1> DEFINE together == had \cup missing
  <1>4. /\ missing \in SUBSET Values /\ extra \in SUBSET Values
        /\ extra \cap asked = {} /\ asked \subseteq together
        /\ together \in (SUBSET Values) \ {{}}
        /\ BagToSet(r["vpcs"]) \cap asked \subseteq together
    BY <1>1, <1>2
  <1> HIDE DEF missing, extra, together
  <1>5. /\ all \in Reached("PrivateZone", spec, r)
        /\ BagToSet(all["vpcs"]) = together
    BY <1>4, OtherVPCsReached DEF together
  <1>6. vs \in Seq(missing) /\ us \in Seq(extra)
    BY <1>4, Orders
  <1>7. vs \in Seq(Values)
    BY <1>4, <1>6
  <1>8. PV!Associations(z, vs) \in Seq(Reached("PrivateZone", spec, r))
    BY <1>7, AssociationsReached
  <1> HIDE DEF all
  <1>9. PV!Disassociations(all, us) \in Seq(Reached("PrivateZone", spec, r))
    BY <1>4, <1>5, <1>6, DisassociationsReached
  <1> QED BY <1>3, <1>8, <1>9, ConcatProperties

\* A VPC without an ID ends them.
LEMMA RefusedVPCCallsReached ==
    ASSUME NEW spec \in KindSpecs("PrivateZone"), NEW r,
           NEW z \in Reached("PrivateZone", spec, r),
           NEW calls \in PV!RefusedVPCCalls(spec, z)
    PROVE  calls \in Seq(Reached("PrivateZone", spec, r))
  <1> DEFINE missing == PV!Missing(spec, z) \ {""}
  <1>1. missing \subseteq Values
    BY VPCsAsked, VPCOperators DEF PV!Missing
  <1>2. PICK vs \in PV!SetToSeqs(missing) : \E n \in 0..Len(vs) :
          calls = PV!Associations(z, SubSeq(vs, 1, n))
    BY DEF PV!RefusedVPCCalls
  <1> HIDE DEF missing
  <1>3. vs \in Seq(missing)
    BY <1>1, Orders
  <1>4. vs \in Seq(Values)
    BY <1>1, <1>3
  <1>5. PICK n \in 0..Len(vs) : calls = PV!Associations(z, SubSeq(vs, 1, n))
    BY <1>2
  <1>6. SubSeq(vs, 1, n) \in Seq(Values)
    BY <1>4, <1>5, PartOfOrder
  <1> QED BY <1>5, <1>6, AssociationsReached

\* A call before others.
LEMMA CallThen ==
    ASSUME NEW S, NEW x \in S, NEW calls \in Seq(S)
    PROVE  <<x>> \o calls \in CallsTo(S)
  <1>1. <<x>> \in Seq(S) /\ Len(<<x>>) = 1
    OBVIOUS
  <1> QED BY <1>1, ConcatProperties, LenProperties DEF CallsTo

\* A private zone is sent what differs, then its VPCs and its tags.
LEMMA PrivateZoneUpdate ==
    ASSUME kind = "PrivateZone", NEW spec \in KindSpecs(kind),
           NEW r \in KindResources(kind), NEW calls \in UpdateCalls(spec, r)
    PROVE  calls \in CallsTo(Reached(kind, spec, r))
  <1> DEFINE k == "PrivateZone"
             F == PV!ByValue
  <1>1. k \in Kinds /\ "tags" \in FieldsOf(k)
    BY EveryKind, FieldsOfKinds DEF PV!Optional
  <1>2. calls \in PV!Update(spec, r)
    BY DEF UpdateCalls
  <1>3. PICK z \in PV!AfterUpdateCall(spec, r) :
          \/ \E c \in PV!RefusedVPCCalls(spec, z) : calls = <<z>> \o c
          \/ \E c \in PV!VPCCalls(spec, z) :
               \E tagged \in PV!TagCalls(spec, r, PV!Last(<<z>> \o c)) :
                  calls = <<z>> \o c \o tagged
    <2> DEFINE Refused(z) == {<<z>> \o c : c \in PV!RefusedVPCCalls(spec, z)}
               Done(z) == UNION {{<<z>> \o c \o tagged :
                             tagged \in PV!TagCalls(spec, r, PV!Last(<<z>> \o c))} :
                             c \in PV!VPCCalls(spec, z)}
    <2>1. PV!Update(spec, r) =
            UNION {Refused(z) \cup Done(z) : z \in PV!AfterUpdateCall(spec, r)}
      BY DEF PV!Update
    <2> HIDE DEF Refused, Done
    <2>2. PICK z \in PV!AfterUpdateCall(spec, r) : calls \in Refused(z) \cup Done(z)
      BY <1>2, <2>1
    <2> QED BY <2>2 DEF Refused, Done
  <1>4. z \in Fields!AfterCall(spec, r, F, PV!ByValue)
    BY DEF PV!AfterUpdateCall, PV!AfterCall, Fields!AfterCall, PV!Deref, Fields!Deref,
             PV!Zero, Fields!Zero, PV!Flags, Fields!Flags, PV!Lists, Fields!Lists,
             PV!EmptyMap, Fields!EmptyMap, PV!EmptyBag, Fields!EmptyBag,
             PV!SetToBag, Fields!SetToBag
  <1>5. /\ WellFormed(k, spec)
        /\ F \cap (Fields!Lists \cup RS!Zones) = {}
    BY <1>1, FieldFacts DEF WellFormed, Fields!Lists, RS!Zones, PV!ByValue
  <1> HIDE DEF F
  <1>6. z \in Reached(k, spec, r)
    BY <1>1, <1>4, <1>5, AfterCallReached
  <1>7. CASE \E c \in PV!RefusedVPCCalls(spec, z) : calls = <<z>> \o c
    BY <1>6, <1>7, RefusedVPCCallsReached, CallThen
  <1>8. ASSUME NEW c \in PV!VPCCalls(spec, z),
               NEW tagged \in PV!TagCalls(spec, r, PV!Last(<<z>> \o c)),
               calls = <<z>> \o c \o tagged
        PROVE  calls \in CallsTo(Reached(k, spec, r))
    <2> DEFINE first == <<z>> \o c
    <2>1. first \in CallsTo(Reached(k, spec, r))
      BY <1>6, VPCCallsReached, CallThen
    <2>2. PV!TagCalls(spec, r, PV!Last(first)) = Fields!TagCalls(spec, r, first[Len(first)])
      <3> DEFINE x == PV!Last(first)
      <3>1. PV!TagCalls(spec, r, x) = Fields!TagCalls(spec, r, x)
        BY DEF PV!TagCalls, Fields!TagCalls, PV!TagsWritten, Fields!TagsWritten,
             PV!TagDiff, Fields!TagDiff, PV!TagsDeletedByKey,
             Fields!TagsDeletedByKey, PV!TagsDeletedByPair,
             Fields!TagsDeletedByPair, PV!Restrict, Fields!Restrict
      <3> QED BY <3>1, VPCOperators
    <2> HIDE DEF first
    <2>3. tagged \in Fields!TagCalls(spec, r, first[Len(first)])
      BY <2>2 DEF first
    <2>4. first \o tagged \in CallsTo(Reached(k, spec, r))
      BY <1>1, <2>1, <2>3, ThenTags
    <2> QED BY <1>8, <2>4 DEF first
  <1> QED BY <1>3, <1>7, <1>8

\* Rules cannot be updated; for the rest, kind by kind.
LEMMA UpdateReaches ==
    ASSUME kind \in Kinds, NEW spec \in KindSpecs(kind),
           NEW r \in KindResources(kind), NEW calls \in UpdateCalls(spec, r)
    PROVE  calls \in CallsTo(Reached(kind, spec, r))
  <1>1. kind \notin {"SecurityGroupRule", "SNATRule"}
    BY DEF UpdateCalls, SR!Update, NR!Update
  <1> QED BY <1>1, EveryKind, SubnetUpdate, GatewayUpdate, PublicZoneUpdate,
             SecurityGroupUpdate, ElasticIPUpdate, PrivateZoneUpdate, RecordSetUpdate

\* Delete unbinds an address first; a record set it only deletes.
LEMMA DeleteReaches ==
    ASSUME kind \in Kinds, NEW spec, NEW r \in KindResources(kind)
    PROVE  \/ DeleteCalls(spec, r) \in {<<>>, <<Deleted>>}
           \/ /\ kind = "ElasticIP"
              /\ \E x \in KindResources(kind) : DeleteCalls(spec, r) = <<x, Deleted>>
  <1>1. CASE kind # "ElasticIP"
    BY <1>1, EveryKind
       DEF DeleteCalls, SN!Delete, SG!Delete, SR!Delete, GW!Delete, NR!Delete,
           PZ!Delete, PV!Delete, RS!Delete
  <1>2. CASE kind = "ElasticIP"
    <2> DEFINE none == Fields!Zero("portId")
               x == [r EXCEPT !["portId"] = none]
    <2>1. DeleteCalls(spec, r) \in {<<Deleted>>, <<x, Deleted>>}
      BY <1>2 DEF DeleteCalls, EI!Delete, Fields!Zero, Fields!Flags, Fields!Lists
    <2>2. /\ DOMAIN r = FieldsOf(kind) /\ r = [f \in FieldsOf(kind) |-> r[f]]
          /\ \A f \in FieldsOf(kind) : r[f] \in FilledOf(kind, f)
      BY ResourceFields DEF KindResources
    <2>3. "portId" \in FieldsOf(kind) \ RequiredOf(kind)
      BY <1>2, FieldsOfKinds DEF EI!Required, EI!Optional
    <2>4. none \in FilledOf(kind, "portId")
      BY <2>3 DEF FilledOf
    <2> HIDE DEF none
    <2>5. x = [f \in FieldsOf(kind) |-> IF f = "portId" THEN none ELSE r[f]]
      BY <2>2
    <2> HIDE DEF x
    <2>6. \A f \in FieldsOf(kind) : x[f] \in FilledOf(kind, f)
      BY <2>2, <2>4, <2>5
    <2>7. x = [f \in FieldsOf(kind) |-> x[f]]
      BY <2>5
    <2>8. x \in KindResources(kind)
      BY <2>6, <2>7, IsKindResource
    <2> QED BY <1>2, <2>1, <2>8
  <1> QED BY <1>1, <1>2

----------------------------------------------------------------------------
(* The inputs. *)

\* Every value that a varied field takes and every plain one fits.
LEMMA VaryingType ==
    ASSUME NEW F, NEW base, NEW values, NEW x \in Varying(F, base, values)
    PROVE  /\ x = [f \in DOMAIN base |-> x[f]]
           /\ \A f \in DOMAIN base :
                 IF f \in F THEN x[f] \in values[f] ELSE x[f] = base[f]
  <1>1. PICK choice \in [F -> UNION {{f} \X values[f] : f \in F}] :
          /\ \A f \in F : choice[f][1] = f
          /\ x = [f \in DOMAIN base |-> IF f \in F THEN choice[f][2] ELSE base[f]]
    BY DEF Varying
  <1>2. ASSUME NEW f \in F
        PROVE  choice[f][2] \in values[f]
    <2>1. PICK g \in F : choice[f] \in {g} \X values[g]
      BY <1>1, <1>2
    <2>2. choice[f][1] = g /\ choice[f][2] \in values[g]
      BY <2>1
    <2> QED BY <1>1, <1>2, <2>2
  <1> QED BY <1>1, <1>2

\* One value of a field that is given fits, in the object and in the cloud.
LEMMA PlainValues ==
    ASSUME NEW k \in Kinds, NEW f \in FieldsOf(k)
    PROVE  /\ f \in RequiredOf(k) => Fields!Plain(f) \in SettableOf(k, f)
           /\ f \in RequiredOf(k) => Fields!Plain(f) \in FilledOf(k, f)
           /\ f \notin RequiredOf(k) => Nil \in SettableOf(k, f)
           /\ f \notin RequiredOf(k) => Fields!Zero(f) \in FilledOf(k, f)
           /\ f \in {"subnetId", "publicZoneId"} =>
                 Fields!Plain(f) \in SettableOf(k, f) \cap FilledOf(k, f)
  <1>1. f \notin RequiredOf(k) => f \notin Fields!Lists \cup {"type"}
    BY FieldFacts DEF Fields!Lists
  <1>2. "a" \in Values /\ "a" # Fields!Zero("name")
    BY ControllersAssumption DEF Fields!Zero, Fields!Flags, Fields!Lists
  <1>3. f \notin RequiredOf(k) => Nil \in SettableOf(k, f) /\ Fields!Zero(f) \in FilledOf(k, f)
    BY <1>1 DEF SettableOf, FilledOf, Fields!Settable, Fields!Lists, Fields!Flags
  <1>4. CASE f \notin Fields!Lists \cup Fields!Flags \cup {"tags", "type"}
    <2>1. Fields!Plain(f) = "a" /\ Fields!Zero(f) = Fields!Zero("name")
      BY <1>4 DEF Fields!Plain, Fields!Zero, Fields!Lists, Fields!Flags
    <2>2. "a" \in SettableOf(k, f)
      BY <1>2, <1>4 DEF SettableOf, Fields!Settable, Fields!Lists, Fields!Flags
    <2>3. Values \subseteq Fields!InCloud(f)
      BY <1>4 DEF Fields!InCloud, Fields!Lists, Fields!Flags
    <2>4. "a" \in FilledOf(k, f)
      BY <1>2, <2>1, <2>3 DEF FilledOf
    <2> QED BY <1>3, <2>1, <2>2, <2>4
  <1>5. CASE f \in Fields!Lists
    <2> DEFINE E == IF f = "vpcs" THEN {"a"} ELSE {0}
               given == [e \in E |-> 1]
    <2>1. Fields!Plain(f) = given
      BY <1>5 DEF Fields!Plain, Fields!Lists, Fields!SetToBag
    <2>2. E \in SUBSET Fields!Entries(f) /\ E # {}
      BY <1>2 DEF Fields!Entries
    <2>3. given \in FilledOf(k, f)
      BY <1>5, <2>2, ListInCloud
    <2>4. given \in SettableOf(k, f)
      <3>1. given \in Fields!ListsOver(Values \cup {""}) \/ f # "vpcs"
        BY <1>2, ListEntries
      <3>2. given \in Fields!ListsOver(0..1) \/ f = "vpcs"
        BY ListEntries
      <3> QED BY <1>5, <3>1, <3>2
              DEF SettableOf, Fields!Settable, Fields!Flags, Fields!Lists
    <2> QED BY <1>3, <1>5, <2>1, <2>3, <2>4 DEF Fields!Lists
  <1>6. CASE f \in Fields!Flags \cup {"tags", "type"}
    <2>1. CASE f = "type"
      BY <1>3, <2>1 DEF Fields!Plain, SettableOf, FilledOf, Fields!Settable,
             Fields!InCloud, Fields!Zero, Fields!RecordTypes, Fields!Flags, Fields!Lists
    <2>2. CASE f # "type"
      BY <1>3, <1>6, <2>2, FieldFacts DEF Fields!Flags
    <2> QED BY <2>1, <2>2
  <1> QED BY <1>4, <1>5, <1>6

\* The plain spec and resource of a kind have their types.
LEMMA PlainTypes ==
    ASSUME NEW k \in Kinds, NEW f \in FieldsOf(k)
    PROVE  /\ PlainSpec(k)[f] \in SettableOf(k, f)
           /\ PlainResource(k)[f] \in FilledOf(k, f)
  <1>1. PlainSpec(k)[f] = IF f \in RequiredOf(k) \/ <<k, f>> \in GivenToo
                          THEN Fields!Plain(f) ELSE Nil
    BY DEF PlainSpec
  <1>2. PlainResource(k)[f] = IF PlainSpec(k)[f] = Nil THEN Fields!Zero(f)
                                                       ELSE Fields!Plain(f)
    BY DEF PlainResource
  <1>3. CASE f \in RequiredOf(k)
    <2>1. Nil \notin SettableOf(k, f)
      BY <1>3, ControllersAssumption DEF SettableOf
    <2>2. Fields!Plain(f) \in SettableOf(k, f) /\ Fields!Plain(f) \in FilledOf(k, f)
      BY <1>3, PlainValues
    <2> QED BY <1>1, <1>2, <1>3, <2>1, <2>2
  <1>4. CASE f \notin RequiredOf(k)
    <2>1. /\ Nil \in SettableOf(k, f) /\ Fields!Zero(f) \in FilledOf(k, f)
          /\ f \in {"subnetId", "publicZoneId"} =>
                Fields!Plain(f) \in SettableOf(k, f) /\ Fields!Plain(f) \in FilledOf(k, f)
      BY <1>4, PlainValues
    <2>2. <<k, f>> \in GivenToo => f \in {"subnetId", "publicZoneId"}
      BY DEF GivenToo
    <2> QED BY <1>1, <1>2, <1>4, <2>1, <2>2
  <1> QED BY <1>3, <1>4

\* What users apply fits its kind, as does what the service holds.
LEMMA CaseTypes ==
    ASSUME NEW c \in Cases
    PROVE  /\ c.kind \in Kinds
           /\ SpecsOf[c] \subseteq KindSpecs(c.kind)
           /\ ResourcesOf[c] \subseteq KindResources(c.kind)
  <1> DEFINE k == c.kind
             settable == [f \in c.varied |->
                            Fields!Settable(f, RequiredOf(k), CheckedOf(k))]
             inCloud == [f \in c.varied |->
                IF f \in RequiredOf(k) THEN Fields!InCloud(f) \ {Fields!Zero(f)}
                                       ELSE Fields!InCloud(f)]
  <1>1. k \in Kinds
    BY ControllersAssumption
  <1>2. DOMAIN PlainSpec(k) = FieldsOf(k) /\ DOMAIN PlainResource(k) = FieldsOf(k)
    BY DEF PlainSpec, PlainResource
  <1>3. ASSUME NEW spec \in SpecsOf[c]
        PROVE  spec \in KindSpecs(k)
    <2>1. spec \in Varying(c.varied, PlainSpec(k), settable)
            /\ (k = "RecordSet" => RS!OneZone(spec))
      BY DEF SpecsOf
    <2>2. \A f \in c.varied : settable[f] = SettableOf(k, f)
      BY DEF SettableOf
    <2> HIDE DEF k, settable
    <2>3. /\ spec = [f \in FieldsOf(k) |-> spec[f]]
          /\ \A f \in FieldsOf(k) :
                IF f \in c.varied THEN spec[f] \in settable[f]
                                  ELSE spec[f] = PlainSpec(k)[f]
      BY <1>2, <2>1, VaryingType
    <2>4. \A f \in FieldsOf(k) : spec[f] \in SettableOf(k, f)
      BY <1>1, <2>2, <2>3, PlainTypes
    <2> QED BY <1>1, <2>1, <2>3, <2>4, IsKindSpec
  <1>4. ASSUME NEW r \in ResourcesOf[c]
        PROVE  r \in KindResources(k)
    <2>1. r \in Varying(c.varied, PlainResource(k), inCloud)
      BY DEF ResourcesOf
    <2>2. \A f \in c.varied : inCloud[f] \subseteq FilledOf(k, f)
      BY DEF FilledOf
    <2> HIDE DEF k, inCloud
    <2>3. /\ r = [f \in FieldsOf(k) |-> r[f]]
          /\ \A f \in FieldsOf(k) :
                IF f \in c.varied THEN r[f] \in inCloud[f]
                                  ELSE r[f] = PlainResource(k)[f]
      BY <1>2, <2>1, VaryingType
    <2>4. \A f \in FieldsOf(k) : r[f] \in FilledOf(k, f)
      BY <1>1, <2>2, <2>3, PlainTypes
    <2> QED BY <1>1, <2>3, <2>4, IsKindResource
  <1> QED BY <1>1, <1>3, <1>4

----------------------------------------------------------------------------
(* The inductive invariant, handler by handler.  The case is fixed, and    *)
(* with it what the lemmas on the reconcile loop range over.               *)

KindSound(k) == Sound(KindSpecs(k), {}, KindResources(k), Elsewhere(k), Kept(k))

KindStep(k) == SoundStep(KindSpecs(k), {}, KindResources(k), Elsewhere(k), Kept(k))

Holds(c) == case = c /\ KindSound(c.kind) /\ Named

IInv == \E c \in Cases : Holds(c)

\* What a step does to the settings.
SettingsStep(k) == edits' = edits => <<mr.spec, mr'.spec>> \in Kept(k)

Keeps(k) == KindSound(k)' /\ Named' /\ SettingsStep(k)

\* What a step that keeps the names keeps.
LEMMA Assembled ==
    ASSUME NEW CONSTANT k, Named, KindStep(k), Named => Named'
    PROVE  Keeps(k)
  BY DEF Keeps, KindStep, SoundStep, KindSound, SettingsStep

\* What each lemma has of its case.
LEMMA CaseFacts ==
    ASSUME NEW CONSTANT c \in Cases, Holds(c)
    PROVE  /\ c.kind \in Kinds /\ kind = c.kind /\ Named /\ KindSound(c.kind)
           /\ Reflexive(Kept(c.kind), KindSpecs(c.kind))
  BY CaseTypes, KeptReflexive DEF Holds, kind

\* The copy of a worker has its type.
LEMMA HoldsCopy ==
    ASSUME NEW CONSTANT c \in Cases, Holds(c), NEW w \in Workers, run[w].pc # "idle"
    PROVE  /\ run[w].obj \in Object(KindSpecs(c.kind), {})
           /\ run[w].obj.spec \in KindSpecs(c.kind)
           /\ run[w].obj.extName \in Ids \cup {Nil}
  BY SoundCopy DEF Holds, KindSound, Sound

\* So has the object.
LEMMA StoredType ==
    ASSUME NEW CONSTANT c \in Cases, Holds(c)
    PROVE  /\ mr \in Object(KindSpecs(c.kind), {})
           /\ mr.spec \in KindSpecs(c.kind)
  BY SoundObject DEF Holds, KindSound, Sound

\* What is live is a resource of the kind.
LEMMA ReadableType ==
    ASSUME NEW CONSTANT c \in Cases, Holds(c),
           NEW i, (i \in Ids /\ Live(i)) \/ Readable(i)
    PROVE  i \in Ids /\ cloud[i] \in KindResources(c.kind)
  BY LiveResource DEF Holds, KindSound, Sound

\* A resource is told from none.
LEMMA NotUnused ==
    ASSUME NEW k \in Kinds
    PROVE  /\ \A r \in KindResources(k) \cup {Deleted} : r # Unused
           /\ Deleted \notin KindResources(k)
  BY ControllersAssumption DEF KindResources

\* There is a resource of each kind.
LEMMA SomeResource ==
    ASSUME NEW k \in Kinds
    PROVE  PlainResource(k) \in KindResources(k)
  <1>1. PlainResource(k) = [f \in FieldsOf(k) |-> PlainResource(k)[f]]
    BY DEF PlainResource
  <1> QED BY <1>1, PlainTypes, IsKindResource

\* A fresh copy that may be written keeps the settings.
LEMMA FreshKept ==
    ASSUME NEW CONSTANT c \in Cases, Holds(c), NEW w \in Workers, fresh[w],
           run[w].pc \in Writing
    PROVE  <<mr.spec, run[w].obj.spec>> \in Kept(c.kind)
  BY DEF Holds, KindSound, Sound, Carries

\* Admission answers yes or no.
LEMMA AdmittedType ==
    ASSUME kind \in Kinds, NEW old, NEW new
    PROVE  Admitted(old, new) \in BOOLEAN
  <1>1. CASE kind \in {"Subnet", "SecurityGroup", "SecurityGroupRule"}
    BY <1>1 DEF Admitted, SN!SubnetAdmitted, SN!KeptOn, SG!GroupAdmitted, SG!KeptOn,
                SR!RuleAdmitted, SR!KeptOn
  <1>2. CASE kind \in {"Gateway", "SNATRule", "PublicZone"}
    BY <1>2 DEF Admitted, GW!GatewayAdmitted, GW!KeptOn, NR!RuleAdmitted, NR!KeptOn,
                PZ!ZoneAdmitted, PZ!KeptOn
  <1>3. CASE kind \in {"ElasticIP", "PrivateZone", "RecordSet"}
    BY <1>3 DEF Admitted, EI!AddressAdmitted, EI!KeptOn, PV!ZoneAdmitted, PV!KeptOn,
                RS!RecordSetAdmitted, RS!KeptOn
  <1> QED BY <1>1, <1>2, <1>3, EveryKind

\* A record set stays in its zone, whatever else becomes of it.
LEMMA StaysElsewhere ==
    ASSUME NEW k \in Kinds, NEW spec, NEW r, NEW x \in KindResources(k),
           <<spec, r>> \in Elsewhere(k),
           k = "RecordSet" => \A f \in RS!Zones : x[f] = r[f]
    PROVE  <<spec, x>> \in Elsewhere(k)
  <1> DEFINE none == ""
  <1>1. k = "RecordSet" /\ spec \in KindSpecs(k) /\ ~RS!InZone(spec, r)
    BY DEF Elsewhere
  <1>2. RS!InZone(spec, r) <=> RS!ZoneIn(spec, Nil) = RS!ZoneIn(r, none)
    BY DEF RS!InZone
  <1>3. RS!InZone(spec, x) <=> RS!ZoneIn(spec, Nil) = RS!ZoneIn(x, none)
    BY DEF RS!InZone
  <1> HIDE DEF none
  <1>4. RS!ZoneIn(x, none) = RS!ZoneIn(r, none)
    BY <1>1 DEF RS!ZoneIn, RS!Zones
  <1> QED BY <1>1, <1>2, <1>3, <1>4 DEF Elsewhere

\* A resource that can be read and is not found is one elsewhere.
LEMMA NotFound ==
    ASSUME NEW CONSTANT c \in Cases, Holds(c), NEW w \in Workers,
           run[w].pc = "observe", fresh[w], ~Found(run[w].obj)
    PROVE  \/ ~Readable(run[w].obj.extName)
           \/ <<mr.spec, cloud[run[w].obj.extName]>> \in Elsewhere(c.kind)
  <1> DEFINE obj == run[w].obj
             r == cloud[obj.extName]
  <1>1. CASE Readable(obj.extName)
    <2>1. kind = "RecordSet" /\ ~RS!InZone(obj.spec, r)
      BY <1>1 DEF Found
    <2>2. r \in KindResources(c.kind) /\ obj.spec \in KindSpecs(c.kind)
      BY <1>1, ReadableType, HoldsCopy
    <2>3. <<obj.spec, r>> \in Elsewhere(c.kind)
      BY <2>1, <2>2, CaseFacts DEF Elsewhere
    <2>4. <<mr.spec, obj.spec>> \in Kept(c.kind)
      BY FreshKept DEF Writing
    <2> QED BY <2>3, <2>4, ZoneKept, CaseFacts
  <1> QED BY <1>1

\* Observe, with what it finds, adopts or fails on.
LEMMA ObserveKeeps ==
    ASSUME NEW CONSTANT c \in Cases, Holds(c),
           NEW w \in Workers, run[w].pc = "observe", Observe(w)
    PROVE  Keeps(c.kind)
  <1> DEFINE obj == run[w].obj
             r == cloud[obj.extName]
             seen == Seen(obj.spec, r)
             filled == [obj EXCEPT !.spec = seen.spec]
             obs == [exists |-> TRUE, lateInit |-> seen.spec # obj.spec,
                     upToDate |-> seen.upToDate]
  <1> USE CaseFacts
  <1>1. obj \in Object(KindSpecs(c.kind), {}) /\ obj.spec \in KindSpecs(c.kind)
    BY HoldsCopy
  <1>2. CASE ObserveFailed(w) /\ Counted
    <2>1. KindStep(c.kind) /\ (Named => Named')
      BY <1>2, ObserveFailedSound DEF KindSound, KindStep
    <2> QED BY <2>1, Assembled
  <1>3. ASSUME NEW object \in Object(KindSpecs(c.kind), {}),
               NEW found \in Observation,
               SameCopy(object, run[w].obj), Observed(w, object, found), Counted,
               found.exists \/ (~Found(obj) /\ object = obj),
               <<mr.spec, obj.spec>> \in Kept(c.kind) =>
                   <<mr.spec, object.spec>> \in Kept(c.kind)
        PROVE  Keeps(c.kind)
    <2>1. fresh[w] /\ ~found.exists =>
               \/ ~Readable(object.extName)
               \/ <<mr.spec, cloud[object.extName]>> \in Elsewhere(c.kind)
      BY <1>3, NotFound
    <2>2. KindStep(c.kind) /\ (Named => Named')
      BY <1>3, <2>1, ObservedSound DEF KindSound, KindStep
    <2> QED BY <2>2, Assembled
  <1>4. CASE ~Found(obj) /\ Observed(w, obj, Unobserved) /\ UNCHANGED environment
    <2>1. Unobserved \in Observation
      BY DEF Unobserved, Observation
    <2>2. SameCopy(obj, run[w].obj) /\ Counted
      BY <1>4 DEF SameCopy, Counted
    <2> HIDE DEF obj
    <2> QED BY <1>1, <1>3, <1>4, <2>1, <2>2
  <1>5. CASE ~ObserveRejects(obj) /\ Found(obj) /\ Observed(w, filled, obs)
               /\ UNCHANGED environment
    <2>1. r \in KindResources(c.kind)
      BY <1>5, ReadableType DEF Found
    <2>2. c.kind = "Subnet" => SN!validateSubnetParameters(obj.spec)
      BY <1>5 DEF ObserveRejects
    <2> HIDE DEF obj, r
    <2>3. /\ seen.spec \in KindSpecs(c.kind) /\ seen.upToDate \in BOOLEAN
          /\ \A f \in FieldsOf(c.kind) :
                obj.spec[f] # Nil => seen.spec[f] = obj.spec[f]
      BY <1>1, <2>1, <2>2, SeenType
    <2>4. obs \in Observation /\ obs.exists
      BY <2>3 DEF Observation
    <2> HIDE DEF seen, obs
    <2>5. /\ filled \in Object(KindSpecs(c.kind), {}) /\ SameCopy(filled, obj)
          /\ filled.spec = seen.spec
      BY <1>1, <2>3, ChangedSpec
    <2>6. <<mr.spec, obj.spec>> \in Kept(c.kind) => <<mr.spec, filled.spec>> \in Kept(c.kind)
      BY <1>1, <2>3, <2>5, StoredType, FillingKeeps
    <2>7. Counted
      BY <1>5 DEF Counted
    <2> HIDE DEF filled
    <2> QED BY <1>3, <1>5, <2>4, <2>5, <2>6, <2>7 DEF obj
  <1>6. \/ ObserveFailed(w) /\ Counted
        \/ ~Found(obj) /\ Observed(w, obj, Unobserved) /\ UNCHANGED environment
        \/ /\ ~ObserveRejects(obj) /\ Found(obj) /\ Observed(w, filled, obs)
           /\ UNCHANGED environment
    BY DEF Observe, ObserveMissing, Counted
  <1> HIDE DEF obj, seen, filled, obs
  <1> QED BY <1>2, <1>4, <1>5, <1>6

\* What Create does: nothing for an object with a name, else it fails or makes
\* a resource of the kind.
LEMMA CreateOutcome ==
    ASSUME NEW CONSTANT c \in Cases, Holds(c),
           NEW w \in Workers, run[w].pc = "create", Create(w)
    PROVE  \/ run[w].obj.extName # Nil /\ CreateSkipped(w)
           \/ /\ run[w].obj.extName = Nil
              /\ \E resource \in KindResources(c.kind) :
                   \/ CreateReturns(w, resource, run[w].obj)
                   \/ CreateFails(w, resource)
                   \/ CreateRefused(w)
  <1> DEFINE obj == run[w].obj
  <1>1. obj.spec \in KindSpecs(c.kind) /\ c.kind \in Kinds /\ kind = c.kind /\ case = c
    BY HoldsCopy, CaseFacts DEF Holds
  <1>2. CASE obj.extName # Nil /\ CreateSkipped(w)
    BY <1>2
  <1>3. CASE obj.extName = Nil /\ CreateRefused(w)
    BY <1>1, <1>3, SomeResource
  <1>4. ASSUME obj.extName = Nil, ~CreateRejects(obj.spec),
               NEW default \in ResourcesOf[c],
               LET r == Created(obj.spec, default)
               IN  CreateSucceeds(w, r) \/ CreateFails(w, r)
        PROVE  \E r \in KindResources(c.kind) :
                  CreateReturns(w, r, obj) \/ CreateFails(w, r)
    <2> DEFINE r == Created(obj.spec, default)
    <2>1. default \in KindResources(c.kind)
      BY CaseTypes
    <2>2. r \in KindResources(c.kind)
      BY <1>1, <1>4, <2>1, CreatedType
    <2>3. CreateReturns(w, r, obj) \/ CreateFails(w, r)
      BY <1>4 DEF CreateSucceeds
    <2> HIDE DEF r, obj
    <2> QED BY <2>2, <2>3
  <1>5. \/ obj.extName # Nil /\ CreateSkipped(w)
        \/ obj.extName = Nil /\ CreateRefused(w)
        \/ /\ obj.extName = Nil /\ ~CreateRejects(obj.spec)
           /\ \E default \in ResourcesOf[c] :
                LET r == Created(obj.spec, default)
                IN  CreateSucceeds(w, r) \/ CreateFails(w, r)
    BY <1>1 DEF Create, TakenAsCreated
  <1> QED BY <1>2, <1>3, <1>4, <1>5

\* Create, with its guard on the external name.
LEMMA CreateKeeps ==
    ASSUME NEW CONSTANT c \in Cases, Holds(c),
           NEW w \in Workers, run[w].pc = "create", Create(w)
    PROVE  Keeps(c.kind)
  <1> DEFINE obj == run[w].obj
  <1> USE CaseFacts
  <1>1. obj \in Object(KindSpecs(c.kind), {}) /\ obj.extName = mr.extName
    BY HoldsCopy DEF KindSound, Sound, Announced, CreatorAgrees
  <1>2. CASE obj.extName # Nil /\ CreateSkipped(w)
    <2>1. KindStep(c.kind) /\ (Named => Named')
      BY <1>2, CreateSkippedSound DEF KindSound, KindStep
    <2> QED BY <2>1, Assembled
  <1>3. ASSUME obj.extName = Nil, NEW resource \in KindResources(c.kind),
               \/ CreateReturns(w, resource, obj)
               \/ CreateFails(w, resource)
               \/ CreateRefused(w)
        PROVE  Keeps(c.kind)
    <2>1. resource # Unused
      BY NotUnused
    <2>2. KindStep(c.kind) /\ (Named /\ mr.extName = Nil => Named')
      BY <1>1, <1>3, <2>1, CreateSound DEF KindSound, KindStep
    <2>3. mr.extName = Nil
      BY <1>1, <1>3
    <2> QED BY <2>2, <2>3, Assembled
  <1> QED BY <1>2, <1>3, CreateOutcome

\* Update and Delete leave a resource where one was live, or a deleted one.
LEMMA ExternalKeeps ==
    ASSUME NEW CONSTANT c \in Cases, Holds(c),
           NEW w \in Workers, NEW pc \in {"update", "delete"},
           NEW resource \in KindResources(c.kind) \cup {Deleted},
           External(w, pc, resource, run[w].obj), Readable(run[w].obj.extName),
           resource # Deleted /\ c.kind = "RecordSet" =>
               \A f \in RS!Zones : resource[f] = cloud[run[w].obj.extName][f],
           UNCHANGED environment \/ (Fault /\ UNCHANGED edits)
    PROVE  Keeps(c.kind)
  <1> USE CaseFacts
  <1>1. run[w].obj \in Object(KindSpecs(c.kind), {})
    BY HoldsCopy DEF External
  <1>2. resource # Unused /\ Counted
    BY NotUnused DEF Counted
  <1>3. LeftAbsent(Elsewhere(c.kind), cloud[run[w].obj.extName], resource)
    BY StaysElsewhere DEF LeftAbsent
  <1>4. KindStep(c.kind) /\ (Named => Named')
    BY <1>1, <1>2, <1>3, ExternalSound DEF KindSound, KindStep
  <1> QED BY <1>4, Assembled

\* ... or nothing changed.
LEMMA UnchangedKeeps ==
    ASSUME NEW CONSTANT c \in Cases, Holds(c),
           NEW w \in Workers, NEW pc \in {"update", "delete"},
           ExternalUnchanged(w, pc, run[w].obj),
           UNCHANGED environment \/ (Fault /\ UNCHANGED edits)
    PROVE  Keeps(c.kind)
  <1> USE CaseFacts
  <1>1. run[w].obj \in Object(KindSpecs(c.kind), {})
    BY HoldsCopy DEF ExternalUnchanged
  <1>2. Counted
    BY DEF Counted
  <1>3. KindStep(c.kind) /\ (Named => Named')
    BY <1>1, <1>2, UnchangedSound DEF KindSound, KindStep
  <1> QED BY <1>3, Assembled

\* What an Update does: nothing, or what some of its calls reach.
LEMMA UpdateOutcome ==
    ASSUME NEW CONSTANT c \in Cases, Holds(c),
           NEW w \in Workers, run[w].pc = "update", Update(w)
    PROVE  /\ \/ ExternalUnchanged(w, "update", run[w].obj)
              \/ /\ Readable(run[w].obj.extName)
                 /\ \E x \in Reached(c.kind, run[w].obj.spec, cloud[run[w].obj.extName]) :
                      External(w, "update", x, run[w].obj)
           /\ UNCHANGED environment \/ (Fault /\ UNCHANGED edits)
  <1> DEFINE obj == run[w].obj
             r == cloud[obj.extName]
             runs == IF Found(obj) THEN UpdateCalls(obj.spec, r) ELSE {}
             S == Reached(c.kind, obj.spec, r)
  <1>1. ASSUME NEW calls \in runs
        PROVE  /\ Readable(obj.extName)
               /\ \A n \in 1..Len(calls) : calls[n] \in S
               /\ Len(calls) \in 1..Len(calls)
               /\ 1..Len(calls) - 1 \subseteq 1..Len(calls)
    <2>1. Found(obj) /\ calls \in UpdateCalls(obj.spec, r)
      OBVIOUS
    <2>2. Readable(obj.extName)
      BY <2>1 DEF Found
    <2>3. r \in KindResources(c.kind) /\ obj.spec \in KindSpecs(c.kind)
      BY <2>2, ReadableType, HoldsCopy
    <2> HIDE DEF obj, r, S
    <2>4. calls \in CallsTo(S)
      BY <2>1, <2>3, CaseFacts, UpdateReaches DEF S
    <2>5. calls \in Seq(S) /\ Len(calls) > 0 /\ Len(calls) \in Nat
      BY <2>4 DEF CallsTo
    <2> QED BY <2>2, <2>5
  <1>2. \/ /\ ExternalUnchanged(w, "update", obj)
           /\ UNCHANGED environment \/ (Fault /\ UNCHANGED edits)
        \/ /\ \E calls \in runs : External(w, "update", calls[Len(calls)], obj)
           /\ UNCHANGED environment
        \/ /\ \E calls \in runs : \E n \in 1..Len(calls) - 1 :
                External(w, "update", calls[n], obj)
           /\ Fault /\ UNCHANGED edits
    BY DEF Update
  <1> HIDE DEF runs, obj, S
  <1>3. \/ ExternalUnchanged(w, "update", obj)
        \/ Readable(obj.extName) /\ \E x \in S : External(w, "update", x, obj)
    BY <1>1, <1>2
  <1>4. UNCHANGED environment \/ (Fault /\ UNCHANGED edits)
    BY <1>2
  <1> QED BY <1>3, <1>4 DEF obj, S

\* Update, whichever of its calls is the last.
LEMMA UpdateKeeps ==
    ASSUME NEW CONSTANT c \in Cases, Holds(c),
           NEW w \in Workers, run[w].pc = "update", Update(w)
    PROVE  Keeps(c.kind)
  <1> DEFINE obj == run[w].obj
             r == cloud[obj.extName]
  <1>1. CASE ExternalUnchanged(w, "update", obj)
    BY <1>1, UpdateOutcome, UnchangedKeeps
  <1>2. ASSUME Readable(obj.extName), NEW x \in Reached(c.kind, obj.spec, r),
               External(w, "update", x, obj)
        PROVE  Keeps(c.kind)
    <2>1. x \in KindResources(c.kind)
            /\ (c.kind = "RecordSet" => \A f \in RS!Zones : x[f] = r[f])
      BY DEF Reached
    <2> QED BY <1>2, <2>1, UpdateOutcome, ExternalKeeps
  <1> QED BY <1>1, <1>2, UpdateOutcome

\* What Delete does: nothing, or it removes the resource, after it may have
\* unbound an address.
LEMMA DeleteOutcome ==
    ASSUME NEW CONSTANT c \in Cases, Holds(c),
           NEW w \in Workers, run[w].pc = "delete", Delete(w)
    PROVE  /\ \/ ExternalUnchanged(w, "delete", run[w].obj)
              \/ /\ Readable(run[w].obj.extName)
                 /\ \E x \in KindResources(c.kind) \cup {Deleted} :
                      /\ x # Deleted => c.kind = "ElasticIP"
                      /\ External(w, "delete", x, run[w].obj)
           /\ UNCHANGED environment \/ (Fault /\ UNCHANGED edits)
  <1> DEFINE obj == run[w].obj
             r == cloud[obj.extName]
             states == IF Found(obj) THEN DeleteCalls(obj.spec, r) ELSE <<>>
             S == {x \in KindResources(c.kind) \cup {Deleted} :
                     x # Deleted => c.kind = "ElasticIP"}
  <1>1. \/ states = <<>>
        \/ /\ Readable(obj.extName)
           /\ states = <<Deleted>> \/ \E x \in S : states = <<x, Deleted>>
    <2>1. CASE Found(obj)
      <3>1. Readable(obj.extName)
        BY <2>1 DEF Found
      <3>2. r \in KindResources(c.kind)
        BY <3>1, ReadableType
      <3>3. states = DeleteCalls(obj.spec, r)
        BY <2>1
      <3> HIDE DEF states, r, obj
      <3> QED BY <3>1, <3>2, <3>3, CaseFacts, DeleteReaches
    <2> QED BY <2>1
  <1>2. Deleted \in S
    OBVIOUS
  <1> HIDE DEF states, S
  <1>3. /\ states # <<>> => Readable(obj.extName) /\ states[Len(states)] \in S
        /\ \A n \in 1..Len(states) - 1 : Readable(obj.extName) /\ states[n] \in S
    BY <1>1, <1>2
  <1>4. \/ /\ ExternalUnchanged(w, "delete", obj)
           /\ UNCHANGED environment \/ (Fault /\ UNCHANGED edits)
        \/ /\ states # <<>> /\ External(w, "delete", states[Len(states)], obj)
           /\ UNCHANGED environment
        \/ /\ \E n \in 1..Len(states) - 1 : External(w, "delete", states[n], obj)
           /\ Fault /\ UNCHANGED edits
    BY DEF Delete, states
  <1> HIDE DEF obj
  <1>5. \/ ExternalUnchanged(w, "delete", obj)
        \/ Readable(obj.extName) /\ \E x \in S : External(w, "delete", x, obj)
    BY <1>3, <1>4
  <1>6. UNCHANGED environment \/ (Fault /\ UNCHANGED edits)
    BY <1>4
  <1> QED BY <1>5, <1>6 DEF obj, S

\* Delete, which removes the resource or changes it before.
LEMMA DeleteKeeps ==
    ASSUME NEW CONSTANT c \in Cases, Holds(c),
           NEW w \in Workers, run[w].pc = "delete", Delete(w)
    PROVE  Keeps(c.kind)
  BY DeleteOutcome, UnchangedKeeps, ExternalKeeps

\* The three writes of the object before Create, Update and Delete.
LEMMA ObjectWriteKeeps ==
    ASSUME NEW CONSTANT c \in Cases, Holds(c), NEW w \in Workers,
           NEW stored, stored = Stored(run[w].obj.spec), NEW admitted \in BOOLEAN,
           \/ AddFinalizer(w, stored, admitted)
           \/ AnnounceCreate(w, stored, admitted)
           \/ LateInitialize(w, stored, admitted)
    PROVE  Keeps(c.kind)
  <1> USE CaseFacts
  <1>1. run[w].pc \in Writing
    BY DEF AddFinalizer, AnnounceCreate, LateInitialize, Writing
  <1>2. run[w].obj.spec \in KindSpecs(c.kind)
    BY <1>1, HoldsCopy DEF Writing
  <1>3. stored = Fields!OmitEmpty(run[w].obj.spec, Omitted(c.kind))
    BY <1>2, StoredForm
  <1>4. stored \in KindSpecs(c.kind)
    BY <1>2, <1>3, OmittedType
  <1>5. /\ <<mr.spec, run[w].obj.spec>> \in Kept(c.kind) => <<mr.spec, stored>> \in Kept(c.kind)
        /\ <<stored, run[w].obj.spec>> \in Kept(c.kind)
    BY <1>2, <1>3, StoredType, WritingKeeps
  <1>6. ASSUME fresh[w], NEW x, <<mr.spec, x>> \in Elsewhere(c.kind)
        PROVE  <<stored, x>> \in Elsewhere(c.kind)
    <2>1. <<mr.spec, run[w].obj.spec>> \in Kept(c.kind)
      BY <1>1, <1>6, FreshKept
    <2>2. <<mr.spec, stored>> \in Kept(c.kind)
      BY <1>5, <2>1
    <2>3. c.kind \in Kinds /\ <<mr.spec, x>> \in Elsewhere(c.kind)
      BY <1>6
    <2> QED BY ONLY <2>2, <2>3, ZoneKept
  <1>7. \/ /\ AddFinalizer(w, stored, admitted)
           /\ fresh[w] => \A x : <<mr.spec, x>> \in Elsewhere(c.kind) =>
                                   <<stored, x>> \in Elsewhere(c.kind)
        \/ AnnounceCreate(w, stored, admitted)
        \/ LateInitialize(w, stored, admitted)
    BY <1>6
  <1>8. KindStep(c.kind) /\ (Named => Named')
    BY <1>4, <1>5, <1>7, ObjectWriteSound DEF KindSound, KindStep
  <1> QED BY <1>8, Assembled

\* The outcome of a creation is recorded.
LEMMA RecordKeeps ==
    ASSUME NEW CONSTANT c \in Cases, Holds(c), NEW w \in Workers,
           RecordCreate(w) \/ RecordFailedCreate(w)
    PROVE  Keeps(c.kind)
  <1> USE CaseFacts
  <1>1. mr \in Object(KindSpecs(c.kind), {}) /\ mr.spec \in KindSpecs(c.kind)
    BY StoredType
  <1>2. SameCopy(mr, mr) /\ <<mr.spec, mr.spec>> \in Kept(c.kind)
    BY <1>1 DEF SameCopy, Reflexive
  <1>3. RecordCreateIn(w, mr) \/ RecordFailedCreate(w)
    BY DEF RecordCreate
  <1>4. KindStep(c.kind) /\ (Named => Named')
    BY <1>1, <1>2, <1>3, RecordSound DEF KindSound, KindStep
  <1> QED BY <1>4, Assembled

\* Every step of a reconcile.
LEMMA ReconcileKeeps ==
    ASSUME NEW CONSTANT c \in Cases, Holds(c), NEW w \in Workers, Reconcile(w)
    PROVE  Keeps(c.kind)
  <1> DEFINE stored == Stored(run[w].obj.spec)
             admitted == Admitted(mr.spec, stored)
  <1> USE CaseFacts
  <1>1. CASE \/ AddFinalizer(w, stored, admitted)
             \/ AnnounceCreate(w, stored, admitted)
             \/ LateInitialize(w, stored, admitted)
    <2>1. admitted \in BOOLEAN
      BY AdmittedType
    <2> HIDE DEF admitted
    <2> QED BY <1>1, <2>1, ObjectWriteKeeps
  <1>2. CASE UpdateObjectFails(w)
    <2>1. KindStep(c.kind) /\ (Named => Named')
      BY <1>2, UpdateObjectFailsSound DEF KindSound, KindStep
    <2> QED BY <2>1, Assembled
  <1>3. CASE RemoveFinalizer(w)
    <2>1. Accounted(Elsewhere(c.kind))
      BY NamedAccounts
    <2>2. KindStep(c.kind) /\ (Named => Named')
      BY <1>3, <2>1, RemoveFinalizerSound DEF KindSound, KindStep
    <2> QED BY <2>2, Assembled
  <1> HIDE DEF stored, admitted
  <1> QED BY <1>1, <1>2, <1>3, RecordKeeps,
             ObserveKeeps, CreateKeeps, UpdateKeeps, DeleteKeeps
          DEF Reconcile, stored, admitted

\* Users, and other clients of the cloud.
LEMMA OutsideKeeps ==
    ASSUME NEW CONSTANT c \in Cases, Holds(c),
           \/ UserEdit
           \/ DeleteObject
           \/ \E i \in Ids : Drift(i) \/ BecomeReadable(i)
           \/ EndGracePeriod
    PROVE  Keeps(c.kind)
  <1> USE CaseFacts
  <1>1. Unused # Deleted /\ case = c
    BY ControllersAssumption DEF Holds
  <1>2. CASE UserEdit
    <2>1. PICK spec \in SpecsOf[c] : EditSpec(spec)
      BY <1>1, <1>2 DEF UserEdit
    <2>2. spec \in KindSpecs(c.kind)
      BY CaseTypes
    <2>3. KindSound(c.kind)' /\ (Named => Named') /\ edits' # edits
      BY <1>1, <2>1, <2>2, EditSound DEF KindSound
    <2> QED BY <2>3 DEF Keeps, SettingsStep
  <1>3. CASE DeleteObject
    <2>1. KindStep(c.kind) /\ (Named => Named')
      BY <1>3, DeleteObjectSound DEF KindSound, KindStep
    <2> QED BY <2>1, Assembled
  <1>4. CASE (\E i \in Ids : BecomeReadable(i)) \/ EndGracePeriod
    <2>1. KindStep(c.kind) /\ (Named => Named')
      BY <1>1, <1>4, LagSound DEF KindSound, KindStep
    <2> QED BY <2>1, Assembled
  <1>5. ASSUME NEW i \in Ids, NEW resource \in KindResources(c.kind) \cup {Deleted},
               Live(i), cloud' = [cloud EXCEPT ![i] = resource], Edit,
               UNCHANGED <<mr, run, fresh, hidden, grace, lost, faults>>,
               resource # Deleted /\ c.kind = "RecordSet" =>
                   \A f \in RS!Zones : resource[f] = cloud[i][f]
        PROVE  Keeps(c.kind)
    <2>1. resource # Unused /\ Counted
      BY <1>5, NotUnused DEF Counted
    <2>2. LeftAbsent(Elsewhere(c.kind), cloud[i], resource)
      BY <1>5, StaysElsewhere DEF LeftAbsent
    <2>3. KindStep(c.kind) /\ (Named => Named')
      BY <1>5, <2>1, <2>2, CloudSound DEF KindSound, KindStep
    <2> QED BY <2>3, Assembled
  <1>6. ASSUME NEW i \in Ids, Drift(i)
        PROVE  Keeps(c.kind)
    <2>1. CASE RemoveOutOfBand(i)
      BY <1>5, <2>1 DEF RemoveOutOfBand
    <2>2. ASSUME NEW r \in ResourcesOf[c], ChangeOutOfBand(i, r),
                 \A f \in FixedOf(kind) \ {"tags"} : r[f] = cloud[i][f]
          PROVE  Keeps(c.kind)
      <3>1. r \in KindResources(c.kind)
        BY CaseTypes
      <3>2. c.kind = "RecordSet" => \A f \in RS!Zones : r[f] = cloud[i][f]
        BY <2>2 DEF FixedOf, Statics, Static, RS!Zones
      <3> QED BY <1>5, <2>2, <3>1, <3>2 DEF ChangeOutOfBand
    <2> QED BY <1>1, <1>6, <2>1, <2>2 DEF Drift
  <1> QED BY <1>2, <1>3, <1>4, <1>6

----------------------------------------------------------------------------
(* The theorems *)

LEMMA InitInv == Init => IInv
  <1> SUFFICES ASSUME Init
               PROVE  IInv
    OBVIOUS
  <1>1. PICK c \in Cases : case = c
    BY DEF Init
  <1>2. c.kind \in Kinds /\ Unused \notin KindResources(c.kind)
    BY CaseTypes, NotUnused
  <1>3. /\ SpecsOf[c] \in SUBSET KindSpecs(c.kind)
        /\ ResourcesOf[c] \in SUBSET KindResources(c.kind)
    BY CaseTypes
  <1>4. InitWith(SpecsOf[c], ResourcesOf[c])
    BY <1>1 DEF Init
  <1>5. KindSound(c.kind) /\ Named
    BY <1>2, <1>3, <1>4, InitSound DEF KindSound
  <1> QED BY <1>1, <1>5 DEF IInv, Holds

LEMMA StutterKeeps ==
    ASSUME NEW CONSTANT c \in Cases, Holds(c), UNCHANGED vars
    PROVE  Keeps(c.kind)
  <1>1. /\ c.kind \in Kinds /\ Named /\ KindSound(c.kind)
        /\ Reflexive(Kept(c.kind), KindSpecs(c.kind))
    BY CaseFacts
  <1>2. KindStep(c.kind)
    BY <1>1, SoundStutter DEF KindSound, KindStep
  <1>3. Named'
    BY <1>1, SoundStutter DEF KindSound
  <1> HIDE DEF vars
  <1> QED BY <1>1, <1>2, <1>3, Assembled

LEMMA NextKeeps ==
    ASSUME NEW CONSTANT c \in Cases, Holds(c), [Next]_allVars
    PROVE  Holds(c)' /\ Keeps(c.kind)
  <1>1. ASSUME NEW w \in Workers, Begin(w)
        PROVE  Keeps(c.kind)
    <2>1. KindStep(c.kind) /\ (Named => Named')
      BY <1>1, CaseFacts, BeginSound DEF KindSound, KindStep
    <2> QED BY <2>1, CaseFacts, Assembled
  <1>2. ASSUME NEW w \in Workers, Abandon(w)
        PROVE  Keeps(c.kind)
    <2>1. KindStep(c.kind) /\ (Named => Named')
      BY <1>2, CaseFacts, AbandonSound DEF KindSound, KindStep
    <2> QED BY <2>1, CaseFacts, Assembled
  <1>3. ASSUME UNCHANGED vars
        PROVE  Keeps(c.kind)
    BY <1>3, StutterKeeps
  <1>4. Keeps(c.kind)
    BY <1>1, <1>2, <1>3, ReconcileKeeps, OutsideKeeps DEF Next, allVars
  <1>5. case' = c
    BY DEF Next, allVars, Holds
  <1> QED BY <1>4, <1>5 DEF Keeps, Holds

LEMMA Invariance == Spec => []IInv
  <1>1. IInv /\ [Next]_allVars => IInv'
    <2> SUFFICES ASSUME IInv, [Next]_allVars
                 PROVE  IInv'
      OBVIOUS
    <2>1. PICK c \in Cases : Holds(c)
      BY DEF IInv
    <2>2. Holds(c)'
      BY <2>1, NextKeeps
    <2> QED BY <2>2 DEF IInv
  <1> QED BY InitInv, <1>1, PTL DEF Spec

\* What an object, its copies and the resources of its kind hold has the type

\* the runs check.
LEMMA TypesOfKind ==
    ASSUME NEW CONSTANT c \in Cases, Holds(c)
    PROVE  /\ \A spec \in KindSpecs(c.kind) : IsSpec(spec)
           /\ \A r \in KindResources(c.kind) : IsResource(r)
  <1>1. c.kind \in Kinds /\ kind = c.kind
    BY CaseFacts
  <1>2. \A spec \in KindSpecs(c.kind) : IsSpec(spec)
    BY <1>1, SpecFields DEF IsSpec, SettableOf
  <1>3. \A r \in KindResources(c.kind) : IsResource(r)
    BY <1>1, ResourceFields DEF IsResource, FilledOf
  <1> QED BY <1>2, <1>3

\* Specs stay within what admission knows and resources are filled in,
\* whatever the handlers of the nine kinds compute, late initialisation
\* adopts and the calls of an Update leave half done.
THEOREM TypeCorrect == Spec => []ResourcesTypeOK
  <1>1. ASSUME NEW CONSTANT c \in Cases, Holds(c)
        PROVE  ResourcesTypeOK
    <2>1. IsSpec(mr.spec)
      BY <1>1, StoredType, TypesOfKind
    <2>2. \A w \in Workers : run[w].pc = "idle" \/ IsSpec(run[w].obj.spec)
      BY <1>1, HoldsCopy, TypesOfKind
    <2>3. \A i \in Ids : Live(i) => IsResource(cloud[i])
      BY <1>1, ReadableType, TypesOfKind
    <2>4. mr.extName \in Ids \cup {Nil} /\ mr.create \in CreateStates
      BY <1>1, StoredType DEF Object
    <2> QED BY <2>1, <2>2, <2>3, <2>4 DEF ResourcesTypeOK
  <1>2. IInv => ResourcesTypeOK
    BY <1>1 DEF IInv
  <1> QED BY <1>2, Invariance, PTL

\* Create makes one resource for an object at most, of any of the kinds: the
\* guard on the external name and the conflict on the announcement see to it
\* for any number of replicas and stale copies, under crashes and failures.
THEOREM OneResourceAlways == Spec => []OneResourcePerObject
  <1>1. ASSUME NEW CONSTANT c \in Cases, Holds(c)
        PROVE  OneResourcePerObject
    BY <1>1, CreationIsEnough DEF Holds, KindSound, Sound, Creation
  <1>2. IInv => OneResourcePerObject
    BY <1>1 DEF IInv
  <1> QED BY <1>2, Invariance, PTL

\* What an object leaves behind is a record set in another zone.
LEMMA OrphanIsAstray == IInv => NoOrphanUnlessAstray
  <1>1. ASSUME NEW CONSTANT c \in Cases, Holds(c), ~NoOrphan
        PROVE  Astray
    <2>1. LagBounded /\ ~mr.exists /\ mr.finalizer
      BY <1>1 DEF NoOrphan
    <2>2. PICK i \in Ids \ lost : Live(i)
      BY <1>1 DEF NoOrphan
    <2>3. <<mr.spec, cloud[i]>> \in Elsewhere(c.kind)
      BY <1>1, <2>1, <2>2 DEF Holds, KindSound, Sound, Absence, NothingLeft
    <2>4. ~BeingRecorded(i)
      BY <1>1, <2>1 DEF Holds, KindSound, Sound, Announced, CreationAnnounced,
                        BeingRecorded, Creating
    <2>5. mr.extName = i
      BY <1>1, <2>2, <2>4 DEF Holds, Named, AllKnown, Live
    <2> QED BY <1>1, <2>2, <2>3, <2>5, CaseFacts, NilAssumption DEF Elsewhere, Astray
  <1> QED BY <1>1 DEF IInv, NoOrphanUnlessAstray

\* When reads lag behind no longer than the creation grace period, an object
\* that had a finalizer is gone only after its resource is, unless it names a
\* zone its record set is not in.
THEOREM NoOrphanUnlessAstrayAlways == Spec => []NoOrphanUnlessAstray
  BY OrphanIsAstray, Invariance, PTL

\* The writes of the finalizer, of the announcement, of late initialisation
\* and of a creation's record never change what the user has set, of any
\* kind: Observe fills in what is not set, and omitempty drops what is empty.
THEOREM SettingsKeptAlways == Spec => SettingsKept
  <1>1. ASSUME NEW CONSTANT c \in Cases, Holds(c), [Next]_allVars, edits' = edits,
               NEW f \in Given(mr.spec)
        PROVE  mr'.spec[f] = mr.spec[f]
    <2>1. <<mr.spec, mr'.spec>> \in Kept(c.kind)
      BY <1>1, NextKeeps DEF Keeps, SettingsStep
    <2>2. mr.spec \in KindSpecs(c.kind) /\ c.kind \in Kinds /\ kind = c.kind
      BY <1>1, StoredType, CaseFacts
    <2>3. f \in FieldsOf(c.kind)
      BY <2>2, SpecFields DEF Given
    <2>4. Fields!OmitEmpty(mr.spec, Omitted(c.kind))[f] # Nil
      BY <2>2, StoredForm DEF Given
    <2> QED BY <2>1, <2>3, <2>4 DEF Kept
  <1>2. IInv /\ [Next]_allVars =>
          [edits' = edits => \A f \in Given(mr.spec) : mr'.spec[f] = mr.spec[f]]_allVars
    BY <1>1 DEF IInv
  <1> QED BY <1>2, Invariance, PTL DEF Spec, SettingsKept

\* A reconcile leaves the others alone.
LEMMA OthersRest ==
    ASSUME NEW CONSTANT c \in Cases, Holds(c), NEW v \in Workers, NEW w \in Workers \ {v},
           Begin(v) \/ Reconcile(v) \/ Abandon(v)
    PROVE  run'[w] = run[w]
  <1>1. TypeWith(KindSpecs(c.kind), {}, KindResources(c.kind))
    BY CaseFacts DEF KindSound, Sound
  <1>2. ASSUME Stop(v)
        PROVE  run'[w] = run[w]
    BY <1>1, <1>2, StopRun
  <1>3. ASSUME NEW pc, NEW obj, NEW obs, Goto(v, pc, obj, obs)
        PROVE  run'[w] = run[w]
    BY <1>1, <1>3, GotoRun
  <1>4. ASSUME NEW obj, Finish(v, obj)
        PROVE  run'[w] = run[w]
    BY <1>2, <1>4 DEF Finish
  <1>5. ASSUME NEW changed, NEW stored, NEW admitted, NEW pc,
               UpdateObject(v, changed, stored, admitted, pc)
        PROVE  run'[w] = run[w]
    BY <1>2, <1>3, <1>4, <1>5 DEF UpdateObject, GoOn
  <1>6. CASE Begin(v)
    BY <1>3, <1>6 DEF Begin
  <1>7. CASE Abandon(v)
    BY <1>2, <1>7 DEF Abandon
  <1>8. ASSUME NEW stored, NEW admitted,
               \/ AddFinalizer(v, stored, admitted)
               \/ AnnounceCreate(v, stored, admitted)
               \/ LateInitialize(v, stored, admitted)
        PROVE  run'[w] = run[w]
    BY <1>5, <1>8 DEF AddFinalizer, AnnounceCreate, LateInitialize
  <1>9. CASE \/ RecordCreate(v) \/ RecordFailedCreate(v)
             \/ UpdateObjectFails(v) \/ RemoveFinalizer(v)
    BY <1>2, <1>4, <1>9
       DEF RecordCreate, RecordCreateIn, RecordFailedCreate, UpdateObjectFails,
           RemoveFinalizer
  <1>10. ASSUME NEW obj, NEW obs, Observed(v, obj, obs)
         PROVE  run'[w] = run[w]
    BY <1>2, <1>3, <1>4, <1>10 DEF Observed
  <1>11. CASE Observe(v)
    BY <1>4, <1>10, <1>11 DEF Observe, ObserveMissing, ObserveFailed
  <1>12. CASE Create(v)
    BY <1>3, <1>12
       DEF Create, CreateSkipped, CreateRefused, CreateSucceeds, CreateReturns,
           CreateFails
  <1>13. CASE Update(v) \/ Delete(v)
    BY <1>4, <1>13 DEF Update, Delete, External, ExternalUnchanged
  <1> QED BY <1>6, <1>7, <1>8, <1>9, <1>11, <1>12, <1>13 DEF Reconcile

\* The step that ends an Update, complete or not, leaves in the cloud what

\* the calls for the copy in memory reach from what was there.
LEMMA UpdateLeaves ==
    ASSUME NEW CONSTANT c \in Cases, Holds(c), Next, NEW w \in Workers,
           run[w].pc = "update", run'[w].pc = "idle",
           run[w].obj.extName \in Ids, Live(run[w].obj.extName)
    PROVE  LET i == run[w].obj.extName
           IN  cloud'[i] \in Reached(c.kind, run[w].obj.spec, cloud[i])
  <1> DEFINE i == run[w].obj.extName
             S == Reached(c.kind, run[w].obj.spec, cloud[i])
  <1>1. cloud[i] \in S
    BY ReadableType, NothingReached, CaseFacts
  <1>2. cloud \in [Ids -> KindResources(c.kind) \cup {Unused, Deleted}]
    BY CaseFacts DEF KindSound, Sound, TypeWith
  <1>3. CASE cloud' = cloud
    BY <1>1, <1>3
  <1>4. CASE Update(w)
    <2>1. CASE ExternalUnchanged(w, "update", run[w].obj)
      BY <1>3, <2>1 DEF ExternalUnchanged
    <2>2. ASSUME NEW x \in S, External(w, "update", x, run[w].obj)
          PROVE  cloud'[i] \in S
      <3>1. cloud' = [cloud EXCEPT ![i] = x]
        BY <2>2 DEF External
      <3> HIDE DEF S, i
      <3> QED BY <1>2, <3>1 DEF i
    <2> QED BY <1>4, <2>1, <2>2, UpdateOutcome
  <1>5. ASSUME NEW v \in Workers, Reconcile(v)
        PROVE  cloud'[i] \in S
    <2>1. v = w
      BY <1>5, OthersRest
    <2>2. Update(w)
      BY <1>5, <2>1
         DEF Reconcile, AddFinalizer, AnnounceCreate, RecordCreate, RecordCreateIn,
             RecordFailedCreate, LateInitialize, UpdateObjectFails, RemoveFinalizer
    <2> QED BY <1>4, <2>2
  <1>6. CASE \/ \E v \in Workers : Begin(v) \/ Abandon(v)
             \/ UserEdit \/ DeleteObject
             \/ \E j \in Ids : BecomeReadable(j)
             \/ EndGracePeriod
    <2>1. cloud' = cloud
      BY <1>6 DEF Begin, Abandon, UserEdit, EditSpec, DeleteObject, BecomeReadable,
                  EndGracePeriod
    <2> QED BY <1>3, <2>1
  <1>7. ASSUME NEW j \in Ids, Drift(j)
        PROVE  FALSE
    BY <1>7 DEF Drift, RemoveOutOfBand, ChangeOutOfBand
  <1> QED BY <1>5, <1>6, <1>7 DEF Next

\* A field that is not set in the object is never changed by an Update, of
\* any kind and whichever call fails, but for the port of an elastic IP.
THEOREM UnsetButPortLeftAloneAlways == Spec => UnsetButPortLeftAlone
  <1>1. ASSUME NEW CONSTANT c \in Cases, Holds(c), Next
        PROVE  LeavesAlone(FieldsOf(kind) \ {"portId"})
    <2> SUFFICES ASSUME NEW w \in Workers, run[w].pc = "update", run'[w].pc = "idle",
                        run[w].obj.extName \in Ids, Live(run[w].obj.extName),
                        NEW f \in FieldsOf(kind) \ {"portId"}, run[w].obj.spec[f] = Nil
                 PROVE  cloud'[run[w].obj.extName][f] = cloud[run[w].obj.extName][f]
      BY DEF LeavesAlone
    <2> DEFINE i == run[w].obj.extName
    <2>1. cloud'[i] \in Reached(c.kind, run[w].obj.spec, cloud[i])
      BY <1>1, UpdateLeaves
    <2>2. f \in FieldsOf(c.kind) \ {"portId"}
      BY <1>1, CaseFacts
    <2> QED BY <2>1, <2>2 DEF Reached
  <1>2. IInv /\ [Next]_allVars => [LeavesAlone(FieldsOf(kind) \ {"portId"})]_allVars
    BY <1>1 DEF IInv
  <1> QED BY <1>2, Invariance, PTL DEF Spec, UnsetButPortLeftAlone

\* An Update of a private zone associates new VPCs before it lets go of old
\* ones, and of none the object asks for: whichever of its calls fails, the
\* zone keeps a VPC, and those it had and should have.
THEOREM AssociationsKeptAlways == Spec => AssociationsKept
  <1> DEFINE Associated(w) ==
        LET i == run[w].obj.extName
            asked == BagToSet(run[w].obj.spec["vpcs"])
        IN  run[w].pc = "update" /\ run'[w].pc = "idle" /\ i \in Ids /\ Live(i) =>
              LET had == BagToSet(cloud[i]["vpcs"])
                  has == BagToSet(cloud'[i]["vpcs"])
              IN  has # {} /\ had \cap asked \subseteq has
  <1>1. ASSUME NEW CONSTANT c \in Cases, Holds(c), Next, kind = "PrivateZone",
               NEW w \in Workers
        PROVE  Associated(w)
    <2> SUFFICES ASSUME run[w].pc = "update", run'[w].pc = "idle",
                        run[w].obj.extName \in Ids, Live(run[w].obj.extName)
                 PROVE  Associated(w)
      OBVIOUS
    <2> DEFINE i == run[w].obj.extName
    <2>1. cloud'[i] \in Reached("PrivateZone", run[w].obj.spec, cloud[i])
      BY <1>1, UpdateLeaves, CaseFacts
    <2>2. BagToSet(cloud'[i]["vpcs"]) # {}
      BY <2>1, VPCsOfZone DEF Reached
    <2> QED BY <2>1, <2>2 DEF Reached
  <1>2. IInv /\ [Next]_allVars =>
          [kind = "PrivateZone" => \A w \in Workers : Associated(w)]_allVars
    BY <1>1 DEF IInv
  <1> QED BY <1>2, Invariance, PTL DEF Spec, AssociationsKept

----------------------------------------------------------------------------
(* The refinement, handler by handler *)

\* A step of Lifecycle; bounded: the object goes only after its resource.
Refines(bounded) == Tidy' /\ Implements(bounded, {})

\* The part of the invariant that the lemmas of LifecycleProofs ask for.
LEMMA Known ==
    ASSUME NEW CONSTANT c \in Cases, Holds(c)
    PROVE  /\ TypeWith(KindSpecs(c.kind), {}, KindResources(c.kind)) /\ Creation
           /\ Unused # Deleted /\ KindResources(c.kind) \cap {Unused, Deleted} = {}
  <1>1. Unused # Deleted /\ KindResources(c.kind) \cap {Unused, Deleted} = {}
    BY CaseFacts, NotUnused, ControllersAssumption
  <1>2. TypeWith(KindSpecs(c.kind), {}, KindResources(c.kind)) /\ Creation
    BY DEF Holds, KindSound, Sound, Creation
  <1> QED BY <1>1, <1>2

LEMMA ObserveImplements ==
    ASSUME NEW CONSTANT c \in Cases, Holds(c), Tidy,
           NEW w \in Workers, run[w].pc = "observe", Observe(w)
    PROVE  Refines(LagBounded)
  <1> DEFINE obj == run[w].obj
             r == cloud[obj.extName]
             seen == Seen(obj.spec, r)
             filled == [obj EXCEPT !.spec = seen.spec]
             obs == [exists |-> TRUE, lateInit |-> seen.spec # obj.spec,
                     upToDate |-> seen.upToDate]
  <1>1. obj \in Object(KindSpecs(c.kind), {}) /\ obj.spec \in KindSpecs(c.kind)
    BY HoldsCopy
  <1>2. edits' = edits
    BY DEF Observe, environment
  <1>3. \/ ObserveFailed(w)
        \/ Observed(w, obj, Unobserved)
        \/ ~ObserveRejects(obj) /\ Found(obj) /\ Observed(w, filled, obs)
    BY DEF Observe, ObserveMissing
  <1>4. CASE ObserveFailed(w)
    BY <1>2, <1>4, Known, ObserveFailedImplements DEF Refines
  <1>5. CASE Observed(w, obj, Unobserved)
    <2>1. Unobserved \in Observation /\ SameCopy(obj, run[w].obj)
      BY DEF Unobserved, Observation, SameCopy
    <2> HIDE DEF obj
    <2> QED BY <1>1, <1>2, <1>5, <2>1, Known, ObservedImplements DEF Refines
  <1>6. CASE ~ObserveRejects(obj) /\ Found(obj) /\ Observed(w, filled, obs)
    <2>1. r \in KindResources(c.kind)
      BY <1>6, ReadableType DEF Found
    <2>2. c.kind = "Subnet" => SN!validateSubnetParameters(obj.spec)
      BY <1>6, CaseFacts DEF ObserveRejects
    <2>3. kind = c.kind /\ c.kind \in Kinds
      BY CaseFacts
    <2> HIDE DEF obj, r
    <2>4. seen.spec \in KindSpecs(c.kind) /\ seen.upToDate \in BOOLEAN
      BY <1>1, <2>1, <2>2, <2>3, SeenType
    <2>5. obs \in Observation
      BY <2>4 DEF Observation
    <2> HIDE DEF seen, obs
    <2>6. filled \in Object(KindSpecs(c.kind), {}) /\ SameCopy(filled, obj)
      BY <1>1, <2>4, ChangedSpec
    <2> HIDE DEF filled
    <2> QED BY <1>2, <1>6, <2>5, <2>6, Known, ObservedImplements DEF obj, Refines
  <1> HIDE DEF obj, seen, filled, obs
  <1> QED BY <1>3, <1>4, <1>5, <1>6

LEMMA CreateImplements ==
    ASSUME NEW CONSTANT c \in Cases, Holds(c), Tidy,
           NEW w \in Workers, run[w].pc = "create", Create(w)
    PROVE  Refines(LagBounded)
  <1>1. CASE CreateSkipped(w)
    BY <1>1, Known, CreateSkippedImplements DEF Refines
  <1>2. ASSUME run[w].obj.extName = Nil, NEW resource \in KindResources(c.kind),
               \/ CreateReturns(w, resource, run[w].obj)
               \/ CreateFails(w, resource)
               \/ CreateRefused(w)
        PROVE  Refines(LagBounded)
    <2>1. resource \notin {Unused, Deleted}
      BY Known
    <2>2. run[w].obj \in Object(KindSpecs(c.kind), {}) /\ SameCopy(run[w].obj, run[w].obj)
      BY HoldsCopy DEF SameCopy
    <2> QED BY <1>2, <2>1, <2>2, Known, CreateReturnsImplements,
               CreateFailsImplements
            DEF Refines
  <1> QED BY <1>1, <1>2, CreateOutcome

\* Update and Delete, by what they leave.
LEMMA ExternalRefines ==
    ASSUME NEW CONSTANT c \in Cases, Holds(c), Tidy,
           NEW w \in Workers, NEW pc \in {"update", "delete"},
           NEW resource \in KindResources(c.kind) \cup {Deleted},
           resource = Deleted => pc = "delete",
           External(w, pc, resource, run[w].obj), Readable(run[w].obj.extName),
           edits' = edits
    PROVE  Refines(LagBounded)
  <1>1. resource # Unused
    BY Known
  <1> QED BY <1>1, Known, ExternalImplements DEF Refines

LEMMA ExternalUnchangedRefines ==
    ASSUME NEW CONSTANT c \in Cases, Holds(c), Tidy,
           NEW w \in Workers, NEW pc \in {"update", "delete"},
           ExternalUnchanged(w, pc, run[w].obj), edits' = edits
    PROVE  Refines(LagBounded)
  BY Known, ExternalUnchangedImplements DEF Refines

LEMMA UpdateImplements ==
    ASSUME NEW CONSTANT c \in Cases, Holds(c), Tidy,
           NEW w \in Workers, run[w].pc = "update", Update(w)
    PROVE  Refines(LagBounded)
  <1>1. edits' = edits
    BY UpdateOutcome DEF environment
  <1>2. ASSUME Readable(run[w].obj.extName), NEW x \in KindResources(c.kind),
               External(w, "update", x, run[w].obj)
        PROVE  Refines(LagBounded)
    <2>1. x # Deleted
      BY Known
    <2> QED BY <1>1, <1>2, <2>1, ExternalRefines
  <1> QED BY <1>1, <1>2, UpdateOutcome, ExternalUnchangedRefines DEF Reached

LEMMA DeleteImplements ==
    ASSUME NEW CONSTANT c \in Cases, Holds(c), Tidy,
           NEW w \in Workers, run[w].pc = "delete", Delete(w)
    PROVE  Refines(LagBounded)
  <1>1. edits' = edits
    BY DeleteOutcome DEF environment
  <1> QED BY <1>1, DeleteOutcome, ExternalRefines, ExternalUnchangedRefines

\* All steps of a reconcile but the last.
LEMMA ReconcileImplements ==
    ASSUME NEW CONSTANT c \in Cases, Holds(c), Tidy,
           NEW w \in Workers, Reconcile(w), ~RemoveFinalizer(w)
    PROVE  Refines(LagBounded)
  <1> DEFINE stored == Stored(run[w].obj.spec)
             admitted == Admitted(mr.spec, stored)
  <1>1. CASE \/ AddFinalizer(w, stored, admitted)
             \/ AnnounceCreate(w, stored, admitted)
             \/ LateInitialize(w, stored, admitted)
    <2>1. admitted \in BOOLEAN
      BY CaseFacts, AdmittedType
    <2> HIDE DEF stored, admitted
    <2> QED BY <1>1, <2>1, Known, ObjectWriteImplements DEF Refines
  <1>2. CASE RecordCreate(w)
    <2>1. mr \in Object(KindSpecs(c.kind), {}) /\ SameCopy(mr, mr)
      BY StoredType DEF SameCopy
    <2> QED BY <1>2, <2>1, Known, RecordCreateImplements DEF Refines, RecordCreate
  <1>3. CASE RecordFailedCreate(w)
    BY <1>3, Known, RecordFailedCreateImplements DEF Refines
  <1>4. CASE UpdateObjectFails(w)
    <2>1. edits' = edits
      BY <1>4 DEF UpdateObjectFails
    <2> QED BY <1>4, <2>1, Known, ObserveFailedImplements DEF Refines
  <1> HIDE DEF stored, admitted
  <1> QED BY <1>1, <1>2, <1>3, <1>4,
             ObserveImplements, CreateImplements, UpdateImplements,
             DeleteImplements
          DEF Reconcile, stored, admitted

\* The last one lets go of a record set that is astray, and of no other.
LEMMA LastStepImplements ==
    ASSUME NEW CONSTANT c \in Cases, Holds(c), Tidy,
           NoOrphanUnlessAstray', case' = case,
           NEW w \in Workers, RemoveFinalizer(w)
    PROVE  Refines(LagBounded) \/ (Astray /\ Refines(FALSE))
  <1>1. CASE Astray
    BY <1>1, Known, RemoveFinalizerImplements DEF Refines
  <1>2. CASE ~Astray
    <2>1. mr' = mr \/ mr' = [mr EXCEPT !.exists = FALSE]
      BY DEF RemoveFinalizer, Store
    <2>2. mr'.spec = mr.spec /\ mr'.extName = mr.extName /\ cloud' = cloud
      BY <2>1, StoredType DEF RemoveFinalizer, Object
    <2>3. ~Astray'
      BY <1>2, <2>2 DEF Astray, kind, Live
    <2>4. NoOrphan'
      BY <2>3 DEF NoOrphanUnlessAstray
    <2> QED BY <2>4, Known, RemoveFinalizerImplements DEF Refines
  <1> QED BY <1>1, <1>2

LEMMA StepImplements ==
    ASSUME NEW CONSTANT c \in Cases, Holds(c), Tidy,
           NoOrphanUnlessAstray', [Next]_allVars
    PROVE  Refines(LagBounded) \/ (Astray /\ Refines(FALSE))
  <1>1. case = c /\ case' = case
    BY DEF Holds, Next, allVars
  <1>2. ASSUME NEW w \in Workers, Begin(w)
        PROVE  Refines(LagBounded)
    BY <1>2, Known, BeginImplements DEF Refines
  <1>3. ASSUME NEW w \in Workers, Abandon(w)
        PROVE  Refines(LagBounded)
    BY <1>3, Known, AbandonImplements DEF Refines
  <1>4. CASE DeleteObject
    BY <1>4, Known, DeleteObjectImplements DEF Refines
  <1>5. CASE \/ UserEdit
             \/ \E i \in Ids : Drift(i) \/ BecomeReadable(i)
             \/ EndGracePeriod
    <2>1. SpecsOf[c] \subseteq KindSpecs(c.kind) /\ ResourcesOf[c] \subseteq KindResources(c.kind)
      BY CaseTypes
    <2>2. \/ \E spec \in KindSpecs(c.kind) : EditSpec(spec)
          \/ \E i \in Ids : RemoveOutOfBand(i) \/ BecomeReadable(i)
          \/ \E i \in Ids, r \in KindResources(c.kind) : ChangeOutOfBand(i, r)
          \/ EndGracePeriod
      BY <1>1, <1>5, <2>1 DEF UserEdit, Drift
    <2> QED BY <2>2, Known, OutsideImplements DEF Refines
  <1>6. CASE UNCHANGED vars
    BY <1>6, UnchangedImplements DEF Refines
  <1> QED BY <1>1, <1>2, <1>3, <1>4, <1>5, <1>6, ReconcileImplements,
             LastStepImplements
          DEF Next, allVars

\* Every behaviour of each of the nine controllers, with any number of replicas
\* and stale copies, crashes and failed calls, is one of Lifecycle: it makes
\* one resource, notes its name once, deletes it only for a deleted object, and
\* lets go of the object only after it, but for a record set gone astray.
THEOREM ControllersImplementLifecycle == Spec => KeepsPromise
  <1>1. Init => Tidy /\ Promise(LagBounded, {})!Init
    <2> SUFFICES ASSUME Init
                 PROVE  Tidy /\ Promise(LagBounded, {})!Init
      OBVIOUS
    <2>1. PICK c \in Cases : case = c
      BY DEF Init
    <2>2. /\ Unused # Deleted /\ ResourcesOf[c] \subseteq KindResources(c.kind)
          /\ KindResources(c.kind) \cap {Unused, Deleted} = {}
      BY CaseTypes, NotUnused, ControllersAssumption
    <2>3. InitWith(SpecsOf[c], ResourcesOf[c])
      BY <2>1 DEF Init
    <2> QED BY <2>2, <2>3, InitImplements
  <1>2. IInv /\ Tidy /\ NoOrphanUnlessAstray' /\ [Next]_allVars
            => /\ Tidy'
               /\ [\/ Promise(LagBounded, {})!Next
                   \/ Astray /\ Promise(FALSE, {})!Next]_(Promise(LagBounded, {})!vars)
    <2> SUFFICES ASSUME IInv, Tidy, NoOrphanUnlessAstray', [Next]_allVars
                 PROVE  Refines(LagBounded) \/ (Astray /\ Refines(FALSE))
      BY DEF Refines, Implements, Promise!vars
    <2>1. PICK c \in Cases : Holds(c)
      BY DEF IInv
    <2> QED BY <2>1, StepImplements
  <1> QED BY <1>1, <1>2, OrphanIsAstray, Invariance, PTL DEF Spec, KeepsPromise

============================================================================
