----------------------------- MODULE ElasticIP -----------------------------
(***************************************************************************)
(* The elastic IP controller (internal/controller/elasticip).  bandwidth   *)
(* is the name of the bandwidth, size its size; the type of the address    *)
(* and the share type have one value each and are left out.                *)
(***************************************************************************)
EXTENDS Fields

Required == {"bandwidth", "size"}
Optional == {"ipAddress", "name", "portId", "chargeMode", "tags"}
Immutable == {"ipAddress", "name", "chargeMode"}

AddressAdmitted(old, new) == KeptOn(old, new, Immutable)

StoredAddress(spec) == OmitEmpty(spec, {"tags"})

validateImmutableFields(spec, address) == UpToDateOn(spec, address, Immutable)

lateInitializeElasticIP(spec, address) == Adopted(spec, address, Optional)

\* ipAddress and name are not compared.
isElasticIPUpToDate(spec, address) ==
    UpToDateOn(spec, address,
               {"bandwidth", "size", "portId", "chargeMode", "tags"})

Observe(spec, address) ==
    LET filled == lateInitializeElasticIP(spec, address)
    IN  Observation(filled, isElasticIPUpToDate(filled, address))

\* buildCreateOpts: port and tags are left to Update.
Create(spec, default) ==
    CreatedWith(spec, (Required \cup Optional) \ {"portId", "tags"}, default)

\* updateBandwidth.
AfterBandwidth(spec, address) ==
    [address EXCEPT !["bandwidth"] = spec["bandwidth"], !["size"] = spec["size"]]

\* updatePortBinding: no port in the spec unbinds the address.
AfterPortBinding(spec, address) ==
    [AfterBandwidth(spec, address) EXCEPT !["portId"] = Deref(spec["portId"], "")]

Update(spec, address) ==
    IF ~validateImmutableFields(spec, address) THEN {}
    ELSE {<<AfterBandwidth(spec, address), AfterPortBinding(spec, address)>> \o calls :
             calls \in TagCalls(spec, address, AfterPortBinding(spec, address))}

\* Delete unbinds the address first.
Delete(spec, address) ==
    IF address["portId"] = "" THEN <<Deleted>>
    ELSE <<[address EXCEPT !["portId"] = ""], Deleted>>

============================================================================
