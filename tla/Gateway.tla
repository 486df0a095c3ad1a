------------------------------ MODULE Gateway ------------------------------
(* The NAT gateway controller (internal/controller/natgateway).            *)
EXTENDS Fields

Required == {"name", "size", "vpcId", "subnetId"}
Optional == {"description", "tags"}
Immutable == {"vpcId", "subnetId"}

GatewayAdmitted(old, new) == KeptOn(old, new, Immutable)

StoredGateway(spec) == OmitEmpty(spec, {"tags"})

validateImmutableGatewayFields(spec, gateway) == UpToDateOn(spec, gateway, Immutable)

lateInitializeGateway(spec, gateway) ==
    Adopted(spec, gateway, {"description", "vpcId", "subnetId", "tags"})

\* (Faulty: the size is forgotten.)
UpToDateButSize(spec, gateway) ==
    UpToDateOn(spec, gateway, (Required \ {"size"}) \cup Optional)

isGatewayUpToDate(spec, gateway) == UpToDateOn(spec, gateway, Required \cup Optional)

Observe(spec, gateway) ==
    LET filled == lateInitializeGateway(spec, gateway)
    IN  Observation(filled, isGatewayUpToDate(filled, gateway))

\* buildGatewayCreateOpts: tags are left to Update.
Create(spec, default) == CreatedWith(spec, (Required \cup Optional) \ {"tags"}, default)

ByValue == {"description"}

\* buildGatewayUpdateOpts: name and size always.
AfterUpdateCall(spec, gateway) ==
    AfterCall(spec, gateway, {"name", "size", "description"}, ByValue)

Update(spec, gateway) ==
    IF ~validateImmutableGatewayFields(spec, gateway) THEN {}
    ELSE UNION {{<<g>> \o calls : calls \in TagCalls(spec, gateway, g)} :
                   g \in AfterUpdateCall(spec, gateway)}

Delete(spec, gateway) == <<Deleted>>

============================================================================
