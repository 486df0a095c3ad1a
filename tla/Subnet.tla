------------------------------ MODULE Subnet ------------------------------
(***************************************************************************)
(* The subnet controller (internal/controller/subnet).  vpcId is set when  *)
(* the handlers run: the reconcile loop resolves references before.        *)
(***************************************************************************)
EXTENDS Fields

Required == {"name", "cidr", "gatewayIp", "vpcId"}

Optional == {"description", "dnsList", "dhcpEnable", "ipv6Enable", "primaryDns",
             "secondaryDns", "availabilityZone", "ntpAddresses", "tags"}

Checked == {"cidr", "gatewayIp", "primaryDns", "secondaryDns", "dnsList"}

Immutable == {"cidr", "gatewayIp", "ipv6Enable", "availabilityZone", "vpcId"}

SubnetAdmitted(old, new) == KeptOn(old, new, Immutable)

StoredSubnet(spec) == OmitEmpty(spec, {"dnsList", "tags"})

validateSubnetParameters(spec) == \A f \in Checked : spec[f] # Malformed

validateImmutableSubnetFields(spec, subnet) == UpToDateOn(spec, subnet, Immutable)

lateInitializeSubnet(spec, subnet) ==
    LET strings == Adopted(spec, subnet, (Optional \ Flags) \cup {"vpcId"})
    IN  [f \in DOMAIN spec |->
            IF f \in Flags THEN LateInitPtr(spec[f], subnet[f]) ELSE strings[f]]

isSubnetUpToDate(spec, subnet) == UpToDateOn(spec, subnet, Required \cup Optional)

Observe(spec, subnet) ==
    IF ~validateSubnetParameters(spec) THEN ObserveError
    ELSE LET filled == lateInitializeSubnet(spec, subnet)
         IN  Observation(filled, isSubnetUpToDate(filled, subnet))

\* buildSubnetCreateOpts: tags are left to Update.
Create(spec, default) ==
    CreatedWith(spec, (Required \cup Optional) \ {"tags"},
                [default EXCEPT !["dhcpEnable"] = TRUE, !["ipv6Enable"] = FALSE])

ByValue == {"primaryDns", "secondaryDns", "dnsList"}

\* buildSubnetUpdateOpts: the name, and what is set and differs.
AfterUpdateCall(spec, subnet) ==
    AfterCall(spec, subnet,
              {"name", "description", "primaryDns", "secondaryDns", "dnsList",
               "dhcpEnable", "ntpAddresses"},
              ByValue)

Update(spec, subnet) ==
    IF ~(validateSubnetParameters(spec) /\ validateImmutableSubnetFields(spec, subnet))
    THEN {}
    ELSE UNION {{<<s>> \o calls : calls \in TagCalls(spec, subnet, s)} :
                   s \in AfterUpdateCall(spec, subnet)}

\* resolveVPCIDForDelete: always the vpcId of the spec, and so the subnet is
\* not found under a VPC it does not belong to.
Delete(spec, subnet) ==
    IF spec["vpcId"] = subnet["vpcId"] THEN <<Deleted>> ELSE <<>>

============================================================================
