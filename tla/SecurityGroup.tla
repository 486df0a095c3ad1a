--------------------------- MODULE SecurityGroup ---------------------------
(* The security group controller (internal/controller/securitygroup).      *)
EXTENDS Fields

Required == {"name"}
Optional == {"description", "enterpriseProjectId", "tags"}
Immutable == {"enterpriseProjectId", "tags"}

GroupAdmitted(old, new) == KeptOn(old, new, Immutable)

StoredGroup(spec) == OmitEmpty(spec, {"tags"})

validateImmutableSecurityGroupFields(spec, group) == UpToDateOn(spec, group, Immutable)

lateInitializeSecurityGroup(spec, group) == Adopted(spec, group, Optional)

isSecurityGroupUpToDate(spec, group) == UpToDateOn(spec, group, Required \cup Optional)

Observe(spec, group) ==
    LET filled == lateInitializeSecurityGroup(spec, group)
    IN  Observation(filled, isSecurityGroupUpToDate(filled, group))

\* buildSecurityGroupCreateOpts: tags included.
Create(spec, default) ==
    CreatedWith(spec, Required \cup Optional, [default EXCEPT !["tags"] = EmptyMap])

ByValue == {"description"}

\* buildSecurityGroupUpdateOpts, in the one call of Update.
Update(spec, group) ==
    IF ~validateImmutableSecurityGroupFields(spec, group) THEN {}
    ELSE {<<g>> : g \in AfterCall(spec, group, {"name", "description"}, ByValue)}

Delete(spec, group) == <<Deleted>>

============================================================================
