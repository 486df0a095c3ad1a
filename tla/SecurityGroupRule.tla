------------------------- MODULE SecurityGroupRule -------------------------
(* The security group rule controller                                      *)
(* (internal/controller/securitygrouprule): nothing can be updated.        *)
EXTENDS Fields

Required == {"securityGroupId", "direction"}

Optional == {"description", "etherType", "protocol", "multiPort",
             "remoteGroupId", "remoteIpPrefix", "action", "priority"}

Immutable == Required \cup Optional

RuleAdmitted(old, new) == KeptOn(old, new, Immutable)

lateInitializeSecurityGroupRule(spec, rule) == Adopted(spec, rule, Optional)

isSecurityGroupRuleUpToDate(spec, rule) == UpToDateOn(spec, rule, Immutable)

Observe(spec, rule) ==
    LET filled == lateInitializeSecurityGroupRule(spec, rule)
    IN  Observation(filled, isSecurityGroupRuleUpToDate(filled, rule))

\* buildCreateOpts.
Create(spec, default) == CreatedWith(spec, Required \cup Optional, default)

\* Update always returns an error.
Update(spec, rule) == {}

Delete(spec, rule) == <<Deleted>>

============================================================================
