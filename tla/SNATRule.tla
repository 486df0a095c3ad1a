----------------------------- MODULE SNATRule -----------------------------
(***************************************************************************)
(* The SNAT rule controller (internal/controller/snatrule): nothing can be *)
(* updated.  sourceType has the one value VPC and is left out.             *)
(***************************************************************************)
EXTENDS Fields

Required == {"natGatewayId", "elasticIpId"}
Optional == {"subnetId", "cidr", "description"}
Immutable == Required \cup Optional

RuleAdmitted(old, new) == KeptOn(old, new, Immutable)

\* Exactly one of subnetId and cidr.
validateSNATRuleParameters(spec) ==
    spec["subnetId"] \in {Nil, ""} <=> spec["cidr"] \notin {Nil, ""}

lateInitializeSNATRule(spec, rule) == Adopted(spec, rule, Optional)

isSNATRuleUpToDate(spec, rule) == UpToDateOn(spec, rule, Immutable)

Observe(spec, rule) ==
    LET filled == lateInitializeSNATRule(spec, rule)
    IN  Observation(filled, isSNATRuleUpToDate(filled, rule))

\* buildCreateOpts; the service derives nothing from the other source.
Create(spec, default) ==
    CreatedWith(spec, Required \cup Optional,
                [default EXCEPT !["subnetId"] = "", !["cidr"] = ""])

\* Update always returns an error.
Update(spec, rule) == {}

Delete(spec, rule) == <<Deleted>>

============================================================================
