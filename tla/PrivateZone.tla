---------------------------- MODULE PrivateZone ----------------------------
(***************************************************************************)
(* The private DNS zone controller (internal/controller/dnsprivatezone).   *)
(* The zone is associated with VPCs, one call for each.                    *)
(***************************************************************************)
EXTENDS Fields

Required == {"name", "vpcs"}
Optional == {"email", "ttl", "description", "tags"}

Immutable == {"name"}

ZoneAdmitted(old, new) == KeptOn(old, new, Immutable)

StoredZone(spec) == OmitEmpty(spec, {"tags"})

lateInitializePrivateZone(spec, zone) == Adopted(spec, zone, Optional)

\* isVPCsUpToDate compares sorted lists: with a VPC given twice it never holds.
isPrivateZoneUpToDate(spec, zone) ==
    UpToDateOn(spec, zone, Optional \cup {"vpcs"})

Observe(spec, zone) ==
    LET filled == lateInitializePrivateZone(spec, zone)
    IN  Observation(filled, isPrivateZoneUpToDate(filled, zone))

\* validatePrivateZoneParameters: admission does not require an ID.
validatePrivateZoneParameters(spec) == "" \notin BagToSet(spec["vpcs"])

\* buildPrivateZoneCreateOpts: the first VPC alone is sent, and as a list is
\* a bag here, default says which one that is.  Tags are left to Update.
FirstVPC(spec, default) ==
    LET vpcs == BagToSet(spec["vpcs"])
        chosen == vpcs \cap BagToSet(default["vpcs"])
    IN  CHOOSE v \in vpcs : chosen # {} => v \in chosen

Create(spec, default) ==
    [CreatedWith(spec, (Required \cup Optional) \ {"tags"}, default) EXCEPT
        !["vpcs"] = SetToBag({FirstVPC(spec, default)})]

ByValue == {"email", "ttl", "description"}

\* buildPrivateZoneUpdateOpts: what is set and differs.
AfterUpdateCall(spec, zone) == AfterCall(spec, zone, ByValue, ByValue)

\* reconcileVPCs: associations, then disassociations, each of what was missing
\* or extra before the first call.
Missing(spec, zone) == BagToSet(spec["vpcs"]) \ BagToSet(zone["vpcs"])
Extra(spec, zone) == BagToSet(zone["vpcs"]) \ BagToSet(spec["vpcs"])

WithVPCs(zone, vpcs) == [zone EXCEPT !["vpcs"] = SetToBag(vpcs)]

Associations(zone, vs) ==
    [n \in DOMAIN vs |->
        WithVPCs(zone, BagToSet(zone["vpcs"]) \cup ToSet(SubSeq(vs, 1, n)))]

Disassociations(zone, vs) ==
    [n \in DOMAIN vs |->
        WithVPCs(zone, BagToSet(zone["vpcs"]) \ ToSet(SubSeq(vs, 1, n)))]

\* (Faulty: what is extra goes first.)
DisassociationsFirst(spec, zone) ==
    LET rest == WithVPCs(zone, BagToSet(zone["vpcs"]) \ Extra(spec, zone))
    IN  {Disassociations(zone, us) \o Associations(rest, vs) :
            vs \in SetToSeqs(Missing(spec, zone)),
            us \in SetToSeqs(Extra(spec, zone))}

VPCCalls(spec, zone) ==
    IF "" \in BagToSet(spec["vpcs"]) THEN {}
    ELSE LET all == WithVPCs(zone, BagToSet(zone["vpcs"]) \cup Missing(spec, zone))
         IN  UNION {{Associations(zone, vs) \o Disassociations(all, us) :
                       us \in SetToSeqs(Extra(spec, zone))} :
                       vs \in SetToSeqs(Missing(spec, zone))}

\* The service refuses a VPC without ID, and may refuse to associate again a
\* VPC that was missing and is given twice.
RefusedVPCCalls(spec, zone) ==
    UNION {{Associations(zone, SubSeq(vs, 1, n)) :
              n \in {m \in 0..Len(vs) :
                        \/ "" \in BagToSet(spec["vpcs"])
                        \/ \E k \in 1..m : spec["vpcs"][vs[k]] > 1}} :
              vs \in SetToSeqs(Missing(spec, zone) \ {""})}

\* The calls of Update go on to the tags unless one is refused.
Update(spec, zone) ==
    UNION {
        {<<z>> \o calls : calls \in RefusedVPCCalls(spec, z)} \cup
        UNION {{<<z>> \o calls \o tagged :
                  tagged \in TagCalls(spec, zone, Last(<<z>> \o calls))} :
                  calls \in VPCCalls(spec, z)} :
        z \in AfterUpdateCall(spec, zone)}

Delete(spec, zone) == <<Deleted>>

============================================================================
