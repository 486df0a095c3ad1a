---------------------------- MODULE PublicZone ----------------------------
(* The public DNS zone controller (internal/controller/dnspubliczone).     *)
EXTENDS Fields

Required == {"name"}
Optional == {"email", "ttl", "description", "tags"}

Immutable == {"name"}

ZoneAdmitted(old, new) == KeptOn(old, new, Immutable)

StoredZone(spec) == OmitEmpty(spec, {"tags"})

lateInitializePublicZone(spec, zone) == Adopted(spec, zone, Optional)

\* The name is not compared.
isPublicZoneUpToDate(spec, zone) == UpToDateOn(spec, zone, Optional)

Observe(spec, zone) ==
    LET filled == lateInitializePublicZone(spec, zone)
    IN  Observation(filled, isPublicZoneUpToDate(filled, zone))

\* buildPublicZoneCreateOpts: tags are left to Update.
Create(spec, default) == CreatedWith(spec, (Required \cup Optional) \ {"tags"}, default)

ByValue == {"email", "ttl", "description"}

\* buildPublicZoneUpdateOpts: what is set and differs.
AfterUpdateCall(spec, zone) ==
    AfterCall(spec, zone, ByValue, ByValue)

Update(spec, zone) ==
    UNION {{<<z>> \o calls : calls \in TagCalls(spec, zone, z)} :
              z \in AfterUpdateCall(spec, zone)}

Delete(spec, zone) == <<Deleted>>

============================================================================
