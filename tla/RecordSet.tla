----------------------------- MODULE RecordSet -----------------------------
(***************************************************************************)
(* The DNS record set controller (internal/controller/dnsrecordset).  A    *)
(* record set is looked up, changed and deleted in the zone its object     *)
(* names, which may be edited.                                             *)
(***************************************************************************)
EXTENDS Fields

Zones == {"privateZoneId", "publicZoneId"}

Required == {"name", "type", "records"}
Optional == {"description", "ttl", "tags"} \cup Zones

Immutable == {"name", "type"}

\* Exactly one of the zones is given.
OneZone(spec) == spec["privateZoneId"] = Nil <=> spec["publicZoneId"] # Nil

InOneZone(set) == set["privateZoneId"] = "" <=> set["publicZoneId"] # ""

RecordSetAdmitted(old, new) == KeptOn(old, new, Immutable) /\ OneZone(new)

StoredRecordSet(spec) == OmitEmpty(spec, {"tags"})

\* getZoneInfo: an empty ID counts as none.
ZoneIn(fields, none) ==
    IF fields["privateZoneId"] # none THEN <<"privateZoneId", fields["privateZoneId"]>>
    ELSE <<"publicZoneId", fields["publicZoneId"]>>

getZoneInfoFails(spec) == \A z \in Zones : spec[z] \in {Nil, ""}

\* The service finds a record set in its own zone only.
InZone(spec, set) == ZoneIn(spec, Nil) = ZoneIn(set, "")

\* A record set of type TXT is kept with quotes around each text.
quoteTXTRecords(type, records) ==
    IF type # "TXT" THEN records ELSE BagOfAll(LAMBDA r : r + 1, records)

trimTXTQuotes(type, records) ==
    IF type # "TXT" THEN records
    ELSE BagOfAll(LAMBDA r : IF r > 0 THEN r - 1 ELSE r, records)

\* "The API returns the records as an unordered set".
SentRecords(spec) ==
    SetToBag(BagToSet(quoteTXTRecords(spec["type"], spec["records"])))

SameRecords(spec, set) ==
    spec["records"] = trimTXTQuotes(set["type"], set["records"])

lateInitializeRecordSet(spec, set) ==
    Adopted(spec, set, {"ttl", "description", "tags"})

\* Name and type are not compared.
isRecordSetUpToDate(spec, set) ==
    /\ SameRecords(spec, set)
    /\ UpToDateOn(spec, set, {"ttl", "description", "tags"})

Observe(spec, set) ==
    LET filled == lateInitializeRecordSet(spec, set)
    IN  Observation(filled, isRecordSetUpToDate(filled, set))

\* buildRecordSetCreateOpts, sent to the zone; tags are left to Update.
Create(spec, default) ==
    [CreatedWith(spec, (Required \cup Optional) \ {"tags"},
                 [default EXCEPT !["privateZoneId"] = "", !["publicZoneId"] = ""])
     EXCEPT !["records"] = SentRecords(spec)]

ByValue == {"description", "ttl"}

\* buildRecordSetUpdateOpts: when anything differs, the records are sent too.
AfterUpdateCall(spec, set) ==
    IF SameRecords(spec, set) /\ UpToDateOn(spec, set, ByValue) THEN {set}
    ELSE {[s EXCEPT !["records"] = SentRecords(spec)] :
             s \in AfterCall(spec, set, ByValue, ByValue)}

Update(spec, set) ==
    UNION {{<<s>> \o calls : calls \in TagCalls(spec, set, s)} :
              s \in AfterUpdateCall(spec, set)}

Delete(spec, set) == <<Deleted>>

============================================================================
