------------------------------- MODULE Fields -------------------------------
(***************************************************************************)
(* What the controllers of field-wise resources have in common.  Their     *)
(* forProvider and the resource in the cloud are functions of the same     *)
(* field names; an unset field is Nil, and only in forProvider.  A handler *)
(* is a function here: Controllers runs it in the reconcile loop.          *)
(***************************************************************************)
EXTENDS SequencesExt, Util

CONSTANTS
    Values,     \* non-zero values of a string, number or list
    TagKeys,
    TagValues,
    MaxEntries, \* bound: entries of a list in an object
    Deleted     \* a resource after its deletion

Flags == {"dhcpEnable", "ipv6Enable"}

TagMaps == UNION {[K -> TagValues] : K \in SUBSET TagKeys}

\* A value the cloud or the validation of the controller refuses.
Malformed == "malformed"

\* Optional fields of an enumeration, or with a minimum.
NeverEmpty == {"etherType", "action", "priority"}

\* Lists whose order no handler depends on are bags: an object may repeat an
\* entry, the services keep sets.  The entries are VPCs, and DNS records: of
\* a record only the pairs of quotes around its text are told apart.
Lists == {"vpcs", "records"}

Entries(f) == IF f = "vpcs" THEN Values ELSE 0..2

ListsOver(E) ==
    {ToBag(list) : list \in UNION {[1..n -> E] : n \in 1..MaxEntries}}

RecordTypes == {"TXT", "A"}

Zero(f) ==
    CASE f = "tags"  -> EmptyMap
      [] f \in Flags -> FALSE
      [] f \in Lists -> EmptyBag
      [] OTHER       -> ""

InCloud(f) ==
    CASE f = "tags"  -> TagMaps
      [] f \in Flags -> BOOLEAN
      [] f \in Lists -> {SetToBag(S) : S \in (SUBSET Entries(f)) \ {{}}}
      [] f = "type"  -> RecordTypes
      [] OTHER       -> Values \cup {""}

\* What admission lets users set: a required field is never empty.
Settable(f, required, checked) ==
    CASE f = "tags"  -> TagMaps \cup {Nil}
      [] f \in Flags -> BOOLEAN \cup {Nil}
      [] f = "vpcs"  -> ListsOver(Values \cup {""})
      [] f = "records" -> ListsOver(0..1)
      [] f = "type"  -> RecordTypes
      [] OTHER       ->
        Values \cup (IF f \in required THEN {} ELSE {Nil})
               \cup (IF f \in required \cup NeverEmpty THEN {} ELSE {""})
               \cup (IF f \in checked THEN {Malformed} ELSE {})

\* One value of a field for when it does not matter.
Plain(f) ==
    CASE f = "vpcs"    -> SetToBag({"a"})
      [] f = "records" -> SetToBag({0})
      [] f = "type"    -> "TXT"
      [] OTHER         -> "a"

\* lateInitialize...: LateInitPtrIfNonZero and its kin on the fields F.
Adopted(spec, resource, F) ==
    [f \in DOMAIN spec |->
        IF f \in F THEN LateInitIfNonZero(spec[f], resource[f], Zero(f))
                   ELSE spec[f]]

\* is...UpToDate: required fields are never unset.
UpToDateOn(spec, resource, F) ==
    \A f \in F : IsOptionalUpToDate(spec[f], resource[f])

\* CEL, !has(oldSelf.f) || self.f == oldSelf.f: a value once given is kept.
KeptOn(old, new, F) == \A f \in F : old[f] # Nil => new[f] = old[f]

\* build...CreateOpts sends the fields F; the service completes the others.
\* (Faulty: what is unset is sent as it is.)
CreatedAsGiven(spec, F, default) ==
    [f \in DOMAIN spec |-> IF f \in F THEN spec[f] ELSE Zero(f)]

CreatedWith(spec, F, default) ==
    [f \in DOMAIN spec |->
        IF f \in F THEN Deref(spec[f], default[f]) ELSE Zero(f)]

\* The outcomes of an update call with the fields F.  Those in plain are sent
\* by value, which may leave a zero value out of the request.
\* (Faulty: what is unset is sent as empty.)
AfterFullCall(spec, resource, F, plain) ==
    {[f \in DOMAIN resource |->
        IF f \in F THEN Deref(spec[f], Zero(f)) ELSE resource[f]]}

AfterCall(spec, resource, F, plain) ==
    {[f \in DOMAIN resource |->
        IF f \in F \ dropped THEN Deref(spec[f], resource[f]) ELSE resource[f]] :
     dropped \in {{}, {f \in plain : spec[f] = Zero(f)}}}

\* reconcileTags: the states after the create and the delete request.
TagCalls(spec, observed, resource) ==
    IF spec["tags"] = Nil THEN {<<>>}
    ELSE LET written == TagsWritten(resource["tags"],
                                    TagDiff(spec["tags"], observed["tags"]))
             extra == TagDiff(observed["tags"], spec["tags"])
             With(tags) == [resource EXCEPT !["tags"] = tags]
         IN {<<With(written), With(TagsDeletedByKey(written, extra))>>,
             <<With(written), With(TagsDeletedByPair(written, extra))>>}

\* encoding/json: an empty map or list under omitempty is not written.
OmitEmpty(spec, F) ==
    [f \in DOMAIN spec |-> IF f \in F /\ spec[f] = Zero(f) THEN Nil ELSE spec[f]]

\* What Observe returns.
ObserveError == [ok |-> FALSE]
Observation(spec, upToDate) == [ok |-> TRUE, spec |-> spec, upToDate |-> upToDate]

============================================================================
