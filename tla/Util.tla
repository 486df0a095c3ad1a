------------------------------- MODULE Util --------------------------------
(* The helpers of internal/util and internal/pointer that decide what a    *)
(* controller adopts from the cloud and what it considers up to date.      *)
(* A nil pointer, slice or map is Nil; a tag map is a function from the    *)
(* keys it holds; a late-initialised value differs from the current one    *)
(* exactly when the code calls li.SetChanged().                            *)
EXTENDS Functions

CONSTANT Nil

EmptyMap == [k \in {} |-> Nil]

\* LateInitPtr: adopt the observed value, zero or not, when nothing is set.
LateInitPtr(current, observed) ==
    IF current = Nil THEN observed ELSE current

\* LateInitPtrIfNonZero, LateInitSliceIfNonEmpty, LateInitMapIfNonEmpty:
\* adopt the observed value unless it is the zero value or empty.
\* (Faulty: what the user has set is overwritten.)
AdoptIfNonZero(current, observed, zero) ==
    IF observed = zero THEN current ELSE observed

LateInitIfNonZero(current, observed, zero) ==
    IF current # Nil \/ observed = zero THEN current ELSE observed

\* IsOptionalUpToDate and its slice and map forms.
IsOptionalUpToDate(desired, observed) ==
    desired = Nil \/ desired = observed

\* Deref of internal/pointer.
Deref(ptr, def) == IF ptr = Nil THEN def ELSE ptr

\* TagDiff: the entries of a that are missing or different in b.
TagDiff(a, b) ==
    Restrict(a, {k \in DOMAIN a : k \notin DOMAIN b \/ b[k] # a[k]})

\* What the tag service does with the entries of a create request ...
TagsWritten(current, entries) ==
    [k \in DOMAIN current \cup DOMAIN entries |->
        IF k \in DOMAIN entries THEN entries[k] ELSE current[k]]

\* ... and of a delete request, whether it matches on the key alone or on
\* the key with the value sent along.
TagsDeletedByKey(current, entries) ==
    Restrict(current, DOMAIN current \ DOMAIN entries)

TagsDeletedByPair(current, entries) ==
    Restrict(current, {k \in DOMAIN current :
                          k \notin DOMAIN entries \/ entries[k] # current[k]})

\* A tag map as encoding/json writes it under "omitempty".
OmitEmptyMap(m) == IF m = EmptyMap THEN Nil ELSE m

============================================================================
