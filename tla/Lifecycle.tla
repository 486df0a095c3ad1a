----------------------------- MODULE Lifecycle -----------------------------
(***************************************************************************)
(* What a controller promises of an object and the resource it stands for, *)
(* whatever reconciles, replicas and stale copies there are behind it:     *)
(* one resource is made for the object at most, its name is noted once and *)
(* never changed, the provider deletes it only when the object is deleted, *)
(* and the object goes only after it.  A resource whose name got lost on   *)
(* its way to the object is one the promise is not kept for.  A deletion   *)
(* may take its time: the resource is dying then.                          *)
(***************************************************************************)
EXTENDS Naturals

CONSTANTS
    Ids,        \* identifiers of resources
    Nil,        \* no identifier
    LagBounded, \* reads lag behind no longer than the controller waits
    MaxEdits    \* bound: changes by others

VARIABLES
    object,     \* "new", "held" (with a finalizer), "leaving" or "gone"
    name,       \* the identifier the object has
    state,      \* state[i]: "unused", "live", "dying", "deleted" or "lost"
    edits

vars == <<object, name, state, edits>>

Become(i, s) == state' = [state EXCEPT ![i] = s]

\* The object is new, or imports a resource.
Init ==
    /\ object = "new"
    /\ \/ name = Nil /\ state = [i \in Ids |-> "unused"]
       \/ \E i \in Ids :
             /\ name = i
             /\ state = [j \in Ids |-> IF j = i THEN "live" ELSE "unused"]
    /\ edits = 0

Hold ==
    /\ object = "new" /\ object' = "held"
    /\ UNCHANGED <<name, state, edits>>

\* The user deletes the object: at once, or the provider has to let it go.
Discard ==
    /\ object = "new" /\ object' = "gone"
    /\ UNCHANGED <<name, state, edits>>

AskToLeave ==
    /\ object = "held" /\ object' = "leaving"
    /\ UNCHANGED <<name, state, edits>>

\* A resource is made: none is known of, or on its way, and never was.
MayMake ==
    /\ object \in {"held", "leaving"}
    /\ name = Nil
    /\ \A i \in Ids : state[i] \in {"unused", "lost"}

Make(i) ==
    /\ MayMake
    /\ state[i] = "unused" /\ Become(i, "live")
    /\ UNCHANGED <<object, name, edits>>

MakeLost(i) ==
    /\ MayMake
    /\ state[i] = "unused" /\ Become(i, "lost")
    /\ UNCHANGED <<object, name, edits>>

Lose(i) ==
    /\ name = Nil
    /\ state[i] \in {"live", "dying", "deleted"} /\ Become(i, "lost")
    /\ UNCHANGED <<object, name, edits>>

Record(i) ==
    /\ name = Nil /\ name' = i
    /\ state[i] \in {"live", "dying", "deleted"}
    /\ UNCHANGED <<object, state, edits>>

\* The provider deletes the resource, or begins to.
Remove(i) ==
    /\ object \in {"leaving", "gone"}
    /\ name = i
    /\ state[i] = "live" /\ \E s \in {"dying", "deleted"} : Become(i, s)
    /\ UNCHANGED <<object, name, edits>>

\* A deletion is over, whoever began it.
Perish(i) ==
    /\ state[i] = "dying" /\ Become(i, "deleted")
    /\ UNCHANGED <<object, name, edits>>

\* Others delete it, or change what is no part of the promise.
Vanish(i) ==
    /\ state[i] \in {"live", "dying"}
    /\ \E s \in {"dying", "deleted"} : Become(i, s)
    /\ edits < MaxEdits /\ edits' = edits + 1
    /\ UNCHANGED <<object, name>>

Touch ==
    /\ edits < MaxEdits /\ edits' = edits + 1
    /\ UNCHANGED <<object, name, state>>

Release ==
    /\ object = "leaving" /\ object' = "gone"
    /\ LagBounded => \A i \in Ids : state[i] \notin {"live", "dying"}
    /\ UNCHANGED <<name, state, edits>>

Next ==
    \/ Hold \/ Discard \/ AskToLeave \/ Release \/ Touch
    \/ \E i \in Ids :
          \/ Make(i) \/ MakeLost(i) \/ Lose(i) \/ Record(i)
          \/ Remove(i) \/ Perish(i) \/ Vanish(i)

Spec == Init /\ [][Next]_vars

============================================================================
