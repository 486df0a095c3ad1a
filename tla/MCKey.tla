------------------------------- MODULE MCKey -------------------------------
(* Small instances of Key.                                                 *)
EXTENDS Key, TLC

CONSTANTS w1, w2

\* Replicas are interchangeable.
Replicas == Permutations(Workers)

AllSpecs == KeyParameters

\* Nothing set but what the lifecycle depends on.
BareSpecs ==
    {spec \in KeyParameters :
        spec.description = Nil /\ spec.realm = Nil /\ spec.tags = Nil}

============================================================================
