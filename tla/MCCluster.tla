----------------------------- MODULE MCCluster -----------------------------
(* Small instances of Cluster.                                             *)
EXTENDS Cluster

Bare ==
    [description |-> Nil, eip |-> Nil, eipId |-> Nil, configs |-> Nil,
     masters |-> Nil, multiAz |-> Nil, applied |-> ""]

Address(e, i) == [Bare EXCEPT !.eip = e, !.eipId = i]

\* The address and its ID, also that of another address or none; and one
\* that stops Update before it comes to the configurations.
WithAddress ==
    {Address(a, a) : a \in Addresses}
        \cup {[Address("a1", "a2") EXCEPT !.description = ""],
              Address("a1", Nil)}
        \cup {[Address("a1", Nil) EXCEPT !.configs = c] : c \in Configurations}

WithConfigurations ==
    {[Bare EXCEPT !.configs = c] : c \in Configurations \cup {Nil}}

WithMasters ==
    {[Bare EXCEPT !.masters = m] : m \in MisfitMasters}
        \cup {[Bare EXCEPT !.masters = NoMasters],
              [Bare EXCEPT !.multiAz = TRUE]}
        \cup {[Bare EXCEPT !.masters = m, !.description = d] :
                 m \in MasterLists \ MisfitMasters, d \in Descriptions}

EachSetting ==
    WithAddress \cup WithConfigurations \cup WithMasters

\* A cluster made by other means, bare, or with an address, masters
\* and a description.
FoundBare ==
    [description |-> "", ip |-> Nil, configs |-> Nil, masters |-> Nil,
     phase |-> "Available"]

FoundOne == {FoundBare}

FoundSome ==
    {[FoundBare EXCEPT !.ip = "a1", !.masters = "m1", !.description = "d"]}

============================================================================
