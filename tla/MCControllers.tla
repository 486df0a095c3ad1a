--------------------------- MODULE MCControllers ---------------------------
(* Small instances of Controllers.                                         *)
EXTENDS Controllers

Case(k, F) == [kind |-> k, varied |-> F]

\* Every field of every kind alone ...
EachField == UNION {{Case(k, {f}) : f \in FieldsOf(k)} : k \in Kinds}

\* ... and the fields that one handler treats together.
Together ==
    {Case("SNATRule", {"subnetId", "cidr"}),
     Case("Gateway", {"size", "tags"}),
     Case("Gateway", {"size", "description"}),
     Case("ElasticIP", {"size", "portId"}),
     Case("RecordSet", {"privateZoneId", "publicZoneId"})}

AllCases == EachField \cup Together
GroupTags == {Case("SecurityGroup", {"tags"})}

============================================================================
