--------------------------- MODULE MCClientCache ---------------------------
(* A small instance of ClientCache: c1 and c2 reconcile resources of one   *)
(* ProviderConfig, c3 names no kind, which means the ClusterProviderConfig *)
(* of the same name.                                                       *)
EXTENDS ClientCache

CONSTANTS c1, c2, c3

MCNamespaceOf == [c \in Callers |-> "ns1"]

MCRefOf ==
    [c \in Callers |->
        [kind |-> IF c = c3 THEN "" ELSE "ProviderConfig", name |-> "pc"]]

SpecOf(endpoint, region, source, name) ==
    [identityEndpoint |-> endpoint, domainName |-> "domain",
     projectId |-> "project", region |-> region, source |-> source,
     secret |-> name]

\* A nil endpoint and the default spelled out are the same client.
MCSpecs ==
    { SpecOf(Nil, "eu-de", "Secret", "creds"),
      SpecOf("https://iam.eu-nl", "eu-nl", "Secret", "creds"),
      SpecOf(Nil, "eu-de", "Environment", "creds"),
      SpecOf(Nil, "eu-de", "Secret", Nil) }

============================================================================
