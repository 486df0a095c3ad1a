\* Three reconciles, two provider configs of one name, one edit.
SPECIFICATION FairSpec
CONSTANTS
    Malformed = Malformed
    Nil = Nil
    c1 = c1
    c2 = c2
    c3 = c3
    DefaultIdentityEndpoint = "https://iam.eu-de"
    Namespaces = {"ns1"}
    Names = {"pc"}
    Secrets = {"creds"}
    Callers = {c1, c2, c3}
    NamespaceOf <- MCNamespaceOf
    RefOf <- MCRefOf
    Specs <- MCSpecs
    AccessKeys = {"ak"}
    SecretKeys = {"sk1", "sk2"}
    MaxEdits = 1
INVARIANTS
    TypeOK
    ReturnedClientIsOwn
    SessionHashMatchesClient
PROPERTY
    AuthenticationCeases
