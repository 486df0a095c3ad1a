---------------------------- MODULE ClientCache ----------------------------
(***************************************************************************)
(* The process-wide cache of authenticated Open Telekom Cloud clients      *)
(* (internal/clients).  Every reconcile of every controller connects       *)
(* through it: it resolves the ProviderConfig its managed resource refers  *)
(* to, reads the credentials secret, and asks the cache for a client.      *)
(* Reconciles run concurrently; ProviderConfigs and secrets are edited at  *)
(* any time, also between two steps of a call.                             *)
(*                                                                         *)
(* A client is modelled by the values it was built from, which is all that *)
(* a later request through it depends on.  The SHA-256 of the joined       *)
(* fields is modelled by the tuple of the fields it covers.                *)
(***************************************************************************)
EXTENDS Naturals

CONSTANTS
    Callers,      \* concurrent reconciles, each of one managed resource
    NamespaceOf,  \* NamespaceOf[c]: the namespace of the managed resource
    RefOf,        \* RefOf[c]: its providerConfigRef, [kind, name]
    Namespaces,   \* namespaces that hold ProviderConfigs
    Names,        \* names of provider configs
    Specs,        \* the ProviderConfigSpecs users write
    Secrets,      \* names of credentials secrets
    AccessKeys,   \* values of accessKey in a secret
    SecretKeys,   \* values of secretKey in a secret
    DefaultIdentityEndpoint,
    Nil,          \* a nil pointer, an absent object
    Malformed,    \* secret data that is not the expected JSON object
    MaxEdits      \* bound: edits of configs and secrets in a behaviour

Kinds == {"", "ProviderConfig", "ClusterProviderConfig"}

ASSUME CallersAssumption ==
    /\ NamespaceOf \in [Callers -> Namespaces]
    /\ RefOf \in [Callers -> [kind : Kinds, name : Names]]

ASSUME SpecsAssumption ==
    /\ \A s \in Specs : s.secret \in Secrets \cup {Nil}
    /\ Nil \notin Specs

ASSUME EditsAssumption == MaxEdits \in Nat

VARIABLES
    config,    \* config[k]: the spec of the provider config k, or Nil
    secret,    \* secret[s]: the credentials in secret s, or Nil
    sessions,  \* Cache.sessions: cache key -> session, or Nil
    call,      \* call[c]: the progress of caller c through GetClient
    edits      \* number of edits so far

vars == <<config, secret, sessions, call, edits>>

----------------------------------------------------------------------------
(* Data *)

\* The cache key GetProviderConfigSpec computes: the kind with the name, and
\* the namespace of the managed resource when the kind is namespaced.
\* (Faulty: by the name alone, two configs evict each other for ever.)
CacheKeyOfNameOnly(ref, ns) == <<"ClusterProviderConfig", ref.name>>

CacheKey(ref, ns) ==
    IF ref.kind = "ProviderConfig"
    THEN <<"ProviderConfig", ns, ref.name>>
    ELSE <<"ClusterProviderConfig", ref.name>>

NamespacedKeys == {<<"ProviderConfig", ns, n>> : ns \in Namespaces, n \in Names}
ClusterKeys == {<<"ClusterProviderConfig", n>> : n \in Names}
CacheKeys == NamespacedKeys \cup ClusterKeys

\* The object the reference resolves to: the same key, read with kube.Get.
ConfigKey(c) ==
    IF RefOf[c].kind = "ProviderConfig"
    THEN <<"ProviderConfig", NamespaceOf[c], RefOf[c].name>>
    ELSE <<"ClusterProviderConfig", RefOf[c].name>>

KeyOf(c) == CacheKey(RefOf[c], NamespaceOf[c])

\* What a secret may hold: AK/SK, one of them empty, or no JSON object.
Credentials == [accessKey : AccessKeys, secretKey : SecretKeys]
SecretData == Credentials \cup {Malformed, Nil}

Endpoint(spec) ==
    IF spec.identityEndpoint \in {Nil, ""}
    THEN DefaultIdentityEndpoint
    ELSE spec.identityEndpoint

\* (Faulty: a rotated secret key goes unnoticed.)
HashWithoutSecretKey(spec, creds, endpoint) ==
    <<endpoint, spec.domainName, spec.projectId, spec.region, creds.accessKey>>

calculateHash(spec, creds, endpoint) ==
    <<endpoint, spec.domainName, spec.projectId, spec.region,
      creds.accessKey, creds.secretKey>>

HashOf(spec, creds) == calculateHash(spec, creds, Endpoint(spec))

\* The client that newClient and authenticate build.  The redirect hook and
\* the AK/SK options hold the credentials of this very call.
NewClient(spec, creds) ==
    [endpoint |-> Endpoint(spec), creds |-> creds,
     projectId |-> spec.projectId, region |-> spec.region]

\* extractCredentials: the source must be a secret, the reference present,
\* the secret readable JSON, and both keys non-empty.
\* (Faulty: an error of json.Unmarshal passes.)
CanExtractAnything(spec) ==
    /\ spec.source = "Secret"
    /\ spec.secret # Nil
    /\ secret[spec.secret] # Nil

CanExtract(spec) ==
    /\ spec.source = "Secret"
    /\ spec.secret # Nil
    /\ secret[spec.secret] \in Credentials
    /\ secret[spec.secret].accessKey # ""
    /\ secret[spec.secret].secretKey # ""

Idle == [pc |-> "idle"]

\* The call has read the provider config, then the secret, then missed in
\* the cache, then authenticated, then returned a client to Connect.
CallStates ==
    {Idle}
      \cup [pc : {"extract"}, spec : Specs]
      \cup [pc : {"lookup", "authenticate", "store"},
            spec : Specs, creds : Credentials]
      \cup {[pc |-> "connected", spec |-> s, creds |-> k,
             client |-> NewClient(t, j), region |-> r.region] :
               s \in Specs, t \in Specs, r \in Specs,
               k \in Credentials, j \in Credentials}

Session == [client : {NewClient(s, k) : s \in Specs, k \in Credentials},
            hash : {HashOf(s, k) : s \in Specs, k \in Credentials}]

TypeOK ==
    /\ config \in [CacheKeys -> Specs \cup {Nil}]
    /\ secret \in [Secrets -> SecretData]
    /\ sessions \in [CacheKeys -> Session \cup {Nil}]
    /\ call \in [Callers -> CallStates]
    /\ edits \in 0..MaxEdits

----------------------------------------------------------------------------
(* The calls of GetProviderConfigSpec and GetClient *)

Init ==
    /\ config \in [CacheKeys -> Specs \cup {Nil}]
    /\ secret \in [Secrets -> SecretData]
    /\ sessions = [k \in CacheKeys |-> Nil]
    /\ call = [c \in Callers |-> Idle]
    /\ edits = 0

Goto(c, state) == call' = [call EXCEPT ![c] = state]

\* GetProviderConfigSpec, in Connect: a missing config fails the call, which
\* leaves the caller idle.
GetProviderConfigSpec(c) ==
    /\ call[c].pc = "idle"
    /\ IF config[ConfigKey(c)] # Nil
       THEN Goto(c, [pc |-> "extract", spec |-> config[ConfigKey(c)]])
       ELSE Goto(c, Idle)
    /\ UNCHANGED <<config, secret, sessions, edits>>

\* extractCredentials, and the hash over what was read.
ExtractCredentials(c) ==
    /\ call[c].pc = "extract"
    /\ IF CanExtract(call[c].spec)
       THEN Goto(c, [pc |-> "lookup", spec |-> call[c].spec,
                     creds |-> secret[call[c].spec.secret]])
       ELSE Goto(c, Idle)
    /\ UNCHANGED <<config, secret, sessions, edits>>

CacheHit(c) ==
    /\ sessions[KeyOf(c)] # Nil
    /\ sessions[KeyOf(c)].hash = HashOf(call[c].spec, call[c].creds)

Connected(c, client) ==
    Goto(c, [pc |-> "connected", spec |-> call[c].spec,
             creds |-> call[c].creds, client |-> client,
             region |-> call[c].spec.region])

\* The read-locked lookup: a session with another hash counts as a miss.
LookupHit(c) ==
    /\ call[c].pc = "lookup"
    /\ CacheHit(c)
    /\ Connected(c, sessions[KeyOf(c)].client)
    /\ UNCHANGED <<config, secret, sessions, edits>>

LookupMiss(c) ==
    /\ call[c].pc = "lookup"
    /\ ~CacheHit(c)
    /\ Goto(c, [call[c] EXCEPT !.pc = "authenticate"])
    /\ UNCHANGED <<config, secret, sessions, edits>>

\* newClient and authenticate run without the lock held.
Authenticate(c) ==
    /\ call[c].pc = "authenticate"
    /\ Goto(c, [call[c] EXCEPT !.pc = "store"])
    /\ UNCHANGED <<config, secret, sessions, edits>>

AuthenticateFails(c) ==
    /\ call[c].pc = "authenticate"
    /\ Goto(c, Idle)
    /\ UNCHANGED <<config, secret, sessions, edits>>

\* (Faulty: the hash is taken before the endpoint is resolved.)
NewSessionHashedEarly(c) ==
    [client |-> NewClient(call[c].spec, call[c].creds),
     hash |-> calculateHash(call[c].spec, call[c].creds, DefaultIdentityEndpoint)]

NewSession(c) ==
    [client |-> NewClient(call[c].spec, call[c].creds),
     hash |-> HashOf(call[c].spec, call[c].creds)]

\* The sessions map after the write-locked store: unconditional.
StoredSessions(c) == [sessions EXCEPT ![KeyOf(c)] = NewSession(c)]

StoreSession(c) ==
    /\ call[c].pc = "store"
    /\ sessions' = StoredSessions(c)
    /\ Connected(c, NewClient(call[c].spec, call[c].creds))
    /\ UNCHANGED <<config, secret, edits>>

\* The reconcile that connected is over; its client goes out of use.
Disconnect(c) ==
    /\ call[c].pc = "connected"
    /\ Goto(c, Idle)
    /\ UNCHANGED <<config, secret, sessions, edits>>

----------------------------------------------------------------------------
(* The environment: users edit provider configs and rotate secrets *)

EditConfig(k) ==
    /\ edits < MaxEdits
    /\ \E s \in Specs \cup {Nil} : config' = [config EXCEPT ![k] = s]
    /\ edits' = edits + 1
    /\ UNCHANGED <<secret, sessions, call>>

EditSecret(s) ==
    /\ edits < MaxEdits
    /\ \E d \in SecretData : secret' = [secret EXCEPT ![s] = d]
    /\ edits' = edits + 1
    /\ UNCHANGED <<config, sessions, call>>

GetClient(c) ==
    \/ ExtractCredentials(c)
    \/ LookupHit(c)
    \/ LookupMiss(c)
    \/ Authenticate(c)
    \/ AuthenticateFails(c)
    \/ StoreSession(c)

Next ==
    \/ \E c \in Callers :
         \/ GetProviderConfigSpec(c)
         \/ GetClient(c)
         \/ Disconnect(c)
    \/ \E k \in CacheKeys : EditConfig(k)
    \/ \E s \in Secrets : EditSecret(s)

Spec == Init /\ [][Next]_vars

\* Every managed resource is reconciled again and again (poll interval), a
\* call that started runs on, and the identity service does not reject valid
\* credentials for ever.
Fairness ==
    \A c \in Callers :
        /\ WF_vars(GetProviderConfigSpec(c))
        /\ WF_vars(GetClient(c))
        /\ SF_vars(Authenticate(c))
        /\ WF_vars(Disconnect(c))

FairSpec == Spec /\ Fairness

----------------------------------------------------------------------------
(* Properties *)

\* Isolation.  The client a call returns was built from the endpoint, project,
\* region and AK/SK that this call itself read, whatever other callers stored
\* under the key meanwhile (GetClient compares the hash, not the key alone).
ReturnedClientIsOwn ==
    \A c \in Callers : call[c].pc = "connected" =>
        /\ call[c].client = NewClient(call[c].spec, call[c].creds)
        /\ call[c].region = call[c].client.region

\* Every cached session carries the hash of the values its client was built
\* from: a later hit hands out exactly what the hash promises.
SessionHashMatchesClient ==
    \A k \in CacheKeys : sessions[k] # Nil =>
        \E s \in Specs, j \in Credentials :
            /\ sessions[k].client = NewClient(s, j)
            /\ sessions[k].hash = HashOf(s, j)

\* Once a rotation is over, the cache stops authenticating: no reconcile asks
\* the identity service again, although a call that read the old secret may
\* still overwrite a newer session (the store is unconditional).
AuthenticationCeases ==
    <>[](\A c \in Callers : call[c].pc # "authenticate")

============================================================================
