------------------------- MODULE ClientCacheProofs -------------------------
(* Type correctness of the client cache, and isolation: the client a call  *)
(* returns is the one its own credentials build, for any number of         *)
(* callers, configs and secrets and any interleaving of their edits.       *)
EXTENDS ClientCache, TLAPS

\* Every cache key a call uses is in the domain of the sessions map.
LEMMA KeyTyping ==
    ASSUME NEW c \in Callers
    PROVE  KeyOf(c) \in CacheKeys /\ ConfigKey(c) \in CacheKeys
<1> DEFINE ns == NamespaceOf[c]
           ref == RefOf[c]
<1>1. /\ ns \in Namespaces
      /\ ref \in [kind : Kinds, name : Names]
  BY CallersAssumption
<1>2. KeyOf(c) = ConfigKey(c)
  BY DEF KeyOf, CacheKey, ConfigKey
<1>3. CASE ref.kind = "ProviderConfig"
  <2>1. ConfigKey(c) = <<"ProviderConfig", ns, ref.name>>
    BY <1>3 DEF ConfigKey
  <2>2. <<"ProviderConfig", ns, ref.name>> \in NamespacedKeys
    BY <1>1 DEF NamespacedKeys
  <2> QED
    BY <1>2, <2>1, <2>2 DEF CacheKeys
<1>4. CASE ref.kind # "ProviderConfig"
  <2>1. ConfigKey(c) = <<"ClusterProviderConfig", ref.name>>
    BY <1>4 DEF ConfigKey
  <2>2. <<"ClusterProviderConfig", ref.name>> \in ClusterKeys
    BY <1>1 DEF ClusterKeys
  <2> QED
    BY <1>2, <2>1, <2>2 DEF CacheKeys
<1> QED
  BY <1>3, <1>4

\* The shape of the states a call may be in.
LEMMA CallShape ==
    ASSUME NEW x \in CallStates
    PROVE  /\ x.pc \in {"idle", "extract", "lookup", "authenticate",
                        "store", "connected"}
           /\ x.pc = "extract" => x.spec \in Specs
           /\ x.pc \in {"lookup", "authenticate", "store"} =>
                /\ x = [pc |-> x.pc, spec |-> x.spec, creds |-> x.creds]
                /\ x.spec \in Specs
                /\ x.creds \in Credentials
  BY DEF CallStates, Idle

\* A session for the hash of a call is a client built from what it read.
LEMMA HashDeterminesClient ==
    ASSUME NEW s, NEW t, NEW j \in Credentials, NEW k \in Credentials,
           HashOf(s, j) = HashOf(t, k)
    PROVE  NewClient(s, j) = NewClient(t, k)
<1>1. /\ Endpoint(s) = Endpoint(t)
      /\ s.projectId = t.projectId
      /\ s.region = t.region
      /\ j.accessKey = k.accessKey
      /\ j.secretKey = k.secretKey
  BY DEF HashOf, calculateHash
<1>2. j = k
  BY <1>1 DEF Credentials
<1> QED
  BY <1>1, <1>2 DEF NewClient

THEOREM TypeCorrect == Spec => []TypeOK
<1>1. Init => TypeOK
  BY EditsAssumption DEF Init, TypeOK, CallStates
<1>2. TypeOK /\ [Next]_vars => TypeOK'
  <2> SUFFICES ASSUME TypeOK, [Next]_vars PROVE TypeOK'
    OBVIOUS
  <2>1. ASSUME NEW c \in Callers, GetProviderConfigSpec(c) PROVE TypeOK'
    BY <2>1, KeyTyping
    DEF GetProviderConfigSpec, TypeOK, Goto, CallStates
  <2>2. ASSUME NEW c \in Callers, ExtractCredentials(c) PROVE TypeOK'
    <3>1. call[c].spec \in Specs
      BY <2>2, CallShape DEF ExtractCredentials, TypeOK
    <3>2. CASE CanExtract(call[c].spec)
      <4>1. secret[call[c].spec.secret] \in Credentials
        BY <3>2 DEF CanExtract
      <4> QED
        BY <2>2, <3>1, <3>2, <4>1
        DEF ExtractCredentials, TypeOK, Goto, CallStates
    <3>3. CASE ~CanExtract(call[c].spec)
      BY <2>2, <3>3 DEF ExtractCredentials, TypeOK, Goto, CallStates
    <3> QED
      BY <3>2, <3>3
  <2>3. ASSUME NEW c \in Callers, LookupHit(c) PROVE TypeOK'
    <3>1. /\ call[c] \in CallStates
          /\ call[c].spec \in Specs /\ call[c].creds \in Credentials
      BY <2>3, CallShape DEF LookupHit, TypeOK
    <3>2. sessions[KeyOf(c)] \in Session
      BY <2>3, KeyTyping DEF LookupHit, CacheHit, TypeOK
    <3>3. PICK t \in Specs, j \in Credentials :
            sessions[KeyOf(c)].client = NewClient(t, j)
      BY <3>2 DEF Session
    <3> QED
      BY <2>3, <3>1, <3>3 DEF LookupHit, Connected, TypeOK, Goto, CallStates
  <2>4. ASSUME NEW c \in Callers, LookupMiss(c) PROVE TypeOK'
    <3>1. /\ call[c] = [pc |-> "lookup", spec |-> call[c].spec,
                        creds |-> call[c].creds]
          /\ call[c].spec \in Specs /\ call[c].creds \in Credentials
      BY <2>4, CallShape DEF LookupMiss, TypeOK
    <3>2. [call[c] EXCEPT !.pc = "authenticate"] \in CallStates
      BY <3>1 DEF CallStates
    <3> QED
      BY <2>4, <3>2 DEF LookupMiss, TypeOK, Goto
  <2>5. ASSUME NEW c \in Callers, Authenticate(c) PROVE TypeOK'
    <3>1. /\ call[c] = [pc |-> "authenticate", spec |-> call[c].spec,
                        creds |-> call[c].creds]
          /\ call[c].spec \in Specs /\ call[c].creds \in Credentials
      BY <2>5, CallShape DEF Authenticate, TypeOK
    <3>2. [call[c] EXCEPT !.pc = "store"] \in CallStates
      BY <3>1 DEF CallStates
    <3> QED
      BY <2>5, <3>2 DEF Authenticate, TypeOK, Goto
  <2>6. ASSUME NEW c \in Callers, AuthenticateFails(c) PROVE TypeOK'
    BY <2>6 DEF AuthenticateFails, TypeOK, Goto, CallStates
  <2>7. ASSUME NEW c \in Callers, StoreSession(c) PROVE TypeOK'
    <3>1. call[c].spec \in Specs /\ call[c].creds \in Credentials
      BY <2>7, CallShape DEF StoreSession, TypeOK
    <3>2. NewSession(c) \in Session
      BY <3>1 DEF NewSession, Session
    <3>3. sessions' \in [CacheKeys -> Session \cup {Nil}]
      BY <2>7, <3>2, KeyTyping DEF StoreSession, StoredSessions, TypeOK
    <3>4. call' \in [Callers -> CallStates]
      BY <2>7, <3>1 DEF StoreSession, Connected, TypeOK, Goto, CallStates
    <3> QED
      BY <2>7, <3>3, <3>4 DEF StoreSession, TypeOK
  <2>8. ASSUME NEW c \in Callers, Disconnect(c) PROVE TypeOK'
    BY <2>8 DEF Disconnect, TypeOK, Goto, CallStates
  <2>9. ASSUME NEW k \in CacheKeys, EditConfig(k) PROVE TypeOK'
    BY <2>9, EditsAssumption DEF EditConfig, TypeOK
  <2>10. ASSUME NEW s \in Secrets, EditSecret(s) PROVE TypeOK'
    BY <2>10, EditsAssumption DEF EditSecret, TypeOK
  <2>11. CASE UNCHANGED vars
    BY <2>11 DEF vars, TypeOK
  <2> QED
    BY <2>1, <2>2, <2>3, <2>4, <2>5, <2>6, <2>7, <2>8, <2>9, <2>10, <2>11
    DEF Next, GetClient
<1> QED
  BY <1>1, <1>2, PTL DEF Spec

\* Isolation, with the strengthening it needs: the sessions in the map carry
\* the hash of the client they hold, so that a hit returns the client that
\* the credentials of the call build.
IsolationInv == SessionHashMatchesClient /\ ReturnedClientIsOwn

\* A call that changed neither into nor within "connected" keeps the property.
LEMMA OtherCallsKeepTheirClient ==
    ASSUME TypeOK, ReturnedClientIsOwn, NEW c \in Callers, NEW x,
           call' = [call EXCEPT ![c] = x],
           x.pc = "connected" =>
                /\ x.client = NewClient(x.spec, x.creds)
                /\ x.region = x.client.region
    PROVE  ReturnedClientIsOwn'
  BY DEF TypeOK, ReturnedClientIsOwn

THEOREM Isolation == Spec => []IsolationInv
<1>1. Init => IsolationInv
  BY DEF Init, IsolationInv, SessionHashMatchesClient, ReturnedClientIsOwn, Idle
<1>2. TypeOK /\ IsolationInv /\ [Next]_vars => IsolationInv'
  <2> SUFFICES ASSUME TypeOK, IsolationInv, [Next]_vars PROVE IsolationInv'
    OBVIOUS
  <2> USE DEF IsolationInv
  <2>1. ASSUME NEW c \in Callers, GetProviderConfigSpec(c) PROVE IsolationInv'
    <3>1. ReturnedClientIsOwn'
      BY <2>1, OtherCallsKeepTheirClient DEF GetProviderConfigSpec, Goto, Idle
    <3> QED
      BY <2>1, <3>1 DEF GetProviderConfigSpec, SessionHashMatchesClient
  <2>2. ASSUME NEW c \in Callers, ExtractCredentials(c) PROVE IsolationInv'
    <3>1. ReturnedClientIsOwn'
      BY <2>2, OtherCallsKeepTheirClient DEF ExtractCredentials, Goto, Idle
    <3> QED
      BY <2>2, <3>1 DEF ExtractCredentials, SessionHashMatchesClient
  <2>3. ASSUME NEW c \in Callers, LookupHit(c) PROVE IsolationInv'
    <3> DEFINE read == NewClient(call[c].spec, call[c].creds)
    <3>1. call[c].spec \in Specs /\ call[c].creds \in Credentials
      BY <2>3, CallShape DEF LookupHit, TypeOK
    <3>2. PICK s \in Specs, j \in Credentials :
            /\ sessions[KeyOf(c)].client = NewClient(s, j)
            /\ sessions[KeyOf(c)].hash = HashOf(s, j)
      BY <2>3, KeyTyping DEF LookupHit, CacheHit, SessionHashMatchesClient
    <3>3. HashOf(s, j) = HashOf(call[c].spec, call[c].creds)
      BY <2>3, <3>2 DEF LookupHit, CacheHit
    <3>4. sessions[KeyOf(c)].client = read
      BY <3>1, <3>2, <3>3, HashDeterminesClient
    <3>5. ReturnedClientIsOwn'
      <4> DEFINE x == [pc |-> "connected", spec |-> call[c].spec,
                       creds |-> call[c].creds,
                       client |-> sessions[KeyOf(c)].client,
                       region |-> call[c].spec.region]
      <4>1. call' = [call EXCEPT ![c] = x]
        BY <2>3 DEF LookupHit, Connected, Goto
      <4>2. x.client = NewClient(x.spec, x.creds)
        BY <3>4
      <4>3. x.region = x.client.region
        BY <3>4 DEF NewClient
      <4> HIDE DEF x
      <4> QED
        BY <4>1, <4>2, <4>3, OtherCallsKeepTheirClient
    <3> QED
      BY <2>3, <3>5 DEF LookupHit, SessionHashMatchesClient
  <2>4. ASSUME NEW c \in Callers, LookupMiss(c) PROVE IsolationInv'
    <3>1. ReturnedClientIsOwn'
      <4>1. [call[c] EXCEPT !.pc = "authenticate"].pc = "authenticate"
        BY <2>4, CallShape DEF LookupMiss, TypeOK
      <4> QED
        BY <2>4, <4>1, OtherCallsKeepTheirClient DEF LookupMiss, Goto
    <3> QED
      BY <2>4, <3>1 DEF LookupMiss, SessionHashMatchesClient
  <2>5. ASSUME NEW c \in Callers, Authenticate(c) PROVE IsolationInv'
    <3>1. ReturnedClientIsOwn'
      <4>1. [call[c] EXCEPT !.pc = "store"].pc = "store"
        BY <2>5, CallShape DEF Authenticate, TypeOK
      <4> QED
        BY <2>5, <4>1, OtherCallsKeepTheirClient DEF Authenticate, Goto
    <3> QED
      BY <2>5, <3>1 DEF Authenticate, SessionHashMatchesClient
  <2>6. ASSUME NEW c \in Callers, AuthenticateFails(c) PROVE IsolationInv'
    <3>1. ReturnedClientIsOwn'
      BY <2>6, OtherCallsKeepTheirClient DEF AuthenticateFails, Goto, Idle
    <3> QED
      BY <2>6, <3>1 DEF AuthenticateFails, SessionHashMatchesClient
  <2>7. ASSUME NEW c \in Callers, StoreSession(c) PROVE IsolationInv'
    <3>1. call[c].spec \in Specs /\ call[c].creds \in Credentials
      BY <2>7, CallShape DEF StoreSession, TypeOK
    <3>2. SessionHashMatchesClient'
      BY <2>7, <3>1, KeyTyping
      DEF StoreSession, StoredSessions, NewSession, SessionHashMatchesClient,
          TypeOK
    <3>3. ReturnedClientIsOwn'
      BY <2>7, OtherCallsKeepTheirClient
      DEF StoreSession, Connected, Goto, NewClient
    <3> QED
      BY <3>2, <3>3
  <2>8. ASSUME NEW c \in Callers, Disconnect(c) PROVE IsolationInv'
    <3>1. ReturnedClientIsOwn'
      BY <2>8, OtherCallsKeepTheirClient DEF Disconnect, Goto, Idle
    <3> QED
      BY <2>8, <3>1 DEF Disconnect, SessionHashMatchesClient
  <2>9. ASSUME NEW k \in CacheKeys, EditConfig(k) PROVE IsolationInv'
    BY <2>9 DEF EditConfig, SessionHashMatchesClient, ReturnedClientIsOwn
  <2>10. ASSUME NEW s \in Secrets, EditSecret(s) PROVE IsolationInv'
    BY <2>10 DEF EditSecret, SessionHashMatchesClient, ReturnedClientIsOwn
  <2>11. CASE UNCHANGED vars
    BY <2>11 DEF vars, SessionHashMatchesClient, ReturnedClientIsOwn
  <2> QED
    BY <2>1, <2>2, <2>3, <2>4, <2>5, <2>6, <2>7, <2>8, <2>9, <2>10, <2>11
    DEF Next, GetClient
<1> QED
  BY <1>1, <1>2, TypeCorrect, PTL DEF Spec

\* The theorem a user of the cache relies on.
THEOREM ReturnedClientIsOwnAlways == Spec => []ReturnedClientIsOwn
<1>1. IsolationInv => ReturnedClientIsOwn
  BY DEF IsolationInv
<1> QED
  BY <1>1, Isolation, PTL

\* What a later CacheHit relies on: the hash that StoreSession keeps is that of
\* the client beside it.
THEOREM SessionHashMatchesClientAlways == Spec => []SessionHashMatchesClient
<1>1. IsolationInv => SessionHashMatchesClient
  BY DEF IsolationInv
<1> QED
  BY <1>1, Isolation, PTL

============================================================================
