# Verification of provider-opentelekomcloud

TLA+ specifications of the Crossplane provider for Open Telekom Cloud, checked
with TLC on small instances; the safety and action properties the passing runs
check are proved with TLAPS for all instances. `PROJECT.json` lists the
components, the runs, the mutants that show that each property can fail, the
lines of code each definition stands for, the hazards the properties were
written for, the findings and the theorems.

    tlc -workers 2 -config MCVPC.cfg MCVPC        # one run
    tlapm VPCProofs.tla                           # one proof module

## 1. The system

The provider is one process that runs a controller for every kind of managed
resource. A user applies an object (say, a `VPC`) to the Kubernetes API server.
Its controller takes it from a work queue and *reconciles* it: connect, observe
the resource in the cloud, then create it, adopt unset fields from it
(late initialisation), update or delete it.

| Component (`src/internal/...`) | State | Operations | Talks to |
|---|---|---|---|
| Client cache `clients/` | `Cache.sessions` under a read-write mutex: cache key -> (client, hash) | `GetProviderConfigSpec`, `GetClient` | API server (config, secret), identity service |
| Provider config accounting `controller/config` and the tracker each `Setup` builds | `ProviderConfigUsage` objects, finalizers of configs | `Track` in every `Connect`; count, hold, release | API server |
| Reconcile loop (crossplane-runtime, configured in each `Setup`) | the object: annotations `external-create-*`, `external-name`, finalizer; the copy in memory; the creation grace period | `Reconcile` | API server, the external client |
| VPC `controller/vpc` | none; the VPC in the cloud | `Observe`, `Create`, `Update`, `Delete` | VPC v1, v2, v3 and tag APIs |
| KMS key `controller/kmskey` | none; the key, its state and its rotation | the same | KMS v1 API |
| Subnet, security group, security group rule, NAT gateway, SNAT rule, public and private zone, record set, elastic IP | none; the resource, which for a private zone is associated with VPCs and for a record set is in the zone its object names | the same | their APIs |
| CCE cluster `controller/ccecluster` | the annotation with the hash of the component configurations; the cluster, its phase and the address bound to it | the same | CCE v3 and network v2 APIs |
| Helpers `util/`, `pointer/` | none | late initialisation, comparison, tag difference | - |
| API types `src/apis` | none | CEL rules, JSON tags (`omitempty`), enumerations | API server |
| Binary `src/cmd/provider` | flags | wiring | all |

The parts share state in three ways: every `Connect` goes through the one client
cache; every `Connect` records a usage that the config controllers count; and
the object in the API server is shared by the reconciles of one controller, by
users, and by other replicas.

What is hard here, and hard to test:

* **Interleavings.** `GetClient` looks up, authenticates and stores in three
  steps. Two replicas may reconcile one object at once, because leader election
  is off by default, and even one replica works on a cached copy that may be
  stale. Users and other clients of the cloud act between any two steps.
* **Crashes and lost replies.** Between the call that creates a resource and
  the write that records its identifier, the provider may crash. A call may be
  carried out although its reply is lost.
* **Lagging reads.** A new resource may answer 404 for a while; hence the
  creation grace period.
* **Partial failure.** `Update` of a VPC makes up to five calls, of a key up to
  seven, and any may fail. The next reconcile starts from what is left.
* **State that exists in memory only.** The status `Observe` sets, and the
  annotation the `Update` of a cluster sets, live in the copy a reconcile holds: a
  write in between resets the one, and nothing stores the other.
* **Data that flows back.** Late initialisation writes what it found in the
  cloud into the user's object, in a whole-object write that passes through
  JSON (`omitempty`) and through admission (CEL).

What makes each component correct:

* cache: a reconcile gets a client built from the config and the credentials it
  read, never from another config's; configs do not evict each other for ever;
* accounting: a config in use is not let go of;
* reconcile loop with a controller: an object never has two resources; an object
  is gone only after its resource is; settings of the user are never
  overwritten, what the user left open is left alone; when nothing disturbs, the
  resource comes to match the object, and a deletion completes;
* private zone: an update interrupted anywhere never takes away the last VPC, nor
  one that is asked for.

## 2. The modules

| Module | Models | Checked by | Proved in |
|---|---|---|---|
| `ClientCache` | `internal/clients`, one action per step of `GetClient` | `MCClientCache` | `ClientCacheProofs` |
| `ProviderConfigUsage` | tracking, counting, finalizers | `MCProviderConfigUsage` | `ProviderConfigUsageProofs` |
| `Util` | `internal/util`, `internal/pointer` | with its users | `VPCProofs`, `KeyProofs` (tag lemmas) |
| `ManagedReconciler` | reconcile loop, API server, cloud (external) | with its users | `ManagedReconcilerProofs` |
| `Lifecycle` | abstract: what a controller promises of an object and its resource | `MCVPC`, `MCCluster`, `MCControllers` (refinement) | `LifecycleProofs`, `VPCProofs`, `ClusterProofs`, `ControllersProofs` |
| `VPC` | `controller/vpc`; EXTENDS `ManagedReconciler` | `MCVPC` | `VPCProofs` |
| `Key` | `controller/kmskey`; EXTENDS `ManagedReconciler` | `MCKey` | `KeyProofs` |
| `Cluster` | `controller/ccecluster`; EXTENDS `ManagedReconciler` | `MCCluster` | `ClusterProofs` |
| `Fields` | what the field-wise controllers share | with its users | `ControllersProofs` |
| `Subnet`, `SecurityGroup`, `SecurityGroupRule`, `Gateway`, `SNATRule`, `PublicZone`, `PrivateZone`, `RecordSet`, `ElasticIP` | the handlers of one controller each, as functions | with `Controllers` | `ControllersProofs` |
| `Controllers` | these nine in the reconcile loop; EXTENDS `ManagedReconciler`, INSTANCEs the nine | `MCControllers` | `ControllersProofs` |

### ClientCache

`call[c]` is where the caller `c` stands. `GetProviderConfigSpec`,
`ExtractCredentials`, `CacheHit`/`LookupMiss`, `Authenticate`,
`AuthenticateFails`, `StoreSession` are the steps between which other goroutines
run; what one step reads is kept in `call[c]` and used by the next ones even if
it was edited in between. A client is the record of the values it was built
from; the SHA-256 hash is the tuple of the fields it covers, which assumes that
no field contains the separator `|`. Lookup, authentication and store are not
one atomic step: callers that miss together authenticate redundantly and
overwrite each other's sessions. No property forbids that.

### ProviderConfigUsage

One action per reconcile step of the config controllers (`AddFinalizer`,
`CountUsages`, `RemoveFinalizer`; users are counted in one step and the
finalizer goes in a later one) and of `Connect` (`Track`, then `Connect`).
`Recorded` is the tracker's create-or-update, `CollectUsage` the garbage
collection of usages whose owner is gone.

### ManagedReconciler

Variables: `mr` is the stored object, `run[w]` the reconcile of worker `w` with
its copy of the object, `fresh[w]` whether that copy has the stored
resourceVersion (a write of a stale copy conflicts), `cloud` the resources by
identifier, `hidden` those that reads do not return yet, `grace` whether the
grace period runs, `lost` the identifiers whose reply was lost or whose worker
crashed before recording them. One action per step of the loop:
`Begin` (a pending creation stops the reconcile), `Observed`/`ObserveFailed`,
`AddFinalizer`, `AnnounceCreate`, `CreateSkipped`/`CreateSucceeds`/`CreateFails`/
`CreateRefused`, `RecordCreate`/`RecordFailedCreate`, `LateInitialize`,
`External`/`ExternalUnchanged` (Update, Delete), `RemoveFinalizer`, and
`Abandon` (crash). Details the properties turned out to depend on: the
reply of a write is decoded into the copy and resets its status
(`ReplyStatus`); a write passes through `omitempty` and then admission
(`UpdateObject`); the record of a creation is retried on a re-read object and
never conflicts.

### Lifecycle, and how ManagedReconciler implements it

`Lifecycle` knows nothing of workers, copies, annotations or data. It has an
object that is new, held, leaving or gone, the name the object has of its
resource, and resources that are unused, live, dying, deleted or lost. A step
makes a resource only for an object without a name when none is live, dying or
deleted, notes a name once, removes a resource (at once, or by beginning its
deletion) only for an object that is leaving, and releases the object only when
none is live or dying (if reads lag no longer than the grace period).

`Promise(bounded, dying)` in `ManagedReconciler` instantiates it: `objectState`
reads the object's existence, deletion and finalizer, `name` is its external
name, and `resourceState(dying)[i]` is "lost" for identifiers in `lost` and else
follows `cloud`. `dying` are the resources whose deletion takes time: none, but
for clusters those in the phase "Deleting" (`Dying`). `bounded` is `LagBounded`.
`AddFinalizer` maps to `Hold`, `CreateReturns` to `Make` (the object is pending,
nothing has a name yet), a lost reply to `MakeLost`, a crash before the record to
`Lose`, `RecordCreate` to `Record`, `Delete` to `Remove`, `RemoveFinalizer` to
`Release`; every other step of the loop, and all of `Observe` and `Update`, maps
to no step or, as an edit, to `Touch`; `FinishDeletion` of a cluster to `Perish`.
`KeepsPromise` in `VPC`, `Cluster` and `Controllers` is the refinement. It is
more than the two invariants it implies: it also forbids that a name changes,
that a second resource is made after the first was deleted, and that the
provider deletes a resource whose object nobody deleted. In `Controllers` it has
one exception, the one `NoOrphanUnlessAstray` names: where the stored object and
its record set are astray, a step need only be one of `Promise(FALSE, {})`, which
may release the object too early and does all else as promised. Keys are no
`Lifecycle`: one pending deletion is replaced by another, so the name of an
object changes; `OneUsableKey` and `NoUsableOrphan` say what is left of it.

### VPC and Key

Each handler is one operator with one disjunct per way out. Its calls that
change the cloud are separate operators (`AfterUpdateCall`, `AfterTagsCreate`,
`AfterTagsDelete`, `AfterCidrRemoval`, `AfterCidrAddition`; `AfterAlias`, ...).
The handler without a fault ends in the state after all of them, with a fault in
the state after any prefix. The handlers of one reconcile run atomically apart
from that: what other clients do in between is done before or after, and Update
observes anew. The status of a VPC is left out because nothing reads it; of a
key, `keyState` is kept because `Create` reads it.

### Cluster

A cluster is described by what its handlers treat in their own way: `description`;
`eip` with `eipId`, the identifier a binding takes, modelled by the address it
is of; `configs`, which the API takes but never returns, with the annotation
`applied` that holds a hash of them (two lists have one hash only if they
are the same); `masters`, which stands for every field that is adopted from the
cloud and fixed by admission from then on; and `multiAz`, which excludes it.
The status is the address bound when it was last stored or observed: `Update`
observes nothing anew and decides by it. `FinishCreation` and `FinishDeletion`
are the service's; it changes only clusters that are "Available", and it may
bind the address of a creation or not, and report the masters it chose or not.
Changes of configurations by others are left out, since nothing shows them.

### Fields, the nine kinds, and Controllers

The specs and resources of these kinds are functions of field names; a nil
field is `Nil`. The module of a kind says what its handlers compute: `Observe`
gives the late-initialised spec and the verdict, `Create` the resource a create
call makes, `Update` the set of possible sequences of states after its calls
(empty if it refuses), `Delete` the sequence of states ending in `Deleted`.
`XAdmitted` are the CEL rules, `StoredX` what JSON drops. `Controllers` runs
them in the loop: a fault cuts a sequence short. `case` fixes the kind and the
fields that vary in a behaviour. `Found` is what the calls of a handler address:
a record set counts as missing if it is not in the zone its object names.

Lists whose order no handler depends on are bags, so that an object may
repeat an entry while the services keep sets. Of a DNS record only the pairs of
quotes around its text are told apart: `quoteTXTRecords` adds one,
`trimTXTQuotes` removes one. `Update` of a private zone is a sequence of one
state for each VPC associated and then for each disassociated, in any order of
the lists; the service refuses a VPC without identifier, and may refuse one that
is given twice.

Where the code depends on the SDK, which is not in the repository, both
possibilities are allowed: a zero value sent by value may or may not reach the
service (`AfterCall`), and the tag service may delete by key or by key and value
(`TagCalls`, `AfterTagsDelete`).

### Faulty variants

Just before some definitions stands one with the same parameters whose comment
says *(Faulty: ...)*. No specification uses it: it is what that definition would
be after a plausible mistake, and `PROJECT.json` lists under `mutants` which
property a run then finds violated.

## 3. The runs

| Run | Question | Bounds |
|---|---|---|
| `client_cache` | Is every client one's own, and does authentication cease? | 3 callers (two of one `ProviderConfig`, one of a cluster config of the same name), 2 secret values, 1 edit |
| `vpc` | Is the controller a `Lifecycle`, are settings kept and reached, does a deletion complete? | 1 worker, 2 identifiers, 2 secondary CIDRs, 1 tag key with 2 values, 1 edit, 1 fault |
| `key_life` | Two replicas, crashes, failures, lost replies, lag, with keys pending deletion and replaced: one usable key, no orphan? | 2 workers, 3 identifiers, 3 states |
| `key_data` | States, origins, rotation: convergence and deletion | 1 worker, 3 identifiers, all 5 states, 2 intervals |
| `provider_config` | Is a `ProviderConfig` in use held? | 2 resources, 1 name of both kinds |
| `resources` | Nine kinds: settings kept and reached, unset fields left alone, one resource, no orphan and a `Lifecycle` but for record sets gone astray, VPCs of a zone kept, deletion | 1 worker, 2 identifiers, each field with all its values, selected pairs of fields, lists of 1 or 2 entries, 1 tag key, 1 edit, 1 fault |
| `cluster` | A cluster through its phases: a `Lifecycle`, settings kept, description, address and configurations reached, deletion | 1 worker, 2 identifiers, 2 addresses, 1 list of configurations, 2 of masters of which 1 does not fit, 1 edit, 1 fault |
| `key_rotation`, `key_replace`, `cluster_provider_config`, `cluster_configs`, `group_tags` | the findings of section 5 | |

Why the bounds suffice for what the runs ask. Everything in the lifecycle is
about one object, so two workers give all races between two reconciles, and two
identifiers the first and a wrongly created second resource; a key may
be replaced and a reply lost on top of that, so its runs need three, or
running out of identifiers would stand in for a failure of the service. Two
workers are in `key_life`, whose loop is the one all controllers share; for every
controller the theorems of section 4 cover replicas, any number of them. The one
worker of the other runs may have a stale copy as well.
Initial states include imports of a resource with *any* values, so the data runs
start from every mismatch between object and cloud, whatever history led there;
one edit or foreign change can then come between any two steps. In `resources`
fields vary one at a time because the handlers treat them one at a time; the
pairs in `Together` are those that one handler treats together (the two zones
of a record set, say), or that show an update for the sake of one field beside
an unset one. Two values of a string are one that matches and one that does not, besides unset, empty, and,
where the code validates, malformed. The theorems of section 4 hold
without any of these bounds.

All cfgs but the cache's switch off deadlock checking, since the system ends
when the object is gone. `edits` and `faults` count what users, other
clients and the environment do against `MaxEdits` and `MaxFaults`.
`SYMMETRY` (replicas) is used in safety runs only.

**Fairness.** Of the loop: a reconcile that began goes on, and one begins again
and again. The code justifies this by the poll interval every `Setup` passes,
by the requeue after each error, and by the timeout that ends each reconcile.
Of the environment: resources become readable, timers end, KMS finishes the
creation of a key, and CCE the creation and the deletion of a cluster. Of the cache: a call goes on, and the identity service
does not reject valid credentials for ever (strong fairness of `Authenticate`).
Users, other clients, and faults are never fair, only bounded; so liveness says
"once they rest".

**Exceptions the liveness properties name** are states in which the code cannot
make progress by its own design: a creation announced whose worker crashed
(a person has to remove the annotation), an invalid spec, a second secondary
CIDR, a resource deleted by others (`Create` skips objects with an external
name), a fixed field that differs, an empty value the SDK may not send, rotation
that is managed but cannot be read, a subnet imported with the wrong `vpcId`, a record
set whose object names another zone than the one it is in, masters that do not
fit the flavor (they cannot be changed, and `Observe` fails before a deletion),
a cluster whose every write is rejected (an empty list of masters that
`omitempty` drops, masters adopted beside `multiAz`), an address without its
identifier, and configurations the hash counts as applied.

**Exceptions the safety properties name.** `NoOrphanUnlessAstray`: the zone of a
record set may be edited, the record set is then "not found", and a deleted
object leaves it behind; the property says that nothing else is left behind.
`UnsetButPortLeftAlone`: `updatePortBinding` (`elasticip.go:405`) reads an unset
port as none, and unbinds a port others bound since `Observe` when another field
is updated; every other unset field is left alone.

## 4. The proofs

All theorems hold for every value of the constants under the assumptions
declared with them (`BoundsAssumption`, `NilAssumption`, `VPCAssumption`,
`KeyAssumption`, `ClusterAssumption`, `ControllersAssumption`,
`CallersAssumption`, `SpecsAssumption`, `EditsAssumption`, `UsageAssumption`),
which only say that bounds are numbers, that inputs are of their types, that the
states of a key the handlers name are among its states, and that
`Nil`, `Unused`, `Deleted`, the empty and malformed strings differ from data.
TLC evaluates them in every run of their modules.

* `ClientCacheProofs`. `TypeCorrect`; `ReturnedClientIsOwnAlways` and
  `SessionHashMatchesClientAlways`. The former is not inductive alone: a cache
  hit hands out what another call stored. The invariant is `IsolationInv`,
  which adds that each session's hash is the hash of its client;
  `HashDeterminesClient` then carries the equality of hashes over to clients.
* `ManagedReconcilerProofs`. For the loop alone, whatever a controller computes:
  types, and what each step preserves of four invariants. `Announced` says who
  may be creating: a worker past the announcement is the only one, the object
  says "pending" and has its finalizer, and copies that might announce are stale
  or agree on the external name. `Named` adds that every resource in the cloud is
  named by the object, on its way into it, or lost. `Absence(absent)` says that a
  fresh copy acting on "does not exist" is right: hidden resources exist only
  while the grace period runs, so "not found" outside of it means deleted, or
  one of the pairs of a spec and a resource in `absent`, which a controller
  takes for missing. `Carries(keeps)` says that a fresh copy that may still be
  written is related to the stored spec by `keeps`. All but `Named` are bundled
  as `Sound`; every step preserves it (the lemmas `...Sound`), and `Named` too
  unless it creates for an object that has a name. Most steps are *quiet*, they
  at most end reconciles or make copies stale, and share one lemma.
* `LifecycleProofs`. Again for the loop alone: each of its steps is a step of
  `Lifecycle` or leaves its variables as they are. Types, `Announced`, `Named` and
  `Absence` do not suffice for that. `NothingLost` says that a deleted object
  had a finalizer, and that the name an object has, or the one a worker is
  about to record, is of a resource not lost; `CopiesFollow` that a copy knows
  of no deletion and no name the object has not, and that a resource is
  deleted, or the object released, only for a deleted object. Both together are
  `Tidy`. One lemma for each step, for whichever resources are `dying`, and for
  releases that are bounded by the resource's end or not.
* `VPCProofs`. `Sound` with the VPC's handlers, and `Named`: `TypeCorrect`,
  `OneVPCPerObject`, `NoOrphanedVPC`, and the action property `SettingsKept`. The
  types need lemmas about the tag operations and about the steps of `Update`;
  the settings, lemmas that late initialisation and `omitempty` keep what is set.
  `VPCImplementsLifecycle` then is the refinement, `Spec => KeepsPromise`.
* `KeyProofs`. `TypeCorrect`, `OneUsableKeyAlways`, `NoUsableOrphanAlways`,
  `SettingsKept`. Here `absent` holds the keys pending deletion, whatever the spec,
  and `Named` fails: an object may name one key after another. In its place
  `Known` says that a creation is under way only if the object's own key
  is not usable, and that a usable key is the object's, on its way into it, or
  lost. `IInv == KeySound /\ ValidRotation(mr.spec) /\ (LagBounded => Known)`.
  That a scheduled deletion is final, for which the model lets nobody cancel it,
  is used where a step must make no key usable again.
* `ClusterProofs`. `TypeCorrect`, `OneClusterPerObject`, `NoOrphanedCluster`,
  `SettingsKept`, from `IInv == ClusterSound /\ Named /\ Compatible(mr.spec)`. The
  types include that every prefix of the calls of `Update` leaves a cluster;
  `Compatible` is the CEL rule on masters, which late initialisation would break
  if admission did not refuse the write. `ClusterImplementsLifecycle` is the
  refinement: the handlers' only step that changes the state of a resource is the
  beginning of a deletion; the calls of `Update` leave the phase as it is.
* `ControllersProofs`. The same for the nine field-wise kinds together, with
  lemmas for each: what `Observe` adopts may be set (`SeenType`), what is created
  is filled in (`CreatedType`), and what the calls of an `Update` may leave
  (`UpdateReaches`), in whichever order and however many of them are made.
  `IInv == \E c \in Cases : Holds(c)`: the case is fixed, `Sound` holds with the
  specs and resources of its kind, and `Named`. `absent` is `Elsewhere`, the
  record sets in another zone than the object names; `keeps` is `Kept`, which lets
  a spec differ from another only where that has nothing JSON keeps. Theorems:
  `TypeCorrect`, `OneResourceAlways`, `NoOrphanUnlessAstrayAlways`,
  `SettingsKeptAlways`, and of `Update` `UnsetButPortLeftAloneAlways` and
  `AssociationsKeptAlways`, which follow from `Reached`: the resources that differ
  from what was there only in fields that are set, and keep the VPCs asked
  for.
  `ControllersImplementLifecycle` is the refinement, with its exception: a step
  that releases an object is bounded by the resource's end unless the object's
  record set is astray (`OrphanIsAstray`). This module takes most of the time of
  all proofs, a quarter of an hour or more.
* `ProviderConfigUsageProofs`. `IInv == TypeOK /\ OneUsage /\ ReleasedUnused /\
  UsageRecorded`: `TypeCorrect`, `UsageRecordedAlways`, and the action property
  `ProviderConfigHeldAlways`. `ReleasedUnused` says that a config whose usages
  were counted to be none has none that was recorded in time, which is
  what closes the gap between counting and removing the finalizer.

Only model-checked: all liveness (`AuthenticationCeases`, `Converges`,
`DeletionCompletes` and their kin), which is beyond this prover. The runs of
section 5 have counterexamples, and nothing to prove.


## 5. Findings

* **`key_rotation`** (`key.go:674`). With `rotationEnabled: false` on a key that
  rotates, late initialisation fills in `rotationInterval`, and admission
  rejects the write: rotation is never stopped.
* **`key_replace`** (`key.go:298`). `Create` decides by `status.keyState` in
  memory, which the reply to the announcement has just reset: a key whose
  deletion others scheduled is never replaced.
* **`cluster_provider_config`** (`config.go:49`). The usages counted for a
  `ClusterProviderConfig` are of a kind no controller records: it is released
  while in use.
* **`group_tags`** (`securitygroup_types.go:15`). A group applied with
  `tags: {}` is accepted but never created: `omitempty` drops the map from the
  first write, which the rule on tags then rejects.
* **`cluster_configs`** (`cluster.go:319`). The hash `Update` notes is in memory
  only, so the stored one stays at that of the creation: component configurations
  given later are sent again at every poll, and once taken back they are never
  cleared, because the hash of none is the stored one.

## 6. Not modelled, and the plan

Abstractions that hold throughout: references are resolved (the loop does that
before the handlers run); management policies and the pause annotation are the
loop's own; the cloud does not refuse a deletion for ever because other
resources depend on this one; conditions and events are left out. A key pending
deletion is assumed to reject updates, and nobody cancels a scheduled deletion.
Of a cluster, deletion protection, the parameters of a deletion, connection
details and the many fields only a creation reads are data the handlers pass on;
`labels: {}` and `annotations: {}` meet `omitempty` as `tags: {}` does in
`group_tags` and are not repeated. Generated code (deepcopy, accessors, CRDs),
flags, and packaging have no behaviour to check.

Order of the work, the most consequential behaviour first. Done: 1 the cache,
2 the loop and the VPC with their proofs, 3 the key, 4 config accounting with
proofs, 5 the field-wise controllers, 6 private zones, record sets and clusters,
7 `Lifecycle` and the refinement of it by the VPC controller, checked and proved,
8 the proofs about keys, 9 those about clusters and the field-wise controllers,
10 that settings are kept, as theorems, 11 `Lifecycle` implemented by the cluster
controller, and by the field-wise controllers but for record sets gone astray,
checked and proved. To do:

12. Composition: `Connect` of a controller with the cache and the accounting in
    one specification, so that a released config ends reconciles.
