# A model of the Gcore Terraform provider

The repository is the Terraform provider of the Gcore cloud, CDN, DNS, WAAP,
FastEdge and storage services: `gcore/provider.go` registers the resource types
and data sources, every `gcore/resource_gcore_*.go` holds the handlers of one
type. This directory holds TLA+ models of those handlers, model checked with
TLC and, for eight of the modules, proved about with TLAPS.

## 1. The system

### Who calls whom

Terraform core (external) reads a configuration and a state, and calls the
handlers of the provider through terraform-plugin-sdk v2 (external):

* **Read** for every recorded object at the start of a run (refresh),
* then **Create**, **Update** or **Delete** of those that differ from the
  configuration, up to `-parallelism` at a time.

A handler calls the HTTP API of a Gcore service (external; through
gcorelabscloud-go or a product SDK). Some calls answer at once, others with the
id of a *task* that the handler polls until it has finished, failed, or its
timeout is over. Load balancer calls answered 409 are repeated first
(`GetConflictRetryConfig`, utils.go 1080).

What the SDK makes of a returning handler is the rule all models share. The
repository never calls `d.Partial`, so:

| handler | returns without error | returns an error | killed |
|---|---|---|---|
| Create | what it `Set`; no id: nothing recorded | id set: recorded and **tainted**; no id: nothing | nothing recorded |
| Read | what it `Set`; id cleared: object forgotten | the run ends, state as before | state as before |
| Update | planned values and what it `Set` | **also** the planned values | state as before |
| Delete | object forgotten, id cleared or not | state as before | state as before |

The provider keeps no state of its own between calls but for the clients and
`CDNMutex`; everything that has to be right is the relation between Terraform's
state and the service.

### Inventory

| Component | State | Operations | What is hard | What makes it correct |
|---|---|---|---|---|
| Lifecycle of 61 resource types | id and taint in the state, object at the service, tasks | Create, Read, Delete | answers and tasks lost between two calls; a further call failing before or after the id is set; what counts as "gone" | no object forgotten while it lives, no id wedged, runs settle |
| Updates of one object | configured, recorded and real attribute values | Update, Read | a sequence of calls failing in the middle; attributes Read never looks at | an update arrives; a failure is repaired by the next run |
| Kubernetes node pools (`resource_gcore_k8sv2.go`) | list of pools in state, pools of the cluster | Read's listing, Update's three loops | order of add/replace/remove, failures between two calls, placeholders of missing pools | never zero pools, arrives, nothing else touched |
| Load balancer members (`resource_gcore_lbmember.go`) | member list of the pool, one state entry per member | Create, Read, Update, Delete, in parallel | read-modify-write of the whole list by several handlers; 409 locks | siblings not overwritten; overwritten ones repaired |
| Keys of an SFTP storage (`resource_gcore_storage_sftp.go`) | key list in state, linked keys | LinkKeys, RelinkKeys, Read | call by call over Go maps; repeated keys; Read does not report keys | arrives; never without key on the way |
| WAAP domain and policies (`resource_gcore_waap_domain.go`, `..._policy.go`) | id of the domain in state; its settings and the modes of its policies at the service | Create, Read, Update of both; Delete does nothing | the domain comes and goes with a CDN resource; creation is a take-over call by call; policies can only be toggled, by several owners, from a list computed before | each policy toggled once; runs settle, whatever becomes of the domain |
| CDN settings (`resource_gcore_cdn_origin_shielding.go`, `..._applied_preset.go`) | id, resource and value in state; settings of CDN resources other resources own; `CDNMutex` | Create, Read, Update, Delete, import | shared CDN resource, the mutex, an update that goes by another id than Read | a handler reads what it wrote; what is orphaned and why; runs settle |
| Other settings (port security, address pairs, CDN client) | a switch on an object another resource owns | Create/Update/Delete | shared object | only their Update, as part of "updates of one object" |
| AI clusters (`resource_gcore_ai_cluster.go`) | servers, interfaces of each, metadata; package variable `IsResize` | Read, Update | one call per server and interface; a variable all handlers of a process share | arrives; no server cut off; what a cut leaves behind |
| Servers (`resource_gcore_instance.go`, `..._baremetal.go`) | metadata keys, interfaces, floating IPs | Read, Update, in parallel | delete and create anew; floating IPs kept in a local variable; ports that move between servers | arrives; what a cut loses; runs settle |
| Named interfaces (`resource_gcore_instancev2.go`) | interfaces by name, with subnet, security groups, floating IP | Read, Update | a difference by hash; calls computed from a list read before; swallowed errors | arrives; a port stays; what is planned and never made |
| Data sources | none | Read | - | not modelled |
| Schemas, validators, import parsers, provider configuration | none | pure functions | - | not modelled |

What is hard to test here, line by line, is the list `hazards` in PROJECT.json;
each entry names the properties that watch over it.

## 2. Modules

| Module | Models | Depends on |
|---|---|---|
| `ResourceContract` | abstract: what a handler promises about the id it keeps | - |
| `ResourceLifecycle` | one instance of one type: Create, Read, Delete, tasks, failures | `ResourceContract` (refined) |
| `ProviderTable` | the decisions of the Create, Read and Delete handlers of 61 types, one row per handler | - |
| `MCResourceLifecycle` | instances, and the types that are exceptions by name | both |
| `ResourceUpdate` | one object's attributes in configuration, state and service; Read and Update | - |
| `UpdateTable` | the calls of the Update handlers of 55 types, one row per handler | - |
| `MCResourceUpdate` | instances, and the attributes that are exceptions by name | both |
| `K8sPools` | node pools of one Kubernetes cluster | - |
| `LBMembers` | members of one load balancer pool, handlers in parallel | - |
| `SftpKeys` | keys of one SFTP storage | - |
| `WaapPolicies` | a WAAP domain that is taken over, and its policies, several resources | - |
| `CdnSettings` | shieldings and applied presets on CDN resources, handlers under `CDNMutex` | - |
| `AIClusters` | several AI clusters updated by one process | - |
| `Servers` | keys, interfaces and floating IPs of instances and bare metal servers updated in parallel | - |
| `NamedInterfaces` | interfaces of one `gcore_instancev2` | - |

Each of the last eight has an `MC` module with the sets its run uses. Their
theorems and proofs, and those of `ResourceLifecycle` and `ResourceUpdate`, are in the
modules `..._proofs`, named after them but for two that serve two modules
each: `KeysAndInterfaces_proofs` (`SftpKeys`, `NamedInterfaces`) and
`PoolsAndServers_proofs` (`K8sPools`, `Servers`).

A definition introduced as *Variant* (`VolumeDeleteBlind`, `PutBack`, ...) is
not part of any specification: it is the definition after it with a plausible
bug, or with a defect of the code mended, and shows that the property it is
paired with under `mutants` in PROJECT.json depends on what the code does.

### ResourceLifecycle and ProviderTable

The handlers of all types share a skeleton, and differ in a few decisions. The
skeleton is `ResourceLifecycle`, the decisions are the rows of `ProviderTable`
(its header explains them), and `Table[kind]` connects the two: `kind` is chosen
in `Init` and never changes, so one run covers all types.

| In the model | In the code |
|---|---|
| `sid`, `tainted` | id and taint of the instance in Terraform's state |
| `remote` | the objects at the service: absent, building, live, deleting |
| `obj`, `result` | the object the running handler works on; outcome of the task it waits for |
| `pc` | where the run, or the handler it called, is |
| `StartRun`, `Refresh*` | the refresh: `resource...Read`, what it does on a 404 and on another error |
| `PlanCreate/Delete/Nothing` | Terraform's plan |
| `CreateAccepted`, `CreateAnswered` | the create call, then `WaitTaskAndReturnResult` and `SetId` |
| `Prepare*`, `Undo*` | calls between the answer and `SetId` (server group's instances, DDoS activation) and the deletes that undo |
| `Finish*`, `Readback*` | calls after `SetId`, and the closing Read whose diagnostics are returned or dropped |
| `Delete*`, `VerifyFails` | the delete call, its 404 and 409, the task, the read that shows the object gone |
| `WaitFails` | an error answer while a task is awaited |
| `LosesContact` | killed provider, lost answer, timeout of `waitForTaskResult` |
| `TaskEnds/Fails/Lies`, `RemovedOutside` | the service and other users |

`ResourceContract` is the promise behind it: an id is recorded only if it names
an object made for this instance, and given up only when its object is gone.
`KeepsContract` is the refinement: `recorded <- Recorded` (the id in the state),
`alive <- Alive` (the objects that exist), `offered <- Offered` (the object a
create handler holds). It is a promise of the types in the constant
`CarefulKinds`; an instance of another type maps to the contract's empty state,
so that one run covers the types that promise it and those that do not. In the same way
`LeakyKinds` and `WedgingKinds` are the types that can lose objects to error answers
alone, and those whose Read fails on a missing object; `MCResourceLifecycle` names
them. Leaky are all types whose calls are awaited as tasks: between the finished task
and `SetId` their create handlers look the task up once more (`CreatesByTask`; the
row of `gcore_postgres_cluster`, which knows its id from its configuration, has no
such call), some make a client before the wait, which can call the API too, and an
error answer of either, or of the wait (`WaitFails`), loses the id. A refused call
and a lost one have budgets of their own, so that the model can say which types an
error answer alone makes lose an object; the panics of a few handlers are modelled as
errors.

### ResourceUpdate and UpdateTable

`config`, `state` and `remote` map the attributes of one object to values. A
handler is a sequence of calls; `UpdateTable` says of each on which changes it is
made (`d.HasChange`), what it sends, whether only the difference from the state
is sent (tags, volumes, subnets, rules) and whether it is one request or
several, and whether the handler refuses to make it (`Refused`: a volume may only
grow, `volume.go` 298-310); and of the row which attributes Read does not write, which
no call sends, and whether the handler ends with Read. `Refresh` is Read,
`CallDone(i)`/`CallRefused(i)`/`CallFails(i)`/`KilledIn(i)` are the i-th call, `Close`
the end of the handler, `Edit` the user and `Drift` another one. The values are
numbers for the sake of the volume's size; what others change lets it grow, since the
service shrinks no volume. Because of that and since the service refuses to
extend a volume to less than it has, it makes no difference that the handler looks
at the size when it starts.

Attributes that a handler treats alike are represented by one (a comment at the
row says which). Left out are attributes that force a new object or only address
it, values that take an attribute out of the configuration, and edits that the service
would refuse for their value, as a smaller file share. The AI cluster of the row is
one of a single virtual server: for others the handler refuses every edit of the
volumes (`ai_cluster.go` 951-957). A refresh
that fails is left out: it ends the run before anything happens. Where the calls
of an update depend on more than "has it changed" (interfaces, metadata, pools,
members, keys), the row only says that they are made; the module of that part
says how.

The interesting content is the sets of exceptions of `MCResourceUpdate`, four of
which the specification gets as the constants `Unnoticed`, `Missed`, `Redone` and
`Growing`:
`Deaf` (an edit that is planned again and again and never sent), `Ignored`
(never sent and never shown), `Blind` (Read does not look), `Redone` (taken
apart by a repeated update), `Littered`, `Patient`, `Starved`, and `HeldBack` (what
the handler does not get to while a volume is larger than configured). They are written
out attribute by attribute, not derived from the table, and each entry is
needed: without it the run that uses the set fails.

### K8sPools

`state` is the list `d.Get("pool")` yields before the update (old), `config` the
new one, `pools` the cluster. `Add`, `Keep`/`RefuseReplace`/`DeleteReplaced`/
`Recreate`/`UpdateInPlace`, `Remove` are the bodies of the three loops of
`resourceK8sV2Update`, one pool per step; `ReadPools` is the order Read gives the
pools, with the placeholder of a missing one. A call that had its effect and
whose answer is lost needs no action of its own: it is the effect, followed by
`CallFails` or `Crash` at the next step. `mirrored` remembers whether the
old list was the truth when the update began and nobody interfered.

### LBMembers

Each member has its handler (`pc`), which may run at the same time as others
(`Parallelism`). `Get` and `Put` are the two halves of
`resourceLBMemberUpdate`, which writes the member list of the whole pool; `busy`
is the service's lock, which answers 409 until the task is over; a repeated call
is one that is made when the lock is free, or `Fails`. `fresh`, `clean` and
`strays` are history: has the list a handler read been overtaken, has the run
been undisturbed, what did earlier runs leave behind. `Fails` includes the closing
read; `Killed` ends all handlers at once, as they share a process.

### SftpKeys

`Relink` computes what `resourceStorageRelinkKeys` counts in its map `decision`,
`RelinkLinks`/`RelinkUnlinks` are its calls in any order, links first. `CallFails`
records the new list, `StorageKilled` leaves the old one.

### WaapPolicies

One `gcore_waap_domain` and several `gcore_waap_policy` resources that refer to it.
`domain` is the id of the domain at the service: `SwitchedOff`, `SwitchedOn` are
somebody switching WAAP of the CDN resource, after which the domain has another id.
`ByName`, `SendSettings`, `SendDiscovery`, `ReadDomain` are `resourceWaapDomainCreate`:
find the domain by its name, send what is configured, only then set the id and
read; `resourceWaapDomainUpdate` begins at `SendSettings`, with what has changed.
`DomainRefused` is an error (no such domain, or an account without the
`feature` API discovery), `NotFound` the closing read that clears the id. The status
of a domain is sent and read like its settings and has no variable of its own. Left out
is an empty `settings` block, for which `updateDomainSettings` returns neither answer
nor error and the handler dereferences the answer (`waap_domain.go` 195): it panics in
every run until the block is filled or removed.

The policies' handlers start once the domain's is done and has not failed
(`CanStart`, Terraform's walk). `ReadPolicies` computes `policiesToUpdate`,
`Toggle` is one toggle call, in any order (a Go map), `ReadNothing` a handler whose read
answers 404, which is only a warning: it returns without an error.
Create is the same update with the id set first. Neither Delete calls
anything, so to destroy and create a tainted resource is to create it, and `created`
and `known` say only whether there is an id. The modes and settings in the state
are left out: every run refreshes them before it compares.

### CdnSettings

Handlers of both types, of several resources each, run in parallel. `Lock` is
`config.CDNMutex.Lock()` and every return is the deferred `Unlock`. `Set` is
Create, and Update of a shielding (which sets another id and leaves the former
CDN resource as it is); `ReadBack` the read that follows under the mutex;
`Remove` is Delete or, for an applied preset, whose attributes all force a new one,
the first half of a replacement. `CdnResourceDeleted` is
`resourceCDNResourceDelete` as well as another user: it does not take the mutex.
`Look` is Read, which goes by the id of a shielding and by the recorded
attributes of a preset. `moves` and `touched` are history. The request body
is one value; the service's own checks of a preset are calls that may fail.

### AIClusters

`want`, `have` and the service for several clusters in one process, with the
package variable `IsResize`. `Resize`/`ResizeEnds`, `InterfacesChanged`,
`Attach`, `AllAttached`, `Detach`/`NothingToDetach`, `AllDetached`,
`ReplaceMetadata` and `ReadBack` are the sections of `resourceAIClusterUpdate`
in their order; `Calls` is the doubly nested loop, over the interfaces that differ and
`poplar_servers` of the state. `Listed` is `ListInterfacesAll` over all servers,
from which Read takes the interfaces. `StartRun` starts a process, so it resets
the variable. `mirrored` remembers whether the servers were all alike.

### Servers

A server's handler deletes the recorded keys one by one and creates the
configured ones at once (`DeleteKey`/`KeyGone`, `CreateKeys`), lists interfaces
and floating IPs (`ListInterfaces`, `fips`), detaches, attaches and assigns
(`Detach`, `Attach`/`AttachRefused`, `Assign`/`AssignRefused`), reads
(`ReadServer`). The two types differ in what they detach, attach and assign, and in what
their Read looks at (`Seen`). Interfaces are reserved ports, which only one server can have
at a time, or ports the service makes in a subnet; what a floating IP does
when its port goes is the service's behaviour and external. Left out: several
interfaces in one subnet, the order of the list, dual-stack addresses, security
groups of single ports; a bare metal server's trunk is always configured.

### NamedInterfaces

`Difference` is the difference of two `schema.Set`s under
`instanceInterfaceUniqueID` (name and security groups). `List`, `Detach`,
`Attach`, `Unassign`/`Assign` (the two calls for the groups of a port),
`PortNotFound` (skipped without an error) and `ReadBack` are the sections of the
update; `listed` is the list of ports it read first, from which the two calls
are computed. An error of the two calls is logged and not returned, which
`touched` remembers. An interface is identified with its name and its port, so
others attach interfaces only between two runs; several addresses per port,
the order of attachment and collisions of the hash are left out.

## 3. What is checked

| Run | Instance | Shows |
|---|---|---|
| `lifecycle_all` | all types, 5 objects, 2 refusals, 2 cuts, 3 changes | `LeaksAreFailures`: no failure orphans more than one object, and error answers alone orphan none but of the types `Leaky` (those that wait for tasks, and five others). `LostObjectWedges`: for the types `Wedging` no later run gets past the refresh of a missing object. `KeepsContract`: the refinement, for the types that are not `Hasty` |
| `lifecycle_settles` | types that are neither `Wedging` nor a member, 4 objects, 1 refusal, 2 cuts, 2 changes | `Settles`: repeated runs end with one live untainted recorded object, or none |
| `updates` | 55 types, 3 values and one of others' own, 2 failures, 2 edits, 1 drift, one attribute edited at a time | `UpdateArrives`: what an update that ends has brought to the service, with the exceptions by name; `RepeatIsSafe`: a repeated run never takes apart what is right; `SilenceLasts`: what Read does not look at stays wrong; `GrownStaysBarred`: a volume larger than configured stops every update before its type and metadata; `Settles`, up to the named exceptions |
| `k8s_pools` | lists of one or two of 2 names, 2 flavors, 2 sizes, 1 failure, 1 removal, 2 edits | `MirroredNeverEmpty`, `MirroredArrives`, `NoCollateral`; `Converges`: repeated runs end with the configured pools unless the only one is to be replaced |
| `k8s_zero_pools` | the same without the removal | a **violation**, see below |
| `lbmembers` | 3 members, 2 values, all in parallel, 1 failure, 1 edit of all members | `GhostStays`: a dropped member is never restored; `RunIsExact`: a run without stale writes is exact; `UpdatesHeal`: repeated runs repair overwritten members |
| `sftp_keys` | all lists of at most 3 of 3 keys, 1 failure, 2 edits | `NeverLockedOut`, `UpdateArrives`; `DriftStays`: what a failure left is never noticed |
| `waap_policies` | a domain, 2 resources that list 2 policies and one of them, 2 values, 2 failures, 1 edit, 1 interference | `HalfWay`: each policy is as found and still to be toggled, or as configured; `Settles`: domain and policies end as configured even if the domain has been replaced, unless an account without API discovery blocks the domain |
| `cdn_settings` | 2 shieldings, 1 preset, 2 CDN resources, 2 values, 1 failure, 1 edit or import, 1 interference | `ReadsItsOwn`: under the mutex the closing read finds the handler's own setting; `OrphansExplained`: one orphaned setting at most per failure, interference and move; `FailedMoveIsForgotten`; `Settles` |
| `ai_clusters` | 2 clusters of at most 2 servers, 2 interfaces, 2 values, 1 failure, 2 edits | `UpdateArrives` unless a resize suppresses it; `MirroredNeverCutOff`; `HalfAttachedIsSilent` and `HalfDetachedIsStuck`: what a cut leaves behind; `Settles` |
| `servers` | an instance and a bare metal server, 1 port that can move, 1 subnet, 1 floating IP, 1 key, 1 edit of both, 1 mishap | `ServersArrive`; `LostFloatingIPStaysLost` and `CutMetadataWedges`: what a cut loses; `Settles`, also when a port moves between two handlers |
| `named_interfaces` | 3 names, one or two configured, 2 subnets, 2 groups, 1 floating IP, 1 mishap, 2 edits | `InterfacesArrive`; `ConfiguredStaysAttached`; `EditUnderTheNameIsIgnored`: another subnet or floating IP under the same name is planned and never made; `Settles` |

A *mishap* is a failure or an interference of somebody else. Type invariants are
proved; two are checked as well because they say more than types. By
`ServersTypeOK` a reserved port is attached to one server at a time and no floating IP
is left on a port that is gone; by `InterfacesTypeOK` a handler detaches only what is
recorded and not configured.

**The violation.** `k8s_zero_pools` checks what the comment above the loops of
`resourceK8sV2Update` says (line 1147): "make sure we don't end up with 0 pools
at any moment". The guard against it compares the lengths of the two lists, but
the old list keeps a placeholder for a pool the cluster does not have. An update
that fails to create a renamed pool, followed by an edit back to the old name
with another flavor, has one live pool and two entries, and deletes the pool.
`MirroredNeverEmpty` shows (and a theorem proves) that the placeholder is to
blame: with an old list that mirrors the cluster, and nobody else removing pools
meanwhile, it never happens.

**Why the bounds are enough.** Objects: one per cut plus the recorded one, its
replacement and a spare, so that no creation is ever impossible for want of an
id. Two failures are a failure and the failure of the run that repairs it;
two edits are an edit of a half-made update, which also lets two attributes
differ at once although one is edited at a time, so that a size that is refused meets
a type that is to be sent after it; three values tell old, first
new and second new apart. Pool lists of two over two names contain the cases
of the loops (kept, resized, replaced, renamed, added, dropped, two at once); that a
third pool changes nothing is what the theorems say. Three
members are a victim, a writer and a bystander. Two clusters are the one that is resized
and the one that suffers; two servers the first, which is looked at, and another.
An instance and a bare metal server with one port between them meet in both
directions; two instances would only exchange their names. Three interface
names of which two are configured let one stay, one go and one come. Where both kinds of mishap are bounded together, the
interesting case is one of them: what follows it is an undisturbed run. The
counters of failures, edits and interferences are the only things bounded
that the code does not bound.

**Symmetry** is used in `lifecycle_all`, `k8s_zero_pools` and `sftp_keys`, none of which
has a liveness property; nothing in these modules tells the members of the sets apart.
`CHECK_DEADLOCK FALSE` is nowhere used: a user can always start another run.

**Fairness.** Every liveness run assumes that Terraform is run again and again
(weak fairness of the refresh) and that a handler that has been called goes on
(weak fairness of its steps): a handler is a sequential Go function each of whose
waits has a timeout. For the lifecycle, that tasks end. Nothing is assumed of failures, edits and drifts,
of which there are finitely many. Fairness for each member's, policy
resource's, cluster's and server's handler is justified by Terraform's walk, which starts every node of
the graph once its predecessors are done. In `CdnSettings` the step `Lock` is
one of a handler's, and weak fairness is enough for it: every holder returns, a
run calls each handler once or twice, and between two runs the mutex is free.

## 4. What is proved

Every theorem holds for all values of the constants. The assumptions are those
beside the CONSTANTS: the bounds are naturals (`BoundsAssumption`), `None`,
`Absent`, `Nobody` and the like are values of their own
(`NoneAssumption`, `AbsentAssumption`, ...), the values of attributes are numbers and
`Other` is more than any that is configured (`ValuesAssumption`), the tables have the declared form
(`TableAssumption`), the two types of settings are apart (`ItemsAssumption`), so are
the two types of servers, ports and subnets, and no item or key is a pair
(`NamesAssumption`), the lists a user writes are not empty and name no pool
twice. TLC evaluates all of them on the instances.

* `ResourceLifecycle_proofs` - `TypeCorrect`: the type invariant for every table.
  `PhasesHold`: the inductive invariant `CInv`, which ties the program counter to
  the ids: nothing is recorded while a create handler works, a delete handler works on
  the recorded object, which is absent once a synchronous delete has been answered.
  Without it a step of a handler taken on its own could record a second
  object. `CarefulHandlersKeepContract`: if the handlers of all `CarefulKinds` are `Careful`
  (the theorem's hypothesis, a condition on their rows of the table), the
  lifecycle implements `ResourceContract`, for any number of refusals, cuts and changes.
  `EveryLeakIsAFailure`: what the handlers leave behind is never more than the
  failures: for the `LeakyKinds` the error answers, lost contacts and failed tasks
  together, for the others, if these are `Tight`, lost contacts and failed tasks only.
  The number of orphans is not inductive: the step that orphans an object,
  the end of a handler whose task has failed, is not the one that counts the failure.
  The invariant (`OInv`) counts an object from when it is owed, that is
  orphaned or certain to be (`OwedBound`), and knows that a type without
  calls between answer and `SetId` is never in the phases of these (`Straight`).
  `LostObjectsWedge`: if Read fails on a missing object, a lost object stays in
  the state for ever. `ProviderTypesKeepTheirPromises`: the rows of `ProviderTable`,
  with the exceptions of `MCResourceLifecycle`, meet the three conditions, so that the
  three results hold for the types of this provider, any objects and any bounds.
* `ResourceUpdate_proofs` - `TypeCorrect`, and `UpdatesArrive`: an update that ends has
  brought every attribute it was about to the service, but for those in `Missed`, if
  the others are `Reliable` (one of the calls carries them whatever else has changed,
  and none sends a difference from a value Read has not looked at). The inductive
  invariant `UInv` says what holds half way: what Read looks at is
  what the plan says or what it shall be (`AsPlanned`), and a changed reliable
  attribute has arrived or one of the calls to come carries it (`OnItsWay`).
  `RepeatsAreSafe`: no run breaks an attribute that is right, except those in
  `Redone`. A call of several requests can take apart what is right; `RInv` says why it
  does not for a `Steady` attribute: the plan is made from a state that has just been
  read (`FreshlyRead`), so an attribute that is sent was wrong when the handler
  began, and when it has become right such a call is already behind (`BehindIt`). `SilenceStays`: an object
  that differs only in what Read does not look at is never updated. `GrownStaysAsItIs`: what
  the service has too much of, of an attribute that can only grow, is never sent, nor
  anything that the handler sends after it. The run in hand is not past the call that
  is refused, since the plan has the change and each call that sends it is made
  (`BarredCall`), and whatever call comes first is before it (`BarredDue`).
* `PoolsAndServers_proofs`, of node pools - `IInv` follows an update that began with a true old list through
  its loops: which old pools have not been reached and so are still there
  (`OldRemain`), which new ones have arrived (`NewArrived`), and that no pool has
  a name of neither list (`NoOthers`). `KeepsAPool`, `Arrives`, `SparesTheUnchanged` and
  `TypeCorrect` follow, for lists of any length.
* `PoolsAndServers_proofs`, of servers - `ServersTypeCorrect`, and `ServersReach`: an
  update that ends has brought keys, interfaces and floating IPs to the service,
  for any number of servers updated at once. The inductive invariant
  `ServersInv` says phase by phase what a handler has made of its server's interfaces
  (`InterfacesHeld`) and, while nobody has touched the server, of its keys
  (`MetadataHeld`) and of the floating IPs that shall be left (`FipsHeld`: what is
  `Due` is in the list the handler read, then among the calls to come or made).
  What holds the handlers apart is `Apart`: no port is recorded for two servers
  that are updated in one run, because the refresh has read all of them. So a step
  of one server clears another's floating IP only with a port that the other does
  not have, or else counts as touching it (`Effective`, `Controlled`); that the
  invariant of the others survives is shown once for all steps (`StepsAside`).
  `CutUpdatesWedge`: a recorded key that is gone stops every later run of every server at
  the refresh, until somebody else writes it. `LostFloatingIPsStay`: a configured floating
  IP that is out of place, with no handler about to assign it, is not returned by any
  run until it is edited or somebody else does it.
* `LBMembers_proofs` - `TypeCorrect`; `GhostsStay`, from the type invariant alone;
  `CleanRunsAreExact`, for any number of handlers in parallel. Its invariant
  says, as long as a run is clean, what each handler has made of its own member
  at each phase, and that a list which is still fresh equals the pool: that is what
  makes writing the whole list harmless.
* `KeysAndInterfaces_proofs`, of keys - `TypeCorrect`, `KeepsAKey`, `RelinkArrives`: the invariant
  `OnItsWay` says which keys are linked while the two loops are under way; links come
  first, so there is always one of the old list or one of the new. `DriftIsForGood`: keys
  that are not those of the list are seen by no run until the list is edited.
* `KeysAndInterfaces_proofs`, of named interfaces - `InterfacesTypeCorrect`;
  `InterfacesReach`: an undisturbed update arrives. The invariant `NInv` says that every
  interface is as recorded or as configured, by what is still to do (`InterfaceInHand`,
  with the two calls for the groups of a port between them), and, whoever interferes, that an
  interface new to the state is not attached before the handler attaches it
  (`NewToCome`). Without that an attach could replace a port in use. `PortsStay`: no
  handler detaches a configured interface. `EditsUnderTheNameStay`: none that is attached gets
  another subnet or floating IP.
* `WaapPolicies_proofs` - `TypeCorrect`, and `NeverToggledTwice`: `HalfWay` is
  inductive once it is known that the policies to toggle are the resource's own,
  and holds whatever becomes of the domain meanwhile.
* `CdnSettings_proofs` - `MutexInvariant` (`MInv`): one handler is between request and return,
  and its setting is there unless the item is `touched`. `ReadersReadTheirOwn`,
  `FailedMovesAreForgotten` and `TypeCorrect` follow. Without the mutex in the
  invariant a sibling's request could come between request and read. `OrphansArePaidFor`:
  what is left at the service unknown to any state is no more than the mishaps and
  moves together. Again the orphans are counted from when they are owed
  (`OwedBound`): `Owed` holds a `Loose` setting, which nobody knows, and a shielding that
  is `Astray`, whose state goes by one CDN resource while it is written on another, so that
  one of the two ends will be orphaned. Each action shows what it may add
  (`Accounts`), and one injection (`Exchange`) turns that into numbers; the sets
  of items and CDN resources need not be finite.
* `AIClusters_proofs` - `TypeCorrect`; `MirrorInvariant`: what each server has,
  phase by phase, of a cluster whose servers were all alike (`MirrorInv`), and
  what is left to call (`RunInv`). `ServersStayConnected` and `UpdatesArrive`
  follow; `MissedStaysMissed` and `StuckStaysStuck` say of every step, of any number of
  runs, that it leaves a missed or half detached interface so.

The theorems that have a condition on the table as a hypothesis (`CarefulTable`,
`TightTable`, `WedgingTable`, `ReliableTable`, `SteadyTable`, `UnnoticedTable`,
`GrowingTable`) ask
of the rows what can be read off them one by one. All hold of the tables with the
exceptions of the MC modules: for `ProviderTable` that is proved, for `UpdateTable`
it can be evaluated, and the run `updates` checks the conclusions.

Every safety property of a passing run is the conclusion of a theorem. Left to TLC:
everything under fairness (`Settles`, `Converges`, `UpdatesHeal`), which the prover
cannot do, and that the rows of `UpdateTable`, which are finite data, meet the
conditions of the theorems.

## 5. What is not modelled

* The requests and answers field by field, validators, conversions, import
  parsers, data sources: no state to keep.
* Create of the settings resources other than the two CDN ones.
* The options of a CDN resource: `resource_gcore_cdn_options.go` only declares their
  schema; `listToOptions` and `optionsToList` (`resource_gcore_cdn_resource.go`)
  copy them field by field, and `UpdateTable` treats them as one value.
* Kubernetes version upgrades and cluster settings beyond their calls in `UpdateTable`.
* Of servers, what the sections above name: order of interfaces, several
  addresses of one port, dual-stack, interfaces that share a subnet.
* Attributes taken out of a configuration; an empty `settings` block of a WAAP domain.
* Polling of tasks inside gcorelabscloud-go, and Terraform core, of which only
  the rules of section 1 are used.

## 6. Plan

Done: the lifecycle of all types with its contract, the updates of one object for
all types, node pools, members, keys, policies, CDN settings, AI clusters, servers,
named interfaces, the WAAP domain with its policies. Next, in this order:

1. Removal of attributes in `ResourceUpdate`.
2. Matching of the interface list of `gcore_instance` with the ports
   (`extractInstanceInterfaceIntoMap`), where two interfaces can have one key.
3. `gcore_dns_zone_record` and `gcore_waap_custom_rule` beyond their rows.
4. The import parsers, as operators.
5. Proofs: the hypotheses about `UpdateTable`, row by row, as it has been done for
   `ProviderTable`.
