# A TLA+ model of the cloudscale.ch Cluster API provider

The provider (CAPCS) is a set of Kubernetes controllers that turn
`CloudscaleCluster` and `CloudscaleMachine` objects into networks, routers, load
balancers, floating IPs, server groups and servers at cloudscale.ch. Every
reconcile reads a possibly outdated object, talks to two APIs that can fail at
any call, and writes its result back at the end. This project models those
reconciles call by call, the webhooks that stand between users, controllers and
stored objects, and both controllers together. It checks them on small instances
with TLC, and proves the central facts about both controllers and the webhooks
with TLAPS.

Paths below are relative to the repository (`src/`); controller files are in
`internal/controller/`.

## The system

| Component | State it owns | Operations | Interacts with |
|---|---|---|---|
| Machine controller (`cloudscalemachine_*.go`) | finalizer, providerID, serverID, serverGroupID, Provisioned, conditions; `serverGroupMu` | reconcile, server group, server, delete | Kubernetes API, Servers and ServerGroups API, other machines (mutex, shared group), the cluster (Provisioned) |
| Cluster controller (`cloudscalecluster_controller.go`, `cloudscale_services.go`) | finalizer, endpoint, Provisioned, conditions | reconcile, delete, `ensureResource` | the parts below, machines |
| Networks (`cloudscalecluster_network.go`) | `status.networks` | make or look up, delete | routers and load balancer (attachments) |
| Routers (`cloudscalecluster_router.go`) | `status.routers` with interface entries | make or adopt, attach, claim, detach, delete | networks |
| Load balancer (`cloudscalecluster_loadbalancer.go`) | four IDs, member IDs | make, read state, reconcile members, delete | control plane machines, subnets |
| Floating IP (`cloudscalecluster_floatingip.go`) | its address | make or adopt, assign, delete | load balancer, control plane servers |
| Server groups (`cloudscalecluster_servergroup.go`) | none | delete the empty ones | machines |
| Scopes (`internal/scope`) | snapshot of the object | `Close`: three patches | Kubernetes API, webhooks |
| Webhooks (`internal/webhook/v1beta2`) | none | default, validate | every write, `Close` included |
| Regions and flavors (`internal/cloudscale`, `cmd/main.go`) | tables read at start-up | lookups | webhooks, template controller |
| Template controller (`cloudscalemachinetemplate_controller.go`) | `status.capacity` | reconcile | flavors, Kubernetes API |
| Credentials, client, tracing, manager | – | I/O, start-up | – |

What makes it hard:

* nothing is stored until `Close`, so a crash loses everything a reconcile knows,
  the finalizer of the first reconcile included;
* a create that timed out may have worked, or may still work later;
* the object a reconcile starts from may be older than what the previous one
  stored;
* `Close` is three patches, each of which can fail alone, and `status.networks`
  and `status.routers` are replaced as whole arrays;
* machines reconcile concurrently and share server groups;
* some progress has no event behind it and depends on the requeue the code asks
  for, or on a watch of the other controller's objects;
* the webhooks must refuse every update that would change what a resource was
  made from, and none that the controllers themselves need, in a process that may
  have read other regions and flavors than the one that admitted the object.

## Modules

| Module | Models |
|---|---|
| `MachineController` | the machine controller with scope, server groups, servers |
| `MachineServers` | abstract: what the machine controller promises about servers |
| `MachineServerProofs` | type correctness of `MachineController`; one server per machine, one server group per name; it implements `MachineServers`; Provisioned is final |
| `MachineCloseProofs` | a stored server ID is protected by the finalizer; a machine records its own server, in the group of its name |
| `MachineIdentityProofs` | status and provider ID name one server, which is never exchanged or left behind |
| `MCMachine` | instances and an already-gated initial state for TLC |
| `ClusterState` | objects, reconcile in progress and cloud resources shared by the parts |
| `ClusterNetwork`, `ClusterRouter`, `ClusterLoadBalancer`, `ClusterFloatingIP` | one part of the cluster controller each |
| `ClusterController` | reconcile, `ensureResource`, endpoint, server groups, `Close`; composes the parts |
| `ClusterStateProofs` | the invariant of IDs and resources, and that the steps of the parts keep it |
| `ClusterCloseProofs` | the other steps keep it; nothing given to the cluster is deleted; what the three patches of the cluster's `Close` keep |
| `ClusterPartProofs` | the tasks of a reconcile: each part goes on with its own and then with the next part |
| `ClusterTaskProofs` | the other steps do so, too; Provisioned is final |
| `MCCluster` | instances and an already-owned initial state for TLC |
| `Provider` | both controllers in one process, with their watches on each other |
| `MCProvider` | its instance for TLC |
| `Catalog` | regions and flavors |
| `ClusterWebhook`, `MachineWebhook` | defaulting and validation of specs, as operators |
| `Admission` | an object of any of the four kinds under any requests and restarts; the template controller |
| `AdmissionProofs` | admitted specs are sound, stay writable and keep what resources were made from |
| `MCAdmission` | specs, edits and catalogs for TLC |

`PROJECT.json` maps every definition to the lines it translates.

### State and actions

*Object, cache, memory, snapshot.* `obj` is the stored object, `cache` the
informer's copy, `mem` the object a reconcile edits, `base` the patch helper's
snapshot. Field names follow the API, shortened (`serverID`, `providerID`,
`provisioned`). In `ClusterState`, `ids` maps a resource key such as
`<<"subnet", "n1">>` to the ID in status. `None` is the empty string or nil.

*Steps.* An action is one call that leaves the process, with all local code up
to the next call. Machine reconciles are at `pc[m]`. A cluster reconcile runs a
program of tasks, `task` and `todo`, because the number of its calls depends on
the spec. Every return sets `outcome` and goes to the three patches of `Close`.

*Patches.* The Cluster API patch helper sends conditions, then metadata and
spec, then status, each being tried whatever became of the one before. A field
is sent if memory differs from the snapshot (`Merge`); a condition that somebody
else changed meanwhile makes the conditions patch fail. The webhooks' only rules
that these patches can meet, the immutability of `providerID` and of
`controlPlaneEndpoint`, are part of the second patch.

*Cloud.* `servers`, `groups` and `cloud` hold the resources. A resource is found
by the tags it was made with, which is its owner or key. A `pending` resource is
a create whose call ended without an answer: it lands or is lost. Unless `"late"`
is in `Env`, a list is answered only after such creates are settled. The
controllers' waits after a timeout (5 to 30 seconds) aim at exactly this.

*Environment.* `Env` selects what may happen: `crash`, `timeout`, `late`,
`stale`, `external`, `delete`, `earlyDelete`, `apiError`, `patchError`, `pause`,
and for clusters `attach`, `degraded`, `machines`, `groups`. A run names the set
it needs.

*Composition.* `Provider` instantiates `MachineController` and
`ClusterController` on shared state. Three things that each of them leaves to its
environment are defined there by the state of the other: the machines' check that
their cluster is provisioned (`ClusterProvisioned`, from the cluster's cache), the
verdict of `deleteServerGroups` (`ServerGroup`, from the machines' cache and the
servers), and the events (`ClusterCacheSync` queues the machines,
`MachineCacheSync` of a control plane machine queues the cluster). Cluster API
deletes the machines first and the CloudscaleCluster when they are gone;
`docs/getting-started.md:302` tells users to rely on that order. In the other
order the check of the cluster stops the deletion of the machines for good.

*Admission.* `Admission` holds one stored object, of a kind chosen at the start.
A request is defaulted and validated with the regions and flavors of the running
process and, if admitted, stored. `Restart` is a new process with another catalog.
`NetworkRequests` to `ServerRequest` say what the controllers take from a spec for
their create calls; they tie the webhooks' rules to what they are for.

### Abstractions

* Addresses of servers, `observedGeneration`, the Deleting and Paused conditions
  and events are left out. CIDRs, MTUs, ports, flavors and the content of create
  requests are in `Admission` and left out of the controllers.
* In `Admission` a string that is parsed is a member of a set: `IPs` are those
  that parse as an address, `Within` gives each prefix its addresses. A zone is
  listed by one region. `routers` and their interfaces are functions, because
  the schema makes them list-maps and refuses duplicates before the webhooks run.
  What the schema alone decides (enums, lengths, required fields) is in the choice
  of the specs.
* `ServerStarting` and `ServerChanging` are one reason; `stopped` stands for
  every state of an existing server other than `running` and `changing`.
  `degraded` stands for every state of a load balancer other than these two. A
  load balancer that was read has a VIP.
* An error before the scope exists (reading objects, the token) changes nothing
  and is a stuttering step. So is a retry's back-off.
* The owner reference is `owned`; "the Cluster or CloudscaleCluster is missing or
  not provisioned" is one flag of the machine module, which is never taken back;
  in `Provider` it is the state of the cluster.
* A crash during a create call is a timeout directly followed by the crash.
* A create that fails with another error than a timeout has had no effect; a
  delete that fails may have had one.
* The quota is the number of UUIDs: `Servers`, `Groups` and `MaxCreates`.
* A patch of a gone object is an error, except the last one after the reconcile
  itself removed the finalizer.
* The set of control plane machines that a cluster reconcile lists is `addr`,
  with the address of each; the floating IP may go to any of them, because a
  cached list has no order.
* A cluster has one server group in the model of `deleteServerGroups`. Alone it
  is an environment of the cluster module, in `Provider` it is what the machine
  controller made.
* The cluster of `Provider` has a given network and an endpoint given by the user:
  its other parts do not meet the machines, except the pool members and the
  floating IP, which `pool_members` and `pre_existing` are about.

## Runs

Passing runs (`MC*` module, `.cfg` of the same name):

| Run | Instance and environment | Checks | Distinct states |
|---|---|---|---|
| `machine_lifecycle` | 1 machine, 2 servers, 1 group; crash, timeout, stale, apiError, delete, earlyDelete; fair | `TypeOK`, `AtMostOneServer`, `RecordedServerIsProtected`, `ProvisionedHasProviderID`, `IdentityAgrees`, `ProvisionedIsFinal`, `ServerIDIsFinal`, `ImplementsFleet`, `Converges`, `DeletionCompletes` | 202,131 |
| `machine_no_orphan` | 1 machine, 1 server, 2 groups; external, apiError, delete, pause | `NoOrphanServer` | 117,869 |
| `server_groups` | 2 machines, 2 servers, 2 groups, one group name, symmetric; crash, patchError | `AtMostOneGroup`, `AntiAffinity`, `RecordedServerIsOwn` | 326,040 |
| `managed_network` | managed network, router, interface; crash, timeout, stale, external, delete, pause | `AtMostOneResource`, `RecordedIsProtected`, `ProvisionedIsRecorded`, `ProvisionedIsFinal` | 413,098 |
| `pre_existing` | 2 given networks, given router, interface and floating IP, one interface to attach, 2 control plane machines; timeout, delete, apiError, attach, machines; fair | `PreExistingIsKept`, `NoOrphanResource`, `FloatingIPIsAssigned` | 159,866 |
| `load_balancer` | given network, load balancer; stale, external | `AtMostOneResource`, `EndpointIsFinal` | 387,216 |
| `cluster_lifecycle` | given network, managed router, load balancer and floating IP, server group; delete, apiError, groups; fair | `TypeOK`, `NoOrphanResource`, `Converges`, `DeletionCompletes` | 154,474 |
| `pool_members` | load balancer, 1 control plane machine, 2 addresses; machines, degraded, timeout; fair | `AtMostOneResource`, `ProvisionedHasEndpoint`, `ProvisionedIsFinal`, `PoolFollowsMachines` | 59,973 |
| `provider` | both controllers, 1 control plane machine, 1 server, 1 group; cluster apiError, pause, deletion of machine and cluster; fair | `GateStaysOpen`, `NothingIsLeft`, `EverythingIsDeleted`, `EveryMachineStarts` | 199,845 |
| `admission` | 4 kinds; the specs, edits and catalogs of `MCAdmission`; fair | `AdmittedIsSound`, `StaysWritable`, `TemplatesAreUsable`, `MadeFromStays`, `CapacityFollowsFlavor` | 12,900 |

What the two runs that reach beyond one controller show:

* `provider`: the machines' `Reconcile` returns without a requeue while their
  CloudscaleCluster is missing or not provisioned. That never holds up a machine
  that has a finalizer (`GateStaysOpen`), because Provisioned is never taken back
  and the CloudscaleCluster outlives the machines, and the watches bring back
  every machine that waits there, pausing included (`EveryMachineStarts`). A
  deleted Cluster goes away, neither controller waiting for the other
  (`EverythingIsDeleted`), and leaves no server and no group, though the group is
  judged by a cache of machines that may be behind (`NothingIsLeft`).
* `admission`: `SoundCluster` and `SoundMachine` say what the controllers take for
  granted of a spec, without reference to the webhooks' rules; every sequence of
  admitted requests keeps it. `StaysWritable` is what finalizers depend on: a
  stored object sent back unchanged, or with its endpoint or provider ID filled
  in, is admitted by any later process. `CapacityFollowsFlavor` holds although the
  template controller's patch carries no resource version and may meet another
  template of the same name.

`machine_lifecycle` and `managed_network` start from a new object that Cluster
API does not own yet; so do the machine violation runs and `machine_no_orphan`.
The others start from an object that is owned, has its bootstrap data and, for
machines, a provisioned cluster (`OpenInit`), which is where the first reconcile
that does anything starts.

**Bounds.** One machine suffices for everything machines do alone; they share
only the group and the mutex, for which two machines are used. Two servers for
one machine, and `MaxCreates = 2`, let a duplicate exist; `cluster_lifecycle`
and `pre_existing` have no event after which anything is made twice and use 1.
Where the UUIDs are used up, creates are refused, so that behaviours go on.
Networks and routers are loops over the spec; one of each, and two interfaces on
one router in `pre_existing`, exercise them. In `provider` one machine is enough
to be held up at the check or to leave a group behind. The specs of `MCAdmission`
break or keep each rule of the webhooks at least once; the edits change, add or
remove one part at a time, which sequences of updates combine. The proofs cover
larger instances and every combination of faults for servers and groups, every
cluster spec for the given resources, the order of the calls and `Close`, and every
spec for admission. Deadlock is checked in every run.

**Fairness.** A queued object is taken by a worker and every call returns,
because every call to the cloud has a timeout and every reconcile a deadline.
The informer catches up. Cluster API sets the owner reference, the bootstrap
data and Provisioned in the end, and the machines of a server group record and
delete their servers. A create in flight is settled, a changing resource
settles, a deleted load balancer's members are cleaned up, and a load balancer
recovers once its members answer. Cluster API deletes the objects of a deleted
Cluster. In `admission` the informer and the work queue go on while requests and
restarts come to an end. Crashes, pausing, timeouts and API errors stop at some
point; an error counts as such only if the call could have succeeded, so that an
error that repeats itself for ever is a violation. Nothing is assumed of
`Resync`: no property relies on the periodic resync for an event that the code
should have asked for.

### Disagreements with the documentation

Violation runs state what a comment or document says and show a behaviour of the
code that differs. `findings` in `PROJECT.json` quotes each line.

| Run | Says | Shows |
|---|---|---|
| `timeout_orphan` | the finalizer allows cleanup before removal | deletion does not search by tag; a server whose create timed out stays |
| `network_orphan` | deleting a cluster removes its managed networks | a network without its subnet is recorded nowhere and stays |

The code has further behaviours of this kind, for which no run is kept:

* `api/v1beta2/condition_types.go:29` says that Paused is "True when the pause
  annotation is present"; it is set on an object that is never patched
  (`cloudscalemachine_controller.go:113`).
* `cloudscalecluster_router.go:360` says "deleteRouters removes the interfaces we
  created". An entry written before an attach that is refused, because somebody
  else attached the router meanwhile, later claims that interface, and deletion
  detaches it.
* `api/v1beta2/cloudscalecluster_types.go:225` says of `apiServerPort` that the
  pool always targets 6443; the members are made with `apiServerPort`
  (`LoadBalancerRequests`).
* Tags of a machine may be edited, and no server is updated with them.
* The webhook calls the load balancer's network "immutable once set" and refuses
  to set it later, too.
* A cluster created in a region that has no zone yet could not be written any more
  once it has one, because the zone is then defaulted and must not change;
  `RegionAssumption` excludes it.
* The first reconcile's finalizer is stored after its cloud calls (`earlyDelete`):
  an object deleted meanwhile disappears at once and its server stays.
* With late creates (`late`) two server groups of one name, or two servers of one
  machine, are possible.
* A timed-out create sets ServerGroupReady, NetworkReady or LoadBalancerReady to
  True until the next reconcile.
* A reconcile from an older object replaces `status.routers` without the entry of
  an interface that the previous one made.
* A pool member whose create timed out is never added to
  `status.loadBalancerMemberIDs`.
* With a crash or a failed patch between two patches *and* the server deleted by
  someone else, the fixed provider ID can name another server than status. With a
  failed second patch alone, Provisioned can be visible before the provider ID.

These bound what the passing runs say. `NoOrphanServer` and `NoOrphanResource`
hold for reconciles that reach the end of `Close` with the answers to their calls
and, for router interfaces, also under timeouts. `IdentityAgrees` and
`ProvisionedHasProviderID` are checked for patches that succeed or are cut off by
a crash.

## Proofs

The proofs about machines hold for every set of machines, servers, groups and
every environment, unless a condition is given, those about clusters for every
spec of networks, routers, interfaces, load balancer and floating IP and every
environment, likewise, and `AdmissionProofs` for every set of specs, edits and
catalogs.

* `TypeCorrect`: `Spec => []TypeOK`. `TypeOK` is inductive. The lemmas
  `EditTypes`, `LocalTypes`, `MergeTypes` and `PatchTypes` state once what the
  edits, the returns and the patches do to an object.
* `OneServer`: `Spec => []AtMostOneServer`, if `"late" \notin Env`.
  `AtMostOneServer` alone is not inductive: a reconcile that is about to create
  must know that there is no server, *and* that no create of an earlier reconcile
  is still to land. The inductive invariant `OneServerInv` therefore counts
  pending creates as claims (`ClaimedStates`): a machine has at most one claimed
  server, and none while its reconcile is at `createServer`. That step is
  entered only from the list by tag (`EntersCreate`), which has then found
  nothing (`NoClaimBeforeCreate`); only that machine's reconcile makes servers
  for it (`ServerSteps`), and the work queue runs one reconcile of it at a time.
  Neither the cache, status nor the patches appear in the argument: idempotence
  rests on the tag alone.
* `Implements`: `Spec => ImplementsFleet` under the same assumption. Pending
  servers map to servers not yet made, so a landing is the abstract `Provision`;
  `OneServerInv` gives its guard.
* `OneGroup`: `Spec => []AtMostOneGroup` under the same assumption. The invariant
  `OneGroupInv` adds that a machine at `createGroup` holds `serverGroupMu`, so at
  most one is there, and that no group of its name is claimed. A crash releases
  the mutex and ends every reconcile together.
* `ProvisionedFinal`: `Spec => ProvisionedIsFinal`. A reconcile never clears the
  field in memory, and a merge patch sends it only if it differs from the
  snapshot, so no stale copy can send `FALSE`: the invariant is that memory has
  Provisioned if the snapshot has it.
* `ServerProtected`: `Spec => []RecordedServerIsProtected`, if `"patchError"
  \notin Env`. The finalizer is in the second patch and the server ID in the
  third. `CloseInv` says that a stored object with an ID or under deletion has the
  finalizer, that the cache and the snapshot are earlier versions of the object
  (`Follows`), and that when the status is patched the second patch has left the
  finalizer there: it was sent, or the snapshot had it, or the webhook refused the
  patch because the object has a provider ID and therefore the finalizer. A crash
  between the patches only leaves a finalizer without an ID.
* `OwnServer`: `Spec => []RecordedServerIsOwn`, in every environment, late creates
  included. The invariant `RecordInv` says of every place that holds an ID (object,
  cache, memory, snapshot) that its server was made for the machine and its group
  has the machine's group name; `CallRecords` and `PatchRecords` show that calls
  and patches only copy such IDs.
* `Affinity`: `Spec => []AntiAffinity`, if `"late" \notin Env`. `AffinityInv` adds
  to it that a claimed server is in a live group of the right name. A server is
  made in the group its reconcile has in hand (`GroupInHand`), and a group with
  servers in it, or on their way, is not deleted (`GroupsKept`).
* `PreExistingKept`: `Spec => []PreExistingIsKept`, in every environment. A delete
  call goes to whatever ID status holds, and a delete takes along what is below
  the resource, so the property alone is not inductive. `ResourceInv`
  (`ResourcesKeyed`) adds three things. Every ID field, in the stored object, the
  cache, memory and the snapshot, holds a resource of its own kind and name
  (`Keyed`), which `MergesKeyed` shows of the patches. An interface belongs to the
  router and the network of its key, and so do the interfaces that
  `reconcileRouters` keeps of a router's last answer (`SeenInv`), because the
  interfaces carry no tag and are claimed by what they connect. What is given is
  below nothing but what is given (`CloudInv`). `EraseKeeps` concludes that
  erasing something else with all that is below it leaves the given resources
  alone; the floating IP outlives its target. There is one lemma for each part
  (`RouterSteps`, `InterfaceSteps`, `MemberSteps` and so on).
* `EndpointFinal`: `Spec => EndpointIsFinal`, in every environment. Every step is
  one of a handler, of `Close`, or of an event (`StepKinds`), and only the second
  patch writes the endpoint, past the webhook.
* `RecordedProtected` and `ProvisionedEndpoint`: `Spec => []RecordedIsProtected`
  and `Spec => []ProvisionedHasEndpoint`, if `"patchError" \notin Env`. Both rest
  on `CloseInv` (`ClosesInOrder`). The cache and the snapshot are behind the
  stored object but never at odds with it (`Behind`): a finalizer, an endpoint or
  a deletion that they show is still there, unless the object is gone. Memory
  differs from the snapshot in the endpoint only where the snapshot has none
  (`Running`). When the status is patched, the finalizer and the endpoint are
  stored or the object is gone (`ObjectStored`). The case that takes thought is
  the refused second patch: a stale reconcile has computed another endpoint than
  the one stored meanwhile, and its finalizer is refused along with it. The
  endpoint is then not the user's, so a reconcile stored it together with the
  finalizer.
* `TasksInOrder`: `Spec => []NormalInv`, in every environment. `NormalInv` is what
  makes the program of a cluster reconcile correct, and nothing in the code states
  it. `OrderInv` ranks the tasks by part: the task at hand and those in `todo` are
  ordered by rank, none belongs to the other of `reconcileNormal` and
  `reconcileDelete`, and the end of `reconcileRouters`, where a reconcile that
  waits for a router stops, is still ahead for as long as it may have to wait.
  `Progress` says of every resource of the spec that memory has its ID or that a
  call which gets it is ahead (`Owed`), and of an enabled load balancer that its
  address is known or will be read. The lemmas `Advance` and `DeleteAdvance` reduce
  a step to the tasks it goes on with; each part has one lemma on top of them
  (`NetworkNormal`, `RouterNormal`, `InterfaceNormal` and so on), and
  `NormalStarts` and `DeleteStarts` establish the invariant for the program that
  `Reconcile` starts, for any number of networks, routers and interfaces.
* `ProvisionedFinal` of `ClusterTaskProofs`: `Spec => ProvisionedIsFinal`, in every
  environment. Unlike a machine's, a cluster's Provisioned is assigned at the end
  of every reconcile, from what it then knows. By `NormalInv` nothing is owed there
  (`NothingOwed`), so that the endpoint is known and the value is `TRUE`
  (`FinishFinal`); a reconcile that stops earlier leaves the field as it read it.
* `ServerFinal`: `Spec => ServerIDIsFinal`, if `"external" \notin Env` or
  `"stale" \notin Env`. The two cases have two invariants. Without outside
  deletions all places that name a machine's server name the same one while the
  machine is not deleted (`OneIdentity`), because that server exists and is found
  again. Without stale caches a reconcile starts from the stored ID and keeps or
  clears it (`FreshInv`). With both, a stale reconcile makes a new server for a
  machine whose new server was just recorded.
* `IdentitiesAgree`: `Spec => []IdentityAgrees`, if `"patchError" \notin Env`, and
  `"external"` or both of `"crash"` and `"stale"` are not in `Env`. A crash between
  the second and the third patch leaves a provider ID without a server ID; if the
  server is then deleted from outside, the next one's ID is refused by the webhook.
  `ProviderInv` says that a server ID never comes without a provider ID, `TwinInv`
  that both change together if no crash separates the patches.
* `ProvisionedIsProvided`: `Spec => []ProvisionedHasProviderID`, if `"patchError"
  \notin Env` and one of `"crash"`, `"timeout"` and `"external"` is not. A create
  that times out sets Provisioned from the condition that the object had before
  (`TimeoutIsSafe`). That is wrong only if the object says ready and has no
  provider ID and no server: the condition was stored, the process stopped before
  the next patch, and somebody deleted the server.
* `NoServerLeft`: `Spec => []NoOrphanServer`, if none of `"crash"`, `"timeout"`,
  `"stale"`, `"patchError"` and `"earlyDelete"` is in `Env`. `AccountInv` accounts
  for every server of a machine: it is the one that is stored or, while a reconcile
  runs, the one in its memory, and the finalizer is taken away only with none.
* `MadeFromKept`: `Spec => MadeFromStays`. One lemma for each part of a cluster
  spec (`NetworkRequestsStay`, `RouterRequestsStay` and so on) shows that what the
  webhook compares is what the requests are made from. `StoredInv` keeps the
  template controller, which writes to stored objects too, away from clusters and
  machines. That the members' network is unique, so that "more networks" never
  means "another network" there, is part of `AdmittedIsSound`.
* `AdmittedSpecsAreSound`, `StoredObjectsStayWritable` and
  `AdmittedTemplatesAreUsable`: `Spec => []AdmittedIsSound`, `Spec =>
  []StaysWritable` and `Spec => []TemplatesAreUsable`. The inductive invariant
  `AdmittedInv` says that a stored spec is defaulted and obeys the rules about one
  spec, and that its zone and flavor were offered by *some* catalog, the one of the
  process that admitted it, not necessarily today's. Defaulting is idempotent on
  such a spec whatever the catalog (`ClusterSettled`, `MachineSettled`), which is
  what an object that is sent back needs; and it changes nothing that a rule
  compares (`ClusterSentBack`, `MachineSentBack`).

The assumptions are `EnvAssumption`, `GroupOfAssumption` and `NoneAssumption`
of `MachineController`, `ClusterSpecAssumption` (networks and routers are lists,
and the names in the spec refer to each other as the webhooks demand),
`ClusterNoneAssumption` and `ClusterGivenAssumption` of `ClusterState`, and those of
`ClusterWebhook`, `MachineWebhook` and `Admission` about specs and catalogs; TLC evaluates them in every run.
`ClusterGivenAssumption` says that an interface is given only on a given router, which is the
webhook's rule, and that nobody else deletes what was given. The condition on
`"late"` is needed: the controller cannot see a request that takes effect after
its list. So is the one on `"patchError"`: the patches are tried independently,
and a failed second one does not keep the third from storing the ID.

Every other condition of a theorem names faults with which TLC finds a
counterexample.

Only model-checked:

* liveness (`Converges`, `DeletionCompletes`, `PoolFollowsMachines`,
  `FloatingIPIsAssigned`, `EverythingIsDeleted`, `EveryMachineStarts`,
  `CapacityFollowsFlavor`), which is out of the prover's reach;
* of the cluster controller `TypeOK`, `AtMostOneResource`, `ProvisionedIsRecorded`
  and `NoOrphanResource`;
* of `Provider` `GateStaysOpen` and `NothingIsLeft`, which join the invariants of
  both controllers.

The programs of a cluster reconcile are written as functions on index ranges, and
the orders of the control plane machines as a set of sequences, and not as folds:
what a fold computes takes an induction that is out of reach, too.

## Not modelled

* Credentials (one Secret is read; a failure is an error before the scope
  exists), the HTTP client, tracing, flags and health checks at start-up: I/O
  without protocol state.
* Generated code, type declarations and test tooling.
* The schema validation that the API server derives from kubebuilder markers: it
  is a precondition of the specs of `Admission`.
* A machine's addresses, which decide its pool member's: `addr` in the cluster
  modules is given by the environment.

`PROJECT.json` gives the reason for each under `components`.

## Plan

1. An abstract specification of a cluster's resources, implemented by
   `ClusterController`.
2. A proof of the cluster's `AtMostOneResource`, along the argument of `OneServer`
   with `TasksInOrder`, and of `NoOrphanResource`.
3. `Provider` with a pool and a floating IP, whose targets are the machines'.
