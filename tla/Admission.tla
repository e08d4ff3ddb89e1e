------------------------------ MODULE Admission ------------------------------
(***************************************************************************)
(* One object of the provider's API as the webhooks let it be: created and *)
(* updated with any spec a client may send, defaulted and validated by the *)
(* webhooks (internal/webhook/v1beta2), read by the template controller    *)
(* (cloudscalemachinetemplate_controller.go). A refused request changes    *)
(* nothing. The provider may restart and then reads the regions and        *)
(* flavors anew.                                                           *)
(***************************************************************************)
EXTENDS ClusterWebhook, MachineWebhook, FiniteSets

CONSTANTS
    ClusterName,       \* metadata.name of the cluster
    ClusterSpecs,      \* the cluster specs a client may create
    ClusterEdits(_),   \* the cluster specs a client may send over a stored one
    MachineSpecs,      \* the machine specs a client may send
    Catalogs,          \* the regions and flavors cmd/main.go may read at start-up
    Absent             \* no object

VARIABLES
    kind,          \* the kind of the object, chosen once
    stored,        \* the object: spec and status.capacity, or Absent
    cached,        \* the template controller's copy of it
    unseen,        \* the informer has still to deliver a change of the object
    queued,        \* the object is in the template controller's work queue
    regionInfo,
    flavorInfo

vars == <<kind, stored, cached, unseen, queued, regionInfo, flavorInfo>>

(* A region lists zones that have a name; those of the schema's enum always  *)
(* have one.                                                                 *)
ASSUME RegionAssumption ==
    \A catalog \in Catalogs :
        /\ \A region \in DOMAIN catalog.regions :
              LET zones == catalog.regions[region]
              IN  zones \in Seq({zones[i] : i \in DOMAIN zones} \ {Unset})
        /\ \A spec \in ClusterSpecs :
              spec.region \in DOMAIN catalog.regions /\ catalog.regions[spec.region] # <<>>

Kinds == {"cluster", "clusterTemplate", "machine", "machineTemplate"}

Is(k) == stored # Absent /\ kind = k

(* A new object has no status.                                               *)
NewObject(spec) == [spec |-> spec, capacity |-> Unset]

(* Only machine templates have a controller here that watches them.          *)
Watched == kind = "machineTemplate"

Changes == unseen' = Watched /\ UNCHANGED <<kind, cached, queued, regionInfo, flavorInfo>>

Init ==
    /\ kind \in Kinds
    /\ stored = Absent /\ cached = Absent
    /\ unseen = FALSE /\ queued = FALSE
    /\ \E catalog \in Catalogs :
          regionInfo = catalog.regions /\ flavorInfo = catalog.flavors

-----------------------------------------------------------------------------
(* Creation. The API server refuses what does not have the type. A template  *)
(* is defaulted without what depends on the name and the region of the       *)
(* cluster.                                                                  *)

CreateCluster(spec) ==
    LET new == ClusterDefault(regionInfo, ClusterName, spec) IN
    /\ kind = "cluster"
    /\ clusterSpecValidateCreate(regionInfo, new)
    /\ stored' = NewObject(new)

(* Fault: a template is defaulted and not validated.                         *)
CreateClusterTemplate_unchecked(spec) ==
    /\ kind = "clusterTemplate"
    /\ stored' = NewObject(clusterSpecDefault(spec))

CreateClusterTemplate(spec) ==
    LET new == clusterSpecDefault(spec) IN
    /\ kind = "clusterTemplate"
    /\ clusterSpecValidateCreate(regionInfo, new)
    /\ stored' = NewObject(new)

CreateMachine(spec) ==
    LET new == MachineDefault(spec) IN
    /\ kind = "machine"
    /\ validateMachineSpec(flavorInfo, new)
    /\ stored' = NewObject(new)

CreateMachineTemplate(spec) ==
    LET new == MachineDefault(spec) IN
    /\ kind = "machineTemplate"
    /\ validateMachineSpec(flavorInfo, new)
    /\ stored' = NewObject(new)

Create ==
    /\ stored = Absent
    /\ \/ \E spec \in ClusterSpecs :
             /\ CloudscaleClusterSpec(spec)
             /\ CreateCluster(spec) \/ CreateClusterTemplate(spec)
       \/ \E spec \in MachineSpecs :
             /\ CloudscaleMachineSpec(spec)
             /\ CreateMachine(spec) \/ CreateMachineTemplate(spec)
    /\ Changes

-----------------------------------------------------------------------------
(* Updates                                                                   *)

UpdateCluster(old, spec) ==
    LET new == ClusterDefault(regionInfo, ClusterName, spec) IN
    /\ ClusterValidateUpdate(old, new)
    /\ stored' = [stored EXCEPT !.spec = new]

UpdateClusterTemplate(old, spec) ==
    LET new == clusterSpecDefault(spec) IN
    /\ new = old
    /\ stored' = [stored EXCEPT !.spec = new]

UpdateMachine(old, spec) ==
    LET new == MachineDefault(spec) IN
    /\ validateMachineSpecUpdate(new, old)
    /\ stored' = [stored EXCEPT !.spec = new]

(* The topology controller's dry run is admitted whatever it changes, and    *)
(* the API server stores nothing of it.                                      *)
UpdateMachineTemplate(old, spec, dryRun) ==
    LET new == MachineDefault(spec) IN
    /\ dryRun \/ new = old
    /\ stored' = IF dryRun THEN stored ELSE [stored EXCEPT !.spec = new]

Update ==
    /\ \/ /\ Is("cluster")
          /\ \E spec \in ClusterEdits(stored.spec) :
                UpdateCluster(stored.spec, spec) /\ CloudscaleClusterSpec(spec)
       \/ /\ Is("clusterTemplate")
          /\ \E spec \in ClusterEdits(stored.spec) :
                UpdateClusterTemplate(stored.spec, spec) /\ CloudscaleClusterSpec(spec)
       \/ /\ Is("machine")
          /\ \E spec \in MachineSpecs :
                UpdateMachine(stored.spec, spec) /\ CloudscaleMachineSpec(spec)
       \/ /\ Is("machineTemplate")
          /\ \E spec \in MachineSpecs, dryRun \in BOOLEAN :
                UpdateMachineTemplate(stored.spec, spec, dryRun) /\ CloudscaleMachineSpec(spec)
    /\ Changes

(* ValidateDelete admits every deletion.                                     *)
Delete ==
    /\ stored # Absent
    /\ stored' = Absent
    /\ Changes

-----------------------------------------------------------------------------
(* Process                                                                   *)

(* fetchAPIInfo: regions and flavors are read at start-up. The new process's *)
(* informers list every object and queue it.                                 *)
Restart ==
    /\ \E catalog \in Catalogs :
          regionInfo' = catalog.regions /\ flavorInfo' = catalog.flavors
    /\ cached' = IF Watched THEN stored ELSE Absent
    /\ queued' = Watched
    /\ unseen' = FALSE
    /\ UNCHANGED <<kind, stored>>

(* The informer delivers the newest object and queues it.                    *)
CacheSync ==
    /\ unseen
    /\ unseen' = FALSE
    /\ cached' = stored
    /\ queued' = TRUE
    /\ UNCHANGED <<kind, stored, regionInfo, flavorInfo>>

(* Fault: a capacity that is there is taken for the right one.               *)
NeedsCapacity_ifEmpty ==
    IF cached = Absent \/ ~IsValidFlavor(flavorInfo, cached.spec.flavor) THEN FALSE
    ELSE cached.capacity = Unset

(* Reconcile of the template controller leaves an object alone that is gone, *)
(* whose flavor is unknown or whose copy shows the right capacity.           *)
NeedsCapacity ==
    IF cached = Absent \/ ~IsValidFlavor(flavorInfo, cached.spec.flavor) THEN FALSE
    ELSE cached.capacity # GetCapacity(flavorInfo, cached.spec.flavor)

(* The patch goes to whatever object has the name. If it fails, the object   *)
(* is queued again, which changes nothing.                                   *)
ReconcileTemplate ==
    /\ queued
    /\ queued' = FALSE
    /\ \/ /\ NeedsCapacity /\ stored # Absent
          /\ stored' = [stored EXCEPT !.capacity = GetCapacity(flavorInfo, cached.spec.flavor)]
          /\ unseen' = TRUE
       \/ ~NeedsCapacity /\ UNCHANGED <<stored, unseen>>
    /\ UNCHANGED <<kind, cached, regionInfo, flavorInfo>>

Client == Create \/ Update \/ Delete

Next == Client \/ Restart \/ CacheSync \/ ReconcileTemplate

Spec == Init /\ [][Next]_vars

(* Clients and restarts come to an end; the informer and the work queue do   *)
(* not stop.                                                                 *)
FairSpec ==
    /\ Spec
    /\ WF_vars(CacheSync) /\ WF_vars(ReconcileTemplate)
    /\ <>[][~(Client \/ Restart)]_vars

-----------------------------------------------------------------------------
(* What the controllers take from a spec                                     *)

NetworkNames(spec) == {spec.networks[i].name : i \in DOMAIN spec.networks}

(* getPoolMemberSubnetID. The fallback is the first network of the status,   *)
(* which lists the networks in the order in which they were made.            *)
MemberNetworks(spec) ==
    IF spec.lb.poolMemberNetwork # Unset THEN {spec.lb.poolMemberNetwork}
    ELSE IF spec.lb.network # Unset THEN {spec.lb.network}
    ELSE NetworkNames(spec)

(* reconcileNetworks: the create or lookup of each network and its subnet.   *)
NetworkRequests(spec) ==
    UNION {{<<"network", n.name, n.uuid, n.mtu, spec.zone>>,
            <<"subnet", n.name, n.cidr, n.gateway>>} :
              n \in {spec.networks[i] : i \in DOMAIN spec.networks}}

(* reconcileRouters: the create or lookup of each router and interface.      *)
RouterRequests(spec) ==
    UNION {{<<"router", r, spec.routers[r].uuid, spec.routers[r].internetGateway, spec.zone>>}
               \cup {<<"interface", r, n, spec.routers[r].interfaces[n].uuid,
                       spec.routers[r].interfaces[n].address>> :
                        n \in DOMAIN spec.routers[r].interfaces} :
              r \in DOMAIN spec.routers}

(* reconcileLoadBalancer: the creates of the load balancer, its pool,        *)
(* listener, monitor and members.                                            *)
LoadBalancerRequests(spec) ==
    IF ~LBIsEnabled(spec) THEN {}
    ELSE LET set == spec.lb.settings IN
         {<<"lb", set.flavor, spec.zone, spec.lb.network>>,
          <<"pool", set.algorithm>>,
          <<"listener", set.apiServerPort>>,
          <<"monitor", set.delayS, set.timeoutS, set.upThreshold, set.downThreshold>>}
             \cup {<<"member", n, set.apiServerPort>> : n \in MemberNetworks(spec)}

(* reconcileFloatingIP and getFloatingIPTarget.                              *)
FloatingIPRequests(spec) ==
    IF spec.fip = Unset THEN {}
    ELSE {<<"fip", spec.fip.family, spec.fip.address, spec.region>>,
          <<"target", LBIsEnabled(spec)>>}

ClusterRequests(spec) ==
    NetworkRequests(spec) \cup RouterRequests(spec)
        \cup LoadBalancerRequests(spec) \cup FloatingIPRequests(spec)

(* createServer.  Tags may change afterwards: no server is updated with them.*)
ServerRequest(spec) ==
    <<spec.image, spec.flavor, spec.rootVolumeSize, spec.serverGroup, spec.interfaces>>

-----------------------------------------------------------------------------
(* Properties                                                                *)

(* The networks by which the controllers look something up in status.        *)
LookedUp(spec) ==
    (UNION {DOMAIN spec.routers[r].interfaces : r \in DOMAIN spec.routers})
        \cup ({spec.lb.network} \ {Unset})
        \cup (IF LBIsEnabled(spec) THEN MemberNetworks(spec) ELSE {})

(* What the cluster controller takes for granted of a spec, said without     *)
(* the webhook's rules.                                                      *)
SoundCluster(spec) ==
    \* a network is either given or made, with a prefix the API accepts
    /\ \A i \in DOMAIN spec.networks :
          LET n == spec.networks[i] IN
          \/ n.uuid # Unset /\ n.cidr = Unset /\ n.gateway = Unset
          \/ /\ n.uuid = Unset /\ n.cidr \in DOMAIN Within
             /\ n.gateway \in Within[n.cidr] \cup {Unset}
    \* a lookup by name finds one network
    /\ \A name \in LookedUp(spec) :
          Cardinality({i \in DOMAIN spec.networks : spec.networks[i].name = name}) = 1
    \* the members' subnet does not depend on the order of the status
    /\ LBIsEnabled(spec) => Cardinality(MemberNetworks(spec)) = 1
    \* an internet gateway is wanted only of a router that is made
    /\ \A r \in DOMAIN spec.routers :
          spec.routers[r].internetGateway => spec.routers[r].uuid = Unset
    \* an interface is taken over with its router or made at a possible address
    /\ \A r \in DOMAIN spec.routers : \A name \in DOMAIN spec.routers[r].interfaces :
          LET interface == spec.routers[r].interfaces[name] IN
          \/ interface.uuid # Unset /\ spec.routers[r].uuid # Unset
          \/ /\ interface.uuid = Unset
             /\ \A i \in DOMAIN spec.networks :
                   spec.networks[i].name = name /\ spec.networks[i].uuid = Unset =>
                       interface.address \in Within[spec.networks[i].cidr]
    \* a floating IP has a family or an address, and a target that can carry it
    /\ spec.fip # Unset =>
          \/ /\ spec.fip.family # Unset /\ spec.fip.address = Unset
             /\ LBIsEnabled(spec) /\ spec.lb.network = Unset
          \/ /\ spec.fip.family = Unset /\ spec.fip.address \in IPs
             /\ LBIsEnabled(spec) => spec.lb.network = Unset
    \* nothing is left to a default, and the zone was one of the region's
    /\ \E catalog \in Catalogs :
          ZoneBelongsToRegion(catalog.regions, spec.zone, spec.region)
    /\ \A f \in LBSettings : spec.lb.settings[f] # Unset

(* What the machine controller takes for granted: buildInterfaceRequests     *)
(* meets no interface without a meaning, at most one public one decides on   *)
(* IPv6, no tag of the user replaces the one the server is found by, and the *)
(* flavor was offered.                                                       *)
SoundMachine(spec) ==
    LET public == {i \in DOMAIN spec.interfaces : spec.interfaces[i].type = "public"} IN
    /\ \A i \in DOMAIN spec.interfaces \ public :
          spec.interfaces[i].network # Unset /\ spec.interfaces[i].family = Unset
    /\ \A i \in public :
          spec.interfaces[i].network = Unset /\ spec.interfaces[i].family # Unset
    /\ Cardinality(public) <= 1
    /\ spec.tags \cap ReservedTags = {}
    /\ \E catalog \in Catalogs : IsValidFlavor(catalog.flavors, spec.flavor)

(* After any sequence of admitted requests, and whatever regions and flavors *)
(* the process has read since, the controllers can rely on the stored spec.  *)
AdmittedIsSound ==
    /\ Is("cluster") => SoundCluster(stored.spec)
    /\ Is("machine") \/ Is("machineTemplate") => SoundMachine(stored.spec)

(* An update never changes or withdraws what a resource was made from: the   *)
(* requests the controllers derive from the spec only grow, the published    *)
(* endpoint and provider ID stay, and a router that could reach the internet *)
(* gets no SNAT warning.                                                     *)
MadeFromStays ==
    [][stored # Absent /\ stored' # Absent =>
        /\ kind = "cluster" =>
              /\ ClusterRequests(stored.spec) \subseteq ClusterRequests(stored'.spec)
              /\ stored.spec.endpoint.host # Unset =>
                     /\ stored'.spec.endpoint.host = stored.spec.endpoint.host
                     /\ stored'.spec.endpoint.port = stored.spec.endpoint.port
              /\ checkSNATConfiguration(stored'.spec) \cap DOMAIN stored.spec.routers
                     \subseteq checkSNATConfiguration(stored.spec)
        /\ kind = "machine" =>
              /\ ServerRequest(stored'.spec) = ServerRequest(stored.spec)
              /\ stored.spec.providerID # Unset =>
                     stored'.spec.providerID = stored.spec.providerID
      ]_vars

(* The controllers can always write to a stored object, which is how they    *)
(* add and remove finalizers: sent back as it is, also to a process that has *)
(* read other regions and flavors, it is defaulted to itself and admitted.   *)
(* The endpoint can be published while it is not set, the provider ID too.   *)
StaysWritable ==
    /\ Is("cluster") =>
          \A endpoint \in {stored.spec.endpoint, [host |-> "vip", port |-> 6443]} :
              LET sent == [stored.spec EXCEPT !.endpoint = endpoint]
                  new == ClusterDefault(regionInfo, ClusterName, sent) IN
              stored.spec.endpoint \in {endpoint, [host |-> Unset, port |-> Unset]} =>
                  new = sent /\ ClusterValidateUpdate(stored.spec, new)
    /\ Is("clusterTemplate") => clusterSpecDefault(stored.spec) = stored.spec
    /\ Is("machine") =>
          \A id \in {stored.spec.providerID, "cloudscale://new"} :
              LET sent == [stored.spec EXCEPT !.providerID = id] IN
              stored.spec.providerID \in {id, Unset} =>
                  /\ MachineDefault(sent) = sent
                  /\ validateMachineSpecUpdate(sent, stored.spec)
    /\ Is("machineTemplate") => MachineDefault(stored.spec) = stored.spec

(* What the topology controller makes from a stored template is admitted: a  *)
(* cluster in any region its patches set, unless the template fixes a zone,  *)
(* and a machine while its flavor is offered.                                *)
TemplatesAreUsable ==
    /\ Is("clusterTemplate") => \A region \in DOMAIN regionInfo :
          LET patched == [stored.spec EXCEPT !.region = region]
              new == ClusterDefault(regionInfo, ClusterName, patched) IN
          /\ SpecRules(new)
          /\ patched.zone = Unset => clusterSpecValidateCreate(regionInfo, new)
    /\ Is("machineTemplate") /\ IsValidFlavor(flavorInfo, stored.spec.flavor) =>
          validateMachineSpec(flavorInfo, MachineDefault(stored.spec))

(* In the end a machine template whose flavor is offered shows that flavor's *)
(* capacity, also if the template was replaced by another one of its name    *)
(* while the controller worked on its copy.                                  *)
CapacityFollowsFlavor ==
    <>[](Is("machineTemplate") /\ IsValidFlavor(flavorInfo, stored.spec.flavor) =>
            stored.capacity = GetCapacity(flavorInfo, stored.spec.flavor))
=============================================================================
