--------------------------- MODULE AdmissionProofs ---------------------------
(*****************************************************************************)
(* What the webhooks guarantee for any specs that clients may send and any   *)
(* regions and flavors that the process may read: an admitted update changes *)
(* nothing that a resource was made from, a stored spec is sound, and it may *)
(* always be written again; what is made of a stored template is admitted.   *)
(*****************************************************************************)
EXTENDS Admission, FiniteSetTheorems, TLAPS

-----------------------------------------------------------------------------
(* Every network that a stored spec names is in the updated one, as it was.  *)
LEMMA NetworksStay ==
    ASSUME NEW old, NEW new, ClusterValidateUpdate(old, new), NEW i \in DOMAIN old.networks
    PROVE  \E j \in DOMAIN new.networks :
              /\ new.networks[j].name = old.networks[i].name
              /\ new.networks[j].cidr = old.networks[i].cidr
              /\ new.networks[j].uuid = old.networks[i].uuid
              /\ new.networks[j].mtu = old.networks[i].mtu
              /\ new.networks[j].gateway = old.networks[i].gateway
BY DEF ClusterValidateUpdate, validateNetworkImmutability

(* The networks' requests do not depend on the order of the list.            *)
LEMMA NetworkRequestsStay ==
    ASSUME NEW old, NEW new, ClusterValidateUpdate(old, new)
    PROVE  NetworkRequests(old) \subseteq NetworkRequests(new)
<1>1. new.zone = old.zone
  BY DEF ClusterValidateUpdate
<1>2. ASSUME NEW i \in DOMAIN old.networks
      PROVE  /\ <<"network", old.networks[i].name, old.networks[i].uuid,
                  old.networks[i].mtu, old.zone>> \in NetworkRequests(new)
             /\ <<"subnet", old.networks[i].name, old.networks[i].cidr,
                  old.networks[i].gateway>> \in NetworkRequests(new)
  <2>1. PICK j \in DOMAIN new.networks :
              /\ new.networks[j].name = old.networks[i].name
              /\ new.networks[j].cidr = old.networks[i].cidr
              /\ new.networks[j].uuid = old.networks[i].uuid
              /\ new.networks[j].mtu = old.networks[i].mtu
              /\ new.networks[j].gateway = old.networks[i].gateway
    BY NetworksStay
  <2> QED BY <1>1, <2>1 DEF NetworkRequests
<1> QED BY <1>2 DEF NetworkRequests

LEMMA RouterRequestsStay ==
    ASSUME NEW old, NEW new, ClusterValidateUpdate(old, new)
    PROVE  RouterRequests(old) \subseteq RouterRequests(new)
<1>1. new.zone = old.zone
  BY DEF ClusterValidateUpdate
<1>2. ASSUME NEW r \in DOMAIN old.routers
      PROVE  /\ r \in DOMAIN new.routers
             /\ new.routers[r].uuid = old.routers[r].uuid
             /\ new.routers[r].internetGateway = old.routers[r].internetGateway
             /\ \A n \in DOMAIN old.routers[r].interfaces :
                  /\ n \in DOMAIN new.routers[r].interfaces
                  /\ new.routers[r].interfaces[n].address = old.routers[r].interfaces[n].address
                  /\ new.routers[r].interfaces[n].uuid = old.routers[r].interfaces[n].uuid
  BY DEF ClusterValidateUpdate, validateRouterDiff
<1>3. ASSUME NEW r \in DOMAIN old.routers
      PROVE  <<"router", r, old.routers[r].uuid, old.routers[r].internetGateway, old.zone>>
                 \in RouterRequests(new)
  BY <1>1, <1>2 DEF RouterRequests
<1>4. ASSUME NEW r \in DOMAIN old.routers, NEW n \in DOMAIN old.routers[r].interfaces
      PROVE  <<"interface", r, n, old.routers[r].interfaces[n].uuid,
               old.routers[r].interfaces[n].address>> \in RouterRequests(new)
  BY <1>2 DEF RouterRequests
<1> QED BY <1>3, <1>4 DEF RouterRequests

(* The members' subnet is that of a network named by the load balancer, or   *)
(* of one that stays.                                                        *)
LEMMA LoadBalancerRequestsStay ==
    ASSUME NEW old, NEW new, ClusterValidateUpdate(old, new)
    PROVE  LoadBalancerRequests(old) \subseteq LoadBalancerRequests(new)
<1>1. /\ LBIsEnabled(new) = LBIsEnabled(old) /\ new.zone = old.zone
      /\ new.lb.network = old.lb.network
      /\ new.lb.poolMemberNetwork = old.lb.poolMemberNetwork
      /\ \A f \in LBSettings : new.lb.settings[f] = old.lb.settings[f]
  BY DEF ClusterValidateUpdate, validateLBImmutability
<1>2. LBSettings = {"algorithm", "flavor", "apiServerPort", "delayS", "timeoutS",
                    "upThreshold", "downThreshold"}
  BY DEF LBSettings, LBDefaults
<1>3. NetworkNames(old) \subseteq NetworkNames(new)
  BY NetworksStay DEF NetworkNames
<1>4. MemberNetworks(old) \subseteq MemberNetworks(new)
  BY <1>1, <1>3 DEF MemberNetworks
<1>5. /\ new.lb.settings.algorithm = old.lb.settings.algorithm
      /\ new.lb.settings.flavor = old.lb.settings.flavor
      /\ new.lb.settings.apiServerPort = old.lb.settings.apiServerPort
      /\ new.lb.settings.delayS = old.lb.settings.delayS
      /\ new.lb.settings.timeoutS = old.lb.settings.timeoutS
      /\ new.lb.settings.upThreshold = old.lb.settings.upThreshold
      /\ new.lb.settings.downThreshold = old.lb.settings.downThreshold
  BY <1>1, <1>2
<1> QED BY <1>1, <1>4, <1>5 DEF LoadBalancerRequests

LEMMA FloatingIPRequestsStay ==
    ASSUME NEW old, NEW new, ClusterValidateUpdate(old, new)
    PROVE  FloatingIPRequests(old) \subseteq FloatingIPRequests(new)
BY DEF FloatingIPRequests, ClusterValidateUpdate, validateFloatingIPImmutability

(* A router with a gateway address on one of its networks keeps it.          *)
LEMMA GatewaysStay ==
    ASSUME NEW old, NEW new, ClusterValidateUpdate(old, new)
    PROVE  checkSNATConfiguration(new) \cap DOMAIN old.routers \subseteq checkSNATConfiguration(old)
<1> SUFFICES ASSUME NEW r \in checkSNATConfiguration(new), r \in DOMAIN old.routers
             PROVE  r \in checkSNATConfiguration(old)
  OBVIOUS
<1>1. new.routers[r].internetGateway = old.routers[r].internetGateway
      /\ DOMAIN old.routers[r].interfaces \subseteq DOMAIN new.routers[r].interfaces
  BY DEF ClusterValidateUpdate, validateRouterDiff
<1>2. ASSUME NEW n \in DOMAIN old.routers[r].interfaces, NEW i \in DOMAIN old.networks,
             old.networks[i].name = n, old.networks[i].gateway # Unset
      PROVE  FALSE
  BY <1>1, <1>2, NetworksStay DEF checkSNATConfiguration
<1> QED BY <1>1, <1>2 DEF checkSNATConfiguration

-----------------------------------------------------------------------------
(* A stored object has a spec, and only templates reach the template         *)
(* controller, which writes a status and no spec.                            *)
StoredInv ==
    /\ stored # Absent => "spec" \in DOMAIN stored
    /\ unseen \/ queued => Watched

LEMMA StoredInductive == Spec => []StoredInv
<1>1. Init => StoredInv
  BY DEF Init, StoredInv
<1>2. StoredInv /\ [Next]_vars => StoredInv'
  <2> SUFFICES ASSUME StoredInv, [Next]_vars PROVE StoredInv'
    OBVIOUS
  <2>n. \A spec : "spec" \in DOMAIN NewObject(spec)
    BY DEF NewObject
  <2>1. CASE Create
    <3>1. \E spec : stored' = NewObject(spec)
      BY <2>1, Zenon DEF Create, CreateCluster, CreateClusterTemplate, CreateMachine,
                         CreateMachineTemplate
    <3> QED BY <2>1, <2>n, <3>1 DEF Create, Changes, StoredInv, Watched
  <2>2. CASE Update
    <3>1. stored # Absent
      BY <2>2 DEF Update, Is
    <3>2. stored' = stored \/ \E new : stored' = [stored EXCEPT !.spec = new]
      BY <2>2, Zenon DEF Update, UpdateCluster, UpdateClusterTemplate, UpdateMachine,
                         UpdateMachineTemplate
    <3> QED BY <2>2, <3>1, <3>2 DEF Update, Changes, StoredInv, Watched
  <2>3. CASE Delete
    BY Zenon, <2>3 DEF Delete, Changes, StoredInv, Watched
  <2>4. CASE Restart
    BY <2>4 DEF Restart, StoredInv, Watched
  <2>5. CASE CacheSync
    BY <2>5 DEF CacheSync, StoredInv, Watched
  <2>6. CASE ReconcileTemplate
    BY <2>6 DEF ReconcileTemplate, StoredInv, Watched
  <2>7. CASE UNCHANGED vars
    BY <2>7 DEF vars, StoredInv, Watched
  <2> QED BY <2>1, <2>2, <2>3, <2>4, <2>5, <2>6, <2>7 DEF Next, Client
<1> QED BY <1>1, <1>2, PTL DEF Spec

(* Nothing that a resource was made from is ever changed or withdrawn by an  *)
(* update that the webhooks admit, whatever specs clients send: the          *)
(* controllers, which never update a resource to a new spec, need not.       *)
THEOREM MadeFromKept == Spec => MadeFromStays
<1> DEFINE A == stored # Absent /\ stored' # Absent =>
        /\ kind = "cluster" =>
              /\ ClusterRequests(stored.spec) \subseteq ClusterRequests(stored'.spec)
              /\ stored.spec.endpoint.host # Unset =>
                     /\ stored'.spec.endpoint.host = stored.spec.endpoint.host
                     /\ stored'.spec.endpoint.port = stored.spec.endpoint.port
              /\ checkSNATConfiguration(stored'.spec) \cap DOMAIN stored.spec.routers
                     \subseteq checkSNATConfiguration(stored.spec)
        /\ kind = "machine" =>
              /\ ServerRequest(stored'.spec) = ServerRequest(stored.spec)
              /\ stored.spec.providerID # Unset =>
                     stored'.spec.providerID = stored.spec.providerID
<1>1. StoredInv /\ [Next]_vars => [A]_vars
  <2> SUFFICES ASSUME StoredInv, Next, stored # Absent, stored' # Absent,
                      kind \in {"cluster", "machine"}
               PROVE  A
    OBVIOUS
  <2>1. ASSUME stored' = stored PROVE A
    BY <2>1
  <2>2. CASE Update
    <3>1. CASE kind = "cluster"
      <4>1. PICK new : ClusterValidateUpdate(stored.spec, new)
                       /\ stored' = [stored EXCEPT !.spec = new]
        BY <2>2, <3>1, Zenon DEF Update, Is, UpdateCluster
      <4>2. stored'.spec = new
        BY <4>1 DEF StoredInv
      <4>3. ClusterRequests(stored.spec) \subseteq ClusterRequests(new)
        BY <4>1, NetworkRequestsStay, RouterRequestsStay, LoadBalancerRequestsStay,
           FloatingIPRequestsStay DEF ClusterRequests
      <4>4. stored.spec.endpoint.host # Unset =>
               /\ new.endpoint.host = stored.spec.endpoint.host
               /\ new.endpoint.port = stored.spec.endpoint.port
        BY <4>1 DEF ClusterValidateUpdate
      <4> QED BY <3>1, <4>1, <4>2, <4>3, <4>4, GatewaysStay
    <3>2. CASE kind = "machine"
      <4>1. PICK new : validateMachineSpecUpdate(new, stored.spec)
                       /\ stored' = [stored EXCEPT !.spec = new]
        BY <2>2, <3>2, Zenon DEF Update, Is, UpdateMachine
      <4>2. stored'.spec = new
        BY <4>1 DEF StoredInv
      <4> QED BY <3>2, <4>1, <4>2 DEF validateMachineSpecUpdate, ServerRequest
    <3> QED BY <3>1, <3>2
  <2>3. ~Create /\ ~Delete /\ ~ReconcileTemplate
    BY DEF Create, Delete, ReconcileTemplate, StoredInv, Watched
  <2>4. CASE Restart \/ CacheSync
    BY <2>1, <2>4 DEF Restart, CacheSync
  <2> QED BY <2>2, <2>3, <2>4 DEF Next, Client
<1> QED BY <1>1, StoredInductive, PTL DEF Spec, MadeFromStays

-----------------------------------------------------------------------------
(* Defaulting, field by field.                                               *)

LEMMA LoadBalancerDefaulted ==
    ASSUME NEW lb, LoadBalancerSpec(lb)
    PROVE  LET new == defaultLoadBalancer(lb) IN
           /\ LoadBalancerSpec(new)
           /\ new.enabled \in BOOLEAN
           /\ \A f \in LBSettings : new.settings[f] # Unset
<1> DEFINE settings == [f \in LBSettings |-> Default(lb.settings[f], LBDefaults[f])]
           enabled == Default(lb.enabled, TRUE)
<1>1. settings = [f \in LBSettings |-> settings[f]]
  OBVIOUS
<1>2. \A f \in LBSettings : settings[f] # Unset
  BY ClusterDefaultsAssumption DEF Default
<1>3. enabled \in BOOLEAN
  BY DEF LoadBalancerSpec, Default
<1>4. defaultLoadBalancer(lb)
         = [enabled |-> enabled, network |-> lb.network,
            poolMemberNetwork |-> lb.poolMemberNetwork, settings |-> settings]
  BY DEF defaultLoadBalancer
<1> HIDE DEF settings, enabled
<1> QED BY <1>1, <1>2, <1>3, <1>4 DEF LoadBalancerSpec

LEMMA FloatingIPDefaulted ==
    ASSUME NEW fip, fip # Unset => FloatingIPSpec(fip)
    PROVE  LET new == defaultFloatingIP(fip) IN
           /\ new # Unset => FloatingIPSpec(new)
           /\ new # Unset => new.family # Unset \/ new.address # Unset
<1>1. CASE fip # Unset /\ fip.family = Unset /\ fip.address = Unset
  <2>1. defaultFloatingIP(fip) = [family |-> "IPv4", address |-> Unset]
    BY <1>1 DEF FloatingIPSpec, defaultFloatingIP
  <2> QED BY <1>1, <2>1, ClusterDefaultsAssumption DEF FloatingIPSpec
<1>2. CASE ~(fip # Unset /\ fip.family = Unset /\ fip.address = Unset)
  BY <1>2 DEF defaultFloatingIP
<1> QED BY <1>1, <1>2

(* What a client finds filled in, whatever it sent.                          *)
Defaulted(spec) ==
    /\ CloudscaleClusterSpec(spec)
    /\ spec.lb.enabled \in BOOLEAN
    /\ \A f \in LBSettings : spec.lb.settings[f] # Unset
    /\ spec.fip # Unset => spec.fip.family # Unset \/ spec.fip.address # Unset

(* The fields after an edit of two of them.                                  *)
LEMMA ClusterSpecDefaulted ==
    ASSUME NEW spec, CloudscaleClusterSpec(spec)
    PROVE  /\ clusterSpecDefault(spec) =
                 [region |-> spec.region, zone |-> spec.zone, networks |-> spec.networks,
                  routers |-> spec.routers, lb |-> defaultLoadBalancer(spec.lb),
                  fip |-> defaultFloatingIP(spec.fip), endpoint |-> spec.endpoint]
           /\ Defaulted(clusterSpecDefault(spec))
<1> DEFINE lb == defaultLoadBalancer(spec.lb)
           fip == defaultFloatingIP(spec.fip)
           s == [spec EXCEPT !.lb = lb]
<1>1. /\ LoadBalancerSpec(lb) /\ lb.enabled \in BOOLEAN
      /\ \A f \in LBSettings : lb.settings[f] # Unset
  BY LoadBalancerDefaulted DEF CloudscaleClusterSpec
<1>2. /\ fip # Unset => FloatingIPSpec(fip)
      /\ fip # Unset => fip.family # Unset \/ fip.address # Unset
  BY FloatingIPDefaulted DEF CloudscaleClusterSpec
<1>3. spec.networks \in Seq({spec.networks[i] : i \in DOMAIN spec.networks})
  BY DEF CloudscaleClusterSpec
<1> HIDE DEF lb, fip
<1>4. s = [region |-> spec.region, zone |-> spec.zone, networks |-> spec.networks,
           routers |-> spec.routers, lb |-> lb, fip |-> spec.fip, endpoint |-> spec.endpoint]
  BY DEF CloudscaleClusterSpec
<1> DEFINE d == [region |-> spec.region, zone |-> spec.zone, networks |-> spec.networks,
                 routers |-> spec.routers, lb |-> lb, fip |-> fip, endpoint |-> spec.endpoint]
<1>5. clusterSpecDefault(spec) = [s EXCEPT !.fip = fip]
  BY Zenon DEF clusterSpecDefault, lb, fip
<1> HIDE DEF s
<1>6. [s EXCEPT !.fip = fip] = d
  BY <1>4
<1>7. clusterSpecDefault(spec) = d
  BY <1>5, <1>6, Zenon
<1>8. Defaulted(d)
  BY <1>1, <1>2, <1>3 DEF Defaulted, CloudscaleClusterSpec
<1> QED BY <1>7, <1>8, Zenon DEF lb, fip

LEMMA ClusterDefaulted ==
    ASSUME NEW info, NEW name, NEW spec, CloudscaleClusterSpec(spec)
    PROVE  LET new == ClusterDefault(info, name, spec) IN
           /\ new = [region |-> spec.region,
                     zone |-> Default(spec.zone, GetDefaultZoneForRegion(info, spec.region)),
                     networks |-> defaultNetworks(name, spec.networks),
                     routers |-> spec.routers, lb |-> defaultLoadBalancer(spec.lb),
                     fip |-> defaultFloatingIP(spec.fip), endpoint |-> spec.endpoint]
           /\ Defaulted(new)
           /\ new.networks # <<>>
<1> DEFINE zone == Default(spec.zone, GetDefaultZoneForRegion(info, spec.region))
           networks == defaultNetworks(name, spec.networks)
           s == [spec EXCEPT !.zone = zone]
           d == [region |-> spec.region, zone |-> zone, networks |-> networks,
                 routers |-> spec.routers, lb |-> spec.lb, fip |-> spec.fip,
                 endpoint |-> spec.endpoint]
<1>1. /\ networks \in Seq({networks[i] : i \in DOMAIN networks})
      /\ networks # <<>>
  <2>1. CASE spec.networks = <<>>
    <3> DEFINE n == [name |-> name, uuid |-> Unset, cidr |-> DefaultCIDR,
                     gateway |-> Unset, mtu |-> Unset]
    <3>1. networks = <<n>>
      BY <2>1 DEF defaultNetworks
    <3> HIDE DEF n, networks
    <3>2. networks[1] = n /\ DOMAIN networks = 1 .. 1
      BY <3>1
    <3>3. n \in {networks[i] : i \in DOMAIN networks}
      BY <3>2
    <3> QED BY <3>1, <3>3
  <2>2. CASE spec.networks # <<>>
    BY <2>2 DEF defaultNetworks, CloudscaleClusterSpec
  <2> QED BY <2>1, <2>2
<1> HIDE DEF zone, networks
<1>2. s = [region |-> spec.region, zone |-> zone, networks |-> spec.networks,
           routers |-> spec.routers, lb |-> spec.lb, fip |-> spec.fip, endpoint |-> spec.endpoint]
  BY DEF CloudscaleClusterSpec
<1>3. ClusterDefault(info, name, spec) = clusterSpecDefault([s EXCEPT !.networks = networks])
  BY Zenon DEF ClusterDefault, zone, networks
<1> HIDE DEF s
<1>4. [s EXCEPT !.networks = networks] = d
  BY <1>2
<1>5. CloudscaleClusterSpec(d)
  BY <1>1 DEF CloudscaleClusterSpec
<1>6. ClusterDefault(info, name, spec) = clusterSpecDefault(d)
  BY <1>3, <1>4, Zenon
<1>7. Defaulted(clusterSpecDefault(d))
  BY <1>5, ClusterSpecDefaulted
<1>8. clusterSpecDefault(d) =
         [region |-> spec.region, zone |-> zone, networks |-> networks,
          routers |-> spec.routers, lb |-> defaultLoadBalancer(spec.lb),
          fip |-> defaultFloatingIP(spec.fip), endpoint |-> spec.endpoint]
  BY <1>5, ClusterSpecDefaulted
<1>9. clusterSpecDefault(d).networks = networks
  BY <1>8
<1> QED BY <1>1, <1>6, <1>7, <1>8, <1>9, Zenon DEF zone, networks

(* Defaulting what was defaulted changes nothing.                            *)
LEMMA PartsSettled ==
    ASSUME NEW spec, Defaulted(spec)
    PROVE  defaultLoadBalancer(spec.lb) = spec.lb /\ defaultFloatingIP(spec.fip) = spec.fip
<1>1. defaultFloatingIP(spec.fip) = spec.fip
  BY DEF Defaulted, defaultFloatingIP
<1>2. [f \in LBSettings |-> Default(spec.lb.settings[f], LBDefaults[f])]
         = [f \in LBSettings |-> spec.lb.settings[f]]
  BY DEF Defaulted, Default
<1>3. Default(spec.lb.enabled, TRUE) = spec.lb.enabled
  BY ClusterDefaultsAssumption DEF Defaulted, Default
<1>4. defaultLoadBalancer(spec.lb) =
         [enabled |-> spec.lb.enabled, network |-> spec.lb.network,
          poolMemberNetwork |-> spec.lb.poolMemberNetwork,
          settings |-> [f \in LBSettings |-> spec.lb.settings[f]]]
  BY <1>2, <1>3, Zenon DEF defaultLoadBalancer
<1>5. spec.lb = [enabled |-> spec.lb.enabled, network |-> spec.lb.network,
                 poolMemberNetwork |-> spec.lb.poolMemberNetwork,
                 settings |-> [f \in LBSettings |-> spec.lb.settings[f]]]
  BY Zenon DEF Defaulted, CloudscaleClusterSpec, LoadBalancerSpec
<1> QED BY <1>1, <1>4, <1>5, Zenon

LEMMA TemplateSettled ==
    ASSUME NEW spec, Defaulted(spec)
    PROVE  clusterSpecDefault(spec) = spec
<1>1. CloudscaleClusterSpec(spec)
  BY DEF Defaulted
<1>2. clusterSpecDefault(spec) =
         [region |-> spec.region, zone |-> spec.zone, networks |-> spec.networks,
          routers |-> spec.routers, lb |-> spec.lb, fip |-> spec.fip, endpoint |-> spec.endpoint]
  BY <1>1, ClusterSpecDefaulted, PartsSettled, Zenon
<1> QED BY <1>1, <1>2, Zenon DEF CloudscaleClusterSpec

LEMMA ClusterSettled ==
    ASSUME NEW info, NEW name, NEW spec, Defaulted(spec),
           spec.zone # Unset, spec.networks # <<>>
    PROVE  ClusterDefault(info, name, spec) = spec
<1>1. CloudscaleClusterSpec(spec)
  BY DEF Defaulted
<1>2. /\ Default(spec.zone, GetDefaultZoneForRegion(info, spec.region)) = spec.zone
      /\ defaultNetworks(name, spec.networks) = spec.networks
  BY Zenon DEF Default, defaultNetworks
<1>3. ClusterDefault(info, name, spec) =
         [region |-> spec.region, zone |-> spec.zone, networks |-> spec.networks,
          routers |-> spec.routers, lb |-> spec.lb, fip |-> spec.fip, endpoint |-> spec.endpoint]
  <2>1. ClusterDefault(info, name, spec) =
           [region |-> spec.region,
            zone |-> Default(spec.zone, GetDefaultZoneForRegion(info, spec.region)),
            networks |-> defaultNetworks(name, spec.networks),
            routers |-> spec.routers, lb |-> defaultLoadBalancer(spec.lb),
            fip |-> defaultFloatingIP(spec.fip), endpoint |-> spec.endpoint]
    BY <1>1, ClusterDefaulted
  <2> QED BY <1>2, <2>1, PartsSettled, Zenon
<1> QED BY <1>1, <1>3, Zenon DEF CloudscaleClusterSpec

(* A region's first zone has a name and is one of its zones.                 *)
LEMMA DefaultZone ==
    ASSUME NEW catalog \in Catalogs, NEW region \in DOMAIN catalog.regions
    PROVE  LET zone == GetDefaultZoneForRegion(catalog.regions, region) IN
           /\ zone # Unset => ZoneBelongsToRegion(catalog.regions, zone, region)
           /\ catalog.regions[region] # <<>> => zone # Unset
<1> DEFINE zones == catalog.regions[region]
<1>1. zones \in Seq({zones[i] : i \in DOMAIN zones} \ {Unset})
  BY RegionAssumption
<1>2. GetDefaultZoneForRegion(catalog.regions, region) = IF zones # <<>> THEN Head(zones) ELSE Unset
  BY Zenon DEF GetDefaultZoneForRegion
<1>3. zones # <<>> => Head(zones) = zones[1] /\ 1 \in DOMAIN zones
  BY <1>1
<1>4. zones # <<>> => Head(zones) # Unset
  BY <1>1
<1> QED BY <1>2, <1>3, <1>4 DEF ZoneBelongsToRegion

-----------------------------------------------------------------------------
(* The inductive invariant: the tables are those of some start-up, and every *)
(* stored spec is defaulted and obeys the rules about one spec. That a zone  *)
(* or a flavor was offered holds of the tables read then, not of today's.    *)

CatalogInv ==
    \E catalog \in Catalogs : regionInfo = catalog.regions /\ flavorInfo = catalog.flavors

AdmittedCluster(spec) ==
    /\ Defaulted(spec)
    /\ SpecRules(spec)
    /\ spec.networks # <<>> /\ spec.zone # Unset
    /\ \E catalog \in Catalogs : ZoneBelongsToRegion(catalog.regions, spec.zone, spec.region)

AdmittedClusterTemplate(spec) == Defaulted(spec) /\ SpecRules(spec)

AdmittedMachine(spec) ==
    /\ CloudscaleMachineSpec(spec)
    /\ \A i \in DOMAIN spec.interfaces :
          spec.interfaces[i].type = "public" => spec.interfaces[i].family # Unset
    /\ validateTags(spec.tags)
    /\ validateInterfaces(spec.interfaces)
    /\ \E catalog \in Catalogs : IsValidFlavor(catalog.flavors, spec.flavor)

AdmittedInv ==
    /\ Is("cluster") => AdmittedCluster(stored.spec)
    /\ Is("clusterTemplate") => AdmittedClusterTemplate(stored.spec)
    /\ Is("machine") \/ Is("machineTemplate") => AdmittedMachine(stored.spec)

LEMMA CatalogInductive == Spec => []CatalogInv
<1>1. Init => CatalogInv
  BY DEF Init, CatalogInv
<1>2. CatalogInv /\ [Next]_vars => CatalogInv'
  BY DEF CatalogInv, Next, vars, Client, Create, Update, Delete, Changes, Restart, CacheSync,
         ReconcileTemplate
<1> QED BY <1>1, <1>2, PTL DEF Spec

LEMMA CreatedCluster ==
    ASSUME CatalogInv, NEW spec \in ClusterSpecs, CloudscaleClusterSpec(spec),
           clusterSpecValidateCreate(regionInfo, ClusterDefault(regionInfo, ClusterName, spec))
    PROVE  AdmittedCluster(ClusterDefault(regionInfo, ClusterName, spec))
<1> DEFINE new == ClusterDefault(regionInfo, ClusterName, spec)
<1>1. PICK catalog \in Catalogs : regionInfo = catalog.regions
  BY DEF CatalogInv
<1>2. /\ new.region = spec.region
      /\ new.zone = Default(spec.zone, GetDefaultZoneForRegion(regionInfo, spec.region))
      /\ Defaulted(new) /\ new.networks # <<>>
  BY ClusterDefaulted
<1>3. GetDefaultZoneForRegion(regionInfo, spec.region) # Unset
  BY <1>1, DefaultZone, RegionAssumption
<1>4. new.zone # Unset
  BY <1>2, <1>3 DEF Default
<1>5. ZoneBelongsToRegion(regionInfo, new.zone, new.region) /\ SpecRules(new)
  BY <1>4 DEF clusterSpecValidateCreate
<1> HIDE DEF new
<1>6. AdmittedCluster(new)
  BY <1>1, <1>2, <1>4, <1>5 DEF AdmittedCluster
<1> QED BY <1>6 DEF new

LEMMA UpdatedCluster ==
    ASSUME NEW old, AdmittedCluster(old), NEW spec, CloudscaleClusterSpec(spec),
           ClusterValidateUpdate(old, ClusterDefault(regionInfo, ClusterName, spec))
    PROVE  AdmittedCluster(ClusterDefault(regionInfo, ClusterName, spec))
<1> DEFINE new == ClusterDefault(regionInfo, ClusterName, spec)
<1>1. Defaulted(new) /\ new.networks # <<>>
  BY ClusterDefaulted
<1>2. new.region = old.region /\ new.zone = old.zone /\ SpecRules(new)
  BY DEF ClusterValidateUpdate
<1> HIDE DEF new
<1>3. AdmittedCluster(new)
  BY <1>1, <1>2 DEF AdmittedCluster
<1> QED BY <1>3 DEF new

(* Machines: only the family of a public interface is defaulted.             *)
LEMMA MachineDefaulted ==
    ASSUME NEW spec, CloudscaleMachineSpec(spec)
    PROVE  LET new == MachineDefault(spec) IN
           /\ CloudscaleMachineSpec(new)
           /\ \A i \in DOMAIN new.interfaces :
                 new.interfaces[i].type = "public" => new.interfaces[i].family # Unset
<1> DEFINE interfaces == defaultInterfaceIPFamily(spec.interfaces)
           d == [image |-> spec.image, flavor |-> spec.flavor,
                 rootVolumeSize |-> spec.rootVolumeSize, serverGroup |-> spec.serverGroup,
                 providerID |-> spec.providerID, tags |-> spec.tags, interfaces |-> interfaces]
<1>1. /\ DOMAIN interfaces = DOMAIN spec.interfaces
      /\ interfaces = [i \in DOMAIN interfaces |-> interfaces[i]]
      /\ \A i \in DOMAIN spec.interfaces :
            interfaces[i] = IF spec.interfaces[i].type = "public" /\ spec.interfaces[i].family = Unset
                            THEN [spec.interfaces[i] EXCEPT !.family = "DualStack"]
                            ELSE spec.interfaces[i]
  BY DEF defaultInterfaceIPFamily
<1> HIDE DEF interfaces
<1>2. ASSUME NEW i \in DOMAIN interfaces
      PROVE  /\ interfaces[i] = [type |-> interfaces[i].type, network |-> interfaces[i].network,
                                 family |-> interfaces[i].family]
             /\ interfaces[i].type \in {Unset, "public"}
             /\ interfaces[i].type = "public" => interfaces[i].family # Unset
  <2> DEFINE one == spec.interfaces[i]
  <2>1. /\ one = [type |-> one.type, network |-> one.network, family |-> one.family]
        /\ one.type \in {Unset, "public"}
    BY <1>1 DEF CloudscaleMachineSpec
  <2>2. interfaces[i] = IF one.type = "public" /\ one.family = Unset
                        THEN [one EXCEPT !.family = "DualStack"] ELSE one
    BY <1>1
  <2> HIDE DEF one
  <2>3. CASE one.type = "public" /\ one.family = Unset
    <3>1. interfaces[i] = [type |-> one.type, network |-> one.network, family |-> "DualStack"]
      BY <2>1, <2>2, <2>3
    <3> QED BY <2>1, <2>3, <3>1, MachineDefaultsAssumption
  <2>4. CASE ~(one.type = "public" /\ one.family = Unset)
    BY <2>1, <2>2, <2>4
  <2> QED BY <2>3, <2>4
<1>3. interfaces \in Seq({interfaces[i] : i \in DOMAIN interfaces})
  <2>1. PICK n \in Nat : DOMAIN spec.interfaces = 1 .. n
    BY DEF CloudscaleMachineSpec
  <2> QED BY <1>1, <2>1
<1>4. MachineDefault(spec) = d
  BY DEF MachineDefault, CloudscaleMachineSpec, interfaces
<1>5. d.interfaces = interfaces
  OBVIOUS
<1>6. CloudscaleMachineSpec(d)
  BY <1>2, <1>3 DEF CloudscaleMachineSpec
<1> HIDE DEF d
<1> QED BY <1>2, <1>4, <1>5, <1>6

LEMMA MachineSettled ==
    ASSUME NEW spec, CloudscaleMachineSpec(spec),
           \A i \in DOMAIN spec.interfaces :
               spec.interfaces[i].type = "public" => spec.interfaces[i].family # Unset
    PROVE  MachineDefault(spec) = spec
<1>1. spec.interfaces = [i \in DOMAIN spec.interfaces |-> spec.interfaces[i]]
  BY DEF CloudscaleMachineSpec
<1>2. defaultInterfaceIPFamily(spec.interfaces) = [i \in DOMAIN spec.interfaces |-> spec.interfaces[i]]
  BY DEF defaultInterfaceIPFamily
<1>3. defaultInterfaceIPFamily(spec.interfaces) = spec.interfaces
  BY <1>1, <1>2, Zenon
<1> QED BY <1>3 DEF MachineDefault, CloudscaleMachineSpec

LEMMA CreatedMachine ==
    ASSUME CatalogInv, NEW spec, CloudscaleMachineSpec(spec),
           validateMachineSpec(flavorInfo, MachineDefault(spec))
    PROVE  AdmittedMachine(MachineDefault(spec))
BY MachineDefaulted DEF AdmittedMachine, validateMachineSpec, CatalogInv

LEMMA UpdatedMachine ==
    ASSUME NEW old, AdmittedMachine(old), NEW spec, CloudscaleMachineSpec(spec),
           validateMachineSpecUpdate(MachineDefault(spec), old)
    PROVE  AdmittedMachine(MachineDefault(spec))
<1> DEFINE new == MachineDefault(spec)
<1>1. CloudscaleMachineSpec(new)
  BY MachineDefaulted
<1>2. new.interfaces = old.interfaces /\ new.flavor = old.flavor /\ validateTags(new.tags)
  BY DEF validateMachineSpecUpdate
<1> HIDE DEF new
<1>3. AdmittedMachine(new)
  BY <1>1, <1>2 DEF AdmittedMachine
<1> QED BY <1>3 DEF new

(* No request and no restart leads out of it; the template controller        *)
(* changes the capacity of the object and not its spec.                      *)
LEMMA AdmittedInductive == Spec => [](StoredInv /\ CatalogInv /\ AdmittedInv)
<1>1. Init => AdmittedInv
  BY DEF Init, AdmittedInv, Is
<1>2. ASSUME StoredInv, CatalogInv, AdmittedInv, [Next]_vars PROVE AdmittedInv'
  <2>k. kind' = kind
    BY <1>2 DEF Next, vars, Client, Create, Update, Delete, Changes, Restart, CacheSync,
                ReconcileTemplate
  <2>s. ASSUME stored' = stored PROVE AdmittedInv'
    BY <1>2, <2>k, <2>s DEF AdmittedInv, Is
  <2>n. \A spec : NewObject(spec).spec = spec
    BY DEF NewObject
  <2>e. stored # Absent => \A spec : [stored EXCEPT !.spec = spec].spec = spec
    BY <1>2 DEF StoredInv
  <2>1. CASE Create
    <3>1. CASE \E spec \in ClusterSpecs : CloudscaleClusterSpec(spec) /\ CreateCluster(spec)
      <4>1. kind = "cluster" /\ AdmittedCluster(stored'.spec)
        BY <1>2, <2>n, <3>1, CreatedCluster DEF CreateCluster
      <4> QED BY <2>k, <4>1 DEF AdmittedInv, Is
    <3>2. CASE \E spec \in ClusterSpecs :
                  CloudscaleClusterSpec(spec) /\ CreateClusterTemplate(spec)
      <4>1. kind = "clusterTemplate" /\ AdmittedClusterTemplate(stored'.spec)
        BY <1>2, <2>n, <3>2, ClusterSpecDefaulted
           DEF CreateClusterTemplate, clusterSpecValidateCreate, AdmittedClusterTemplate
      <4> QED BY <2>k, <4>1 DEF AdmittedInv, Is
    <3>3. CASE \E spec \in MachineSpecs :
                  CloudscaleMachineSpec(spec) /\ (CreateMachine(spec) \/ CreateMachineTemplate(spec))
      <4>1. kind \in {"machine", "machineTemplate"} /\ AdmittedMachine(stored'.spec)
        BY <1>2, <2>n, <3>3, CreatedMachine DEF CreateMachine, CreateMachineTemplate
      <4> QED BY <2>k, <4>1 DEF AdmittedInv, Is
    <3> QED BY <2>1, <3>1, <3>2, <3>3, Zenon DEF Create
  <2>2. CASE Update
    <3>1. CASE Is("cluster") /\ \E spec : CloudscaleClusterSpec(spec) /\ UpdateCluster(stored.spec, spec)
      <4>1. kind = "cluster" /\ AdmittedCluster(stored'.spec)
        BY <1>2, <2>e, <3>1, UpdatedCluster DEF UpdateCluster, AdmittedInv, Is
      <4> QED BY <2>k, <4>1 DEF AdmittedInv, Is
    <3>2. CASE Is("clusterTemplate") /\ \E spec : UpdateClusterTemplate(stored.spec, spec)
      <4>1. kind = "clusterTemplate" /\ stored'.spec = stored.spec
        BY <2>e, <3>2 DEF UpdateClusterTemplate, Is
      <4> QED BY <1>2, <2>k, <3>2, <4>1 DEF AdmittedInv, Is
    <3>3. CASE Is("machine") /\ \E spec : CloudscaleMachineSpec(spec) /\ UpdateMachine(stored.spec, spec)
      <4>1. kind = "machine" /\ AdmittedMachine(stored'.spec)
        BY <1>2, <2>e, <3>3, UpdatedMachine DEF UpdateMachine, AdmittedInv, Is
      <4> QED BY <2>k, <4>1 DEF AdmittedInv, Is
    <3>4. CASE Is("machineTemplate") /\ \E spec, dryRun : UpdateMachineTemplate(stored.spec, spec, dryRun)
      <4>1. kind = "machineTemplate" /\ stored'.spec = stored.spec
        BY <2>e, <3>4 DEF UpdateMachineTemplate, Is
      <4> QED BY <1>2, <2>k, <3>4, <4>1 DEF AdmittedInv, Is
    <3> QED BY <2>2, <3>1, <3>2, <3>3, <3>4, Zenon DEF Update
  <2>3. CASE Delete
    BY <2>3 DEF Delete, AdmittedInv, Is
  <2>4. CASE ReconcileTemplate
    <3>1. stored' = stored \/ (stored # Absent /\ stored'.spec = stored.spec)
      BY <1>2, <2>4 DEF ReconcileTemplate, StoredInv
    <3> QED BY <1>2, <2>k, <2>s, <3>1 DEF AdmittedInv, Is
  <2>5. CASE Restart \/ CacheSync \/ UNCHANGED vars
    BY <2>s, <2>5 DEF Restart, CacheSync, vars
  <2> QED BY <1>2, <2>1, <2>2, <2>3, <2>4, <2>5 DEF Next, Client
<1> QED BY <1>1, <1>2, StoredInductive, CatalogInductive, PTL DEF Spec

-----------------------------------------------------------------------------
(* What the controllers rely on follows from the rules.                      *)

(* A name that some network has is the name of one network.                  *)
LEMMA OneNetwork ==
    ASSUME NEW networks, validateNetworks(networks), NEW name,
           validateNetworkReference(name, networks)
    PROVE  Cardinality({i \in DOMAIN networks : networks[i].name = name}) = 1
<1>1. PICK i \in DOMAIN networks : networks[i].name = name
  BY DEF validateNetworkReference
<1>2. {j \in DOMAIN networks : networks[j].name = name} = {i}
  BY <1>1 DEF validateNetworks
<1> QED BY <1>2, FS_Singleton

LEMMA MembersOfOneNetwork ==
    ASSUME NEW spec, AdmittedCluster(spec), LBIsEnabled(spec)
    PROVE  /\ Cardinality(MemberNetworks(spec)) = 1
           /\ \A name \in MemberNetworks(spec) : validateNetworkReference(name, spec.networks)
<1>1. CASE spec.lb.poolMemberNetwork # Unset
  <2>1. MemberNetworks(spec) = {spec.lb.poolMemberNetwork}
    BY <1>1 DEF MemberNetworks
  <2> QED BY <1>1, <2>1, FS_Singleton DEF AdmittedCluster, SpecRules
<1>2. CASE spec.lb.poolMemberNetwork = Unset /\ spec.lb.network # Unset
  <2>1. MemberNetworks(spec) = {spec.lb.network}
    BY <1>2 DEF MemberNetworks
  <2> QED BY <1>2, <2>1, FS_Singleton DEF AdmittedCluster, SpecRules
<1>3. CASE spec.lb.poolMemberNetwork = Unset /\ spec.lb.network = Unset
  <2>1. Len(spec.networks) <= 1
    BY <1>3 DEF AdmittedCluster, SpecRules, validateLBPoolMemberNetworkResolvable
  <2>2. spec.networks \in Seq({spec.networks[i] : i \in DOMAIN spec.networks})
        /\ spec.networks # <<>>
    BY DEF AdmittedCluster, Defaulted, CloudscaleClusterSpec
  <2>3. DOMAIN spec.networks = {1}
    BY <2>1, <2>2
  <2>4. MemberNetworks(spec) = {spec.networks[1].name}
    BY <1>3, <2>3 DEF MemberNetworks, NetworkNames
  <2> QED BY <2>3, <2>4, FS_Singleton DEF validateNetworkReference
<1> QED BY <1>1, <1>2, <1>3

LEMMA ClusterIsSound ==
    ASSUME NEW spec, AdmittedCluster(spec)
    PROVE  SoundCluster(spec)
<1>r. /\ validateNetworks(spec.networks) /\ validateRouters(spec.routers, spec.networks)
      /\ spec.lb.network # Unset => validateNetworkReference(spec.lb.network, spec.networks)
      /\ spec.fip # Unset => validateFloatingIP(spec.fip)
      /\ validateFloatingIPRequiresLBOrPreExisting(spec)
      /\ validateFloatingIPRequiresPublicLB(spec)
  BY DEF AdmittedCluster, SpecRules
<1>1. ASSUME NEW i \in DOMAIN spec.networks
      PROVE  LET n == spec.networks[i] IN
             \/ n.uuid # Unset /\ n.cidr = Unset /\ n.gateway = Unset
             \/ /\ n.uuid = Unset /\ n.cidr \in DOMAIN Within
                /\ n.gateway \in Within[n.cidr] \cup {Unset}
  BY <1>r DEF validateNetworks, validateAddressInCIDR
<1>2. ASSUME NEW name \in LookedUp(spec)
      PROVE  Cardinality({i \in DOMAIN spec.networks : spec.networks[i].name = name}) = 1
  <2>1. CASE \E r \in DOMAIN spec.routers : name \in DOMAIN spec.routers[r].interfaces
    <3>1. validateNetworkReference(name, spec.networks)
      BY <1>r, <2>1 DEF validateRouters, validateSingleRouter, validateRouterInterface
    <3> QED BY <1>r, <3>1, OneNetwork
  <2>2. CASE name \in {spec.lb.network} \ {Unset}
    BY <1>r, <2>2, OneNetwork
  <2>3. CASE LBIsEnabled(spec) /\ name \in MemberNetworks(spec)
    BY <1>r, <2>3, OneNetwork, MembersOfOneNetwork
  <2> DEFINE members == IF LBIsEnabled(spec) THEN MemberNetworks(spec) ELSE {}
  <2>4. name \in members => LBIsEnabled(spec) /\ name \in MemberNetworks(spec)
    OBVIOUS
  <2>5. \/ name \in UNION {DOMAIN spec.routers[r].interfaces : r \in DOMAIN spec.routers}
        \/ name \in {spec.lb.network} \ {Unset}
        \/ name \in members
    BY Zenon DEF LookedUp
  <2> QED BY <2>1, <2>2, <2>3, <2>4, <2>5
<1>3. LBIsEnabled(spec) => Cardinality(MemberNetworks(spec)) = 1
  BY MembersOfOneNetwork
<1>4. \A r \in DOMAIN spec.routers :
         spec.routers[r].internetGateway => spec.routers[r].uuid = Unset
  BY <1>r, Zenon DEF validateRouters, validateSingleRouter
<1>5. ASSUME NEW r \in DOMAIN spec.routers, NEW name \in DOMAIN spec.routers[r].interfaces
      PROVE  LET interface == spec.routers[r].interfaces[name] IN
             \/ interface.uuid # Unset /\ spec.routers[r].uuid # Unset
             \/ /\ interface.uuid = Unset
                /\ \A i \in DOMAIN spec.networks :
                      spec.networks[i].name = name /\ spec.networks[i].uuid = Unset =>
                          interface.address \in Within[spec.networks[i].cidr]
  <2>1. validateRouterInterface(name, spec.routers[r].interfaces[name], spec.networks,
                                spec.routers[r].uuid # Unset)
    BY <1>r, Zenon DEF validateRouters, validateSingleRouter
  <2>2. ASSUME spec.routers[r].interfaces[name].uuid = Unset, NEW i \in DOMAIN spec.networks,
               spec.networks[i].name = name, spec.networks[i].uuid = Unset
        PROVE  spec.routers[r].interfaces[name].address \in Within[spec.networks[i].cidr]
    <3>1. spec.networks[i].cidr # Unset /\ spec.networks[i].cidr \in DOMAIN Within
      BY <1>r, <2>2 DEF validateNetworks
    <3> QED BY <2>1, <2>2, <3>1 DEF validateRouterInterface, validateAddressInCIDR
  <2>3. spec.routers[r].interfaces[name].uuid # Unset => spec.routers[r].uuid # Unset
    BY <2>1 DEF validateRouterInterface
  <2> QED BY <2>2, <2>3
<1>6. spec.fip # Unset =>
         \/ /\ spec.fip.family # Unset /\ spec.fip.address = Unset
            /\ LBIsEnabled(spec) /\ spec.lb.network = Unset
         \/ /\ spec.fip.family = Unset /\ spec.fip.address \in IPs
            /\ LBIsEnabled(spec) => spec.lb.network = Unset
  BY <1>r DEF validateFloatingIP, validateFloatingIPRequiresLBOrPreExisting,
              validateFloatingIPRequiresPublicLB
<1>7. /\ \E catalog \in Catalogs :
            ZoneBelongsToRegion(catalog.regions, spec.zone, spec.region)
      /\ \A f \in LBSettings : spec.lb.settings[f] # Unset
  BY DEF AdmittedCluster, Defaulted
<1> QED BY <1>1, <1>2, <1>3, <1>4, <1>5, <1>6, <1>7, Zenon DEF SoundCluster

LEMMA MachineIsSound ==
    ASSUME NEW spec, AdmittedMachine(spec)
    PROVE  SoundMachine(spec)
<1> DEFINE public == {i \in DOMAIN spec.interfaces : spec.interfaces[i].type = "public"}
<1>1. validateInterfaces(spec.interfaces)
  BY DEF AdmittedMachine
<1>2. ASSUME NEW i \in DOMAIN spec.interfaces \ public
      PROVE  spec.interfaces[i].network # Unset /\ spec.interfaces[i].family = Unset
  BY <1>1 DEF AdmittedMachine, CloudscaleMachineSpec, validateInterfaces
<1>3. ASSUME NEW i \in public
      PROVE  spec.interfaces[i].network = Unset /\ spec.interfaces[i].family # Unset
  BY <1>1, MachineDefaultsAssumption DEF AdmittedMachine, validateInterfaces
<1>4. Cardinality(public) <= 1
  <2>1. CASE public = {}
    BY <2>1, FS_EmptySet
  <2>2. CASE public # {}
    <3>1. PICK i : i \in public
      BY <2>2
    <3>2. public = {i}
      BY <1>1, <3>1 DEF validateInterfaces
    <3>3. Cardinality(public) = 1
      BY <3>2, FS_Singleton
    <3> QED BY <3>3
  <2> QED BY <2>1, <2>2
<1>5. /\ spec.tags \cap ReservedTags = {}
      /\ \E catalog \in Catalogs : IsValidFlavor(catalog.flavors, spec.flavor)
  BY DEF AdmittedMachine, validateTags
<1> QED BY <1>2, <1>3, <1>4, <1>5, Zenon DEF SoundMachine

(* Whatever specs clients send, in whatever order, and whatever regions and  *)
(* flavors the process reads at its restarts, every stored spec is one that  *)
(* the controllers can work with.                                            *)
THEOREM AdmittedSpecsAreSound == Spec => []AdmittedIsSound
<1>1. AdmittedInv => AdmittedIsSound
  BY ClusterIsSound, MachineIsSound DEF AdmittedInv, AdmittedIsSound
<1> QED BY <1>1, AdmittedInductive, PTL

-----------------------------------------------------------------------------
(* A stored object stays writable.                                           *)

(* A spec that obeys the rules may be sent over itself, with an endpoint     *)
(* where it has none.                                                        *)
LEMMA ClusterSentBack ==
    ASSUME NEW old, AdmittedCluster(old), NEW endpoint,
           old.endpoint \in {endpoint, [host |-> Unset, port |-> Unset]}
    PROVE  LET sent == [old EXCEPT !.endpoint = endpoint] IN
           /\ ClusterDefault(regionInfo, ClusterName, sent) = sent
           /\ ClusterValidateUpdate(old, sent)
<1> DEFINE sent == [old EXCEPT !.endpoint = endpoint]
<1>1. sent = [region |-> old.region, zone |-> old.zone, networks |-> old.networks,
              routers |-> old.routers, lb |-> old.lb, fip |-> old.fip, endpoint |-> endpoint]
  BY DEF AdmittedCluster, Defaulted, CloudscaleClusterSpec
<1> HIDE DEF sent
<1>2. /\ sent.region = old.region /\ sent.zone = old.zone /\ sent.networks = old.networks
      /\ sent.routers = old.routers /\ sent.lb = old.lb /\ sent.fip = old.fip
      /\ sent.endpoint = endpoint
  BY <1>1
<1>3. Defaulted(sent)
  <2>1. sent = [region |-> sent.region, zone |-> sent.zone, networks |-> sent.networks,
                routers |-> sent.routers, lb |-> sent.lb, fip |-> sent.fip,
                endpoint |-> sent.endpoint]
    BY <1>1, <1>2, Zenon
  <2>2. Defaulted(old)
    BY DEF AdmittedCluster
  <2> QED BY <1>2, <2>1, <2>2, Zenon DEF Defaulted, CloudscaleClusterSpec
<1>4. ClusterDefault(regionInfo, ClusterName, sent) = sent
  BY <1>2, <1>3, ClusterSettled DEF AdmittedCluster
<1>5. SpecRules(sent)
  <2>1. SpecRules(old)
    BY DEF AdmittedCluster
  <2> QED BY <1>2, <2>1, Zenon
      DEF SpecRules, validateFloatingIPRequiresLBOrPreExisting, LBIsEnabled,
          validateFloatingIPRequiresPublicLB, validateLBPoolMemberNetworkResolvable
<1>6. /\ validateNetworkImmutability(old.networks, sent.networks)
      /\ validateRouterDiff(old.routers, sent.routers)
      /\ LBIsEnabled(sent) = LBIsEnabled(old)
      /\ sent.lb.network = old.lb.network
      /\ validateLBImmutability(old.lb, sent.lb)
      /\ validateFloatingIPImmutability(old.fip, sent.fip)
  BY <1>2 DEF validateNetworkImmutability, validateRouterDiff, LBIsEnabled,
              validateLBImmutability, validateFloatingIPImmutability
<1>7. old.endpoint.host # Unset =>
         /\ sent.endpoint.host = old.endpoint.host
         /\ sent.endpoint.port = old.endpoint.port
  BY <1>2
<1>8. ClusterValidateUpdate(old, sent)
  BY <1>2, <1>5, <1>6, <1>7, Zenon DEF ClusterValidateUpdate
<1> QED BY <1>4, <1>8, Zenon DEF sent

LEMMA MachineSentBack ==
    ASSUME NEW old, AdmittedMachine(old), NEW id, old.providerID \in {id, Unset}
    PROVE  LET sent == [old EXCEPT !.providerID = id] IN
           /\ MachineDefault(sent) = sent
           /\ validateMachineSpecUpdate(sent, old)
<1> DEFINE sent == [old EXCEPT !.providerID = id]
<1>1. sent = [image |-> old.image, flavor |-> old.flavor,
              rootVolumeSize |-> old.rootVolumeSize, serverGroup |-> old.serverGroup,
              providerID |-> id, tags |-> old.tags, interfaces |-> old.interfaces]
  BY DEF AdmittedMachine, CloudscaleMachineSpec
<1> HIDE DEF sent
<1>2. /\ sent.image = old.image /\ sent.flavor = old.flavor
      /\ sent.rootVolumeSize = old.rootVolumeSize /\ sent.serverGroup = old.serverGroup
      /\ sent.providerID = id /\ sent.tags = old.tags /\ sent.interfaces = old.interfaces
  BY <1>1
<1>3. CloudscaleMachineSpec(sent)
  <2>1. sent = [image |-> sent.image, flavor |-> sent.flavor,
                rootVolumeSize |-> sent.rootVolumeSize, serverGroup |-> sent.serverGroup,
                providerID |-> sent.providerID, tags |-> sent.tags,
                interfaces |-> sent.interfaces]
    BY <1>1, <1>2, Zenon
  <2>2. CloudscaleMachineSpec(old)
    BY DEF AdmittedMachine
  <2> QED BY <1>2, <2>1, <2>2, Zenon DEF CloudscaleMachineSpec
<1>4. MachineDefault(sent) = sent
  BY <1>2, <1>3, MachineSettled DEF AdmittedMachine
<1>5. validateMachineSpecUpdate(sent, old)
  BY <1>2 DEF validateMachineSpecUpdate, AdmittedMachine
<1> QED BY <1>4, <1>5, Zenon DEF sent

(* The controllers' own writes, sent through the same webhooks, are never    *)
(* refused and never changed on the way, also when the provider has          *)
(* restarted with other regions and flavors since the object was made.       *)
THEOREM StoredObjectsStayWritable == Spec => []StaysWritable
<1>1. AdmittedInv => StaysWritable
  <2> SUFFICES ASSUME AdmittedInv PROVE StaysWritable
    OBVIOUS
  <2>1. ASSUME Is("cluster"),
               NEW endpoint \in {stored.spec.endpoint, [host |-> "vip", port |-> 6443]},
               stored.spec.endpoint \in {endpoint, [host |-> Unset, port |-> Unset]}
        PROVE  LET sent == [stored.spec EXCEPT !.endpoint = endpoint]
                   new == ClusterDefault(regionInfo, ClusterName, sent) IN
               new = sent /\ ClusterValidateUpdate(stored.spec, new)
    <3>1. AdmittedCluster(stored.spec)
      BY <2>1 DEF AdmittedInv
    <3> QED BY <2>1, <3>1, ClusterSentBack
  <2>2. Is("clusterTemplate") => clusterSpecDefault(stored.spec) = stored.spec
    BY TemplateSettled DEF AdmittedInv, AdmittedClusterTemplate
  <2>3. ASSUME Is("machine"), NEW id \in {stored.spec.providerID, "cloudscale://new"},
               stored.spec.providerID \in {id, Unset}
        PROVE  LET sent == [stored.spec EXCEPT !.providerID = id] IN
               MachineDefault(sent) = sent /\ validateMachineSpecUpdate(sent, stored.spec)
    <3>1. AdmittedMachine(stored.spec)
      BY <2>3 DEF AdmittedInv
    <3> QED BY <2>3, <3>1, MachineSentBack
  <2>4. Is("machineTemplate") => MachineDefault(stored.spec) = stored.spec
    BY MachineSettled DEF AdmittedInv, AdmittedMachine
  <2> QED BY <2>1, <2>2, <2>3, <2>4 DEF StaysWritable
<1> QED BY <1>1, AdmittedInductive, PTL

-----------------------------------------------------------------------------
(* A template can be used.                                                   *)

(* A template without networks names none, so that the network a cluster is  *)
(* given breaks no rule.                                                     *)
LEMMA PatchedRules ==
    ASSUME NEW spec, SpecRules(spec), NEW new, NEW name, new.networks = defaultNetworks(name, spec.networks),
           new.routers = spec.routers, new.lb = spec.lb, new.fip = spec.fip
    PROVE  SpecRules(new)
<1>1. CASE spec.networks # <<>>
  <2>1. new.networks = spec.networks
    BY <1>1 DEF defaultNetworks
  <2> QED BY <2>1, Zenon
      DEF SpecRules, validateFloatingIPRequiresLBOrPreExisting, LBIsEnabled,
          validateFloatingIPRequiresPublicLB, validateLBPoolMemberNetworkResolvable
<1>2. CASE spec.networks = <<>>
  <2> DEFINE n == [name |-> name, uuid |-> Unset, cidr |-> DefaultCIDR,
                   gateway |-> Unset, mtu |-> Unset]
  <2>1. new.networks = <<n>>
    BY <1>2 DEF defaultNetworks
  <2>2. n.uuid = Unset /\ n.cidr = DefaultCIDR /\ n.gateway = Unset
    OBVIOUS
  <2> HIDE DEF n
  <2>3. DOMAIN new.networks = {1} /\ new.networks[1] = n /\ Len(new.networks) = 1
    BY <2>1
  <2>4. validateNetworks(new.networks)
    BY <2>2, <2>3, WithinAssumption, ClusterDefaultsAssumption DEF validateNetworks
  <2>5. \A any : ~validateNetworkReference(any, spec.networks)
    BY <1>2 DEF validateNetworkReference
  <2>6. spec.lb.network = Unset /\ spec.lb.poolMemberNetwork = Unset
    BY <2>5 DEF SpecRules
  <2>7. validateRouters(new.routers, new.networks)
    <3>1. validateRouters(spec.routers, spec.networks)
      BY DEF SpecRules
    <3>2. \A r \in DOMAIN spec.routers : DOMAIN spec.routers[r].interfaces = {}
      BY <2>5, <3>1 DEF validateRouters, validateSingleRouter, validateRouterInterface
    <3> QED BY <3>1, <3>2 DEF validateRouters, validateSingleRouter
  <2>8. validateLBPoolMemberNetworkResolvable(new)
    BY <2>3 DEF validateLBPoolMemberNetworkResolvable
  <2>9. /\ new.fip # Unset => validateFloatingIP(new.fip)
        /\ validateFloatingIPRequiresLBOrPreExisting(new)
        /\ validateFloatingIPRequiresPublicLB(new)
    BY Zenon DEF SpecRules, validateFloatingIPRequiresLBOrPreExisting, LBIsEnabled,
                 validateFloatingIPRequiresPublicLB
  <2> QED BY <2>4, <2>6, <2>7, <2>8, <2>9 DEF SpecRules
<1> QED BY <1>1, <1>2

(* What is made from an admitted template is admitted, in every region that  *)
(* the process knows.                                                        *)
THEOREM AdmittedTemplatesAreUsable == Spec => []TemplatesAreUsable
<1>1. CatalogInv /\ AdmittedInv => TemplatesAreUsable
  <2> SUFFICES ASSUME CatalogInv, AdmittedInv PROVE TemplatesAreUsable
    OBVIOUS
  <2>1. ASSUME Is("clusterTemplate"), NEW region \in DOMAIN regionInfo
        PROVE  LET patched == [stored.spec EXCEPT !.region = region]
                   new == ClusterDefault(regionInfo, ClusterName, patched) IN
               /\ SpecRules(new)
               /\ patched.zone = Unset => clusterSpecValidateCreate(regionInfo, new)
    <3> DEFINE spec == stored.spec
               patched == [spec EXCEPT !.region = region]
               new == ClusterDefault(regionInfo, ClusterName, patched)
    <3>1. Defaulted(spec) /\ SpecRules(spec)
      BY <2>1 DEF AdmittedInv, AdmittedClusterTemplate
    <3> HIDE DEF spec
    <3>2. patched = [region |-> region, zone |-> spec.zone, networks |-> spec.networks,
                     routers |-> spec.routers, lb |-> spec.lb, fip |-> spec.fip,
                     endpoint |-> spec.endpoint]
      BY <3>1 DEF Defaulted, CloudscaleClusterSpec
    <3> HIDE DEF patched
    <3>3. /\ patched.region = region /\ patched.zone = spec.zone
          /\ patched.networks = spec.networks /\ patched.routers = spec.routers
          /\ patched.lb = spec.lb /\ patched.fip = spec.fip /\ patched.endpoint = spec.endpoint
      BY <3>2
    <3>4. Defaulted(patched)
      <4>1. patched = [region |-> patched.region, zone |-> patched.zone,
                       networks |-> patched.networks, routers |-> patched.routers,
                       lb |-> patched.lb, fip |-> patched.fip, endpoint |-> patched.endpoint]
        BY <3>2, <3>3, Zenon
      <4> QED BY <3>1, <3>3, <4>1, Zenon DEF Defaulted, CloudscaleClusterSpec
    <3>5. new = [region |-> region,
                 zone |-> Default(spec.zone, GetDefaultZoneForRegion(regionInfo, region)),
                 networks |-> defaultNetworks(ClusterName, spec.networks),
                 routers |-> spec.routers, lb |-> spec.lb, fip |-> spec.fip,
                 endpoint |-> spec.endpoint]
      <4>1. new = [region |-> patched.region,
                   zone |-> Default(patched.zone,
                                    GetDefaultZoneForRegion(regionInfo, patched.region)),
                   networks |-> defaultNetworks(ClusterName, patched.networks),
                   routers |-> patched.routers, lb |-> defaultLoadBalancer(patched.lb),
                   fip |-> defaultFloatingIP(patched.fip), endpoint |-> patched.endpoint]
        BY <3>4, ClusterDefaulted DEF Defaulted
      <4> QED BY <3>3, <3>4, <4>1, PartsSettled, Zenon
    <3> HIDE DEF new
    <3>6. /\ new.networks = defaultNetworks(ClusterName, spec.networks)
          /\ new.routers = spec.routers /\ new.lb = spec.lb /\ new.fip = spec.fip
          /\ new.region = region
          /\ new.zone = Default(spec.zone, GetDefaultZoneForRegion(regionInfo, region))
      BY <3>5
    <3>7. SpecRules(new)
      BY <3>1, <3>6, PatchedRules
    <3>8. ASSUME spec.zone = Unset, new.zone # Unset
          PROVE  ZoneBelongsToRegion(regionInfo, new.zone, new.region)
      <4>1. PICK catalog \in Catalogs : regionInfo = catalog.regions
        BY DEF CatalogInv
      <4>2. new.zone = GetDefaultZoneForRegion(regionInfo, region)
        BY <3>6, <3>8 DEF Default
      <4> QED BY <3>6, <3>8, <4>1, <4>2, DefaultZone
    <3>9. patched.zone = Unset => clusterSpecValidateCreate(regionInfo, new)
      BY <3>3, <3>7, <3>8 DEF clusterSpecValidateCreate
    <3> QED BY <3>7, <3>9 DEF new, patched, spec
  <2>2. ASSUME Is("machineTemplate"), IsValidFlavor(flavorInfo, stored.spec.flavor)
        PROVE  validateMachineSpec(flavorInfo, MachineDefault(stored.spec))
    <3>1. AdmittedMachine(stored.spec)
      BY <2>2 DEF AdmittedInv
    <3>2. MachineDefault(stored.spec) = stored.spec
      BY <3>1, MachineSettled DEF AdmittedMachine
    <3> QED BY <2>2, <3>1, <3>2 DEF validateMachineSpec, AdmittedMachine
  <2> QED BY <2>1, <2>2, Zenon DEF TemplatesAreUsable
<1> QED BY <1>1, AdmittedInductive, PTL

=============================================================================
