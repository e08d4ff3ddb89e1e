---------------------------- MODULE ClusterWebhook ----------------------------
(***************************************************************************)
(* Defaulting and validation of CloudscaleCluster specs                    *)
(* (internal/webhook/v1beta2/cloudscalecluster_webhook.go), also used for  *)
(* CloudscaleClusterTemplate. A validation is the predicate "no error".    *)
(*                                                                         *)
(* A cluster spec is a record                                              *)
(*   region, zone                                                          *)
(*   networks   a sequence of [name, uuid, cidr, gateway, mtu]             *)
(*   routers    the list-map keyed by name, a function to                  *)
(*              [uuid, internetGateway, interfaces], where interfaces is   *)
(*              the list-map keyed by network, a function to               *)
(*              [uuid, address]                                            *)
(*   lb         [enabled, network, poolMemberNetwork, settings]            *)
(*   fip        Unset or [family, address]                                 *)
(*   endpoint   [host, port]                                               *)
(***************************************************************************)
EXTENDS Catalog

CONSTANTS
    IPs,      \* the strings that parse as an address
    Within    \* the strings that parse as a prefix, each with its addresses

DefaultCIDR == "172.18.0.0/24"

ASSUME WithinAssumption ==
    /\ \A cidr \in DOMAIN Within : Within[cidr] \subseteq IPs
    /\ DefaultCIDR \in DOMAIN Within

-----------------------------------------------------------------------------
(* Defaulting                                                                *)

LBDefaults ==
    [algorithm |-> "round_robin", flavor |-> "lb-standard", apiServerPort |-> 6443,
     delayS |-> 5, timeoutS |-> 3, upThreshold |-> 2, downThreshold |-> 3]

LBSettings == DOMAIN LBDefaults

(* No default is a zero value.                                               *)
ASSUME ClusterDefaultsAssumption ==
    /\ \A f \in LBSettings : LBDefaults[f] # Unset
    /\ Unset \notin BOOLEAN /\ Unset # "IPv4" /\ Unset # DefaultCIDR
    /\ Unset # [family |-> "IPv4", address |-> Unset]

(* The fields of the types, which the schema of the resource enforces.       *)
LoadBalancerSpec(lb) ==
    /\ lb = [enabled |-> lb.enabled, network |-> lb.network,
             poolMemberNetwork |-> lb.poolMemberNetwork,
             settings |-> [f \in LBSettings |-> lb.settings[f]]]
    /\ lb.enabled \in BOOLEAN \cup {Unset}

FloatingIPSpec(fip) == fip = [family |-> fip.family, address |-> fip.address]

CloudscaleClusterSpec(spec) ==
    /\ spec = [region |-> spec.region, zone |-> spec.zone, networks |-> spec.networks,
               routers |-> spec.routers, lb |-> spec.lb, fip |-> spec.fip,
               endpoint |-> spec.endpoint]
    /\ spec.networks \in Seq({spec.networks[i] : i \in DOMAIN spec.networks})
    /\ LoadBalancerSpec(spec.lb)
    /\ spec.fip # Unset => FloatingIPSpec(spec.fip)

(* A zero value is replaced.                                                 *)
Default(value, default) == IF value = Unset THEN default ELSE value

defaultLoadBalancer(lb) ==
    [enabled |-> Default(lb.enabled, TRUE), network |-> lb.network,
     poolMemberNetwork |-> lb.poolMemberNetwork,
     settings |-> [f \in LBSettings |-> Default(lb.settings[f], LBDefaults[f])]]

defaultFloatingIP(fip) ==
    IF fip # Unset /\ fip.family = Unset /\ fip.address = Unset
    THEN [fip EXCEPT !.family = "IPv4"]
    ELSE fip

clusterSpecDefault(spec) ==
    [spec EXCEPT !.lb = defaultLoadBalancer(spec.lb), !.fip = defaultFloatingIP(spec.fip)]

defaultNetworks(name, networks) ==
    IF networks = <<>>
    THEN <<[name |-> name, uuid |-> Unset, cidr |-> DefaultCIDR,
            gateway |-> Unset, mtu |-> Unset]>>
    ELSE networks

ClusterDefault(regionInfo, name, spec) ==
    clusterSpecDefault(
        [spec EXCEPT
            !.zone = Default(spec.zone, GetDefaultZoneForRegion(regionInfo, spec.region)),
            !.networks = defaultNetworks(name, spec.networks)])

-----------------------------------------------------------------------------
(* Rules about one spec                                                      *)

(* ptr.Deref(lb.Enabled, true)                                               *)
LBIsEnabled(spec) == spec.lb.enabled # FALSE

(* A prefix that does not parse is reported by validateNetworks only.        *)
validateAddressInCIDR(cidr, address) ==
    cidr \in DOMAIN Within => address \in Within[cidr]

validateNetworks(networks) ==
    /\ \A i, j \in DOMAIN networks : networks[i].name = networks[j].name => i = j
    /\ \A i \in DOMAIN networks :
          /\ (networks[i].uuid = Unset) # (networks[i].cidr = Unset)
          /\ networks[i].cidr # Unset => networks[i].cidr \in DOMAIN Within
          /\ networks[i].gateway # Unset =>
                /\ networks[i].cidr # Unset
                /\ validateAddressInCIDR(networks[i].cidr, networks[i].gateway)

validateNetworkReference(name, networks) ==
    \E i \in DOMAIN networks : networks[i].name = name

(* The networks of that name; validateNetworks lets no name occur twice.     *)
validateRouterInterface(network, interface, networks, routerAdopted) ==
    /\ validateNetworkReference(network, networks)
    /\ IF interface.uuid # Unset
       THEN routerAdopted /\ interface.address = Unset
       ELSE /\ interface.address # Unset
            /\ \A i \in DOMAIN networks :
                  networks[i].name = network /\ networks[i].cidr # Unset =>
                      validateAddressInCIDR(networks[i].cidr, interface.address)

validateSingleRouter(router, networks) ==
    /\ ~(router.uuid # Unset /\ router.internetGateway)
    /\ \A n \in DOMAIN router.interfaces :
          validateRouterInterface(n, router.interfaces[n], networks, router.uuid # Unset)

validateRouters(routers, networks) ==
    \A r \in DOMAIN routers : validateSingleRouter(routers[r], networks)

validateFloatingIP(fip) ==
    /\ (fip.family = Unset) # (fip.address = Unset)
    /\ fip.address # Unset => fip.address \in IPs

validateFloatingIPRequiresLBOrPreExisting(spec) ==
    spec.fip # Unset => spec.fip.address # Unset \/ LBIsEnabled(spec)

validateFloatingIPRequiresPublicLB(spec) ==
    spec.fip # Unset => ~LBIsEnabled(spec) \/ spec.lb.network = Unset

validateLBPoolMemberNetworkResolvable(spec) ==
    \/ ~LBIsEnabled(spec)
    \/ spec.lb.network # Unset
    \/ spec.lb.poolMemberNetwork # Unset
    \/ Len(spec.networks) <= 1

(* The rules that creation and update have in common.                        *)
SpecRules(spec) ==
    /\ validateNetworks(spec.networks)
    /\ validateRouters(spec.routers, spec.networks)
    /\ spec.lb.network # Unset => validateNetworkReference(spec.lb.network, spec.networks)
    /\ spec.lb.poolMemberNetwork # Unset =>
           validateNetworkReference(spec.lb.poolMemberNetwork, spec.networks)
    /\ spec.fip # Unset => validateFloatingIP(spec.fip)
    /\ validateFloatingIPRequiresLBOrPreExisting(spec)
    /\ validateFloatingIPRequiresPublicLB(spec)
    /\ validateLBPoolMemberNetworkResolvable(spec)

clusterSpecValidateCreate(regionInfo, spec) ==
    /\ spec.zone # Unset => ZoneBelongsToRegion(regionInfo, spec.zone, spec.region)
    /\ SpecRules(spec)

-----------------------------------------------------------------------------
(* Rules about an update                                                     *)

(* Fault: the MTU is not compared.                                           *)
validateNetworkImmutability_mtu(oldNetworks, newNetworks) ==
    \A i \in DOMAIN oldNetworks : \E j \in DOMAIN newNetworks :
        /\ newNetworks[j].name = oldNetworks[i].name
        /\ newNetworks[j].cidr = oldNetworks[i].cidr
        /\ newNetworks[j].uuid = oldNetworks[i].uuid
        /\ newNetworks[j].gateway = oldNetworks[i].gateway

validateNetworkImmutability(oldNetworks, newNetworks) ==
    \A i \in DOMAIN oldNetworks : \E j \in DOMAIN newNetworks :
        /\ newNetworks[j].name = oldNetworks[i].name
        /\ newNetworks[j].cidr = oldNetworks[i].cidr
        /\ newNetworks[j].uuid = oldNetworks[i].uuid
        /\ newNetworks[j].mtu = oldNetworks[i].mtu
        /\ newNetworks[j].gateway = oldNetworks[i].gateway

validateRouterDiff(oldRouters, newRouters) ==
    \A r \in DOMAIN oldRouters :
        /\ r \in DOMAIN newRouters
        /\ newRouters[r].uuid = oldRouters[r].uuid
        /\ newRouters[r].internetGateway = oldRouters[r].internetGateway
        /\ \A n \in DOMAIN oldRouters[r].interfaces :
              /\ n \in DOMAIN newRouters[r].interfaces
              /\ newRouters[r].interfaces[n].address = oldRouters[r].interfaces[n].address
              /\ newRouters[r].interfaces[n].uuid = oldRouters[r].interfaces[n].uuid

validateLBImmutability(oldLB, newLB) ==
    /\ \A f \in LBSettings : newLB.settings[f] = oldLB.settings[f]
    /\ newLB.poolMemberNetwork = oldLB.poolMemberNetwork

validateFloatingIPImmutability(oldFIP, newFIP) ==
    /\ (oldFIP = Unset) = (newFIP = Unset)
    /\ oldFIP # Unset => /\ newFIP.address = oldFIP.address
                         /\ newFIP.family = oldFIP.family

(* Fault: the networks are not counted when one is added.                    *)
ClusterValidateUpdate_uncounted(old, new) ==
    /\ new.region = old.region /\ new.zone = old.zone
    /\ validateNetworkImmutability(old.networks, new.networks)
    /\ validateRouterDiff(old.routers, new.routers)
    /\ new.lb = old.lb /\ new.fip = old.fip
    /\ old.endpoint.host # Unset => new.endpoint = old.endpoint
    /\ validateNetworks(new.networks)
    /\ validateRouters(new.routers, new.networks)

(* Fault: the endpoint cannot be published after creation.                   *)
ClusterValidateUpdate_endpoint(old, new) ==
    /\ ClusterValidateUpdate_uncounted(old, new)
    /\ SpecRules(new)
    /\ new.endpoint = old.endpoint

ClusterValidateUpdate(old, new) ==
    /\ new.region = old.region
    /\ new.zone = old.zone
    /\ validateNetworkImmutability(old.networks, new.networks)
    /\ validateRouterDiff(old.routers, new.routers)
    /\ LBIsEnabled(new) = LBIsEnabled(old)
    /\ new.lb.network = old.lb.network
    /\ validateLBImmutability(old.lb, new.lb)
    /\ old.endpoint.host # Unset =>
           /\ new.endpoint.host = old.endpoint.host
           /\ new.endpoint.port = old.endpoint.port
    /\ validateFloatingIPImmutability(old.fip, new.fip)
    /\ SpecRules(new)

-----------------------------------------------------------------------------
(* The routers for which a request is answered with a warning: their         *)
(* internet gateway is on and no attached network has a gateway address.     *)
checkSNATConfiguration(spec) ==
    {r \in DOMAIN spec.routers :
        /\ spec.routers[r].internetGateway
        /\ ~ \E n \in DOMAIN spec.routers[r].interfaces, i \in DOMAIN spec.networks :
               spec.networks[i].name = n /\ spec.networks[i].gateway # Unset}
=============================================================================
