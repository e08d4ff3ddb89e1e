---------------------------- MODULE MCAdmission ----------------------------
EXTENDS Admission, TLC

(* Two prefixes, an address in each, and strings that do not parse.          *)
MCIPs == {"a1", "a2"}
MCWithin == [cidr \in {DefaultCIDR, "c2"} |-> IF cidr = "c2" THEN {"a2"} ELSE {"a1"}]

(* Later, a zone is added in front and another withdrawn, a flavor is        *)
(* withdrawn and the other one changes.                                      *)
Zones(zones) == [region \in {"rma", "lpg"} |-> IF region = "rma" THEN zones ELSE <<"lpg1">>]
Small == [cpu |-> 2, memory |-> 4, gpu |-> 0]
Large == [cpu |-> 8, memory |-> 32, gpu |-> 1]
MCCatalogs ==
    {[regions |-> Zones(<<"rma1", "rma2">>),
      flavors |-> [f \in {"flex", "gpu"} |-> IF f = "flex" THEN Small ELSE Large]],
     [regions |-> Zones(<<"rma3", "rma1">>), flavors |-> [f \in {"flex"} |-> Large]]}

-----------------------------------------------------------------------------
(* Parts of a cluster spec                                                   *)

Made(name, cidr, gateway, mtu) ==
    [name |-> name, uuid |-> Unset, cidr |-> cidr, gateway |-> gateway, mtu |-> mtu]
Given(name, cidr, gateway) ==
    [name |-> name, uuid |-> "uuid", cidr |-> cidr, gateway |-> gateway, mtu |-> Unset]

First == {Made("n1", DefaultCIDR, Unset, Unset), Made("n1", DefaultCIDR, "a1", 9000),
          Given("n1", Unset, Unset)}
Second == {Made("n2", "c2", "a2", Unset)}
(* Each differs from one of First in one field.                              *)
Near == {Made("n1", DefaultCIDR, "a1", Unset), Made("n1", "c2", Unset, Unset),
         Made("n3", DefaultCIDR, Unset, Unset),
         [Given("n1", Unset, Unset) EXCEPT !.uuid = "other"]}
Wrong == {Made("n1", Unset, Unset, Unset), Made("n1", "junk", Unset, Unset),
          Made("n1", DefaultCIDR, "a2", Unset), Made("n1", DefaultCIDR, "junk", Unset),
          Given("n1", DefaultCIDR, Unset), Given("n1", Unset, "a1")}

NetworkLists ==
    {<<>>} \cup {<<n>> : n \in First \cup Near \cup Second \cup Wrong}
        \cup {<<n, m>> : n \in First, m \in Second} \cup {<<m, n>> : n \in First, m \in Second}
        \cup {<<Made("n1", DefaultCIDR, Unset, Unset), Made("n1", DefaultCIDR, "a1", 9000)>>}

FewNetworks ==
    {<<>>, <<Made("n1", DefaultCIDR, Unset, Unset)>>, <<Made("n2", "c2", "a2", Unset)>>,
     <<Made("n2", "c2", "a2", Unset), Made("n1", DefaultCIDR, Unset, Unset)>>}

On(networks, uuid, address) == [n \in networks |-> [uuid |-> uuid, address |-> address]]
Managed(gateway, interfaces) ==
    [uuid |-> Unset, internetGateway |-> gateway, interfaces |-> interfaces]
Adopted(gateway, interfaces) ==
    [uuid |-> "uuid", internetGateway |-> gateway, interfaces |-> interfaces]

Routers ==
    {Managed(TRUE, On({}, Unset, Unset)), Managed(TRUE, On({"n1"}, Unset, "a1")),
     Managed(FALSE, On({"n1"}, Unset, "a1")),
     Managed(TRUE, On({"n1"}, Unset, "a1") @@ On({"n2"}, Unset, "a2")),
     Managed(FALSE, On({"n1"}, Unset, "a2")), Managed(FALSE, On({"n1"}, Unset, Unset)),
     Managed(FALSE, On({"n1"}, "uuid", Unset)),
     Adopted(FALSE, On({"n1"}, "uuid", Unset)), Adopted(FALSE, On({"n1"}, "other", Unset)),
     Adopted(FALSE, On({"n1"}, Unset, "a1")),
     Adopted(FALSE, On({"n1"}, "uuid", "a1")), Adopted(TRUE, On({}, Unset, Unset))}

RouterLists ==
    {[r \in {} |-> Unset]} \cup {[r \in {"r1"} |-> router] : router \in Routers}
        \cup {[r \in {"r1", "r2"} |-> Managed(TRUE, On({"n1"}, Unset, "a1"))]}

NoSettings == [f \in LBSettings |-> Unset]

LBSpecs ==
    {[enabled |-> enabled, network |-> Unset, poolMemberNetwork |-> Unset, settings |-> settings] :
        enabled \in {Unset, FALSE},
        settings \in {NoSettings} \cup {[NoSettings EXCEPT ![f] = 443] : f \in {"apiServerPort", "delayS"}}}
    \cup {[enabled |-> Unset, network |-> network, poolMemberNetwork |-> members,
           settings |-> NoSettings] : network \in {Unset, "n1"}, members \in {Unset, "n1", "n2"}}

FIPSpecs ==
    {Unset} \cup [family : {Unset, "IPv4"}, address : {Unset, "a1", "junk"}]
        \cup {[family |-> "IPv6", address |-> Unset]}

Places == {<<"rma", Unset>>, <<"rma", "rma1">>, <<"rma", "rma2">>, <<"rma", "lpg1">>,
           <<"lpg", Unset>>, <<"lpg", "rma1">>}

NoEndpoint == [host |-> Unset, port |-> Unset]
Host1 == [host |-> "h1", port |-> 6443]
Host2 == [host |-> "h2", port |-> 6443]
Port2 == [host |-> "h1", port |-> 443]

Plain ==
    [region |-> "rma", zone |-> Unset, networks |-> <<>>, routers |-> [r \in {} |-> Unset],
     lb |-> [enabled |-> Unset, network |-> Unset, poolMemberNetwork |-> Unset,
             settings |-> NoSettings],
     fip |-> Unset, endpoint |-> NoEndpoint]

(* Every combination of the parts between which there is a rule. An update   *)
(* changes the networks, the routers or both, or another part.               *)
MCClusterSpecs ==
    {[Plain EXCEPT !.networks = n, !.routers = r] : n \in NetworkLists, r \in RouterLists}
        \cup {[Plain EXCEPT !.networks = n, !.lb = l, !.fip = f] :
                 n \in FewNetworks, l \in LBSpecs, f \in FIPSpecs}
        \cup {[Plain EXCEPT !.region = p[1], !.zone = p[2], !.endpoint = e] :
                 p \in Places, e \in {NoEndpoint, Host1}}

MCClusterEdits(spec) ==
    {[spec EXCEPT !.networks = n] : n \in NetworkLists}
        \cup {[spec EXCEPT !.routers = r] : r \in RouterLists}
        \cup {[spec EXCEPT !.networks = n, !.routers = r] : n \in FewNetworks, r \in RouterLists}
        \cup {[spec EXCEPT !.lb = l] : l \in LBSpecs}
        \cup {[spec EXCEPT !.fip = f] : f \in FIPSpecs}
        \cup {[spec EXCEPT !.region = p[1], !.zone = p[2]] : p \in Places}
        \cup {[spec EXCEPT !.endpoint = e] :
                 e \in IF spec.endpoint = NoEndpoint THEN {Host1} ELSE {NoEndpoint, Host2, Port2}}

-----------------------------------------------------------------------------
(* Machine specs: every list of up to two interfaces, every combination of   *)
(* what is fixed and every combination of what may change.                   *)
InterfaceSpecs ==
    [type : {Unset, "public"}, network : {Unset, "n1"}, family : {Unset, "IPv4", "DualStack"}]

PlainMachine ==
    [image |-> "debian", flavor |-> "flex", rootVolumeSize |-> 50, serverGroup |-> Unset,
     providerID |-> Unset, tags |-> {}, interfaces |-> <<>>]

MCMachineSpecs ==
    {[PlainMachine EXCEPT !.interfaces = list] :
        list \in {<<i>> : i \in InterfaceSpecs}
            \cup {<<i, j>> : i, j \in {k \in InterfaceSpecs : k.family = Unset}}}
    \cup {[PlainMachine EXCEPT !.image = "arch"], [PlainMachine EXCEPT !.rootVolumeSize = 60]}
    \cup {[PlainMachine EXCEPT !.flavor = flavor, !.serverGroup = group] :
             flavor \in {"flex", "gpu", "nano"}, group \in {Unset, "workers"}}
    \cup {[PlainMachine EXCEPT !.providerID = id, !.tags = tags] :
             id \in {Unset, "cloudscale://s1", "cloudscale://s2"},
             tags \in {{}, {"env"}, {"capcs-cluster-c"}}}
=============================================================================
