-------------------------- MODULE ClusterStateProofs --------------------------
(***************************************************************************)
(* Every ID that the cluster controller holds, in status or in memory, is  *)
(* one of a resource of that kind and name, and therefore it never deletes *)
(* what the spec names by UUID or address: for any networks, routers,      *)
(* interfaces and machines and in any environment.                         *)
(***************************************************************************)
EXTENDS ClusterNetwork, ClusterRouter, ClusterLoadBalancer, ClusterFloatingIP, TLAPS

Refs == Uuids \cup {None, Unanswered}

(* What may stand in the ID field of a key.                                  *)
IDs(k) == {u \in Refs : \/ u = None
                        \/ u = Unanswered /\ k \in InterfaceKeys
                        \/ u \in Uuids /\ u[1] = k}

Members == {u \in Uuids : u[1] \in MemberKeys}

(* An endpoint is the user's, that of the load balancer or the floating IP.  *)
Endpoints == {None, UserEndpoint} \cup {u \in Uuids : u[1] \in {LBKey, FIPKey}}

Clusters ==
    [phase : {"live", "deleting", "gone"}, owned : BOOLEAN, finalizer : BOOLEAN,
     endpoint : Endpoints, ids : [StatusKeys -> Refs],
     members : SUBSET Members, provisioned : BOOLEAN, cond : [Parts -> BOOLEAN],
     ready : BOOLEAN]

(* Every ID field holds a resource of its own key.                           *)
Keyed(o) == o \in Clusters /\ \A k \in StatusKeys : o.ids[k] \in IDs(k)

Locals ==
    [cpInit : BOOLEAN, net : [NetworkNames -> Refs], waiting : BOOLEAN,
     failed : BOOLEAN, lbPending : BOOLEAN, vip : {None} \cup {u \in Uuids : u[1] = LBKey},
     seen : [RouterNames -> SUBSET Uuids], detachFailed : BOOLEAN,
     gone : SUBSET NetworkNames, desired : [CPMachines -> Addresses \cup {None}]]

Resources ==
    [state : ResourceStates, parent : Refs \cup {ServerOf(c) : c \in CPMachines},
     attr : Refs \cup Addresses]

(* The create has taken effect.                                              *)
Landed(u) == cloud[u].state \notin {"unused", "pending"}

(* An interface belongs to the router and the network of its key.            *)
OfItsKey(u, r, n) ==
    /\ cloud[u].parent \in Uuids /\ cloud[u].parent[1] = RouterKey(r)
    /\ cloud[u].attr \in Uuids /\ cloud[u].attr[1] = NetworkKey(n)

(* What is given is there, and belongs to what is given.                     *)
CloudInv ==
    /\ cloud \in [Uuids -> Resources]
    /\ \A r \in RouterNames : \A n \in Range(Attach[r]) : \A u \in Uuids :
        u[1] = InterfaceKey(r, n) /\ cloud[u].state # "unused" => OfItsKey(u, r, n)
    /\ \A k \in PreExisting :
        /\ cloud[<<k, 0>>].state \in ExistingStates
        /\ k[1] # "fip" => cloud[<<k, 0>>].parent = PreExistingResource(k).parent

(* The interfaces kept of a router's answer are of its entry.                *)
SeenInv ==
    \A r \in RouterNames : \A u \in aux.seen[r] :
        Landed(u) /\ u[1] \in InterfaceKeysOf(r)

AuxInv == aux \in Locals /\ \A n \in NetworkNames : aux.net[n] \in IDs(NetworkKey(n))

ObjectInv == Keyed(obj) /\ Keyed(cache) /\ Keyed(mem) /\ Keyed(base)

WorldInv == cpInitialized \in BOOLEAN /\ addr \in [CPMachines -> Addresses \cup {None}]

(* The inductive invariant.                                                  *)
ResourceInv == ObjectInv /\ AuxInv /\ SeenInv /\ CloudInv /\ WorldInv

-----------------------------------------------------------------------------
(* Keys.                                                                     *)

(* The keys of networks, routers, interfaces, load balancer and floating IP. *)
LEMMA KeyFacts ==
    /\ \A n \in NetworkNames : NetworkKey(n) \in StatusKeys /\ SubnetKey(n) \in StatusKeys
    /\ \A r \in RouterNames : RouterKey(r) \in StatusKeys
    /\ InterfaceKeys \subseteq StatusKeys
    /\ \A r \in RouterNames : \A n \in Range(Attach[r]) :
        n \in NetworkNames /\ InterfaceKey(r, n) \in InterfaceKeys
    /\ LBEnabled => {LBKey, PoolKey, ListenerKey, MonitorKey} \subseteq StatusKeys
    /\ FIPWanted => FIPKey \in StatusKeys
<1>1. \A r \in RouterNames : Range(Attach[r]) \subseteq NetworkNames
  BY ClusterSpecAssumption
<1>2. \A r \in RouterNames : \A n \in Range(Attach[r]) :
        n \in NetworkNames /\ InterfaceKey(r, n) \in InterfaceKeys
  BY <1>1 DEF InterfaceKeys
<1>3. QED
  BY <1>2 DEF StatusKeys, NetworkKeys, RouterKeys, LBKeys, FIPKeys

(* A key is determined by its kind and name.                                 *)
LEMMA KeyKinds ==
    ASSUME NEW k \in StatusKeys
    PROVE  /\ k[1] = "network" => k[2] \in NetworkNames /\ k = NetworkKey(k[2])
           /\ k[1] = "subnet" => k[2] \in NetworkNames /\ k = SubnetKey(k[2])
           /\ k[1] = "router" => k[2] \in RouterNames /\ k = RouterKey(k[2])
           /\ k[1] = "fip" => k = FIPKey /\ FIPWanted
           /\ k[1] = "interface" => k \in InterfaceKeys
BY DEF StatusKeys, NetworkKeys, RouterKeys, InterfaceKeys, LBKeys, FIPKeys, NetworkKey,
       SubnetKey, RouterKey, InterfaceKey, LBKey, PoolKey, ListenerKey, MonitorKey, FIPKey

(* An interface key names a router of the spec and a network of its entry.   *)
LEMMA InterfaceKeyFacts ==
    ASSUME NEW k \in InterfaceKeys
    PROVE  /\ k[1] = "interface"
           /\ k[2][1] \in RouterNames /\ k[2][2] \in Range(Attach[k[2][1]])
           /\ k = InterfaceKey(k[2][1], k[2][2])
BY DEF InterfaceKeys, InterfaceKey

(* A UUID is a key with a serial number.                                     *)
LEMMA UuidFacts ==
    /\ \A u \in Uuids : u[1] \in Keys /\ u[2] \in 0..MaxCreates /\ u = <<u[1], u[2]>>
    /\ \A k \in Keys : <<k, 0>> \in Uuids
    /\ StatusKeys \subseteq Keys /\ MemberKeys \subseteq Keys
    /\ \A k \in MemberKeys : k[1] = "member"
BY ClusterSpecAssumption DEF Uuids, Keys, MemberKeys, MemberKey

(* What is given is a network, a router, an interface or the floating IP.    *)
LEMMA GivenFacts ==
    ASSUME NEW k \in PreExisting
    PROVE  /\ k \in StatusKeys /\ <<k, 0>> \in Uuids
           /\ k[1] \in {"network", "subnet", "router", "interface", "fip"}
           /\ k[1] = "interface" =>
                /\ k \in InterfaceKeys
                /\ RouterKey(k[2][1]) \in PreExisting
           /\ k[1] = "fip" => k = FIPKey
<1>1. k \in StatusKeys /\ <<k, 0>> \in Uuids
  BY ClusterSpecAssumption, UuidFacts DEF StatusKeys
<1>2. k[1] \in {"network", "subnet", "router", "interface", "fip"}
  BY ClusterSpecAssumption, InterfaceKeyFacts
     DEF NetworkKeys, RouterKeys, FIPKeys, NetworkKey, SubnetKey, RouterKey, FIPKey
<1>3. ASSUME k[1] = "interface"
      PROVE  k \in InterfaceKeys /\ RouterKey(k[2][1]) \in PreExisting
  <2>1. k \in InterfaceKeys
    BY <1>1, <1>3, KeyKinds
  <2> QED BY <2>1, InterfaceKeyFacts, ClusterGivenAssumption
<1>4. k[1] = "fip" => k = FIPKey
  BY <1>1, KeyKinds
<1> QED BY <1>1, <1>2, <1>3, <1>4

-----------------------------------------------------------------------------
(* Objects.                                                                  *)

(* A new object and a deleted one hold no ID.                                *)
LEMMA NewClusterKeyed == Keyed(NewCluster) /\ Keyed(GoneCluster)
<1>1. NewCluster \in Clusters
  BY DEF NewCluster, Clusters, Refs, Endpoints
<1>2. GoneCluster \in Clusters /\ GoneCluster.ids = NewCluster.ids
  BY <1>1 DEF GoneCluster, Clusters
<1>3. \A k \in StatusKeys : NewCluster.ids[k] \in IDs(k)
  BY DEF NewCluster, IDs, Refs
<1> QED BY <1>1, <1>2, <1>3 DEF Keyed

(* What may stand in an ID field is a reference.                             *)
LEMMA IDsAreRefs == \A k : IDs(k) \subseteq Refs
BY DEF IDs, Refs

(* The ID fields as a whole are replaced.                                    *)
LEMMA NewIDs ==
    ASSUME NEW o, Keyed(o), NEW ids, DOMAIN ids = StatusKeys,
           ids = [k \in StatusKeys |-> ids[k]],
           \A k \in StatusKeys : ids[k] \in IDs(k)
    PROVE  /\ Keyed([o EXCEPT !.ids = ids])
           /\ [o EXCEPT !.ids = ids].finalizer = o.finalizer
<1>1. ids \in [StatusKeys -> Refs]
  BY IDsAreRefs
<1>2. [o EXCEPT !.ids = ids] \in Clusters
  BY <1>1 DEF Keyed, Clusters
<1>3. [o EXCEPT !.ids = ids].ids = ids
  BY DEF Keyed, Clusters
<1> QED BY <1>2, <1>3 DEF Keyed, Clusters

(* Recording an ID of the key in its field.                                  *)
LEMMA RecordKeyed ==
    ASSUME NEW o, Keyed(o), NEW k \in StatusKeys, NEW u \in IDs(k)
    PROVE  Keyed(Record(o, k, u))
<1> DEFINE ids == [o.ids EXCEPT ![k] = u]
<1>1. o \in Clusters /\ o.ids \in [StatusKeys -> Refs]
  BY DEF Keyed, Clusters
<1>2. DOMAIN ids = StatusKeys /\ ids = [j \in StatusKeys |-> ids[j]]
  BY <1>1
<1>3. \A j \in StatusKeys : ids[j] \in IDs(j)
  BY <1>1 DEF Keyed
<1>4. Record(o, k, u) = [o EXCEPT !.ids = ids]
  BY <1>1 DEF Record, Clusters
<1> HIDE DEF ids
<1> QED BY <1>2, <1>3, <1>4, NewIDs

(* Setting conditions changes no ID.                                         *)
LEMMA ConditionsKeyed ==
    ASSUME NEW o, Keyed(o)
    PROVE  /\ \A p, b : b \in BOOLEAN => Keyed(setCondition(o, p, b))
           /\ Keyed(setReadyCondition(o))
<1>1. o \in Clusters
  BY DEF Keyed
<1>2. ASSUME NEW p, NEW b \in BOOLEAN PROVE Keyed(setCondition(o, p, b))
  <2>1. [o.cond EXCEPT ![p] = b] \in [Parts -> BOOLEAN]
    BY <1>1, Zenon DEF Clusters
  <2>2. setCondition(o, p, b) = [o EXCEPT !.cond = [o.cond EXCEPT ![p] = b]]
    BY <1>1, Zenon DEF setCondition, Clusters
  <2>3. setCondition(o, p, b) \in Clusters /\ setCondition(o, p, b).ids = o.ids
    BY <1>1, <2>1, <2>2 DEF Clusters
  <2> QED BY <2>3 DEF Keyed
<1>3. Keyed(setReadyCondition(o))
  <2>1. (\A p \in Parts : o.cond[p]) \in BOOLEAN
    OBVIOUS
  <2>2. setReadyCondition(o) \in Clusters /\ setReadyCondition(o).ids = o.ids
    BY <1>1, <2>1, Zenon DEF setReadyCondition, Clusters
  <2> QED BY <2>2 DEF Keyed
<1> QED BY <1>2, <1>3

-----------------------------------------------------------------------------
(* Local variables.                                                          *)

LocalInv == Keyed(mem) /\ Keyed(base) /\ AuxInv /\ SeenInv

(* A change of the cloud that keeps its invariant, and no resource vanishes  *)
(* without a trace.                                                          *)
CloudKeeps == CloudInv' /\ \A u \in Uuids : Landed(u) => Landed(u)'

(* A reconcile begins and ends with nothing in its local variables.          *)
LEMMA NoAuxFacts ==
    /\ NoAux \in Locals
    /\ \A n \in NetworkNames : NoAux.net[n] \in IDs(NetworkKey(n))
    /\ \A r \in RouterNames : NoAux.seen[r] = {}
<1>1. NoAux \in Locals
  BY DEF NoAux, Locals, Refs
<1> QED BY <1>1 DEF NoAux, IDs, Refs

(* Return resets the local variables.                                        *)
LEMMA ReturnLocal ==
    ASSUME ObjectInv, NEW o, Keyed(o), NEW res, Return(o, res)
    PROVE  LocalInv'
<1>1. aux' = NoAux /\ mem' = o /\ base' = base
  BY DEF Return
<1>2. AuxInv' /\ SeenInv'
  BY <1>1, NoAuxFacts DEF AuxInv, SeenInv
<1>3. Keyed(mem)' /\ Keyed(base)'
  BY <1>1 DEF ObjectInv, Keyed
<1> QED BY <1>2, <1>3 DEF LocalInv

(* So does returning out of a part.                                          *)
LEMMA ReturnFromLocal ==
    ASSUME ObjectInv, NEW o, Keyed(o), NEW p, NEW b \in BOOLEAN, NEW res,
           ReturnFrom(p, b, o, res)
    PROVE  LocalInv'
BY ReturnLocal, ConditionsKeyed DEF ReturnFrom

(* The variables of the loops are kept, or only a flag changes.              *)
LEMMA SameLoops ==
    ASSUME AuxInv, SeenInv, CloudKeeps, aux' \in Locals,
           aux'.net = aux.net, aux'.seen = aux.seen
    PROVE  AuxInv' /\ SeenInv'
<1>1. AuxInv'
  BY DEF AuxInv
<1>2. \A r \in RouterNames : \A u \in aux.seen[r] : u \in Uuids
  BY DEF AuxInv, Locals
<1>3. SeenInv'
  BY <1>2 DEF SeenInv, CloudKeeps
<1> QED BY <1>1, <1>3

(* The flags of the local variables are set.                                 *)
LEMMA Flags ==
    ASSUME AuxInv, NEW b \in BOOLEAN
    PROVE  \A a \in {[aux EXCEPT !.waiting = b], [aux EXCEPT !.failed = b],
                     [aux EXCEPT !.detachFailed = b],
                     [aux EXCEPT !.failed = TRUE, !.detachFailed = FALSE]} :
             a \in Locals /\ a.net = aux.net /\ a.seen = aux.seen
<1>0. aux \in Locals
  BY DEF AuxInv
<1>1. [aux EXCEPT !.waiting = b] \in Locals
  BY <1>0, Zenon DEF Locals
<1>2. [aux EXCEPT !.failed = b] \in Locals
  BY <1>0, Zenon DEF Locals
<1>3. [aux EXCEPT !.detachFailed = b] \in Locals
  BY <1>0, Zenon DEF Locals
<1>4. [aux EXCEPT !.failed = TRUE, !.detachFailed = FALSE] \in Locals
  BY <1>0, Zenon DEF Locals
<1>5. /\ [aux EXCEPT !.waiting = b].net = aux.net
      /\ [aux EXCEPT !.waiting = b].seen = aux.seen
      /\ [aux EXCEPT !.failed = b].net = aux.net
      /\ [aux EXCEPT !.failed = b].seen = aux.seen
      /\ [aux EXCEPT !.detachFailed = b].net = aux.net
      /\ [aux EXCEPT !.detachFailed = b].seen = aux.seen
      /\ [aux EXCEPT !.failed = TRUE, !.detachFailed = FALSE].net = aux.net
      /\ [aux EXCEPT !.failed = TRUE, !.detachFailed = FALSE].seen = aux.seen
  BY <1>0, Zenon DEF Locals
<1> QED BY Zenon, <1>1, <1>2, <1>3, <1>4, <1>5

-----------------------------------------------------------------------------
(* The cloud.                                                                *)

(* A step that leaves the cloud alone.                                       *)
LEMMA CloudSame ==
    ASSUME CloudInv, UNCHANGED cloud
    PROVE  CloudKeeps
BY DEF CloudInv, CloudKeeps, OfItsKey, Landed

(* A resource is made, and an interface in the router and network of its key.*)
LEMMA MakeUnused ==
    ASSUME CloudInv, NEW k, NEW u \in Uuids, u[1] = k, cloud[u].state = "unused",
           NEW x \in Resources, x.state # "unused", cloud' = [cloud EXCEPT ![u] = x],
           k \in InterfaceKeys =>
                /\ x.parent \in Uuids /\ x.parent[1] = RouterKey(k[2][1])
                /\ x.attr \in Uuids /\ x.attr[1] = NetworkKey(k[2][2])
    PROVE  CloudKeeps
<1>2. cloud' \in [Uuids -> Resources]
  BY DEF CloudInv
<1>3. \A v \in Uuids : cloud'[v] = IF v = u THEN x ELSE cloud[v]
  BY DEF CloudInv
<1>4. ASSUME NEW r \in RouterNames, NEW n \in Range(Attach[r]), NEW v \in Uuids,
             v[1] = InterfaceKey(r, n), cloud'[v].state # "unused"
      PROVE  OfItsKey(v, r, n)'
  <2>1. CASE v = u
    <3>1. k = InterfaceKey(r, n) /\ k \in InterfaceKeys
      BY <1>4, <2>1, KeyFacts
    <3>2. k[2][1] = r /\ k[2][2] = n
      BY <3>1 DEF InterfaceKey
    <3> QED BY <1>3, <2>1, <3>1, <3>2 DEF OfItsKey
  <2>2. CASE v # u
    BY <1>3, <1>4, <2>2 DEF CloudInv, OfItsKey
  <2> QED BY <2>1, <2>2
<1>5. ASSUME NEW j \in PreExisting PROVE cloud'[<<j, 0>>] = cloud[<<j, 0>>]
  <2>1. <<j, 0>> \in Uuids /\ cloud[<<j, 0>>].state # "unused"
    BY GivenFacts DEF CloudInv, ExistingStates
  <2> QED BY <1>3, <2>1
<1>6. CloudInv'
  BY <1>2, <1>4, <1>5 DEF CloudInv, PreExistingResource
<1> QED BY <1>3, <1>6 DEF CloudKeeps, Landed

(* The next UUID of a key is one that was not used.                          *)
LEMMA Make ==
    ASSUME CloudInv, NEW k, NEW u \in Fresh(k), NEW x \in Resources,
           x.state # "unused", cloud' = [cloud EXCEPT ![u] = x],
           k \in InterfaceKeys =>
                /\ x.parent \in Uuids /\ x.parent[1] = RouterKey(k[2][1])
                /\ x.attr \in Uuids /\ x.attr[1] = NetworkKey(k[2][2])
    PROVE  CloudKeeps
BY Zenon, MakeUnused DEF Fresh

(* Resources change in their state, their target or their address only, as   *)
(* far as they are there.                                                    *)
LEMMA Change ==
    ASSUME CloudInv, cloud' \in [Uuids -> Resources],
           \A v \in Uuids : cloud'[v].state # cloud[v].state =>
                /\ cloud[v].state # "unused"
                /\ Landed(v) => Landed(v)'
                /\ (\E k \in PreExisting : v = <<k, 0>>) =>
                        cloud'[v].state \in ExistingStates,
           \A v \in Uuids : v[1][1] # "fip" => cloud'[v].parent = cloud[v].parent,
           \A v \in Uuids : v[1] \in InterfaceKeys => cloud'[v].attr = cloud[v].attr
    PROVE  CloudKeeps
<1>1. ASSUME NEW r \in RouterNames, NEW n \in Range(Attach[r]), NEW v \in Uuids,
             v[1] = InterfaceKey(r, n), cloud'[v].state # "unused"
      PROVE  OfItsKey(v, r, n)'
  <2>1. v[1] \in InterfaceKeys /\ v[1][1] # "fip"
    BY <1>1, KeyFacts DEF InterfaceKey
  <2>2. OfItsKey(v, r, n)
    BY <1>1 DEF CloudInv
  <2> QED BY <2>1, <2>2 DEF OfItsKey
<1>2. ASSUME NEW k \in PreExisting
      PROVE  /\ cloud'[<<k, 0>>].state \in ExistingStates
             /\ k[1] # "fip" => cloud'[<<k, 0>>].parent = PreExistingResource(k).parent
  <2>1. <<k, 0>> \in Uuids /\ <<k, 0>>[1] = k
    BY GivenFacts
  <2> QED BY <2>1 DEF CloudInv
<1>3. CloudInv'
  BY <1>1, <1>2 DEF CloudInv, PreExistingResource
<1> QED BY <1>3 DEF CloudKeeps, Landed

(* Nothing that is given is below something else than itself and what is     *)
(* given, but for the floating IP, which outlives its target.                *)
LEMMA EraseKeeps ==
    ASSUME CloudInv, NEW u, \A k \in PreExisting : u # <<k, 0>>,
           cloud' = Erase(u)
    PROVE  CloudKeeps
<1>1. ASSUME NEW v \in Uuids
      PROVE  /\ cloud'[v] \in Resources
             /\ cloud'[v].parent = cloud[v].parent /\ cloud'[v].attr = cloud[v].attr
             /\ cloud'[v].state # cloud[v].state =>
                    /\ Exists(u) /\ v \in Below(u) /\ (v = u \/ v[1][1] # "fip")
                    /\ Exists(v) /\ cloud'[v].state \in {"leaving", "deleted"}
  <2>1. cloud[v] \in Resources
    BY DEF CloudInv
  <2>2. cloud'[v] = IF Exists(u) /\ v \in Below(u) /\ (v = u \/ v[1][1] # "fip") /\ Exists(v)
                    THEN [cloud[v] EXCEPT !.state = IF v[1] = LBKey THEN "leaving" ELSE "deleted"]
                    ELSE cloud[v]
    BY DEF Erase
  <2> HIDE DEF Below, Exists
  <2> QED BY <2>1, <2>2 DEF Resources, ResourceStates
<1>2. cloud' \in [Uuids -> Resources]
  BY <1>1 DEF Erase
<1>3. ASSUME NEW k \in PreExisting, k[1] # "fip", Exists(u) PROVE <<k, 0>> \notin Below(u)
  <2> DEFINE v == <<k, 0>>
             p == cloud[v].parent
  <2>1. v \in Uuids /\ v # u /\ u # None
    BY <1>3, GivenFacts, ClusterNoneAssumption DEF Exists
  <2>2. CASE k[1] # "interface"
    <3>1. p = None
      BY Zenon, <1>3, <2>2 DEF CloudInv, PreExistingResource
    <3> QED BY <2>1, <3>1, ClusterNoneAssumption DEF Below
  <2>3. CASE k[1] = "interface"
    <3> DEFINE j == RouterKey(k[2][1])
    <3>1. p = <<j, 0>> /\ j \in PreExisting
      BY Zenon, <1>3, <2>3, GivenFacts DEF CloudInv, PreExistingResource
    <3>2. p # u /\ cloud[p].parent = None
      BY Zenon, <3>1 DEF CloudInv, PreExistingResource, RouterKey
    <3> QED BY <2>1, <3>2, ClusterNoneAssumption DEF Below
  <2> QED BY <2>2, <2>3
<1>4. ASSUME NEW v \in Uuids, cloud'[v].state # cloud[v].state
      PROVE  /\ cloud[v].state # "unused"
             /\ Landed(v)'
             /\ ~ \E k \in PreExisting : v = <<k, 0>>
  <2>1. /\ Exists(u) /\ v \in Below(u) /\ (v = u \/ v[1][1] # "fip")
        /\ Exists(v) /\ cloud'[v].state \in {"leaving", "deleted"}
    BY <1>1, <1>4
  <2>2. ~ \E k \in PreExisting : v = <<k, 0>>
    BY <1>3, <2>1
  <2>3. cloud[v].state # "unused" /\ Landed(v)'
    BY <2>1 DEF Landed, Exists, ExistingStates
  <2> QED BY <2>2, <2>3
<1> QED BY <1>1, <1>2, <1>4, Change

-----------------------------------------------------------------------------
(* A step of the handlers changes nothing but the reconcile and the cloud.   *)
LEMMA Handled ==
    ASSUME ResourceInv, CloudKeeps, UNCHANGED <<obj, cache, addr, cpInitialized>>,
           \/ LocalInv'
           \/ /\ Keyed(mem') /\ base' = base
              /\ aux' = aux \/ (aux' \in Locals /\ aux'.net = aux.net /\ aux'.seen = aux.seen)
    PROVE  ResourceInv'
<1>1. Keyed(obj)' /\ Keyed(cache)' /\ WorldInv'
  BY DEF ResourceInv, ObjectInv, WorldInv, Keyed
<1>2. LocalInv'
  <2>1. CASE Keyed(mem') /\ base' = base
             /\ (aux' = aux \/ (aux' \in Locals /\ aux'.net = aux.net /\ aux'.seen = aux.seen))
    <3>1. AuxInv' /\ SeenInv'
      BY <2>1, SameLoops DEF ResourceInv, AuxInv
    <3> QED BY <2>1, <3>1 DEF LocalInv, ResourceInv, ObjectInv, Keyed
  <2> QED BY <2>1
<1> QED BY <1>1, <1>2 DEF ResourceInv, ObjectInv, LocalInv, CloudKeeps

(* What is known of the reconcile before a step.                             *)
LEMMA Before ==
    ASSUME ResourceInv
    PROVE  /\ CloudInv /\ ObjectInv /\ AuxInv /\ Keyed(mem) /\ mem \in Clusters
           /\ aux \in Locals
           /\ \A k \in StatusKeys : mem.ids[k] \in IDs(k)
BY DEF ResourceInv, ObjectInv, AuxInv, Keyed

(* Nothing is deleted under an ID of a key that is not given.                *)
LEMMA EraseManaged ==
    ASSUME CloudInv, NEW k, Managed(k), NEW u \in IDs(k), cloud' = Erase(u)
    PROVE  CloudKeeps
<1>1. ASSUME NEW j \in PreExisting, u = <<j, 0>> PROVE FALSE
  <2>1. u \in Uuids /\ u[1] = j
    BY <1>1, GivenFacts
  <2> QED BY <2>1, ClusterNoneAssumption DEF IDs, Managed
<1> QED BY <1>1, EraseKeeps

-----------------------------------------------------------------------------
(* Routers.                                                                  *)

(* The interfaces in an answer about a router are those of its entry.        *)
LEMMA InterfacesOfFacts ==
    ASSUME CloudInv, NEW r \in RouterNames, NEW u \in Uuids, u[1] = RouterKey(r),
           NEW v \in InterfacesOf(u)
    PROVE  v \in Uuids /\ Landed(v) /\ v[1] \in InterfaceKeysOf(r)
<1>1. v \in Uuids /\ v[1] \in InterfaceKeys /\ cloud[v].parent = u /\ Landed(v)
      /\ cloud[v].state # "unused"
  BY DEF InterfacesOf, Exists, ExistingStates, Landed
<1>2. PICK q \in RouterNames : \E n \in Range(Attach[q]) : v[1] = InterfaceKey(q, n)
  BY <1>1, InterfaceKeyFacts
<1>3. PICK n \in Range(Attach[q]) : v[1] = InterfaceKey(q, n)
  BY <1>2
<1>4. u[1] = RouterKey(q)
  BY <1>1, <1>3 DEF CloudInv, OfItsKey
<1>5. q = r
  BY <1>4 DEF RouterKey
<1> QED BY <1>1, <1>3, <1>5 DEF InterfaceKeysOf

(* What reconcileRouters keeps of an answer is of the router's entry.        *)
LEMMA SeenAnswer ==
    ASSUME ResourceInv, CloudKeeps, NEW r \in RouterNames, NEW u \in Uuids,
           u[1] = RouterKey(r), aux' = [aux EXCEPT !.seen[r] = InterfacesOf(u)]
    PROVE  AuxInv' /\ SeenInv'
<1> DEFINE S == InterfacesOf(u)
<1>0. \A v \in S : v \in Uuids /\ Landed(v) /\ v[1] \in InterfaceKeysOf(r)
  BY InterfacesOfFacts, Before
<1> HIDE DEF S
<1>1. aux \in Locals /\ aux' = [aux EXCEPT !.seen[r] = S]
  BY Before DEF S
<1>2. [aux.seen EXCEPT ![r] = S] \in [RouterNames -> SUBSET Uuids]
  BY <1>0, <1>1 DEF Locals
<1>3. aux' = [aux EXCEPT !.seen = [aux.seen EXCEPT ![r] = S]]
  BY <1>1 DEF Locals
<1>4. aux' \in Locals /\ aux'.net = aux.net /\ aux'.seen = [aux.seen EXCEPT ![r] = S]
  BY <1>1, <1>2, <1>3 DEF Locals
<1>5. AuxInv'
  BY <1>4 DEF ResourceInv, AuxInv
<1>6. ASSUME NEW q \in RouterNames, NEW v \in aux'.seen[q]
      PROVE  Landed(v)' /\ v[1] \in InterfaceKeysOf(q)
  <2>1. v \in Uuids /\ Landed(v) /\ v[1] \in InterfaceKeysOf(q)
    BY <1>0, <1>1, <1>4, <1>6 DEF ResourceInv, SeenInv, Locals
  <2> QED BY <2>1 DEF CloudKeeps
<1> QED BY <1>5, <1>6 DEF SeenInv

(* A router is found: its ID is recorded, its interfaces are kept.           *)
LEMMA RouterResolvedLocal ==
    ASSUME ResourceInv, CloudKeeps, NEW r \in RouterNames, NEW u \in Uuids,
           u[1] = RouterKey(r), RouterResolved(r, u), UNCHANGED base
    PROVE  LocalInv'
<1>1. Keyed(mem') /\ Keyed(base')
  <2>1. RouterKey(r) \in StatusKeys /\ u \in IDs(RouterKey(r))
    BY KeyFacts DEF IDs, Refs
  <2> QED BY <2>1, Before, RecordKeyed DEF RouterResolved, ObjectInv
<1>2. AuxInv' /\ SeenInv'
  BY Zenon, SeenAnswer, Before, Flags, SameLoops DEF RouterResolved, ResourceInv
<1> QED BY <1>1, <1>2 DEF LocalInv

(* The interface of an entry that is there is of its key.                    *)
LEMMA LiveFacts ==
    ASSUME ResourceInv, NEW r \in RouterNames, NEW n \in Range(Attach[r])
    PROVE  \A u \in Live(r, n) : u \in Uuids /\ u[1] = InterfaceKey(r, n)
<1> SUFFICES ASSUME NEW u \in Live(r, n) PROVE u \in Uuids /\ u[1] = InterfaceKey(r, n)
  OBVIOUS
<1>1. u \in aux.seen[r] /\ cloud[u].attr = mem.ids[NetworkKey(n)]
  BY DEF Live
<1>2. u \in Uuids /\ Landed(u) /\ u[1] \in InterfaceKeysOf(r)
  BY <1>1, Before DEF ResourceInv, SeenInv, Locals
<1>3. PICK m \in Range(Attach[r]) : u[1] = InterfaceKey(r, m)
  BY <1>2 DEF InterfaceKeysOf
<1>4. cloud[u].attr \in Uuids /\ cloud[u].attr[1] = NetworkKey(m)
  BY <1>2, <1>3, Before DEF CloudInv, OfItsKey, Landed
<1>5. mem.ids[NetworkKey(n)] \in IDs(NetworkKey(n))
  BY Before, KeyFacts
<1>6. m = n
  BY <1>1, <1>4, <1>5, ClusterNoneAssumption DEF IDs, NetworkKey
<1> QED BY <1>2, <1>3, <1>6

(* adoptRouter, readRouter, deleteRouter and its failure.                    *)
LEMMA RouterSteps ==
    ASSUME ResourceInv, NEW r \in RouterNames,
           \/ adoptRouter(r) \/ readRouter(r)
           \/ deleteRouter(r) \/ deleteRouterFails(r)
    PROVE  ResourceInv'
<1> DEFINE k == RouterKey(r)
<1>0. k \in StatusKeys /\ mem.ids[k] \in IDs(k)
  BY KeyFacts, Before
<1>1. UNCHANGED <<obj, cache, addr, cpInitialized>>
  BY Zenon DEF adoptRouter, readRouter, deleteRouter, deleteRouterFails, outside, k8s, world
<1>2. CASE adoptRouter(r)
  <2>1. CloudKeeps
    BY <1>2, Before, CloudSame DEF adoptRouter
  <2>2. CASE RouterResolved(r, <<k, 0>>) /\ UNCHANGED base
    <3>1. <<k, 0>> \in Uuids /\ <<k, 0>>[1] = k
      BY <1>0, UuidFacts
    <3> QED BY <1>1, <2>1, <2>2, <3>1, RouterResolvedLocal, Handled
  <2>3. CASE ReturnFrom("router", FALSE, mem, "error")
    BY Zenon, <1>1, <2>1, <2>3, Before, ReturnFromLocal, Handled
  <2> QED BY Zenon, <1>2, <2>2, <2>3 DEF adoptRouter
<1>3. ASSUME NEW ks PROVE Keyed(DropEntries(mem, ks))
  <2> DEFINE ids == [j \in StatusKeys |-> IF j \in ks THEN None ELSE mem.ids[j]]
  <2>1. \A j \in StatusKeys : ids[j] \in IDs(j)
    BY Before DEF IDs, Refs
  <2>2. DOMAIN ids = StatusKeys /\ ids = [j \in StatusKeys |-> ids[j]]
    OBVIOUS
  <2>3. DropEntries(mem, ks) = [mem EXCEPT !.ids = ids]
    BY DEF DropEntries
  <2> HIDE DEF ids
  <2> QED BY <2>1, <2>2, <2>3, Before, NewIDs
<1>4. CASE readRouter(r)
  <2>1. CloudKeeps /\ base' = base
    BY <1>4, Before, CloudSame DEF readRouter
  <2>2. CASE aux' = aux
    <3>1. Keyed(mem')
      BY <1>3, <1>4, Before DEF readRouter
    <3> QED BY <1>1, <2>1, <2>2, <3>1, Handled
  <2>3. CASE aux' # aux
    <3>1. /\ mem' = mem /\ Exists(mem.ids[k])
          /\ aux' = [aux EXCEPT !.seen[r] = InterfacesOf(mem.ids[k])]
      BY <1>4, <2>3 DEF readRouter
    <3>2. mem.ids[k] \in Uuids /\ mem.ids[k][1] = k
      BY <1>0, <3>1, ClusterNoneAssumption DEF Exists, IDs
    <3>3. LocalInv'
      BY <2>1, <3>1, <3>2, SeenAnswer, Before DEF LocalInv, ObjectInv
    <3> QED BY <1>1, <2>1, <3>3, Handled
  <2> QED BY <2>2, <2>3
<1>5. CASE deleteRouter(r) \/ deleteRouterFails(r)
  <2>1. CloudKeeps
    <3>1. cloud' = cloud \/ (Managed(k) /\ cloud' = Erase(mem.ids[k]))
      BY <1>5 DEF deleteRouter, deleteRouterFails
    <3> QED BY <1>0, <3>1, Before, CloudSame, EraseManaged
  <2>2. Keyed(mem') /\ base' = base
    BY <1>3, <1>5, Before DEF deleteRouter, deleteRouterFails
  <2>3. \/ aux' = aux
        \/ aux' = [aux EXCEPT !.failed = TRUE]
        \/ aux' = [aux EXCEPT !.failed = TRUE, !.detachFailed = FALSE]
    BY <1>5 DEF deleteRouter, deleteRouterFails
  <2> QED BY Zenon, <1>1, <2>1, <2>2, <2>3, Before, Flags, Handled
<1> QED BY <1>2, <1>4, <1>5

(* The interface that is made is of its key.                                 *)
LEMMA MakeInterface ==
    ASSUME ResourceInv, NEW r \in RouterNames, NEW n \in Range(Attach[r]), MayAttach(r, n),
           NEW u \in Fresh(InterfaceKey(r, n)), NEW s \in {"up", "pending"},
           cloud' = [cloud EXCEPT ![u] = Interface(r, n, s)]
    PROVE  CloudKeeps
<1> DEFINE x == Interface(r, n, s)
           p == mem.ids[RouterKey(r)]
           a == mem.ids[NetworkKey(n)]
<1>1. p \in IDs(RouterKey(r)) /\ a \in IDs(NetworkKey(n)) /\ p \in Uuids /\ a \in Uuids
  BY Before, KeyFacts DEF MayAttach, Exists
<1>2. p[1] = RouterKey(r) /\ a[1] = NetworkKey(n)
  BY <1>1, ClusterNoneAssumption DEF IDs
<1>3. x \in Resources /\ x.state = s /\ x.parent = p /\ x.attr = a
  BY <1>1 DEF Interface, Resources, ResourceStates, ExistingStates, Refs
<1>4. InterfaceKey(r, n)[2][1] = r /\ InterfaceKey(r, n)[2][2] = n
  BY DEF InterfaceKey
<1> HIDE DEF x, p, a
<1> QED BY Zenon, <1>1, <1>2, <1>3, <1>4, Before, Make DEF x

(* The ID of an entry is that of an interface of its key.                    *)
LEMMA EntryInterfaceFacts ==
    ASSUME ResourceInv, NEW r \in RouterNames, NEW n \in Range(Attach[r]),
           NEW u \in EntryInterface(r, n, InterfaceKey(r, n))
    PROVE  u \in IDs(InterfaceKey(r, n))
<1>1. mem.ids[InterfaceKey(r, n)] \in IDs(InterfaceKey(r, n))
  BY Before, KeyFacts
<1> QED BY <1>1, LiveFacts DEF EntryInterface, IDs, Refs

(* The steps that adopt, claim, attach and detach an interface.              *)
LEMMA InterfaceSteps ==
    ASSUME ResourceInv, NEW r \in RouterNames, NEW n \in Range(Attach[r]),
           \/ adoptRouterInterface(r, n) \/ claimRouterInterface(r, n)
           \/ createRouterInterface(r, n) \/ createRouterInterfaceTimeout(r, n)
           \/ createRouterInterfaceFails(r, n)
           \/ detachInterface(r, n) \/ detachInterfaceFails(r, n)
    PROVE  ResourceInv'
<1> DEFINE k == InterfaceKey(r, n)
<1>0. k \in StatusKeys /\ \A u \in IDs(k) : Keyed(Record(mem, k, u))
  BY KeyFacts, Before, RecordKeyed
<1>1. UNCHANGED <<obj, cache, addr, cpInitialized>>
  BY Zenon DEF adoptRouterInterface, claimRouterInterface, createRouterInterface,
         createRouterInterfaceTimeout, createRouterInterfaceFails, detachInterface,
         detachInterfaceFails, outside, k8s, world
<1>2. None \in IDs(k) /\ Unanswered \in IDs(k) /\ \A u \in Uuids : u[1] = k => u \in IDs(k)
  BY KeyFacts DEF IDs, Refs
<1>3. CASE adoptRouterInterface(r, n)
  <2>1. CloudKeeps
    BY <1>3, Before, CloudSame DEF adoptRouterInterface
  <2>2. <<k, 0>> \in Live(r, n) => <<k, 0>> \in IDs(k)
    BY <1>2, LiveFacts
  <2> QED BY Zenon, <1>0, <1>1, <1>3, <2>1, <2>2, Before, ReturnFromLocal, Handled
          DEF adoptRouterInterface
<1>4. CASE claimRouterInterface(r, n)
  <2>1. CloudKeeps
    BY <1>4, Before, CloudSame DEF claimRouterInterface
  <2>2. \A u \in Live(r, n) : u \in IDs(k)
    BY <1>2, LiveFacts
  <2> QED BY Zenon, <1>0, <1>1, <1>4, <2>1, <2>2, Before, ReturnFromLocal, Handled
          DEF claimRouterInterface
<1>5. CASE createRouterInterface(r, n)
  <2>1. PICK u \in Fresh(k) : /\ cloud' = [cloud EXCEPT ![u] = Interface(r, n, "up")]
                              /\ mem' = Record(mem, k, u)
    BY Zenon, <1>5 DEF createRouterInterface
  <2>2. CloudKeeps
    BY ZenonT(30), <1>5, <2>1, MakeInterface DEF createRouterInterface
  <2>3. Keyed(mem')
    BY <1>0, <1>2, <2>1 DEF Fresh
  <2> QED BY <1>1, <1>5, <2>2, <2>3, Handled DEF createRouterInterface
<1>6. CASE createRouterInterfaceTimeout(r, n)
  <2>1. CloudKeeps
    BY <1>6, Before, CloudSame, MakeInterface DEF createRouterInterfaceTimeout
  <2>2. mem' = Record(mem, k, Unanswered) /\ base' = base
        /\ aux' = [aux EXCEPT !.waiting = TRUE]
    BY <1>6 DEF createRouterInterfaceTimeout
  <2> QED BY Zenon, <1>0, <1>1, <1>2, <2>1, <2>2, Before, Flags, Handled
<1>7. CASE createRouterInterfaceFails(r, n)
  <2>1. CloudKeeps
    BY <1>7, Before, CloudSame DEF createRouterInterfaceFails
  <2> QED BY Zenon, <1>0, <1>1, <1>2, <1>7, <2>1, Before, ReturnFromLocal, Handled
          DEF createRouterInterfaceFails
<1>8. CASE detachInterface(r, n) \/ detachInterfaceFails(r, n)
  <2>2. \A u \in EntryInterface(r, n, k) : u \in IDs(k)
    BY EntryInterfaceFacts
  <2>3. \/ cloud' = cloud
        \/ /\ Managed(k)
           /\ \E u \in EntryInterface(r, n, k) : cloud' = Erase(u)
    <3>1. k \in ManagedEntries(r) => Managed(k)
      BY DEF ManagedEntries
    <3>2. CASE detachInterface(r, n)
      BY Zenon, <3>1, <3>2 DEF detachInterface
    <3>3. CASE detachInterfaceFails(r, n)
      BY <3>1, <3>3 DEF detachInterfaceFails
    <3> QED BY <1>8, <3>2, <3>3
  <2>4. CloudKeeps
    <3>1. CASE cloud' = cloud
      BY <3>1, Before, CloudSame
    <3>2. CASE Managed(k) /\ \E u \in EntryInterface(r, n, k) : cloud' = Erase(u)
      BY <2>2, <3>2, Before, EraseManaged
    <3> QED BY <2>3, <3>1, <3>2
  <2>5. Keyed(mem') /\ base' = base
    BY <1>0, <1>2, <1>8, <2>2, Before DEF detachInterface, detachInterfaceFails
  <2>6. aux' = aux \/ aux' = [aux EXCEPT !.detachFailed = TRUE]
    BY <1>8 DEF detachInterface, detachInterfaceFails
  <2> QED BY Zenon, <1>1, <2>4, <2>5, <2>6, Before, Flags, Handled
<1> QED BY <1>3, <1>4, <1>5, <1>6, <1>7, <1>8

(* The end of reconcileRouters and that of the deletion of the routers.      *)
LEMMA RouterEnds ==
    ASSUME ResourceInv, routersReconciled \/ routersDeleted
    PROVE  ResourceInv'
<1>1. UNCHANGED <<obj, cache, addr, cpInitialized>> /\ CloudKeeps
  BY Zenon, Before, CloudSame DEF routersReconciled, routersDeleted, outside, k8s, world
<1>2. Keyed(setCondition(mem, "router", TRUE)) /\ Keyed(setCondition(mem, "router", FALSE))
  BY Zenon, Before, ConditionsKeyed
<1>3. CASE routersReconciled
  BY Zenon, <1>1, <1>2, <1>3, Before, ReturnFromLocal, Handled DEF routersReconciled
<1>4. CASE routersDeleted
  BY Zenon, <1>1, <1>2, <1>4, Before, ReturnLocal, Handled DEF routersDeleted
<1> QED BY <1>3, <1>4

-----------------------------------------------------------------------------
(* Floating IP.                                                              *)

(* The end of reconcileFloatingIP.                                           *)
LEMMA FloatingIPEnd ==
    ASSUME ResourceInv, floatingIPReconciled
    PROVE  ResourceInv'
<1>1. UNCHANGED <<obj, cache, addr, cpInitialized>> /\ CloudKeeps
  BY Before, CloudSame DEF floatingIPReconciled, outside, k8s, world
<1>2. Keyed(setCondition(mem, "fip", TRUE))
  BY Zenon, Before, ConditionsKeyed
<1> QED BY <1>1, <1>2, Handled DEF floatingIPReconciled

(* The target of the floating IP is a resource or a server.                  *)
LEMMA TargetType ==
    ASSUME ResourceInv, NEW t \in getFloatingIPTarget(mem)
    PROVE  t \in Refs \cup {ServerOf(c) : c \in CPMachines}
<1>1. LBEnabled => mem.ids[LBKey] \in Refs
  BY Before, KeyFacts, IDsAreRefs
<1> QED BY <1>1 DEF getFloatingIPTarget

(* The floating IP is adopted or assigned.                                   *)
LEMMA FloatingIPSteps ==
    ASSUME ResourceInv, FIPWanted,
           reconcilePreExistingFloatingIP \/ ensureFloatingIPAssignment
    PROVE  ResourceInv'
<1> DEFINE u == mem.ids[FIPKey]
<1>0. FIPKey \in StatusKeys /\ u \in IDs(FIPKey)
  BY KeyFacts, Before
<1>1. UNCHANGED <<obj, cache, addr, cpInitialized>>
  BY Zenon DEF reconcilePreExistingFloatingIP, ensureFloatingIPAssignment, outside, k8s, world
<1>2. CASE reconcilePreExistingFloatingIP
  <2>1. CloudKeeps
    BY <1>2, Before, CloudSame DEF reconcilePreExistingFloatingIP
  <2>2. <<FIPKey, 0>> \in IDs(FIPKey)
    BY <1>0, UuidFacts DEF IDs, Refs
  <2>3. CASE ReturnFrom("fip", FALSE, mem, "error")
    BY Zenon, <1>1, <2>1, <2>3, Before, ReturnFromLocal, Handled
  <2>4. CASE mem' = Record(mem, FIPKey, <<FIPKey, 0>>) /\ UNCHANGED <<base, aux>>
    BY <1>0, <1>1, <2>1, <2>2, <2>4, Before, RecordKeyed, Handled
  <2> QED BY Zenon, <1>2, <2>3, <2>4 DEF reconcilePreExistingFloatingIP, FIPResolved
<1>3. CASE ensureFloatingIPAssignment
  <2>1. CASE cloud' = cloud
    <3>1. CloudKeeps
      BY <2>1, Before, CloudSame
    <3>2. ReturnFrom("fip", FALSE, mem, "error") \/ UNCHANGED <<mem, base, aux>>
      BY Zenon, <1>3 DEF ensureFloatingIPAssignment
    <3> QED BY Zenon, <1>1, <3>1, <3>2, Before, ReturnFromLocal, Handled
  <2>2. CASE cloud' # cloud
    <3>1. PICK t \in getFloatingIPTarget(mem) :
            Exists(u) /\ cloud' = [cloud EXCEPT ![u].parent = t] /\ UNCHANGED <<mem, base, aux>>
      BY Zenon, <1>3, <2>2 DEF ensureFloatingIPAssignment
    <3>2. u \in Uuids /\ u[1] = FIPKey
      BY <1>0, <3>1, ClusterNoneAssumption DEF Exists, IDs
    <3> DEFINE x == [cloud[u] EXCEPT !.parent = t]
    <3>3. cloud \in [Uuids -> Resources] /\ cloud[u] \in Resources
      BY <3>2, Before DEF CloudInv
    <3>4. x \in Resources /\ x.state = cloud[u].state
      BY <3>3, TargetType DEF Resources
    <3>5. cloud' = [cloud EXCEPT ![u] = x]
      BY <3>1, <3>2, <3>3
    <3>6. u[1][1] = "fip" /\ u[1] \notin InterfaceKeys
      BY <3>2, InterfaceKeyFacts DEF FIPKey
    <3> HIDE DEF x
    <3>7. CloudKeeps
      <4>1. cloud' \in [Uuids -> Resources]
        BY Zenon, <3>3, <3>4, <3>5
      <4>2. \A v \in Uuids : cloud'[v] = IF v = u THEN x ELSE cloud[v]
        BY <3>3, <3>5
      <4> HIDE DEF u
      <4> QED BY <3>4, <3>6, <4>1, <4>2, Before, Change
    <3> QED BY <1>1, <3>1, <3>7, Before, Handled
  <2> QED BY <2>1, <2>2
<1> QED BY <1>2, <1>3

(* deleteFloatingIP passes over a pre-existing floating IP.                  *)
LEMMA FloatingIPDeleted ==
    ASSUME ResourceInv, FIPWanted, deleteFloatingIP \/ deleteFloatingIPFails
    PROVE  ResourceInv'
<1>0. FIPKey \in StatusKeys /\ mem.ids[FIPKey] \in IDs(FIPKey) /\ None \in IDs(FIPKey)
  BY KeyFacts, Before DEF IDs, Refs
<1>1. UNCHANGED <<obj, cache, addr, cpInitialized>> /\ CloudKeeps
  <2>1. UNCHANGED <<obj, cache, addr, cpInitialized>>
        /\ (cloud' = cloud \/ (Managed(FIPKey) /\ cloud' = Erase(mem.ids[FIPKey])))
    BY Zenon DEF deleteFloatingIP, deleteFloatingIPFails, outside, k8s, world
  <2> QED BY <1>0, <2>1, Before, CloudSame, EraseManaged
<1>2. Keyed(setCondition(mem, "fip", FALSE))
  BY Zenon, Before, ConditionsKeyed
<1>3. Keyed(Record(setCondition(mem, "fip", FALSE), FIPKey, None))
  BY Zenon, <1>0, <1>2, RecordKeyed
<1>4. CASE deleteFloatingIP
  BY Zenon, <1>1, <1>3, <1>4, Before, Handled DEF deleteFloatingIP
<1>5. CASE deleteFloatingIPFails
  BY Zenon, <1>1, <1>2, <1>5, Before, ReturnLocal, Handled DEF deleteFloatingIPFails
<1> QED BY <1>4, <1>5

-----------------------------------------------------------------------------
(* Networks.                                                                 *)

(* A network is discovered, or deleted when it is managed.                   *)
LEMMA NetworkSteps ==
    ASSUME ResourceInv, NEW n \in NetworkNames,
           reconcilePreExistingNetwork(n) \/ deleteNetwork(n) \/ deleteNetworkFails(n)
    PROVE  ResourceInv'
<1> DEFINE k == NetworkKey(n)
<1>0. k \in StatusKeys /\ SubnetKey(n) \in StatusKeys
  BY KeyFacts
<1>1. UNCHANGED <<obj, cache, addr, cpInitialized>>
  BY Zenon DEF reconcilePreExistingNetwork, deleteNetwork, deleteNetworkFails, outside, k8s, world
<1>2. CloudKeeps
  <2>1. cloud' = cloud \/ (mem.ids[k] # None /\ Managed(k) /\ cloud' = Erase(mem.ids[k]))
    BY Zenon DEF reconcilePreExistingNetwork, deleteNetwork, deleteNetworkFails
  <2> QED BY <1>0, <2>1, Before, CloudSame, EraseManaged
<1>3. CASE reconcilePreExistingNetwork(n)
  <2>1. <<k, 0>> \in IDs(k) /\ <<SubnetKey(n), 0>> \in IDs(SubnetKey(n))
    BY <1>0, UuidFacts DEF IDs, Refs
  <2>2. Keyed(setNetworkStatus(mem, n, <<k, 0>>, <<SubnetKey(n), 0>>))
    BY <1>0, <2>1, Before, RecordKeyed DEF setNetworkStatus
  <2> QED BY Zenon, <1>1, <1>2, <1>3, <2>2, Before, ReturnFromLocal, Handled
          DEF reconcilePreExistingNetwork
<1>4. CASE deleteNetwork(n)
  <2>1. LET a == [aux EXCEPT !.gone = @ \cup {n}]
        IN  a \in Locals /\ a.net = aux.net /\ a.seen = aux.seen
    BY Before DEF Locals
  <2> QED BY Zenon, <1>1, <1>2, <1>4, <2>1, Before, Handled DEF deleteNetwork
<1>5. CASE deleteNetworkFails(n)
  BY Zenon, <1>1, <1>2, <1>5, Before, Flags, ConditionsKeyed, ReturnLocal, Handled
     DEF deleteNetworkFails
<1> QED BY <1>3, <1>4, <1>5

(* The end of deleteNetwork.                                                 *)
LEMMA NetworkEnd ==
    ASSUME ResourceInv, networksDeleted
    PROVE  ResourceInv'
<1>1. UNCHANGED <<obj, cache, addr, cpInitialized>> /\ CloudKeeps
  BY Before, CloudSame DEF networksDeleted, outside, k8s, world
<1> DEFINE m == setCondition(mem, "network", FALSE)
           ids == [k \in StatusKeys |->
                     IF \E n \in aux.gone : k \in {NetworkKey(n), SubnetKey(n)}
                     THEN None ELSE mem.ids[k]]
           o == [m EXCEPT !.ids = ids]
<1>2. Keyed(m)
  BY Zenon, Before, ConditionsKeyed
<1>3. \A k \in StatusKeys : ids[k] \in IDs(k)
  BY Before DEF IDs, Refs
<1>4. DOMAIN ids = StatusKeys /\ ids = [k \in StatusKeys |-> ids[k]]
  OBVIOUS
<1>5. Return(o, "error") \/ Return([o EXCEPT !.ready = FALSE, !.finalizer = FALSE], "done")
  BY DEF networksDeleted
<1> HIDE DEF ids, m
<1>6. Keyed(o)
  BY <1>2, <1>3, <1>4, NewIDs
<1> HIDE DEF o
<1>7. Keyed([o EXCEPT !.ready = FALSE, !.finalizer = FALSE])
  <2>1. o \in Clusters
    BY <1>6 DEF Keyed
  <2>2. [o EXCEPT !.ready = FALSE, !.finalizer = FALSE] \in Clusters
    BY <2>1, Zenon DEF Clusters
  <2>3. [o EXCEPT !.ready = FALSE, !.finalizer = FALSE].ids = o.ids
    BY <2>1, Zenon DEF Clusters
  <2> QED BY <1>6, <2>2, <2>3 DEF Keyed
<1> QED BY <1>1, <1>5, <1>6, <1>7, Before, ReturnLocal, Handled

-----------------------------------------------------------------------------
(* Load balancer.                                                            *)

(* The end of reconcileLoadBalancer.                                         *)
LEMMA LoadBalancerEnd ==
    ASSUME ResourceInv, loadBalancerReconciled
    PROVE  ResourceInv'
<1>1. UNCHANGED <<obj, cache, addr, cpInitialized>> /\ CloudKeeps
  BY Before, CloudSame DEF loadBalancerReconciled, outside, k8s, world
<1>2. (~aux.lbPending) \in BOOLEAN
  OBVIOUS
<1>3. Keyed(setCondition(mem, "lb", ~aux.lbPending))
  BY <1>2, Before, ConditionsKeyed, Zenon
<1> QED BY <1>1, <1>3, Handled DEF loadBalancerReconciled

(* Reading the load balancer and listing the members changes local variables.*)
LEMMA LoadBalancerReads ==
    ASSUME ResourceInv, LBEnabled, readLB \/ listMembers
    PROVE  ResourceInv'
<1>1. UNCHANGED <<obj, cache, addr, cpInitialized>> /\ CloudKeeps
  <2>1. UNCHANGED <<obj, cache, addr, cpInitialized, cloud>>
    BY Zenon DEF readLB, listMembers, lbFails, outside, k8s, world
  <2> QED BY <2>1, Before, CloudSame
<1>2. ASSUME NEW u \in {v \in Uuids : v[1] = LBKey}, NEW b \in BOOLEAN
      PROVE  LET a == [aux EXCEPT !.vip = u, !.lbPending = b]
             IN  a \in Locals /\ a.net = aux.net /\ a.seen = aux.seen
  BY Before, Zenon DEF Locals
<1>3. CASE readLB
  <2>1. ASSUME NEW b \in BOOLEAN, Exists(mem.ids[LBKey]),
               aux' = [aux EXCEPT !.vip = mem.ids[LBKey], !.lbPending = b],
               UNCHANGED <<mem, base>>
        PROVE  ResourceInv'
    <3>1. mem.ids[LBKey] \in {v \in Uuids : v[1] = LBKey}
      BY <2>1, Before, KeyFacts, ClusterNoneAssumption DEF Exists, IDs
    <3> QED BY Zenon, <1>1, <1>2, <2>1, <3>1, Before, Handled
  <2>2. CASE \E res : ReturnFrom("lb", FALSE, mem, res)
    BY Zenon, <1>1, <2>2, Before, ReturnFromLocal, Handled
  <2> QED BY Zenon, <1>3, <2>1, <2>2 DEF readLB
<1>4. CASE listMembers
  <2>1. LET a == [aux EXCEPT !.desired = addr]
        IN  a \in Locals /\ a.net = aux.net /\ a.seen = aux.seen
    BY Before DEF Locals, ResourceInv, WorldInv
  <2>2. CASE aux' = [aux EXCEPT !.desired = addr] /\ UNCHANGED <<mem, base>>
    BY <1>1, <2>1, <2>2, Before, Handled
  <2>3. CASE lbFails
    BY Zenon, <1>1, <2>3, Before, ReturnFromLocal, Handled DEF lbFails
  <2> QED BY <1>4, <2>2, <2>3 DEF listMembers
<1> QED BY <1>3, <1>4

(* A pool member is a resource of its machine.                               *)
LEMMA MemberResource ==
    ASSUME ResourceInv, LBEnabled, NEW c \in CPMachines, NEW s \in {"up", "pending"},
           NEW u \in Fresh(MemberKey(c)), cloud' = [cloud EXCEPT ![u] = Member(c, s)]
    PROVE  CloudKeeps
<1>1. mem.ids[PoolKey] \in Refs
  BY Before, KeyFacts, IDsAreRefs
<1>2. aux.desired[c] \in Addresses \cup {None}
  BY Before DEF Locals
<1>3. Member(c, s) \in Resources /\ Member(c, s).state = s
  BY <1>1, <1>2 DEF Member, Resources, ResourceStates, ExistingStates, Refs
<1>4. MemberKey(c) \notin InterfaceKeys
  BY InterfaceKeyFacts DEF MemberKey
<1> QED BY Zenon, <1>3, <1>4, Before, Make

(* A pool member is made, or its create times out.                           *)
LEMMA MemberSteps ==
    ASSUME ResourceInv, LBEnabled, NEW c \in CPMachines,
           createLoadBalancerMember(c) \/ createLoadBalancerMemberTimeout(c)
    PROVE  ResourceInv'
<1>1. UNCHANGED <<obj, cache, addr, cpInitialized>>
  BY DEF createLoadBalancerMember, createLoadBalancerMemberTimeout, outside, k8s, world
<1>2. CASE createLoadBalancerMember(c)
  <2>1. CASE lbFails
    BY Zenon, <1>1, <2>1, Before, CloudSame, ReturnFromLocal, Handled DEF lbFails
  <2>2. CASE ~lbFails
    <3>1. PICK u \in Fresh(MemberKey(c)) :
            /\ cloud' = [cloud EXCEPT ![u] = Member(c, "up")]
            /\ mem' = [mem EXCEPT !.members = @ \cup {u}]
      BY <1>2, <2>2 DEF createLoadBalancerMember
    <3>2. Keyed(mem')
      <4>1. u \in Members
        BY DEF Fresh, Members, MemberKeys
      <4>2. mem' \in Clusters /\ mem'.ids = mem.ids
        BY <3>1, <4>1, Before DEF Clusters
      <4> QED BY <4>2, Before DEF Keyed
    <3>3. CloudKeeps
      BY Zenon, <3>1, MemberResource
    <3>4. UNCHANGED <<base, aux>>
      BY <1>2, <2>2 DEF createLoadBalancerMember
    <3> QED BY <1>1, <3>2, <3>3, <3>4, Handled
  <2> QED BY <2>1, <2>2
<1>3. CASE createLoadBalancerMemberTimeout(c)
  <2>1. CloudKeeps
    BY <1>3, Before, CloudSame, MemberResource DEF createLoadBalancerMemberTimeout
  <2>2. (~aux.lbPending) \in BOOLEAN
    OBVIOUS
  <2>3. LocalInv'
    BY <1>3, <2>2, Before, ReturnFromLocal, Zenon DEF createLoadBalancerMemberTimeout
  <2> QED BY <1>1, <2>1, <2>3, Handled
<1> QED BY <1>2, <1>3

(* A pool member is updated or removed.                                      *)
LEMMA MemberChanges ==
    ASSUME ResourceInv, NEW u \in Uuids, u[1] \in MemberKeys,
           updateLoadBalancerMember(u) \/ deleteLoadBalancerMember(u)
    PROVE  ResourceInv'
<1>0. u[1] \notin InterfaceKeys /\ u[1] \notin PreExisting /\ MachineOf(u) \in CPMachines
  <2>1. u[1][1] = "member"
    BY UuidFacts
  <2>2. u[1] \notin InterfaceKeys /\ u[1] \notin PreExisting
    BY Zenon, <2>1, InterfaceKeyFacts, GivenFacts
  <2>3. MachineOf(u) \in CPMachines
    BY DEF MachineOf, MemberKeys, MemberKey
  <2> QED BY <2>2, <2>3
<1>1. UNCHANGED <<obj, cache, addr, cpInitialized>>
  BY DEF updateLoadBalancerMember, deleteLoadBalancerMember, outside, k8s, world
<1>2. CASE lbFails
  BY Zenon, <1>1, <1>2, Before, CloudSame, ReturnFromLocal, Handled DEF lbFails
<1>3. CASE ~lbFails /\ updateLoadBalancerMember(u)
  <2> DEFINE a == aux.desired[MachineOf(u)]
  <2>1. a \in Addresses \cup {None}
    BY <1>0, Before DEF Locals
  <2>2. cloud' = [cloud EXCEPT ![u].attr = a] /\ UNCHANGED <<mem, base, aux>>
    BY <1>3 DEF updateLoadBalancerMember
  <2> HIDE DEF a
  <2>3. /\ cloud' \in [Uuids -> Resources]
        /\ \A v \in Uuids : /\ cloud'[v].state = cloud[v].state
                            /\ cloud'[v].parent = cloud[v].parent
                            /\ v # u => cloud'[v].attr = cloud[v].attr
    <3> DEFINE x == [cloud[u] EXCEPT !.attr = a]
    <3>1. cloud \in [Uuids -> Resources] /\ cloud[u] \in Resources
      BY Before DEF CloudInv
    <3>2. x \in Resources /\ x.state = cloud[u].state /\ x.parent = cloud[u].parent
      BY <2>1, <3>1 DEF Resources, Refs
    <3>3. cloud' = [cloud EXCEPT ![u] = x]
      BY <2>2, <3>1
    <3> HIDE DEF x
    <3> QED BY SMTT(30), <3>1, <3>2, <3>3
  <2>4. CloudKeeps
    BY <1>0, <2>3, Before, Change
  <2> QED BY <1>1, <2>2, <2>4, Before, Handled
<1>4. CASE ~lbFails /\ deleteLoadBalancerMember(u)
  <2>1. cloud' = Erase(u) /\ mem' = [mem EXCEPT !.members = @ \ {u}] /\ UNCHANGED <<base, aux>>
    BY <1>4 DEF deleteLoadBalancerMember
  <2>2. CloudKeeps
    BY <1>0, <2>1, Before, EraseManaged DEF Managed, IDs, Refs
  <2>3. Keyed(mem')
    <3>1. mem' \in Clusters /\ mem'.ids = mem.ids
      BY <2>1, Before DEF Clusters
    <3> QED BY <3>1, Before DEF Keyed
  <2> QED BY <1>1, <2>1, <2>2, <2>3, Handled
<1> QED BY <1>2, <1>3, <1>4

(* deleteLoadBalancer erases the load balancer and what is below it.         *)
LEMMA LoadBalancerDeleted ==
    ASSUME ResourceInv, LBEnabled, deleteLoadBalancer \/ deleteLoadBalancerFails
    PROVE  ResourceInv'
<1>0. mem.ids[LBKey] \in IDs(LBKey) /\ Managed(LBKey)
  BY Zenon, Before, KeyFacts, GivenFacts DEF LBKey, Managed
<1>1. UNCHANGED <<obj, cache, addr, cpInitialized>> /\ CloudKeeps
  <2>1. UNCHANGED <<obj, cache, addr, cpInitialized>>
        /\ (cloud' = cloud \/ cloud' = Erase(mem.ids[LBKey]))
    BY Zenon DEF deleteLoadBalancer, deleteLoadBalancerFails, outside, k8s, world
  <2> QED BY <1>0, <2>1, Before, CloudSame, EraseManaged
<1> DEFINE o == setCondition(mem, "lb", FALSE)
           ids == [k \in StatusKeys |-> IF k \in LBKeys THEN None ELSE mem.ids[k]]
<1>2. Keyed(o)
  BY Zenon, Before, ConditionsKeyed
<1>3. CASE deleteLoadBalancer
  <2>1. \A k \in StatusKeys : ids[k] \in IDs(k)
    BY Before DEF IDs, Refs
  <2>2. DOMAIN ids = StatusKeys /\ ids = [k \in StatusKeys |-> ids[k]]
    OBVIOUS
  <2>3. mem' = [o EXCEPT !.ids = ids, !.members = {}] /\ UNCHANGED <<base, aux>>
    BY <1>3 DEF deleteLoadBalancer
  <2> HIDE DEF o, ids
  <2>4. ids \in [StatusKeys -> Refs]
    BY <2>1, <2>2, IDsAreRefs
  <2>5. mem' \in Clusters /\ mem'.ids = ids
    BY Zenon, <1>2, <2>3, <2>4 DEF Keyed, Clusters
  <2>6. Keyed(mem')
    BY <2>1, <2>5 DEF Keyed
  <2> QED BY <1>1, <2>3, <2>6, Handled
<1>4. CASE deleteLoadBalancerFails
  BY Zenon, <1>1, <1>2, <1>4, Before, ReturnLocal, Handled DEF deleteLoadBalancerFails
<1> QED BY <1>3, <1>4

-----------------------------------------------------------------------------
(* The handlers.                                                             *)

Closing == {Idle, <<"close", "conditions">>, <<"close", "object">>, <<"close", "status">>}

Shaped(o) == {"phase", "finalizer", "endpoint", "provisioned"} \subseteq DOMAIN o

Keeps(o, p) ==
    /\ p.phase = o.phase /\ p.finalizer = o.finalizer
    /\ p.endpoint = o.endpoint /\ p.provisioned = o.provisioned

(* What a step of a handler does to the object, but for the last step of     *)
(* reconcileNormal and of reconcileDelete.                                   *)
Handler ==
    /\ UNCHANGED <<obj, cache, base>>
    /\ task \notin Closing
    /\ Keeps(mem, mem')
    /\ outcome' = outcome \/ task' = <<"close", "conditions">>

(* A task of a handler is none of Close.                                     *)
LEMMA OpenTasks == \A s, x : s \notin {"idle", "close"} => <<s, x>> \notin Closing
BY DEF Closing, Idle

(* The object in memory has the fields that Close writes.                    *)
LEMMA MemShaped ==
    ASSUME ResourceInv
    PROVE  Shaped(mem) /\ Keeps(mem, mem)
<1>1. mem \in Clusters
  BY Before
<1> QED BY <1>1 DEF Shaped, Keeps, Clusters

(* Recording an ID or setting a condition leaves those fields alone.         *)
LEMMA EditsKeep ==
    ASSUME NEW o, Shaped(o)
    PROVE  /\ \A k, u : Shaped(Record(o, k, u)) /\ Keeps(o, Record(o, k, u))
           /\ \A p, b : Shaped(setCondition(o, p, b)) /\ Keeps(o, setCondition(o, p, b))
           /\ Shaped(setReadyCondition(o)) /\ Keeps(o, setReadyCondition(o))
           /\ \A ks : Keeps(o, DropEntries(o, ks))
BY DEF Shaped, Keeps, Record, setCondition, setReadyCondition, DropEntries

(* A handler returns.                                                        *)
LEMMA ReturnHandler ==
    ASSUME NEW o, Keeps(mem, o), NEW res, Return(o, res), UNCHANGED <<obj, cache>>,
           task \notin Closing
    PROVE  Handler
BY DEF Return, Handler

(* A handler returns out of a part.                                          *)
LEMMA ReturnFromHandler ==
    ASSUME NEW o, Shaped(o), Keeps(mem, o), NEW p, NEW b, NEW res, ReturnFrom(p, b, o, res),
           UNCHANGED <<obj, cache>>, task \notin Closing
    PROVE  Handler
<1> DEFINE c == setCondition(o, p, b)
           q == setReadyCondition(c)
<1>0. Shaped(c) /\ Keeps(o, c)
  BY SMTT(30), EditsKeep
<1>1. Keeps(o, q)
  <2> HIDE DEF c
  <2>1. Keeps(c, q)
    BY SMTT(30), <1>0, EditsKeep
  <2> QED BY <1>0, <2>1 DEF Keeps
<1>2. Keeps(mem, q)
  BY <1>1 DEF Keeps
<1> QED BY <1>2, ReturnHandler DEF ReturnFrom

(* A handler goes on, having recorded an ID or a condition.                  *)
LEMMA EditHandler ==
    ASSUME ResourceInv, UNCHANGED <<obj, cache, base, outcome>>, task \notin Closing,
           \/ mem' = mem
           \/ \E k, u : mem' = Record(mem, k, u)
           \/ \E p, b : mem' = setCondition(mem, p, b)
           \/ \E ks : mem' = DropEntries(mem, ks)
           \/ \E m : mem' = [mem EXCEPT !.members = m]
    PROVE  Handler
<1>1. Shaped(mem) /\ Keeps(mem, mem)
  BY MemShaped
<1>2. Keeps(mem, mem')
  <2>1. CASE \E m : mem' = [mem EXCEPT !.members = m]
    BY <2>1, Before DEF Clusters, Keeps
  <2> QED BY <1>1, <2>1, EditsKeep
<1> QED BY <1>2 DEF Handler

(* The handlers of the networks.                                             *)
LEMMA NetworkHandlers ==
    ASSUME ResourceInv, NEW n,
           reconcilePreExistingNetwork(n) \/ deleteNetwork(n) \/ deleteNetworkFails(n)
    PROVE  Handler
<1>0. /\ UNCHANGED <<obj, cache>>
      /\ task \in {<<"discover", NetworkKey(n)>>, <<"deleteNetwork", NetworkKey(n)>>}
  BY Zenon DEF reconcilePreExistingNetwork, deleteNetwork, deleteNetworkFails, outside, k8s
<1>1. UNCHANGED <<obj, cache>> /\ task \notin Closing
  BY <1>0, OpenTasks
<1>2. Shaped(mem) /\ Keeps(mem, mem)
  BY MemShaped
<1>3. CASE reconcilePreExistingNetwork(n)
  <2>1. Keeps(mem, setNetworkStatus(mem, n, <<NetworkKey(n), 0>>, <<SubnetKey(n), 0>>))
    <3> DEFINE o == Record(mem, NetworkKey(n), <<NetworkKey(n), 0>>)
    <3>1. Shaped(o) /\ Keeps(mem, o)
      BY <1>2, EditsKeep
    <3> HIDE DEF o
    <3>2. Keeps(o, Record(o, SubnetKey(n), <<SubnetKey(n), 0>>))
      BY SMTT(30), <3>1, EditsKeep
    <3>3. Keeps(mem, Record(o, SubnetKey(n), <<SubnetKey(n), 0>>))
      BY <3>1, <3>2 DEF Keeps
    <3> QED BY <3>3 DEF setNetworkStatus, o
  <2> QED BY Zenon, <1>1, <1>2, <1>3, <2>1, ReturnFromHandler DEF reconcilePreExistingNetwork, Handler
<1>4. CASE deleteNetwork(n)
  BY <1>1, <1>2, <1>4 DEF deleteNetwork, Handler
<1>5. CASE deleteNetworkFails(n)
  BY Zenon, <1>1, <1>2, <1>5, EditsKeep, ReturnHandler DEF deleteNetworkFails, Handler
<1> QED BY <1>3, <1>4, <1>5

(* The handlers of the routers.                                              *)
LEMMA RouterHandlers ==
    ASSUME ResourceInv, NEW r, \/ adoptRouter(r) \/ readRouter(r) \/ deleteRouter(r)
                              \/ deleteRouterFails(r) \/ routersReconciled \/ routersDeleted
    PROVE  Handler
<1>0. /\ UNCHANGED <<obj, cache>>
      /\ task \in {<<"adopt", RouterKey(r)>>, <<"readRouter", RouterKey(r)>>,
                   <<"deleteRouter", RouterKey(r)>>, <<"end", "router">>, <<"end", "routers">>}
  BY Zenon DEF adoptRouter, readRouter, deleteRouter, deleteRouterFails, routersReconciled,
               routersDeleted, outside, k8s
<1>1. UNCHANGED <<obj, cache>> /\ task \notin Closing
  BY <1>0, OpenTasks
<1>2. Shaped(mem) /\ Keeps(mem, mem)
  BY MemShaped
<1>3. CASE adoptRouter(r)
  <2>1. CASE RouterResolved(r, <<RouterKey(r), 0>>) /\ UNCHANGED <<base, outcome>>
    BY <1>1, <2>1, EditHandler, Zenon DEF RouterResolved
  <2> QED BY Zenon, <1>1, <1>2, <1>3, <2>1, ReturnFromHandler DEF adoptRouter
<1>4. CASE readRouter(r) \/ deleteRouter(r) \/ deleteRouterFails(r)
  BY <1>1, <1>4, EditHandler, Zenon DEF readRouter, deleteRouter, deleteRouterFails
<1>5. CASE routersReconciled
  BY Zenon, <1>1, <1>2, <1>5, EditsKeep, ReturnFromHandler DEF routersReconciled, Handler
<1>6. CASE routersDeleted
  BY Zenon, <1>1, <1>2, <1>6, EditsKeep, ReturnHandler DEF routersDeleted, Handler
<1> QED BY <1>3, <1>4, <1>5, <1>6

(* The handlers of the interfaces.                                           *)
LEMMA InterfaceHandlers ==
    ASSUME ResourceInv, NEW r, NEW n,
           \/ adoptRouterInterface(r, n) \/ claimRouterInterface(r, n)
           \/ createRouterInterface(r, n) \/ createRouterInterfaceTimeout(r, n)
           \/ createRouterInterfaceFails(r, n)
           \/ detachInterface(r, n) \/ detachInterfaceFails(r, n)
    PROVE  Handler
<1>0. /\ UNCHANGED <<obj, cache>>
      /\ task \in {<<"interface", InterfaceKey(r, n)>>, <<"detach", InterfaceKey(r, n)>>}
  BY Zenon DEF adoptRouterInterface, claimRouterInterface, createRouterInterface,
               createRouterInterfaceTimeout, createRouterInterfaceFails, detachInterface,
               detachInterfaceFails, outside, k8s
<1>1. UNCHANGED <<obj, cache>> /\ task \notin Closing
  BY <1>0, OpenTasks
<1>2. Shaped(mem) /\ Keeps(mem, mem)
  BY MemShaped
<1>3. CASE adoptRouterInterface(r, n) \/ claimRouterInterface(r, n)
  BY Zenon, <1>1, <1>2, <1>3, EditsKeep, ReturnFromHandler
     DEF adoptRouterInterface, claimRouterInterface, Handler
<1>4. CASE createRouterInterface(r, n) \/ createRouterInterfaceTimeout(r, n)
  BY <1>1, <1>4, EditHandler, Zenon DEF createRouterInterface, createRouterInterfaceTimeout
<1>5. CASE createRouterInterfaceFails(r, n)
  BY Zenon, <1>1, <1>2, <1>5, EditsKeep, ReturnFromHandler DEF createRouterInterfaceFails
<1>6. CASE detachInterface(r, n) \/ detachInterfaceFails(r, n)
  BY <1>1, <1>6, EditHandler, Zenon DEF detachInterface, detachInterfaceFails
<1> QED BY <1>3, <1>4, <1>5, <1>6

(* The handlers of the load balancer.                                        *)
LEMMA LoadBalancerHandlers ==
    ASSUME ResourceInv, \/ readLB \/ listMembers \/ loadBalancerReconciled
                        \/ deleteLoadBalancer \/ deleteLoadBalancerFails
    PROVE  Handler
<1>0. /\ UNCHANGED <<obj, cache>>
      /\ task \in {<<"readLB", LBKey>>, <<"members", PoolKey>>, <<"end", "lb">>,
                   <<"deleteLB", LBKey>>}
  BY Zenon DEF readLB, listMembers, loadBalancerReconciled, deleteLoadBalancer,
               deleteLoadBalancerFails, outside, k8s
<1>1. UNCHANGED <<obj, cache>> /\ task \notin Closing
  BY <1>0, OpenTasks
<1>2. Shaped(mem) /\ Keeps(mem, mem)
  BY MemShaped
<1>3. CASE readLB
  <2>1. \/ UNCHANGED <<mem, base, outcome>>
        \/ \E res : ReturnFrom("lb", FALSE, mem, res)
    BY <1>3, Zenon DEF readLB
  <2> QED BY Zenon, <1>1, <1>2, <2>1, ReturnFromHandler, EditHandler
<1>4. CASE listMembers
  <2>1. UNCHANGED <<mem, base, outcome>> \/ ReturnFrom("lb", FALSE, mem, "error")
    BY <1>4, Zenon DEF listMembers, lbFails
  <2> QED BY Zenon, <1>1, <1>2, <2>1, ReturnFromHandler, EditHandler
<1>5. CASE loadBalancerReconciled
  BY <1>1, <1>5, EditHandler, Zenon DEF loadBalancerReconciled
<1>6. CASE deleteLoadBalancer
  <2> DEFINE o == setCondition(mem, "lb", FALSE)
  <2>1. Keyed(o) /\ Keeps(mem, o)
    BY <1>2, Before, ConditionsKeyed, EditsKeep
  <2>2. \E ids, m : mem' = [o EXCEPT !.ids = ids, !.members = m]
    BY <1>6, Zenon DEF deleteLoadBalancer
  <2> HIDE DEF o
  <2>3. Keeps(mem, mem')
    BY <2>1, <2>2 DEF Keyed, Clusters, Keeps
  <2> QED BY <1>1, <1>6, <2>3 DEF deleteLoadBalancer, Handler
<1>7. CASE deleteLoadBalancerFails
  BY Zenon, <1>1, <1>2, <1>7, EditsKeep, ReturnHandler DEF deleteLoadBalancerFails
<1> QED BY <1>3, <1>4, <1>5, <1>6, <1>7

(* The handlers of the pool members.                                         *)
LEMMA MemberHandlers ==
    ASSUME ResourceInv, NEW c, NEW u,
           \/ createLoadBalancerMember(c) \/ createLoadBalancerMemberTimeout(c)
           \/ updateLoadBalancerMember(u) \/ deleteLoadBalancerMember(u)
    PROVE  Handler
<1>0. /\ UNCHANGED <<obj, cache>>
      /\ task \in {<<"addMember", MemberKey(c)>>, <<"updateMember", u>>, <<"removeMember", u>>}
  BY Zenon DEF createLoadBalancerMember, createLoadBalancerMemberTimeout,
               updateLoadBalancerMember, deleteLoadBalancerMember, outside, k8s
<1>1. UNCHANGED <<obj, cache>> /\ task \notin Closing
  BY <1>0, OpenTasks
<1>2. Shaped(mem) /\ Keeps(mem, mem)
  BY MemShaped
<1>3. \/ (\E m : mem' = [mem EXCEPT !.members = m]) /\ UNCHANGED <<base, outcome>>
      \/ UNCHANGED <<mem, base, outcome>>
      \/ \E b, res : ReturnFrom("lb", b, mem, res)
  BY Zenon DEF createLoadBalancerMember, createLoadBalancerMemberTimeout,
               updateLoadBalancerMember, deleteLoadBalancerMember, lbFails
<1> QED BY <1>1, <1>2, <1>3, ReturnFromHandler, EditHandler, Zenon

(* The handlers of the floating IP.                                          *)
LEMMA FloatingIPHandlers ==
    ASSUME ResourceInv,
           \/ reconcilePreExistingFloatingIP \/ ensureFloatingIPAssignment
           \/ floatingIPReconciled \/ deleteFloatingIP \/ deleteFloatingIPFails
    PROVE  Handler
<1>0. /\ UNCHANGED <<obj, cache>>
      /\ task \in {<<"adoptFIP", FIPKey>>, <<"assign", FIPKey>>, <<"end", "fip">>,
                   <<"deleteFIP", FIPKey>>}
  BY Zenon DEF reconcilePreExistingFloatingIP, ensureFloatingIPAssignment,
               floatingIPReconciled, deleteFloatingIP, deleteFloatingIPFails, outside, k8s
<1>1. UNCHANGED <<obj, cache>> /\ task \notin Closing
  BY <1>0, OpenTasks
<1>2. Shaped(mem) /\ Keeps(mem, mem)
  BY MemShaped
<1>3. CASE deleteFloatingIP
  <2>1. Keeps(mem, Record(setCondition(mem, "fip", FALSE), FIPKey, None))
    <3> DEFINE o == setCondition(mem, "fip", FALSE)
    <3>1. Shaped(o) /\ Keeps(mem, o)
      BY Zenon, <1>2, EditsKeep
    <3> HIDE DEF o
    <3>2. Keeps(o, Record(o, FIPKey, None))
      BY <3>1, EditsKeep
    <3>3. Keeps(mem, Record(o, FIPKey, None))
      BY <3>1, <3>2 DEF Keeps
    <3> QED BY Zenon, <3>3 DEF o
  <2>2. /\ mem' \in {mem, Record(setCondition(mem, "fip", FALSE), FIPKey, None)}
        /\ UNCHANGED <<base, outcome>>
    BY <1>3, Zenon DEF deleteFloatingIP
  <2> QED BY Zenon, <1>1, <1>2, <2>1, <2>2 DEF Handler
<1>4. CASE deleteFloatingIPFails
  BY Zenon, <1>1, <1>2, <1>4, EditsKeep, ReturnHandler DEF deleteFloatingIPFails
<1>5. CASE reconcilePreExistingFloatingIP \/ ensureFloatingIPAssignment \/ floatingIPReconciled
  <2>1. \/ (\E u : mem' = Record(mem, FIPKey, u)) /\ UNCHANGED <<base, outcome>>
        \/ mem' = setCondition(mem, "fip", TRUE) /\ UNCHANGED <<base, outcome>>
        \/ UNCHANGED <<mem, base, outcome>>
        \/ ReturnFrom("fip", FALSE, mem, "error")
    <3>1. CASE ensureFloatingIPAssignment
      <4> HIDE DEF getFloatingIPTarget
      <4> QED BY Zenon, <3>1 DEF ensureFloatingIPAssignment
    <3>2. CASE reconcilePreExistingFloatingIP
      BY <3>2, Zenon DEF reconcilePreExistingFloatingIP, FIPResolved
    <3>3. CASE floatingIPReconciled
      BY <3>3, Zenon DEF floatingIPReconciled
    <3> QED BY Zenon, <1>5, <3>1, <3>2, <3>3
  <2> QED BY <1>1, <1>2, <2>1, ReturnFromHandler, EditHandler, Zenon
<1> QED BY <1>3, <1>4, <1>5
=============================================================================
