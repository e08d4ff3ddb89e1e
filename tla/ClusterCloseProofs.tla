-------------------------- MODULE ClusterCloseProofs --------------------------
(***************************************************************************)
(* Every step keeps IDs and resources in order, so that nothing given to   *)
(* the cluster is ever deleted.                                            *)
(*                                                                         *)
(* ClusterScope.Close writes three patches computed from an object that    *)
(* may be out of date: the endpoint is final in any environment, and as    *)
(* long as no patch fails of itself no ID is stored before the finalizer   *)
(* and Provisioned never without an endpoint.                              *)
(***************************************************************************)
EXTENDS ClusterController, ClusterStateProofs

-----------------------------------------------------------------------------
(* ensureResource.                                                           *)

(* What is made through ensureResource is no interface.                      *)
LEMMA EnsuredFacts ==
    ASSUME NEW k \in EnsuredKeys
    PROVE  /\ k \in StatusKeys /\ k \notin InterfaceKeys
           /\ k[1] # "interface"
           /\ k[1] \in {"lb", "pool", "listener", "monitor"} => LBEnabled
           /\ k \in LBKeys => LBEnabled
           /\ k \in FIPKeys => k = FIPKey /\ FIPWanted
BY KeyKinds DEF EnsuredKeys, StatusKeys, NetworkKeys, RouterKeys, LBKeys, FIPKeys,
                NetworkKey, SubnetKey, RouterKey, FIPKey

(* What a Get, a list or a create returns is a resource of the key.          *)
LEMMA Answer ==
    ASSUME ResourceInv, NEW k \in EnsuredKeys, NEW u,
           u \in Found(k) \/ u \in Fresh(k) \/ (u = mem.ids[k] /\ Exists(u))
    PROVE  u \in Uuids /\ u[1] = k /\ u \in IDs(k)
BY Before, EnsuredFacts, ClusterNoneAssumption DEF Found, Fresh, Exists, IDs, Refs

(* A network is noted, or forgotten, until its subnet is known.              *)
LEMMA NetLocal ==
    ASSUME ResourceInv, CloudKeeps, NEW n \in NetworkNames, NEW u \in IDs(NetworkKey(n)),
           aux' = [aux EXCEPT !.net[n] = u], Keyed(mem'), UNCHANGED base
    PROVE  LocalInv'
<1>1. aux \in Locals /\ u \in Refs
  BY Before, IDsAreRefs
<1>2. aux' \in Locals /\ aux'.seen = aux.seen /\ aux'.net = [aux.net EXCEPT ![n] = u]
  BY <1>1 DEF Locals
<1>3. AuxInv'
  BY <1>1, <1>2, Before DEF AuxInv, Locals
<1>4. \A r \in RouterNames : \A v \in aux.seen[r] : v \in Uuids
  BY <1>1 DEF Locals
<1>5. SeenInv'
  BY <1>2, <1>4 DEF SeenInv, CloudKeeps, ResourceInv
<1> QED BY <1>3, <1>5, Before DEF LocalInv, ObjectInv, Keyed

(* The caller of ensureResource records what was found.                      *)
LEMMA ResolvedLocal ==
    ASSUME ResourceInv, CloudKeeps, NEW k \in EnsuredKeys, NEW u \in Uuids, u[1] = k,
           Created(k, u) \/ Resolved(k, u), UNCHANGED base
    PROVE  LocalInv'
<1>0. k \in StatusKeys /\ u \in IDs(k)
  BY EnsuredFacts DEF IDs, Refs
<1>1. CASE k[1] = "network" /\ NetworkResolved(k[2], u)
  <2>1. k[2] \in NetworkNames /\ k = NetworkKey(k[2])
    BY <1>0, <1>1, KeyKinds
  <2>2. aux' = [aux EXCEPT !.net[k[2]] = u] /\ Keyed(mem')
    BY <1>1, Before DEF NetworkResolved
  <2> QED BY <1>0, <2>1, <2>2, NetLocal
<1>2. CASE k[1] = "subnet" /\ SubnetResolved(k[2], u)
  <2>1. k[2] \in NetworkNames /\ k = SubnetKey(k[2]) /\ NetworkKey(k[2]) \in StatusKeys
    BY <1>0, <1>2, KeyKinds, KeyFacts
  <2>2. aux' = [aux EXCEPT !.net[k[2]] = None] /\ None \in IDs(NetworkKey(k[2]))
    BY <1>2 DEF SubnetResolved, IDs, Refs
  <2>3. Keyed(mem')
    BY <1>0, <1>2, <2>1, Before, RecordKeyed DEF SubnetResolved, setNetworkStatus, AuxInv
  <2> QED BY <2>1, <2>2, <2>3, NetLocal
<1>3. CASE k[1] = "router" /\ RouterResolved(k[2], u)
  BY <1>0, <1>3, KeyKinds, RouterResolvedLocal
<1>4. CASE aux' = aux /\ mem' = Record(mem, k, u)
  <2>1. Keyed(mem')
    BY <1>0, <1>4, Before, RecordKeyed
  <2>2. AuxInv' /\ SeenInv'
    BY <1>4, SameLoops, Before DEF ResourceInv
  <2> QED BY <2>1, <2>2, Before DEF LocalInv, ObjectInv, Keyed
<1> QED BY <1>1, <1>2, <1>3, <1>4, EnsuredFacts
        DEF Created, Resolved, LBResolved, FIPResolved, FIPCreated

(* ensureResource makes a resource under an unused UUID.                     *)
LEMMA MadeResource ==
    ASSUME ResourceInv, NEW k \in EnsuredKeys, NEW p \in Parents(k), NEW u \in Fresh(k),
           NEW s \in {"up", "changing", "pending"},
           cloud' = [cloud EXCEPT ![u] = [state |-> s, parent |-> p, attr |-> VIPSubnet(k)]]
    PROVE  CloudKeeps
<1>1. p \in Refs \cup {ServerOf(c) : c \in CPMachines}
  <2>1. k \in StatusKeys /\ (k[1] \in {"pool", "listener", "monitor"} => LBEnabled)
    BY EnsuredFacts
  <2>2. CASE k[1] = "subnet"
    <3>1. k[2] \in NetworkNames
      BY <2>1, <2>2, KeyKinds
    <3> QED BY <2>2, <3>1, Before DEF Parents, Locals
  <2>3. CASE k[1] \in {"pool", "listener", "monitor"}
    <3>1. mem.ids[LBKey] \in Refs /\ mem.ids[PoolKey] \in Refs
      BY <2>1, <2>3, Before, KeyFacts, IDsAreRefs
    <3> QED BY <2>3, <3>1 DEF Parents
  <2>4. CASE k[1] \notin {"subnet", "pool", "listener", "monitor"}
    <3>1. p \in getFloatingIPTarget(mem) \/ p = None
      BY <2>4 DEF Parents
    <3> QED BY <3>1, TargetType DEF Refs
  <2> QED BY <2>2, <2>3, <2>4
<1>2. VIPSubnet(k) \in Refs
  <2>1. LBNetwork # None => LBNetwork \in NetworkNames
    BY ClusterSpecAssumption
  <2> QED BY <2>1, KeyFacts, Before, IDsAreRefs DEF VIPSubnet, Refs
<1>3. [state |-> s, parent |-> p, attr |-> VIPSubnet(k)] \in Resources
  BY <1>1, <1>2 DEF Resources, ResourceStates, ExistingStates
<1> QED BY Zenon, <1>3, Make, Before, EnsuredFacts

(* A create that timed out records nothing.                                  *)
LEMMA TimeoutLocal ==
    ASSUME ResourceInv, CloudKeeps, NEW k, CreateResourceTimeout(k)
    PROVE  LocalInv'
<1>1. CASE RouterTimeout /\ UNCHANGED base
  <2>1. /\ mem' = mem /\ base' = base
        /\ aux' \in Locals /\ aux'.net = aux.net /\ aux'.seen = aux.seen
    BY Zenon, <1>1, Flags, Before DEF RouterTimeout
  <2> QED BY <2>1, SameLoops, Before DEF ResourceInv, ObjectInv, LocalInv, Keyed
<1>2. CASE ReturnFrom(PartOf(k), PartOf(k) = "lb" => ~aux.lbPending, mem, "requeue")
  <2>1. (PartOf(k) = "lb" => ~aux.lbPending) \in BOOLEAN
    OBVIOUS
  <2> QED BY Zenon, <1>2, <2>1, Before, ReturnFromLocal
<1> QED BY <1>1, <1>2 DEF CreateResourceTimeout

(* Get, list, create, refusal and timeout of ensureResource.                 *)
LEMMA ResourceSteps ==
    ASSUME ResourceInv, NEW k \in EnsuredKeys,
           ResourceStep(k) \/ CreateResourceTimeout(k)
    PROVE  ResourceInv'
<1>0. UNCHANGED <<obj, cache, addr, cpInitialized>>
  BY Zenon DEF ResourceStep, GetResource, ListResource, CreateResource, CreateResourceRefused,
         CreateResourceTimeout, outside, k8s, world
<1>1. CASE GetResource(k)
  <2>1. CloudKeeps
    BY <1>1, Before, CloudSame DEF GetResource
  <2>2. CASE Exists(mem.ids[k])
    BY <1>0, <1>1, <2>1, <2>2, Answer, ResolvedLocal, Handled DEF GetResource
  <2>3. CASE ~Exists(mem.ids[k])
    BY <1>0, <1>1, <2>1, <2>3, Before, Handled DEF GetResource
  <2> QED BY <2>2, <2>3
<1>2. CASE ListResource(k)
  <2>1. CloudKeeps
    BY <1>2, Before, CloudSame DEF ListResource
  <2>2. CASE /\ mem' = IF k \in LBKeys \cup FIPKeys THEN Record(mem, k, None) ELSE mem
             /\ UNCHANGED <<base, aux>>
    <3>1. Keyed(mem')
      BY <2>2, Before, RecordKeyed, EnsuredFacts DEF IDs, Refs
    <3> QED BY <1>0, <2>1, <2>2, <3>1, Handled
  <2>3. CASE (\E u \in Found(k) : Resolved(k, u)) /\ UNCHANGED base
    BY <1>0, <2>1, <2>3, Answer, ResolvedLocal, Handled
  <2>4. CASE ReturnFrom(PartOf(k), FALSE, mem, "error")
    BY Zenon, <1>0, <2>1, <2>4, Before, ReturnFromLocal, Handled
  <2> QED BY Zenon, <1>2, <2>2, <2>3, <2>4 DEF ListResource
<1>3. CASE CreateResource(k)
  <2>1. PICK p \in Parents(k), u \in Fresh(k) :
            /\ cloud' = [cloud EXCEPT ![u] = [state |-> NewState(k), parent |-> p,
                                              attr |-> VIPSubnet(k)]]
            /\ Created(k, u)
    BY Zenon, <1>3 DEF CreateResource
  <2>2. CloudKeeps
    BY Zenon, <2>1, MadeResource DEF NewState
  <2> QED BY <1>0, <1>3, <2>1, <2>2, Answer, ResolvedLocal, Handled DEF CreateResource
<1>4. CASE CreateResourceRefused(k)
  <2>1. CloudKeeps /\ ReturnFrom(PartOf(k), FALSE, mem, "error")
    BY Zenon, <1>4, Before, CloudSame DEF CreateResourceRefused
  <2> QED BY Zenon, <1>0, <2>1, Before, ReturnFromLocal, Handled
<1>5. CASE CreateResourceTimeout(k)
  <2>1. CASE UNCHANGED cloud
    <3>1. CloudKeeps
      BY <2>1, Before, CloudSame
    <3> QED BY <1>0, <1>5, <3>1, TimeoutLocal, Handled
  <2>2. CASE ~ UNCHANGED cloud
    <3>1. PICK p \in Parents(k), u \in Fresh(k) :
            cloud' = [cloud EXCEPT ![u] = [state |-> "pending", parent |-> p,
                                           attr |-> VIPSubnet(k)]]
      BY <1>5, <2>2 DEF CreateResourceTimeout
    <3>2. CloudKeeps
      BY Zenon, <3>1, MadeResource
    <3> QED BY <1>0, <1>5, <3>2, TimeoutLocal, Handled
  <2> QED BY <2>1, <2>2
<1> QED BY <1>1, <1>2, <1>3, <1>4, <1>5 DEF ResourceStep

-----------------------------------------------------------------------------
(* Reconcile and Close.                                                      *)

(* A reconcile starts from the cached object.                                *)
LEMMA StartSteps ==
    ASSUME ResourceInv, ReconcileNormal \/ ReconcileDelete
    PROVE  ResourceInv'
<1>1. /\ UNCHANGED <<obj, cache, addr, cpInitialized, cloud>>
      /\ base' = cache
      /\ mem' \in {cache, [cache EXCEPT !.finalizer = TRUE]}
      /\ aux' = [NoAux EXCEPT !.cpInit = cpInitialized]
  BY DEF ReconcileNormal, ReconcileDelete, Start, k8s, world
<1>2. Keyed(cache) /\ cpInitialized \in BOOLEAN
  BY DEF ResourceInv, ObjectInv, WorldInv
<1>3. Keyed([cache EXCEPT !.finalizer = TRUE])
  <2>1. cache \in Clusters
    BY <1>2 DEF Keyed
  <2>2. /\ [cache EXCEPT !.finalizer = TRUE] \in Clusters
        /\ [cache EXCEPT !.finalizer = TRUE].ids = cache.ids
    BY <2>1, Zenon DEF Clusters
  <2> QED BY <1>2, <2>2 DEF Keyed
<1>4. aux' \in Locals /\ aux'.net = NoAux.net /\ aux'.seen = NoAux.seen
  BY <1>1, <1>2, NoAuxFacts, Zenon DEF Locals
<1>5. AuxInv' /\ SeenInv'
  BY <1>4, NoAuxFacts DEF AuxInv, SeenInv
<1>6. LocalInv'
  BY Zenon, <1>1, <1>2, <1>3, <1>5 DEF LocalInv, Keyed
<1> QED BY <1>1, <1>6, Before, CloudSame, Handled

(* The ends of reconcileNetwork and reconcileNormal, and a call that fails.  *)
LEMMA FinishSteps ==
    ASSUME ResourceInv, networksReconciled \/ finish \/ CallFails
    PROVE  ResourceInv'
<1>1. UNCHANGED <<obj, cache, addr, cpInitialized>> /\ CloudKeeps
  BY Zenon, Before, CloudSame DEF networksReconciled, finish, CallFails, outside, k8s, world
<1>2. CASE networksReconciled
  <2>1. Keyed(mem')
    BY Zenon, <1>2, Before, ConditionsKeyed DEF networksReconciled
  <2> QED BY <1>1, <1>2, <2>1, Handled DEF networksReconciled
<1>3. CASE finish
  <2> DEFINE o == reconcileControlPlaneEndpoint(mem)
             e == IF FIPWanted THEN mem.ids[FIPKey] ELSE IF LBEnabled THEN aux.vip ELSE None
             b == isInfrastructureProvisioned(o)
  <2>1. e \in Endpoints
    <3>1. FIPWanted => mem.ids[FIPKey] \in IDs(FIPKey) /\ FIPKey \notin InterfaceKeys
      BY Before, KeyFacts, InterfaceKeyFacts DEF FIPKey
    <3>2. aux.vip \in {None} \cup {u \in Uuids : u[1] = LBKey}
      BY Before DEF Locals
    <3> QED BY <3>1, <3>2 DEF IDs, Endpoints
  <2>2. o \in Clusters /\ o.ids = mem.ids
    BY <2>1, Before DEF reconcileControlPlaneEndpoint, Clusters
  <2>3. b \in BOOLEAN
    BY DEF isInfrastructureProvisioned
  <2> HIDE DEF o, b
  <2>4. [o EXCEPT !.provisioned = b] \in Clusters /\ [o EXCEPT !.provisioned = b].ids = o.ids
    BY <2>2, <2>3, Zenon DEF Clusters
  <2>5. Keyed(setReadyCondition([o EXCEPT !.provisioned = b]))
    BY Zenon, <2>2, <2>4, Before, ConditionsKeyed DEF Keyed
  <2> QED BY <1>1, <1>3, <2>5, Before, ReturnLocal, Handled DEF finish, o, b
<1>4. CASE CallFails
  BY Zenon, <1>1, <1>4, Before, ReturnFromLocal, Handled DEF CallFails
<1> QED BY <1>2, <1>3, <1>4

(* deleteServerGroups touches neither the object nor the other resources.    *)
LEMMA GroupSteps ==
    ASSUME ResourceInv, deleteServerGroups \/ deleteServerGroup \/ deleteServerGroupsFails
    PROVE  ResourceInv'
<1>1. UNCHANGED <<obj, cache, addr, cpInitialized>> /\ CloudKeeps
  BY Before, CloudSame
     DEF deleteServerGroups, deleteServerGroup, deleteServerGroupsFails, outside, k8s, world
<1>2. UNCHANGED <<mem, base, aux>> \/ \E res : Return(mem, res)
  BY DEF deleteServerGroups, deleteServerGroup, deleteServerGroupsFails
<1> QED BY <1>1, <1>2, Before, ReturnLocal, Handled

(* A step outside the handlers: the objects stay well formed, the cloud and  *)
(* the local variables are kept, or are reset.                               *)
LEMMA Aside ==
    ASSUME ResourceInv, ObjectInv', WorldInv', UNCHANGED cloud, aux' = aux \/ aux' = NoAux
    PROVE  ResourceInv'
<1>1. CloudKeeps
  BY Before, CloudSame
<1>2. CASE aux' = aux
  <2>1. AuxInv' /\ SeenInv'
    BY <1>1, <1>2, SameLoops, Before DEF ResourceInv
  <2> QED BY <1>1, <2>1 DEF ResourceInv, CloudKeeps
<1>3. CASE aux' = NoAux
  <2>1. AuxInv' /\ SeenInv'
    BY <1>3, NoAuxFacts DEF AuxInv, SeenInv
  <2> QED BY <1>1, <2>1 DEF ResourceInv, CloudKeeps
<1> QED BY <1>2, <1>3

(* What Close merges into the stored object holds IDs of their keys.         *)
LEMMA MergesKeyed ==
    ASSUME ResourceInv
    PROVE  Keyed(MergeConditions) /\ Keyed(MergeObject) /\ Keyed(MergeStatus)
<1>1. /\ obj \in Clusters /\ base \in Clusters /\ mem \in Clusters
      /\ Keyed(obj) /\ Keyed(base) /\ Keyed(mem)
  BY DEF ResourceInv, ObjectInv, Keyed
<1>2. Keyed(MergeConditions)
  <2> DEFINE c == [p \in Parts |-> Merge(base.cond[p], mem.cond[p], obj.cond[p])]
             r == Merge(base.ready, mem.ready, obj.ready)
  <2>1. c \in [Parts -> BOOLEAN] /\ r \in BOOLEAN
    BY <1>1, Zenon DEF Clusters, Merge
  <2>2. MergeConditions = [obj EXCEPT !.cond = c, !.ready = r]
    BY <1>1, Zenon DEF MergeConditions, Clusters
  <2> HIDE DEF c, r
  <2>3. MergeConditions \in Clusters /\ MergeConditions.ids = obj.ids
    BY <1>1, <2>1, <2>2, Zenon DEF Clusters
  <2> QED BY <1>1, <2>3 DEF Keyed
<1>3. Keyed(MergeObject)
  <2> DEFINE f == Merge(base.finalizer, mem.finalizer, obj.finalizer)
             e == Merge(base.endpoint, mem.endpoint, obj.endpoint)
  <2>1. f \in BOOLEAN /\ e \in Endpoints
    BY <1>1, Zenon DEF Clusters, Merge
  <2>2. MergeObject = [obj EXCEPT !.finalizer = f, !.endpoint = e]
    BY <1>1, Zenon DEF MergeObject, Clusters
  <2> HIDE DEF f, e
  <2>3. MergeObject \in Clusters /\ MergeObject.ids = obj.ids
    BY <1>1, <2>1, <2>2, Zenon DEF Clusters
  <2> QED BY <1>1, <2>3 DEF Keyed
<1>4. Keyed(MergeStatus)
  <2> DEFINE ids == [k \in StatusKeys |-> IF \A j \in Field(k) : mem.ids[j] = base.ids[j]
                                          THEN obj.ids[k] ELSE mem.ids[k]]
             m == Merge(base.members, mem.members, obj.members)
             p == Merge(base.provisioned, mem.provisioned, obj.provisioned)
  <2>1. m \in SUBSET Members /\ p \in BOOLEAN
    BY <1>1, Zenon DEF Clusters, Merge
  <2>2. ids \in [StatusKeys -> Refs] /\ \A k \in StatusKeys : ids[k] \in IDs(k)
    BY <1>1, IDsAreRefs DEF Keyed
  <2>3. MergeStatus = [obj EXCEPT !.ids = ids, !.members = m, !.provisioned = p]
    BY <1>1, Zenon DEF MergeStatus, Clusters
  <2> HIDE DEF ids, m, p
  <2>4. MergeStatus \in Clusters /\ MergeStatus.ids = ids
    BY <1>1, <2>1, <2>2, <2>3, Zenon DEF Clusters
  <2> QED BY <2>2, <2>4 DEF Keyed
<1> QED BY <1>2, <1>3, <1>4

(* The three patches of Close.                                               *)
LEMMA CloseSteps ==
    ASSUME ResourceInv, PatchConditions \/ PatchObject \/ PatchStatus
    PROVE  ResourceInv'
<1>1. /\ obj' \in {obj, Stored(MergeConditions), Stored(MergeObject), Stored(MergeStatus)}
      /\ UNCHANGED <<cache, aux, cloud, addr, cpInitialized>>
      /\ mem' \in {mem, NewCluster} /\ base' \in {base, NewCluster}
  BY DEF PatchConditions, PatchObject, PatchStatus, Patch, world
<1>2. \A o : Keyed(o) => Keyed(Stored(o))
  BY NewClusterKeyed DEF Stored
<1>3. ObjectInv' /\ WorldInv'
  BY <1>1, <1>2, MergesKeyed, NewClusterKeyed DEF ResourceInv, ObjectInv, WorldInv, Keyed
<1> QED BY <1>1, <1>3, Aside

-----------------------------------------------------------------------------
(* Events.                                                                   *)

(* The informer, the watches, the user and a crash.                          *)
LEMMA EventSteps ==
    ASSUME ResourceInv, Event \/ Crash \/ ReconcileSkip
    PROVE  ResourceInv'
<1>1. UNCHANGED cloud /\ (aux' = aux \/ aux' = NoAux)
  BY DEF Event, Crash, ReconcileSkip, CacheSync, SetOwnerRef, PauseTransition,
         ControlPlaneInitialized, GroupEvent, Resync, DeleteObject, MachineEvent, local
<1>2. WorldInv'
  <2>1. CASE UNCHANGED <<addr, cpInitialized>> \/ (addr' = addr /\ cpInitialized' = TRUE)
    BY Zenon, <2>1 DEF ResourceInv, WorldInv
  <2>2. CASE \E c \in CPMachines : MachineEvent(c)
    BY <2>2 DEF MachineEvent, ResourceInv, WorldInv
  <2> QED BY Zenon, <2>1, <2>2
          DEF Event, Crash, ReconcileSkip, CacheSync, SetOwnerRef, PauseTransition,
              ControlPlaneInitialized, GroupEvent, Resync, DeleteObject, world
<1>3. ObjectInv'
  <2>1. /\ obj' \in {obj, [obj EXCEPT !.owned = TRUE], Stored([obj EXCEPT !.phase = "deleting"])}
        /\ cache' \in {cache, obj}
        /\ mem' \in {mem, NewCluster} /\ base' \in {base, NewCluster}
    BY DEF Event, Crash, ReconcileSkip, CacheSync, SetOwnerRef, PauseTransition,
           ControlPlaneInitialized, GroupEvent, Resync, DeleteObject, MachineEvent, local, k8s
  <2>2. Keyed(obj) /\ obj \in Clusters
    BY DEF ResourceInv, ObjectInv, Keyed
  <2>3. Keyed([obj EXCEPT !.owned = TRUE])
    <3>1. /\ [obj EXCEPT !.owned = TRUE] \in Clusters
          /\ [obj EXCEPT !.owned = TRUE].ids = obj.ids
      BY <2>2, Zenon DEF Clusters
    <3> QED BY <2>2, <3>1 DEF Keyed
  <2>4. Keyed([obj EXCEPT !.phase = "deleting"])
    <3>1. /\ [obj EXCEPT !.phase = "deleting"] \in Clusters
          /\ [obj EXCEPT !.phase = "deleting"].ids = obj.ids
      BY <2>2 DEF Clusters
    <3> QED BY <2>2, <3>1 DEF Keyed
  <2>5. Keyed(Stored([obj EXCEPT !.phase = "deleting"]))
    BY <2>4, NewClusterKeyed DEF Stored
  <2> QED BY Zenon, <2>1, <2>3, <2>5, NewClusterKeyed DEF ResourceInv, ObjectInv, Keyed
<1> QED BY <1>1, <1>2, <1>3, Aside

(* A create that never takes effect leaves its UUID unused.                  *)
LEMMA LostResource ==
    ASSUME CloudInv, NEW u \in Uuids, cloud[u].state = "pending",
           cloud' = [cloud EXCEPT ![u] = Unused]
    PROVE  CloudKeeps
<1>1. Unused \in Resources /\ Unused.state = "unused"
  BY DEF Unused, Resources, ResourceStates, Refs
<1>2. \A v \in Uuids : cloud'[v] = IF v = u THEN Unused ELSE cloud[v]
  BY DEF CloudInv
<1>3. cloud' \in [Uuids -> Resources]
  BY <1>1 DEF CloudInv
<1>4. ASSUME NEW k \in PreExisting PROVE cloud'[<<k, 0>>] = cloud[<<k, 0>>]
  <2>1. <<k, 0>> \in Uuids /\ cloud[<<k, 0>>].state # "pending"
    BY GivenFacts DEF CloudInv, ExistingStates
  <2> QED BY <1>2, <2>1
<1>5. ASSUME NEW r \in RouterNames, NEW n \in Range(Attach[r]), NEW v \in Uuids,
             v[1] = InterfaceKey(r, n), cloud'[v].state # "unused"
      PROVE  OfItsKey(v, r, n)'
  BY <1>1, <1>2, <1>5 DEF CloudInv, OfItsKey
<1>6. CloudInv'
  BY <1>3, <1>4, <1>5 DEF CloudInv, PreExistingResource
<1> QED BY <1>2, <1>6 DEF CloudKeeps, Landed

(* Resources settle, degrade or are deleted by someone else.                 *)
LEMMA CloudSteps ==
    ASSUME ResourceInv, NEW u \in Uuids, CloudEvent(u)
    PROVE  ResourceInv'
<1>1. UNCHANGED <<obj, cache, mem, base, aux, addr, cpInitialized>>
  BY DEF CloudEvent, Settles, BecomesReady, PendingLands, PendingLost, CleanedUp, Recovers,
         Degrades, DeletedExternally, Becomes, k8s, local, world
<1>2. CASE DeletedExternally(u)
  <2>1. Managed(u[1]) /\ u \in IDs(u[1])
    BY <1>2, ClusterGivenAssumption DEF DeletedExternally, Managed, IDs, Refs
  <2> QED BY <1>1, <1>2, <2>1, Before, EraseManaged, Handled DEF DeletedExternally
<1>3. ASSUME NEW from \in ResourceStates, NEW to \in ResourceStates, Becomes(u, from, to),
             from # "unused", from # "pending" => to \notin {"unused", "pending"},
             from \in ExistingStates => to \in ExistingStates
      PROVE  CloudKeeps
  <2>1. cloud \in [Uuids -> Resources]
    BY Before DEF CloudInv
  <2>2. cloud' = [cloud EXCEPT ![u].state = to] /\ cloud[u].state = from
    BY <1>3 DEF Becomes
  <2>3. \A v \in Uuids :
            cloud'[v] = IF v = u THEN [cloud[u] EXCEPT !.state = to] ELSE cloud[v]
    BY <2>1, <2>2
  <2>4. ASSUME NEW v \in Uuids
        PROVE  /\ cloud'[v] \in Resources
               /\ cloud'[v].state = IF v = u THEN to ELSE cloud[v].state
               /\ cloud'[v].parent = cloud[v].parent /\ cloud'[v].attr = cloud[v].attr
    BY <2>1, <2>3 DEF Resources
  <2>5. cloud' \in [Uuids -> Resources]
    BY <2>1, <2>2, <2>4
  <2>6. \A k \in PreExisting : cloud[<<k, 0>>].state \in ExistingStates
    BY Zenon, Before DEF CloudInv
  <2> QED BY <1>3, <2>2, <2>4, <2>5, <2>6, Before, Change DEF Landed
<1>4. CASE PendingLost(u)
  <2>1. cloud' = [cloud EXCEPT ![u] = Unused] /\ cloud[u].state = "pending"
    BY <1>4 DEF PendingLost
  <2>2. CloudKeeps
    BY Zenon, <2>1, Before, LostResource
  <2> QED BY <1>1, <2>2, Before, Handled
<1>5. CASE \/ Becomes(u, "changing", "up") \/ Becomes(u, "pending", NewState(u[1]))
           \/ Becomes(u, "leaving", "deleted") \/ Becomes(u, "degraded", "up")
           \/ Becomes(u, "up", "degraded")
  <2>1. CloudKeeps
    BY <1>3, <1>5 DEF NewState, ResourceStates, ExistingStates
  <2> QED BY <1>1, <2>1, Before, Handled
<1> QED BY <1>2, <1>4, <1>5
        DEF CloudEvent, Settles, BecomesReady, PendingLands, CleanedUp, Recovers, Degrades

(* An attachment is a router and a network of its entry.                     *)
LEMMA AttachmentFacts ==
    ASSUME NEW i \in Attachments
    PROVE  i[1] \in RouterNames /\ i[2] \in Range(Attach[i[1]])
BY InterfaceKeyFacts DEF Attachments

(* Someone else attaches a pre-existing router.                              *)
LEMMA AttachSteps ==
    ASSUME ResourceInv, NEW r \in RouterNames, NEW n \in Range(Attach[r]),
           AttachedExternally(r, n)
    PROVE  ResourceInv'
<1> DEFINE k == InterfaceKey(r, n)
           router == <<RouterKey(r), 0>>
<1>1. UNCHANGED <<obj, cache, mem, base, aux, addr, cpInitialized>>
  BY DEF AttachedExternally, k8s, local, world
<1>2. PICK net \in Found(NetworkKey(n)) :
        cloud' = [cloud EXCEPT ![<<k, 0>>] = [state |-> "up", parent |-> router, attr |-> net]]
  BY Zenon DEF AttachedExternally
<1>3. /\ k \in InterfaceKeys /\ <<k, 0>> \in Uuids /\ router \in Uuids
      /\ k[2][1] = r /\ k[2][2] = n
  BY KeyFacts, UuidFacts DEF InterfaceKey
<1>4. net \in Uuids /\ net[1] = NetworkKey(n)
  BY DEF Found
<1>5. cloud[<<k, 0>>].state = "unused"
  BY DEF AttachedExternally, Unused
<1>6. [state |-> "up", parent |-> router, attr |-> net] \in Resources
  BY <1>3, <1>4 DEF Resources, ResourceStates, ExistingStates, Refs
<1> HIDE DEF k
<1>7. CloudKeeps
  BY Zenon, <1>2, <1>3, <1>4, <1>5, <1>6, Before, MakeUnused
<1> QED BY <1>1, <1>7, Before, Handled

-----------------------------------------------------------------------------
(* A subnet is that of a network of the spec.                                *)
LEMMA SubnetParent ==
    ASSUME NEW k \in Keys, k[1] = "subnet"
    PROVE  k[2] \in NetworkNames
<1>1. k \notin MemberKeys
  BY UuidFacts
<1> QED BY <1>1, KeyKinds DEF Keys

(* Before the first reconcile there is only what is given.                   *)
LEMMA InitResources == Init => ResourceInv
<1> SUFFICES ASSUME Init PROVE ResourceInv
  OBVIOUS
<1>1. ObjectInv /\ WorldInv
  BY Zenon, NewClusterKeyed DEF Init, ObjectInv, WorldInv
<1>2. AuxInv /\ SeenInv
  BY NoAuxFacts DEF Init, AuxInv, SeenInv
<1>3. cloud = InitialCloud
  BY DEF Init
<1>4. Unused \in Resources
  BY SMTT(30) DEF Unused, Resources, ResourceStates, Refs
<1>5. ASSUME NEW k \in PreExisting
      PROVE  /\ PreExistingResource(k) \in Resources
             /\ PreExistingResource(k).state = "up"
             /\ k \in InterfaceKeys =>
                    /\ PreExistingResource(k).parent = <<RouterKey(k[2][1]), 0>>
                    /\ PreExistingResource(k).attr = <<NetworkKey(k[2][2]), 0>>
                    /\ <<RouterKey(k[2][1]), 0>> \in Uuids
                    /\ <<NetworkKey(k[2][2]), 0>> \in Uuids
  <2>1. k[1] = "interface" => k \in InterfaceKeys
    BY Zenon, GivenFacts
  <2>2. k \in InterfaceKeys =>
            /\ k[1] = "interface"
            /\ <<RouterKey(k[2][1]), 0>> \in Uuids /\ <<NetworkKey(k[2][2]), 0>> \in Uuids
    BY InterfaceKeyFacts, KeyFacts, UuidFacts
  <2> QED BY <2>1, <2>2 DEF PreExistingResource, Resources, ResourceStates, ExistingStates, Refs
<1>6. ASSUME NEW u \in Uuids
      PROVE  /\ cloud[u] \in Resources
             /\ u[1] \in InterfaceKeys /\ cloud[u].state # "unused" =>
                    u[1] \in PreExisting /\ cloud[u] = PreExistingResource(u[1])
  <2>1. u[1] \in Keys
    BY UuidFacts
  <2>2. u[1][1] = "subnet" => <<NetworkKey(u[1][2]), 0>> \in Uuids /\ u[1] \notin InterfaceKeys
    BY <2>1, SubnetParent, UuidFacts, InterfaceKeyFacts, KeyFacts
  <2> QED BY Zenon, <1>3, <1>4, <1>5, <2>2
          DEF InitialCloud, Unused, Resources, ResourceStates, ExistingStates, Refs
<1>7. cloud \in [Uuids -> Resources]
  BY <1>3, <1>6 DEF InitialCloud
<1>8. ASSUME NEW r \in RouterNames, NEW n \in Range(Attach[r]), NEW u \in Uuids,
             u[1] = InterfaceKey(r, n), cloud[u].state # "unused"
      PROVE  OfItsKey(u, r, n)
  <2>1. u[1] \in InterfaceKeys /\ u[1][2][1] = r /\ u[1][2][2] = n
    BY <1>8, KeyFacts DEF InterfaceKey
  <2>2. u[1] \in PreExisting /\ cloud[u] = PreExistingResource(u[1])
    BY <1>6, <1>8, <2>1
  <2>3. /\ cloud[u].parent = <<RouterKey(r), 0>> /\ cloud[u].parent \in Uuids
        /\ cloud[u].attr = <<NetworkKey(n), 0>> /\ cloud[u].attr \in Uuids
    BY Zenon, <1>5, <2>1, <2>2
  <2> QED BY <2>3 DEF OfItsKey
<1>9. ASSUME NEW k \in PreExisting
      PROVE  cloud[<<k, 0>>] = PreExistingResource(k)
  BY <1>3, GivenFacts DEF InitialCloud
<1>10. CloudInv
  BY Zenon, <1>5, <1>7, <1>8, <1>9 DEF CloudInv, ExistingStates
<1> QED BY <1>1, <1>2, <1>10 DEF ResourceInv

(* No step breaks the invariant: one case for every kind of step.            *)
LEMMA NextResources == ResourceInv /\ [Next]_vars => ResourceInv'
<1> SUFFICES ASSUME ResourceInv, [Next]_vars PROVE ResourceInv'
  OBVIOUS
<1>1. CASE Succeeds
  <2>1. CASE ControllerStep
    BY <2>1, StartSteps, FinishSteps, GroupSteps, CloseSteps, EventSteps, RouterEnds, NetworkEnd
       DEF ControllerStep
  <2>2. CASE LoadBalancerStep
    BY <2>2, LoadBalancerEnd, LoadBalancerReads, LoadBalancerDeleted DEF LoadBalancerStep
  <2>3. CASE FloatingIPStep
    BY <2>3, FloatingIPEnd, FloatingIPSteps, FloatingIPDeleted DEF FloatingIPStep
  <2>4. CASE \E n \in NetworkNames : NetworkStep(n)
    BY <2>4, NetworkSteps DEF NetworkStep
  <2>5. CASE \E r \in RouterNames : RouterStep(r)
    BY <2>5, RouterSteps DEF RouterStep
  <2>6. CASE \E i \in Attachments : InterfaceStep(i[1], i[2])
    BY <2>6, AttachmentFacts, InterfaceSteps DEF InterfaceStep
  <2>7. CASE \E c \in CPMachines : LBEnabled /\ createLoadBalancerMember(c)
    BY <2>7, MemberSteps
  <2>8. CASE \E u \in Uuids : u[1] \in MemberKeys /\ MemberStep(u)
    BY <2>8, MemberChanges DEF MemberStep
  <2>9. CASE \E k \in EnsuredKeys : ResourceStep(k)
    BY <2>9, ResourceSteps
  <2> QED BY <1>1, <2>1, <2>2, <2>3, <2>4, <2>5, <2>6, <2>7, <2>8, <2>9 DEF Succeeds
<1>2. CASE Fails
  <2>1. CASE CallFails \/ deleteServerGroupsFails
    BY <2>1, FinishSteps, GroupSteps
  <2>2. CASE \/ LBEnabled /\ deleteLoadBalancerFails
             \/ FIPWanted /\ deleteFloatingIPFails
    BY <2>2, LoadBalancerDeleted, FloatingIPDeleted
  <2>3. CASE \/ \E n \in NetworkNames : deleteNetworkFails(n)
             \/ \E r \in RouterNames : deleteRouterFails(r)
    BY <2>3, NetworkSteps, RouterSteps
  <2>4. CASE \E i \in Attachments :
                createRouterInterfaceFails(i[1], i[2]) \/ detachInterfaceFails(i[1], i[2])
    BY SMTT(30), <2>4, AttachmentFacts, InterfaceSteps
  <2> QED BY <1>2, <2>1, <2>2, <2>3, <2>4 DEF Fails
<1>3. CASE Timeout
  BY <1>3, AttachmentFacts, InterfaceSteps, MemberSteps, ResourceSteps DEF Timeout
<1>4. CASE Event \/ Crash
  BY <1>4, EventSteps
<1>5. CASE \E u \in Uuids : CloudEvent(u)
  BY <1>5, CloudSteps
<1>6. CASE \E i \in Attachments : AttachedExternally(i[1], i[2])
  BY <1>6, AttachmentFacts, AttachSteps
<1>7. CASE UNCHANGED vars
  <2>1. ObjectInv' /\ WorldInv'
    BY <1>7 DEF vars, k8s, local, world, ResourceInv, ObjectInv, WorldInv, Keyed
  <2> QED BY <1>7, <2>1, Aside DEF vars, local
<1> QED BY <1>1, <1>2, <1>3, <1>4, <1>5, <1>6, <1>7 DEF Next

(* Every ID field holds a resource of its own kind and name, and every       *)
(* interface belongs to the router and the network of its key.               *)
THEOREM ResourcesKeyed == Spec => []ResourceInv
BY InitResources, NextResources, PTL DEF Spec

(* In any environment, whatever is deleted, by a reconcile or by someone     *)
(* else, nothing that the spec names by UUID or address is deleted with it.  *)
THEOREM PreExistingKept == Spec => []PreExistingIsKept
<1>1. ResourceInv => PreExistingIsKept
  BY Zenon, GivenFacts DEF ResourceInv, CloudInv, PreExistingIsKept, Exists
<1> QED BY <1>1, ResourcesKeyed, PTL

-----------------------------------------------------------------------------
(* An object o that was read earlier is behind the stored object s, but      *)
(* never at odds with it.                                                    *)
Behind(o, s) ==
    /\ o.phase = "deleting" => o.finalizer
    /\ o.endpoint = None => UserEndpoint = None
    /\ s.phase # "gone" =>
        /\ o.finalizer => s.finalizer
        /\ o.phase = "deleting" => s.phase = "deleting"
        /\ o.endpoint # None => s.endpoint = o.endpoint

HasEndpoint(o) == o.provisioned => o.endpoint # None

(* The stored object: whatever Close writes, the finalizer is written before.*)
Sound(s) ==
    /\ Behind(s, s)
    /\ s.endpoint # UserEndpoint => s.finalizer
    /\ (s.members # {} \/ \E k \in StatusKeys : s.ids[k] # None) => s.finalizer
    /\ HasEndpoint(s)

(* The object in memory during a reconcile, against the snapshot.            *)
Running ==
    /\ mem.phase = base.phase /\ mem.phase \in {"live", "deleting"}
    /\ mem.phase = "live" => mem.finalizer
    /\ mem.endpoint # base.endpoint => base.endpoint = None

(* Metadata and spec are stored, or the object is gone.                      *)
ObjectStored ==
    \/ obj.phase = "gone"
    \/ obj.finalizer /\ (mem.endpoint # None => obj.endpoint # None)

CloseInv ==
    /\ Sound(obj)
    /\ Behind(cache, obj) /\ Behind(base, obj) /\ Behind(NewCluster, obj)
    /\ HasEndpoint(cache) /\ HasEndpoint(base) /\ HasEndpoint(mem)
    /\ outcome # None => task \in Closing
    /\ task # Idle => Running
    /\ outcome # None /\ task = <<"close", "status">> => ObjectStored

(* ensureResource and its callers.                                           *)
LEMMA ResourceHandlers ==
    ASSUME ResourceInv, NEW k, ResourceStep(k) \/ CreateResourceTimeout(k)
    PROVE  Handler
<1>0. /\ UNCHANGED <<obj, cache>>
      /\ task \in {<<"ensure", k>>, <<"list", k>>, <<"create", k>>}
  BY Zenon DEF ResourceStep, GetResource, ListResource, CreateResource, CreateResourceRefused,
               CreateResourceTimeout, outside, k8s
<1>1. UNCHANGED <<obj, cache>> /\ task \notin Closing
  BY <1>0, OpenTasks
<1>2. Shaped(mem) /\ Keeps(mem, mem)
  BY MemShaped
<1>3. ASSUME NEW u, Resolved(k, u) \/ Created(k, u), UNCHANGED <<base, outcome>>
      PROVE  Handler
  <2>1. CASE k[1] = "subnet" /\ SubnetResolved(k[2], u)
    <3>1. Keeps(mem, mem')
      BY <1>2, <2>1, EditsKeep DEF SubnetResolved, setNetworkStatus, Keeps
    <3> QED BY <1>1, <1>3, <3>1 DEF Handler
  <2>2. CASE mem' = mem \/ \E j : mem' = Record(mem, j, u)
    BY <1>1, <1>3, <2>2, EditHandler, Zenon
  <2> QED BY <1>3, <2>1, <2>2, Zenon
          DEF Created, Resolved, NetworkResolved, RouterResolved, LBResolved, FIPResolved,
              FIPCreated
<1>4. \/ (\E u : Resolved(k, u) \/ Created(k, u)) /\ UNCHANGED <<base, outcome>>
      \/ (mem' = mem \/ mem' = Record(mem, k, None)) /\ UNCHANGED <<base, outcome>>
      \/ \E b, res : ReturnFrom(PartOf(k), b, mem, res)
  BY Zenon DEF ResourceStep, GetResource, ListResource, CreateResource, CreateResourceRefused,
               CreateResourceTimeout, RouterTimeout
<1> QED BY <1>1, <1>2, <1>3, <1>4, ReturnFromHandler, EditHandler, Zenon

(* The end of reconcileNetwork, a call that fails, the server groups.        *)
LEMMA OtherHandlers ==
    ASSUME ResourceInv, \/ networksReconciled \/ CallFails \/ deleteServerGroups
                        \/ deleteServerGroup \/ deleteServerGroupsFails
    PROVE  Handler
<1>1. UNCHANGED <<obj, cache>>
  BY Zenon DEF networksReconciled, CallFails, deleteServerGroups, deleteServerGroup,
               deleteServerGroupsFails, outside, k8s
<1>2. Shaped(mem) /\ Keeps(mem, mem)
  BY MemShaped
<1>3. CASE CallFails
  <2>1. /\ task[1] \in {"ensure", "list", "create"} \cup DOMAIN CallPart
        /\ \E p : ReturnFrom(p, FALSE, mem, "error")
    BY <1>3, Zenon DEF CallFails
  <2>2. task \notin Closing
    BY <2>1 DEF CallPart, Closing, Idle
  <2> QED BY <1>1, <1>2, <2>1, <2>2, ReturnFromHandler
<1>4. CASE \/ networksReconciled \/ deleteServerGroups \/ deleteServerGroup
           \/ deleteServerGroupsFails
  <2>1. task \in {<<"end", "network">>, <<"deleteGroups", None>>, <<"deleteGroup", None>>}
    BY <1>4, Zenon
       DEF networksReconciled, deleteServerGroups, deleteServerGroup, deleteServerGroupsFails
  <2>2. task \notin Closing
    BY <2>1, OpenTasks
  <2>3. \/ mem' = setCondition(mem, "network", TRUE) /\ UNCHANGED <<base, outcome>>
        \/ UNCHANGED <<mem, base, outcome>>
        \/ \E res : Return(mem, res)
    BY Zenon, <1>4
       DEF networksReconciled, deleteServerGroups, deleteServerGroup, deleteServerGroupsFails
  <2> QED BY Zenon, <1>1, <1>2, <2>2, <2>3, ReturnHandler, EditHandler
<1> QED BY <1>3, <1>4

-----------------------------------------------------------------------------
(* The kinds of steps.                                                       *)

Quiet == UNCHANGED <<obj, cache, mem, base, task, outcome>>

(* Every step is one of a handler, of Close, of an event, or quiet.          *)
LEMMA StepKinds ==
    ASSUME ResourceInv, [Next]_vars
    PROVE  \/ Handler \/ finish \/ networksDeleted \/ ReconcileNormal \/ ReconcileDelete
           \/ PatchConditions \/ PatchObject \/ PatchStatus
           \/ CacheSync \/ SetOwnerRef \/ DeleteObject \/ Crash \/ Quiet
<1>1. CASE Succeeds
  <2>1. CASE ControllerStep
    <3>1. ReconcileSkip => Quiet
      BY Zenon DEF ReconcileSkip, Quiet, k8s, local
    <3> QED BY <2>1, <3>1, RouterHandlers, OtherHandlers DEF ControllerStep
  <2>2. CASE LoadBalancerStep \/ FloatingIPStep
    BY <2>2, LoadBalancerHandlers, FloatingIPHandlers DEF LoadBalancerStep, FloatingIPStep
  <2>3. CASE (\E n \in NetworkNames : NetworkStep(n)) \/ \E r \in RouterNames : RouterStep(r)
    BY <2>3, NetworkHandlers, RouterHandlers DEF NetworkStep, RouterStep
  <2>4. CASE \E i \in Attachments : InterfaceStep(i[1], i[2])
    BY <2>4, InterfaceHandlers DEF InterfaceStep
  <2>5. CASE \/ \E c \in CPMachines : LBEnabled /\ createLoadBalancerMember(c)
             \/ \E u \in Uuids : u[1] \in MemberKeys /\ MemberStep(u)
    BY <2>5, MemberHandlers DEF MemberStep
  <2>6. CASE \E k \in EnsuredKeys : ResourceStep(k)
    BY <2>6, ResourceHandlers
  <2> QED BY <1>1, <2>1, <2>2, <2>3, <2>4, <2>5, <2>6 DEF Succeeds
<1>2. CASE Fails
  <2>1. CASE CallFails \/ deleteServerGroupsFails
    BY <2>1, OtherHandlers
  <2>2. CASE \/ LBEnabled /\ deleteLoadBalancerFails
             \/ FIPWanted /\ deleteFloatingIPFails
    BY <2>2, LoadBalancerHandlers, FloatingIPHandlers
  <2>3. CASE \/ \E n \in NetworkNames : deleteNetworkFails(n)
             \/ \E r \in RouterNames : deleteRouterFails(r)
    BY <2>3, NetworkHandlers, RouterHandlers
  <2>4. CASE \E i \in Attachments :
                createRouterInterfaceFails(i[1], i[2]) \/ detachInterfaceFails(i[1], i[2])
    BY <2>4, InterfaceHandlers
  <2> QED BY <1>2, <2>1, <2>2, <2>3, <2>4 DEF Fails
<1>3. CASE Timeout
  BY <1>3, InterfaceHandlers, MemberHandlers, ResourceHandlers DEF Timeout
<1>4. CASE Event
  <2>1. CASE \/ PauseTransition \/ ControlPlaneInitialized \/ GroupEvent \/ Resync
             \/ \E c \in CPMachines : MachineEvent(c)
    BY <2>1, Zenon DEF PauseTransition, ControlPlaneInitialized, GroupEvent, Resync,
                       MachineEvent, Quiet, k8s, local
  <2> QED BY <1>4, <2>1 DEF Event
<1>5. CASE \E u \in Uuids : CloudEvent(u)
  BY <1>5, Zenon DEF CloudEvent, Settles, BecomesReady, PendingLands, PendingLost, CleanedUp,
                     Recovers, Degrades, DeletedExternally, Becomes, Quiet, k8s, local
<1>6. CASE \E i \in Attachments : AttachedExternally(i[1], i[2])
  BY <1>6, Zenon DEF AttachedExternally, Quiet, k8s, local
<1>7. CASE UNCHANGED vars
  BY <1>7 DEF vars, k8s, local, Quiet
<1> QED BY <1>1, <1>2, <1>3, <1>4, <1>5, <1>6, <1>7 DEF Next

(* What each of the three patches writes, and what it leaves alone.          *)
LEMMA MergeFacts ==
    ASSUME ResourceInv
    PROVE  /\ Keeps(obj, MergeConditions)
           /\ MergeConditions.ids = obj.ids /\ MergeConditions.members = obj.members
           /\ MergeStatus.phase = obj.phase /\ MergeStatus.finalizer = obj.finalizer
           /\ MergeStatus.endpoint = obj.endpoint
           /\ MergeStatus.provisioned
                = Merge(base.provisioned, mem.provisioned, obj.provisioned)
           /\ MergeObject.phase = obj.phase
           /\ MergeObject.finalizer = Merge(base.finalizer, mem.finalizer, obj.finalizer)
           /\ MergeObject.endpoint = Merge(base.endpoint, mem.endpoint, obj.endpoint)
           /\ MergeObject.provisioned = obj.provisioned
           /\ MergeObject.ids = obj.ids /\ MergeObject.members = obj.members
<1>1. obj \in Clusters
  BY DEF ResourceInv, ObjectInv, Keyed
<1>2. /\ Keeps(obj, MergeConditions)
      /\ MergeConditions.ids = obj.ids /\ MergeConditions.members = obj.members
  BY <1>1, Zenon DEF MergeConditions, Clusters, Keeps
<1>3. /\ MergeStatus.phase = obj.phase /\ MergeStatus.finalizer = obj.finalizer
      /\ MergeStatus.endpoint = obj.endpoint
      /\ MergeStatus.provisioned = Merge(base.provisioned, mem.provisioned, obj.provisioned)
  BY <1>1, Zenon DEF MergeStatus, Clusters
<1>4. /\ MergeObject.phase = obj.phase
      /\ MergeObject.finalizer = Merge(base.finalizer, mem.finalizer, obj.finalizer)
      /\ MergeObject.endpoint = Merge(base.endpoint, mem.endpoint, obj.endpoint)
      /\ MergeObject.provisioned = obj.provisioned
      /\ MergeObject.ids = obj.ids /\ MergeObject.members = obj.members
  BY <1>1, Zenon DEF MergeObject, Clusters
<1> QED BY <1>2, <1>3, <1>4

(* Only the object patch writes the endpoint, and the webhook refuses a      *)
(* change.                                                                   *)
LEMMA EndpointStep ==
    ASSUME ResourceInv, [Next]_vars, obj.endpoint # None, obj'.phase # "gone"
    PROVE  obj'.endpoint = obj.endpoint
<1>0. obj \in Clusters
  BY DEF ResourceInv, ObjectInv, Keyed
<1>1. GoneCluster.phase = "gone"
  BY DEF GoneCluster, NewCluster
<1>2. CASE Handler \/ finish \/ networksDeleted \/ ReconcileNormal \/ ReconcileDelete
           \/ CacheSync \/ Crash \/ Quiet
  BY <1>2, Zenon DEF Handler, finish, networksDeleted, ReconcileNormal, ReconcileDelete,
                     Start, CacheSync, Crash, Quiet, outside, k8s
<1>3. CASE PatchConditions
  BY <1>1, <1>3, MergeFacts, Zenon DEF PatchConditions, Patch, Stored, Keeps
<1>4. CASE PatchObject
  BY <1>1, <1>4, MergeFacts, Zenon DEF PatchObject, Patch, Stored, ValidateUpdate
<1>5. CASE PatchStatus
  BY <1>1, <1>5, MergeFacts, Zenon DEF PatchStatus, Patch, Stored
<1>6. CASE SetOwnerRef
  BY <1>0, <1>6 DEF SetOwnerRef, Clusters
<1>7. CASE DeleteObject
  <2>1. [obj EXCEPT !.phase = "deleting"].endpoint = obj.endpoint
    BY <1>0 DEF Clusters
  <2> QED BY <1>1, <1>7, <2>1, Zenon DEF DeleteObject, Stored
<1> QED BY <1>2, <1>3, <1>4, <1>5, <1>6, <1>7, StepKinds

(* The endpoint, once stored, is never changed, not even by a reconcile that *)
(* started before it was stored and has computed another one.                *)
THEOREM EndpointFinal == Spec => EndpointIsFinal
<1>1. ResourceInv /\ [Next]_vars =>
        [obj.endpoint # None /\ obj'.phase # "gone" => obj'.endpoint = obj.endpoint]_vars
  BY EndpointStep
<1> QED BY <1>1, ResourcesKeyed, PTL DEF Spec, EndpointIsFinal

-----------------------------------------------------------------------------
(* Close.                                                                    *)

(* The stored object goes from s to t.                                       *)
Evolves(s, t) ==
    \/ t = GoneCluster
    \/ /\ s.phase # "gone"
       /\ s.finalizer => t.finalizer
       /\ s.phase = "deleting" => t.phase = "deleting"
       /\ s.endpoint # None => t.endpoint = s.endpoint

(* A new object and a deleted one record nothing.                            *)
LEMMA NewFacts ==
    /\ GoneCluster.phase = "gone" /\ NewCluster.phase = "live"
    /\ \A s \in {NewCluster, GoneCluster} :
        /\ s.endpoint = UserEndpoint /\ ~s.finalizer /\ ~s.provisioned
        /\ s.members = {} /\ \A k \in StatusKeys : s.ids[k] = None
<1>1. /\ NewCluster.phase = "live" /\ NewCluster.endpoint = UserEndpoint
      /\ NewCluster.finalizer = FALSE /\ NewCluster.provisioned = FALSE
      /\ NewCluster.members = {} /\ NewCluster.ids = [k \in StatusKeys |-> None]
      /\ DOMAIN NewCluster = {"phase", "owned", "finalizer", "endpoint", "ids", "members",
                              "provisioned", "cond", "ready"}
  BY DEF NewCluster
<1>2. /\ GoneCluster.phase = "gone" /\ GoneCluster.endpoint = NewCluster.endpoint
      /\ GoneCluster.finalizer = NewCluster.finalizer
      /\ GoneCluster.provisioned = NewCluster.provisioned
      /\ GoneCluster.members = NewCluster.members /\ GoneCluster.ids = NewCluster.ids
  BY <1>1, Zenon DEF GoneCluster
<1>3. \A k \in StatusKeys : [j \in StatusKeys |-> None][k] = None
  OBVIOUS
<1> QED BY <1>1, <1>2, <1>3, Zenon

(* A deleted object satisfies what is asked of the stored one.               *)
LEMMA GoneSound == Sound(GoneCluster) /\ Behind(NewCluster, GoneCluster)
BY NewFacts, Zenon DEF Sound, Behind, HasEndpoint

(* What was behind the stored object stays behind it as it evolves.          *)
LEMMA BehindEvolves ==
    ASSUME NEW o, NEW s, NEW t, Behind(o, s), Evolves(s, t)
    PROVE  Behind(o, t)
BY NewFacts, Zenon DEF Behind, Evolves

(* A handler leaves the fields that Close orders alone.                      *)
LEMMA HandlerCloses ==
    ASSUME CloseInv, Handler
    PROVE  CloseInv'
<1>1. outcome = None /\ task # Idle
  BY Zenon DEF CloseInv, Handler, Closing
<1>2. Running'
  BY <1>1, Zenon DEF CloseInv, Handler, Running, Keeps
<1>3. HasEndpoint(mem')
  BY Zenon DEF CloseInv, Handler, HasEndpoint, Keeps
<1>4. /\ outcome' # None => task' \in Closing
      /\ ~(outcome' # None /\ task' = <<"close", "status">>)
  BY <1>1 DEF Handler, Closing
<1> QED BY <1>2, <1>3, <1>4, Zenon DEF CloseInv, Handler

(* The endpoint is set once; the finalizer goes only when deleting.          *)
LEMMA FinishCloses ==
    ASSUME ResourceInv, CloseInv, finish \/ networksDeleted
    PROVE  CloseInv'
<1>0. mem \in Clusters
  BY Before
<1>1. task # Idle
  BY DEF finish, networksDeleted, Idle
<1>2. /\ UNCHANGED <<obj, cache, base>> /\ task' = <<"close", "conditions">>
  BY Zenon DEF finish, networksDeleted, Return, outside, k8s
<1>3. Running' /\ HasEndpoint(mem')
  <2>1. CASE finish
    <3> DEFINE o == reconcileControlPlaneEndpoint(mem)
    <3>1. /\ o.phase = mem.phase /\ o.finalizer = mem.finalizer
          /\ mem.endpoint # None => o.endpoint = mem.endpoint
          /\ DOMAIN o = DOMAIN mem
      BY <1>0, Zenon DEF reconcileControlPlaneEndpoint, Clusters
    <3>2. DOMAIN mem = {"phase", "owned", "finalizer", "endpoint", "ids", "members",
                        "provisioned", "cond", "ready"}
      BY <1>0 DEF Clusters
    <3>3. mem' = setReadyCondition([o EXCEPT !.provisioned = isInfrastructureProvisioned(o)])
      BY <2>1, Zenon DEF finish, Return
    <3>4. isInfrastructureProvisioned(o) => o.endpoint # None
      BY Zenon DEF isInfrastructureProvisioned
    <3> HIDE DEF o
    <3>5. /\ mem'.phase = o.phase /\ mem'.finalizer = o.finalizer
          /\ mem'.endpoint = o.endpoint
          /\ mem'.provisioned = isInfrastructureProvisioned(o)
      BY <3>1, <3>2, <3>3, Zenon DEF setReadyCondition
    <3>6. HasEndpoint(mem')
      BY <3>4, <3>5, Zenon DEF HasEndpoint
    <3>7. Running'
      BY <1>1, <1>2, <3>1, <3>5, Zenon DEF CloseInv, Running
    <3> QED BY <3>6, <3>7
  <2>2. CASE networksDeleted
    <3>1. mem.phase = "deleting" /\ mem'.phase = mem.phase /\ mem'.endpoint = mem.endpoint
          /\ mem'.provisioned = mem.provisioned
      <4> DEFINE c == setCondition(mem, "network", FALSE)
                 i == [k \in StatusKeys |->
                         IF \E n \in aux.gone : k \in {NetworkKey(n), SubnetKey(n)}
                         THEN None ELSE mem.ids[k]]
                 o == [c EXCEPT !.ids = i]
      <4>1. /\ mem.phase = "deleting"
            /\ mem' = o \/ mem' = [o EXCEPT !.ready = FALSE, !.finalizer = FALSE]
        BY <2>2, Zenon DEF networksDeleted, Return
      <4>2. /\ c.phase = mem.phase /\ c.endpoint = mem.endpoint
            /\ c.provisioned = mem.provisioned /\ DOMAIN c = DOMAIN mem
        BY Zenon, <1>0 DEF setCondition, Clusters
      <4>3. {"phase", "endpoint", "provisioned"} \subseteq DOMAIN mem
        BY <1>0 DEF Clusters
      <4> HIDE DEF c, i
      <4>4. /\ o.phase = c.phase /\ o.endpoint = c.endpoint
            /\ o.provisioned = c.provisioned /\ DOMAIN o = DOMAIN c
        BY <4>2, <4>3, Zenon
      <4> HIDE DEF o
      <4>5. /\ mem'.phase = o.phase /\ mem'.endpoint = o.endpoint
            /\ mem'.provisioned = o.provisioned
        BY <4>1, <4>2, <4>3, <4>4, Zenon
      <4> QED BY <4>1, <4>2, <4>4, <4>5, Zenon
    <3> QED BY <1>1, <1>2, <3>1, Zenon DEF CloseInv, Running, HasEndpoint
  <2> QED BY <2>1, <2>2
<1>4. <<"close", "conditions">> \in Closing /\ <<"close", "conditions">> # <<"close", "status">>
  BY DEF Closing
<1> QED BY <1>2, <1>3, <1>4, Zenon DEF CloseInv

(* A reconcile starts from an object that is behind the stored one.          *)
LEMMA StartCloses ==
    ASSUME ResourceInv, CloseInv, ReconcileNormal \/ ReconcileDelete
    PROVE  CloseInv'
<1>0. cache \in Clusters
  BY DEF ResourceInv, ObjectInv, Keyed
<1>1. /\ UNCHANGED <<obj, cache>> /\ base' = cache /\ outcome' = None
  BY Zenon DEF ReconcileNormal, ReconcileDelete, Start, k8s
<1>2. Running' /\ HasEndpoint(mem')
  <2>1. CASE ReconcileNormal
    <3>1. /\ mem'.phase = cache.phase /\ cache.phase = "live" /\ mem'.finalizer
          /\ mem'.endpoint = cache.endpoint /\ mem'.provisioned = cache.provisioned
      BY <1>0, <2>1, Zenon DEF ReconcileNormal, Start, Clusters
    <3> QED BY <1>1, <3>1, Zenon DEF CloseInv, Running, HasEndpoint
  <2>2. CASE ReconcileDelete
    <3>1. mem' = cache /\ cache.phase = "deleting"
      BY <2>2, Zenon DEF ReconcileDelete, Start
    <3>2. "deleting" # "live"
      OBVIOUS
    <3> QED BY <1>1, <3>1, <3>2, Zenon DEF CloseInv, Running, HasEndpoint
  <2> QED BY <2>1, <2>2
<1> QED BY <1>1, <1>2, Zenon DEF CloseInv

(* What is left to show when only the stored object changes.                 *)
LEMMA ObjectCloses ==
    ASSUME CloseInv, UNCHANGED <<cache, mem, base>>,
           Sound(obj)', obj' = obj \/ Evolves(obj, obj'),
           outcome' # None => task' \in Closing,
           task' # Idle => task # Idle,
           outcome' # None /\ task' = <<"close", "status">> => ObjectStored'
    PROVE  CloseInv'
<1>1. \A o : Behind(o, obj) => Behind(o, obj')
  BY BehindEvolves
<1>2. Behind(cache, obj') /\ Behind(base, obj') /\ Behind(NewCluster, obj')
  BY <1>1, Zenon DEF CloseInv
<1>3. task' # Idle => Running'
  BY Zenon DEF CloseInv, Running
<1> QED BY <1>2, <1>3, Zenon DEF CloseInv

(* The first patch writes only conditions.                                   *)
LEMMA PatchConditionsCloses ==
    ASSUME ResourceInv, CloseInv, PatchConditions
    PROVE  CloseInv'
<1>1. /\ UNCHANGED <<cache, mem, base>>
      /\ task # Idle /\ task' \in Closing /\ task' # <<"close", "status">>
  BY DEF PatchConditions, Goto, Closing, Idle
<1>2. obj' = obj \/ (obj.phase # "gone" /\ obj' \in {GoneCluster, MergeConditions})
  BY Zenon DEF PatchConditions, Patch, Stored
<1>3. CASE obj.phase # "gone" /\ obj' = MergeConditions
  <2>1. /\ Keeps(obj, obj') /\ obj'.ids = obj.ids /\ obj'.members = obj.members
    BY <1>3, MergeFacts, Zenon
  <2>2. Sound(obj') /\ Evolves(obj, obj')
    BY <1>3, <2>1, Zenon DEF CloseInv, Sound, Behind, HasEndpoint, Evolves, Keeps
  <2> QED BY <1>1, <2>2, ObjectCloses, Zenon
<1>4. CASE obj' = GoneCluster
  <2>1. Sound(obj') /\ Evolves(obj, obj')
    BY <1>4, GoneSound, Zenon DEF Evolves
  <2> QED BY <1>1, <2>1, ObjectCloses, Zenon
<1>5. CASE obj' = obj
  <2>1. Sound(obj')
    BY <1>5, Zenon DEF CloseInv
  <2> QED BY <1>1, <1>5, <2>1, ObjectCloses, Zenon
<1> QED BY <1>2, <1>3, <1>4, <1>5, Zenon

(* The second patch stores the finalizer, or finds it stored, or the object  *)
(* goes.                                                                     *)
LEMMA PatchObjectCloses ==
    ASSUME ResourceInv, CloseInv, PatchObject, "patchError" \notin Env
    PROVE  CloseInv'
<1>1. /\ UNCHANGED <<cache, mem, base>>
      /\ task # Idle /\ task' \in Closing
  BY DEF PatchObject, Goto, Closing, Idle
<1>2. Running /\ Behind(base, obj) /\ Sound(obj)
  BY <1>1, Zenon DEF CloseInv
<1>3. ASSUME Sound(obj'), obj' = obj \/ Evolves(obj, obj'), ObjectStored'
      PROVE  CloseInv'
  BY <1>1, <1>3, ObjectCloses, Zenon
<1>4. \/ obj' = obj /\ (obj.phase = "gone" \/ ~ValidateUpdate(MergeObject, obj))
      \/ obj.phase # "gone" /\ ValidateUpdate(MergeObject, obj) /\ obj' = Stored(MergeObject)
  BY Zenon DEF PatchObject, Patch
<1>5. CASE obj' = obj /\ obj.phase = "gone"
  BY <1>2, <1>3, <1>5, Zenon DEF ObjectStored
<1>6. CASE obj' = obj /\ ~ValidateUpdate(MergeObject, obj)
  <2>1. obj.endpoint # None /\ mem.endpoint # base.endpoint
    BY <1>6, MergeFacts, Zenon DEF ValidateUpdate, Merge
  <2>2. obj.finalizer
    BY <1>2, <2>1, Zenon DEF Running, Behind, Sound
  <2> QED BY <1>2, <1>3, <1>6, <2>1, <2>2, Zenon DEF ObjectStored
<1>7. CASE obj.phase # "gone" /\ ValidateUpdate(MergeObject, obj) /\ obj' = Stored(MergeObject)
  <2>1. CASE mem.finalizer
    <3>1. MergeObject.finalizer
      BY <1>2, <1>7, <2>1, MergeFacts, Zenon DEF Merge, Behind
    <3>2. obj' = MergeObject
      BY <1>7, <3>1, Zenon DEF Stored
    <3>3. /\ mem.endpoint # None => obj'.endpoint # None
          /\ obj'.endpoint = None => UserEndpoint = None
      BY <1>2, <1>7, <3>2, MergeFacts, Zenon DEF Merge, Behind, Running, Sound
    <3>4. Sound(obj')
      BY <1>2, <1>7, <3>1, <3>2, <3>3, MergeFacts, Zenon
         DEF Sound, Behind, HasEndpoint, ValidateUpdate
    <3>5. Evolves(obj, obj')
      BY <1>7, <3>1, <3>2, MergeFacts, Zenon DEF Evolves, ValidateUpdate
    <3>6. ObjectStored'
      BY <1>1, <3>1, <3>2, <3>3, Zenon DEF ObjectStored
    <3> QED BY <1>3, <3>4, <3>5, <3>6
  <2>2. CASE ~mem.finalizer
    <3>1. mem.phase = "deleting" /\ base.phase = "deleting"
      BY <1>2, <2>2, Zenon DEF Running
    <3>2. base.finalizer /\ obj.phase = "deleting"
      BY <1>2, <1>7, <3>1, Zenon DEF Behind
    <3>3. obj' = GoneCluster
      BY <1>7, <2>2, <3>2, MergeFacts, Zenon DEF Stored, Merge
    <3> QED BY <1>3, <3>3, GoneSound, NewFacts, Zenon DEF Evolves, ObjectStored
  <2> QED BY <2>1, <2>2
<1> QED BY <1>4, <1>5, <1>6, <1>7, Zenon

(* The third patch writes IDs and Provisioned to an object with a finalizer. *)
LEMMA PatchStatusCloses ==
    ASSUME ResourceInv, CloseInv, PatchStatus
    PROVE  CloseInv'
<1>1. /\ cache' = cache /\ mem' = NewCluster /\ base' = NewCluster
      /\ task' = Idle /\ Idle \in Closing /\ Idle # <<"close", "status">>
  BY DEF PatchStatus, Closing, Idle
<1>2. ObjectStored
  BY Zenon DEF PatchStatus, CloseInv
<1>3. obj' = obj \/ (obj.phase # "gone" /\ obj' \in {GoneCluster, MergeStatus})
  BY Zenon DEF PatchStatus, Patch, Stored
<1>4. Sound(obj') /\ (obj' = obj \/ Evolves(obj, obj'))
  <2>1. CASE obj' = obj
    BY <2>1, Zenon DEF CloseInv
  <2>2. CASE obj' = GoneCluster
    BY <2>2, GoneSound, Zenon DEF Evolves
  <2>3. CASE obj.phase # "gone" /\ obj' = MergeStatus
    <3>1. obj.finalizer /\ (mem.endpoint # None => obj.endpoint # None)
      BY <1>2, <2>3, Zenon DEF ObjectStored
    <3>2. HasEndpoint(MergeStatus)
      BY <3>1, MergeFacts, Zenon DEF CloseInv, Sound, HasEndpoint, Merge
    <3> QED BY <2>3, <3>1, <3>2, MergeFacts, Zenon DEF CloseInv, Sound, Behind, Evolves
  <2> QED BY <1>3, <2>1, <2>2, <2>3, Zenon
<1>5. \A o : Behind(o, obj) => Behind(o, obj')
  BY <1>4, BehindEvolves
<1>6. Behind(cache, obj') /\ Behind(NewCluster, obj')
  BY <1>5, Zenon DEF CloseInv
<1>7. HasEndpoint(NewCluster)
  BY NewFacts, Zenon DEF HasEndpoint
<1> QED BY <1>1, <1>4, <1>6, <1>7, Zenon DEF CloseInv

(* The informer, the owner reference, the deletion and a crash.              *)
LEMMA EventCloses ==
    ASSUME ResourceInv, CloseInv, CacheSync \/ SetOwnerRef \/ DeleteObject \/ Crash \/ Quiet
    PROVE  CloseInv'
<1>0. obj \in Clusters
  BY DEF ResourceInv, ObjectInv, Keyed
<1>1. CASE Quiet
  BY <1>1, Zenon DEF Quiet, CloseInv, Running, ObjectStored
<1>2. CASE CacheSync
  <2>1. cache' = obj /\ UNCHANGED <<obj, mem, base, task, outcome>>
    BY <1>2, Zenon DEF CacheSync, local
  <2> QED BY <2>1, Zenon DEF CloseInv, Sound, Running, ObjectStored
<1>3. CASE Crash
  <2>1. /\ obj' = obj /\ cache' = obj /\ mem' = NewCluster /\ base' = NewCluster
        /\ task' = Idle /\ Idle \in Closing /\ Idle # <<"close", "status">>
    BY <1>3 DEF Crash, Closing, Idle
  <2>2. HasEndpoint(NewCluster)
    BY NewFacts, Zenon DEF HasEndpoint
  <2> QED BY <2>1, <2>2, Zenon DEF CloseInv, Sound
<1>4. CASE SetOwnerRef
  <2>1. /\ Keeps(obj, obj') /\ obj'.ids = obj.ids /\ obj'.members = obj.members
        /\ obj.phase = "live" /\ UNCHANGED <<cache, mem, base, task, outcome>>
    BY <1>0, <1>4, Zenon DEF SetOwnerRef, Clusters, Keeps, local
  <2>2. "live" # "gone"
    OBVIOUS
  <2>3. Sound(obj') /\ Evolves(obj, obj')
    BY <2>1, <2>2, Zenon DEF CloseInv, Sound, Behind, HasEndpoint, Evolves, Keeps
  <2>4. ObjectStored => ObjectStored'
    BY <2>1, <2>2, Zenon DEF ObjectStored, Keeps
  <2> QED BY <2>1, <2>3, <2>4, ObjectCloses, Zenon DEF CloseInv
<1>5. CASE DeleteObject
  <2> DEFINE o == [obj EXCEPT !.phase = "deleting"]
  <2>1. /\ o.phase = "deleting" /\ o.finalizer = obj.finalizer /\ o.endpoint = obj.endpoint
        /\ o.provisioned = obj.provisioned /\ o.ids = obj.ids /\ o.members = obj.members
    BY <1>0, Zenon DEF Clusters
  <2>2. /\ obj.phase = "live" /\ obj' = Stored(o)
        /\ UNCHANGED <<cache, mem, base, task, outcome>>
    BY <1>5, Zenon DEF DeleteObject, local
  <2> HIDE DEF o
  <2>3. "live" # "gone" /\ "deleting" # "gone"
    OBVIOUS
  <2>4. CASE obj' = GoneCluster
    BY <2>2, <2>4, GoneSound, NewFacts, ObjectCloses, Zenon
       DEF CloseInv, Evolves, ObjectStored
  <2>5. CASE obj' = o /\ o.finalizer
    <3>1. Sound(obj') /\ Evolves(obj, obj')
      BY <2>1, <2>2, <2>3, <2>5, Zenon DEF CloseInv, Sound, Behind, HasEndpoint, Evolves
    <3>2. ObjectStored => ObjectStored'
      BY <2>1, <2>2, <2>3, <2>5, Zenon DEF ObjectStored
    <3> QED BY <2>2, <3>1, <3>2, ObjectCloses, Zenon DEF CloseInv
  <2> QED BY <2>1, <2>2, <2>4, <2>5, Zenon DEF Stored
<1> QED BY <1>1, <1>2, <1>3, <1>4, <1>5

(* A new object records nothing.                                             *)
LEMMA InitCloses == Init => CloseInv
<1>1. Idle \in Closing /\ Idle # <<"close", "status">> /\ "live" # "deleting"
  BY DEF Idle, Closing
<1>2. Sound(NewCluster) /\ Behind(NewCluster, NewCluster) /\ HasEndpoint(NewCluster)
  BY <1>1, NewFacts, Zenon DEF Sound, Behind, HasEndpoint
<1> QED BY <1>1, <1>2, Zenon DEF Init, CloseInv

(* While no patch of Close fails of itself, the object that a reconcile      *)
(* started from, the one it has in memory and the stored one never disagree. *)
THEOREM ClosesInOrder ==
    ASSUME "patchError" \notin Env
    PROVE  Spec => []CloseInv
<1>1. ResourceInv /\ CloseInv /\ [Next]_vars => CloseInv'
  BY StepKinds, HandlerCloses, FinishCloses, StartCloses, PatchConditionsCloses,
     PatchObjectCloses, PatchStatusCloses, EventCloses, Zenon
<1> QED BY <1>1, InitCloses, ResourcesKeyed, PTL DEF Spec

(* No ID is stored before the finalizer, though the object was deleted, the  *)
(* process crashed or the reconcile started from a stale object.             *)
THEOREM RecordedProtected ==
    ASSUME "patchError" \notin Env
    PROVE  Spec => []RecordedIsProtected
<1>1. CloseInv => RecordedIsProtected
  BY Zenon DEF CloseInv, Sound, RecordedIsProtected
<1> QED BY <1>1, ClosesInOrder, PTL

(* Provisioned is never stored without an endpoint: the status patch follows *)
(* the spec patch.                                                           *)
THEOREM ProvisionedEndpoint ==
    ASSUME "patchError" \notin Env
    PROVE  Spec => []ProvisionedHasEndpoint
<1>1. CloseInv => ProvisionedHasEndpoint
  BY Zenon DEF CloseInv, Sound, HasEndpoint, ProvisionedHasEndpoint
<1> QED BY <1>1, ClosesInOrder, PTL

=============================================================================
