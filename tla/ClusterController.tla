--------------------------- MODULE ClusterController ---------------------------
(***************************************************************************)
(* The CloudscaleCluster controller:                                       *)
(* internal/controller/cloudscalecluster_controller.go, and with it        *)
(* ensureResource (cloudscale_services.go), deleteServerGroups             *)
(* (cloudscalecluster_servergroup.go) and ClusterScope.Close               *)
(* (internal/scope/cluster.go).  It puts together the parts of             *)
(* ClusterNetwork, ClusterRouter, ClusterLoadBalancer and                  *)
(* ClusterFloatingIP, which it runs in this order, and undoes in reverse.  *)
(***************************************************************************)
EXTENDS ClusterNetwork, ClusterRouter, ClusterLoadBalancer, ClusterFloatingIP

(* The subnet of a pre-existing network exists with it.                      *)
InitialCloud ==
    [u \in Uuids |->
        IF u[2] > 0 THEN Unused
        ELSE IF u[1] \in PreExisting THEN PreExistingResource(u[1])
        ELSE IF u[1][1] = "subnet" /\ NetworkKey(u[1][2]) \in PreExisting
             THEN [state |-> "up", parent |-> <<NetworkKey(u[1][2]), 0>>, attr |-> None]
        ELSE Unused]

Init ==
    /\ obj = NewCluster
    /\ cache = NewCluster
    /\ queued = TRUE
    /\ task = Idle /\ todo = <<>>
    /\ mem = NewCluster /\ base = NewCluster
    /\ aux = NoAux
    /\ outcome = "done"
    /\ cloud = InitialCloud
    /\ group = "none"
    /\ addr = [c \in CPMachines |-> None]
    /\ cpInitialized = FALSE
    /\ paused = FALSE

-----------------------------------------------------------------------------
(* Reconcile.                                                               *)

Dequeue ==
    /\ queued /\ task = Idle
    /\ "stale" \in Env \/ cache = obj
    /\ queued' = FALSE

(* The object is gone, has no owner, or its Cluster is paused.               *)
ReconcileSkip ==
    /\ Dequeue
    /\ cache.phase = "gone" \/ ~cache.owned \/ paused
    /\ UNCHANGED <<k8s, local, cloud, world>>

Start(o, program) ==
    /\ Dequeue
    /\ cache.owned /\ ~paused
    /\ mem' = o
    /\ base' = cache
    /\ task' = Head(program) /\ todo' = Tail(program)
    /\ aux' = [NoAux EXCEPT !.cpInit = cpInitialized]
    /\ outcome' = None
    /\ UNCHANGED <<k8s, cloud, world>>

(* The finalizer is added in memory; Close stores it.                        *)
ReconcileNormal ==
    /\ cache.phase = "live"
    /\ Start([cache EXCEPT !.finalizer = TRUE],
             reconcileNetwork \o reconcileRouters \o reconcileLoadBalancer
             \o reconcileFloatingIP \o << <<"finish", None>> >>)

ReconcileDelete ==
    /\ cache.phase = "deleting"
    /\ Start(cache, deleteFIPTasks \o deleteLBTasks \o << <<"deleteGroups", None>> >>
                    \o deleteRouterTasks \o deleteNetworkTasks)

(* The end of reconcileNetwork.                                              *)
networksReconciled ==
    /\ task = <<"end", "network">>
    /\ mem' = setCondition(mem, "network", TRUE)
    /\ NextTask
    /\ UNCHANGED <<base, aux, outcome, outside, cloud>>

(* The endpoint is set once, to the floating IP or else to the VIP.          *)
reconcileControlPlaneEndpoint(o) ==
    IF o.endpoint # None THEN o
    ELSE [o EXCEPT !.endpoint = IF FIPWanted THEN o.ids[FIPKey]
                                ELSE IF LBEnabled THEN aux.vip ELSE None]

(* Fault: the load balancer must be running as well.                         *)
isInfrastructureProvisioned_running(o) ==
    /\ \A k \in NetworkKeys \cup FIPKeys \cup (LBKeys \ {MonitorKey}) : o.ids[k] # None
    /\ \A k \in RouterKeys : o.ids[k] \notin {None, Unanswered}
    /\ o.endpoint # None
    /\ ~aux.lbPending

isInfrastructureProvisioned(o) ==
    /\ \A k \in NetworkKeys \cup FIPKeys \cup (LBKeys \ {MonitorKey}) : o.ids[k] # None
    /\ \A k \in RouterKeys : o.ids[k] \notin {None, Unanswered}
    /\ o.endpoint # None

(* The rest of reconcileNormal.                                              *)
finish ==
    LET o == reconcileControlPlaneEndpoint(mem)
    IN  /\ task = <<"finish", None>>
        /\ Return(setReadyCondition([o EXCEPT !.provisioned = isInfrastructureProvisioned(o)]),
                  IF aux.lbPending \/ ~aux.cpInit THEN "requeue" ELSE "done")
        /\ UNCHANGED <<outside, cloud>>

-----------------------------------------------------------------------------
(* ensureResource and the create calls of its callers.                      *)

PartOf(k) ==
    CASE k[1] \in {"network", "subnet"} -> "network"
      [] k[1] = "router" -> "router"
      [] k[1] \in {"lb", "pool", "listener", "monitor"} -> "lb"
      [] k[1] = "fip" -> "fip"

(* What the caller does with the resource that ensureResource found.         *)
Resolved(k, u) ==
    \/ k[1] = "network" /\ NetworkResolved(k[2], u)
    \/ k[1] = "subnet" /\ SubnetResolved(k[2], u)
    \/ k[1] = "router" /\ RouterResolved(k[2], u)
    \/ k \in LBKeys /\ LBResolved(k, u)
    \/ k \in FIPKeys /\ FIPResolved(u)

(* What it does with the resource it made.                                   *)
Created(k, u) == IF k \in FIPKeys THEN FIPCreated(u) ELSE Resolved(k, u)

(* Get by the ID in status; a 404 falls through to the list.                 *)
GetResource(k) ==
    LET u == mem.ids[k]
    IN  /\ task = <<"ensure", k>>
        /\ u # None
        /\ k[1] = "router" => RouterSettled(k[2])
        /\ UNCHANGED <<outside, cloud>>
        /\ IF Exists(u) THEN Resolved(k, u)
           ELSE Goto(<<"list", k>>) /\ UNCHANGED <<mem, aux>>
        /\ UNCHANGED <<base, outcome>>

(* Fault: without an ID in status the resource is made, not searched.        *)
ListResource_blind(k) ==
    /\ task = <<"list", k>> \/ (task = <<"ensure", k>> /\ mem.ids[k] = None)
    /\ Goto(<<"create", k>>)
    /\ UNCHANGED <<mem, base, aux, outcome, outside, cloud>>

(* List by tag: the resource found is adopted, several are an error.  When   *)
(* there is none the load balancer's and the floating IP's ID is cleared.    *)
ListResource(k) ==
    /\ task = <<"list", k>> \/ (task = <<"ensure", k>> /\ mem.ids[k] = None)
    /\ Settled(k)
    /\ k[1] = "router" => RouterSettled(k[2])
    /\ UNCHANGED <<outside, cloud>>
    /\ \/ /\ Found(k) = {}
          /\ mem' = IF k \in LBKeys \cup FIPKeys THEN Record(mem, k, None) ELSE mem
          /\ Goto(<<"create", k>>)
          /\ UNCHANGED <<base, aux, outcome>>
       \/ /\ \E u \in Found(k) : Found(k) = {u} /\ Resolved(k, u)
          /\ UNCHANGED <<base, outcome>>
       \/ /\ \E u, v \in Found(k) : u # v
          /\ ReturnFrom(PartOf(k), FALSE, mem, "error")

(* The resource a new one is made in or assigned to.                         *)
Parents(k) ==
    CASE k[1] = "subnet" -> {aux.net[k[2]]}
      [] k[1] = "pool" -> {mem.ids[LBKey]}
      [] k[1] \in {"listener", "monitor"} -> {mem.ids[PoolKey]}
      [] k[1] = "fip" /\ getFloatingIPTarget(mem) # {} -> getFloatingIPTarget(mem)
      [] OTHER -> {None}

(* A private VIP is in the subnet of the load balancer's network.            *)
VIPSubnet(k) ==
    IF k[1] = "lb" /\ LBNetwork # None THEN mem.ids[SubnetKey(LBNetwork)] ELSE None

MayCreate(k, p) ==
    /\ p = None \/ Exists(p) \/ (k[1] = "fip" /\ ~LBEnabled)
    /\ VIPSubnet(k) = None \/ Exists(VIPSubnet(k))

NewState(k) == IF k[1] \in {"lb", "router"} THEN "changing" ELSE "up"

CreateResource(k) ==
    /\ task = <<"create", k>>
    /\ \E p \in Parents(k), u \in Fresh(k) :
        /\ MayCreate(k, p)
        /\ cloud' = [cloud EXCEPT ![u] = [state |-> NewState(k), parent |-> p,
                                          attr |-> VIPSubnet(k)]]
        /\ Created(k, u)
    /\ UNCHANGED <<base, outcome, outside>>

(* Fault: a create that timed out is not retried.                            *)
CreateResourceTimeout_forgets(k) ==
    /\ "timeout" \in Env
    /\ task = <<"create", k>>
    /\ ReturnFrom(PartOf(k), TRUE, mem, "done")
    /\ UNCHANGED <<outside, cloud>>

(* The caller requeues; only the router part reports that it is not ready.   *)
CreateResourceTimeout(k) ==
    /\ "timeout" \in Env
    /\ task = <<"create", k>>
    /\ \/ UNCHANGED cloud
       \/ \E p \in Parents(k), u \in Fresh(k) :
            /\ MayCreate(k, p)
            /\ cloud' = [cloud EXCEPT ![u] = [state |-> "pending", parent |-> p,
                                              attr |-> VIPSubnet(k)]]
    /\ IF k[1] = "router" THEN RouterTimeout /\ UNCHANGED <<base, outcome>>
       ELSE ReturnFrom(PartOf(k), PartOf(k) = "lb" => ~aux.lbPending, mem, "requeue")
    /\ UNCHANGED outside

(* The API refuses: something the new resource needs is gone, or the quota   *)
(* is used up.                                                               *)
CreateResourceRefused(k) ==
    /\ task = <<"create", k>>
    /\ Fresh(k) = {} \/ \E p \in Parents(k) : ~MayCreate(k, p)
    /\ ReturnFrom(PartOf(k), FALSE, mem, "error")
    /\ UNCHANGED <<outside, cloud>>

(* The part of a call that is not ensureResource's.                          *)
CallPart ==
    [discover |-> "network", adopt |-> "router", readLB |-> "lb", members |-> "lb",
     addMember |-> "lb", updateMember |-> "lb", removeMember |-> "lb",
     adoptFIP |-> "fip", assign |-> "fip"]

(* Any other call of reconcileNormal fails, with no effect that is known.    *)
CallFails ==
    /\ "apiError" \in Env
    /\ \/ /\ task[1] \in {"ensure", "list", "create"}
          /\ ReturnFrom(PartOf(task[2]), FALSE, mem, "error")
       \/ /\ task[1] \in DOMAIN CallPart
          /\ ReturnFrom(CallPart[task[1]], FALSE, mem, "error")
    /\ UNCHANGED <<outside, cloud>>

-----------------------------------------------------------------------------
(* deleteServerGroups.  A group is empty, has servers that a CloudscaleMachine *)
(* records ("owned"), or only others ("foreign").                            *)

(* getOwnedServerIDs and the list of the groups.                             *)
deleteServerGroups ==
    /\ task = <<"deleteGroups", None>>
    /\ CASE group = "owned" -> Return(mem, "requeue")
         [] group = "empty" -> Goto(<<"deleteGroup", None>>) /\ UNCHANGED <<mem, base, aux, outcome>>
         [] OTHER -> NextTask /\ UNCHANGED <<mem, base, aux, outcome>>
    /\ UNCHANGED <<outside, cloud>>

(* The delete call.  A 404 counts as success; the API refuses to delete a    *)
(* group that a server has entered since.                                    *)
deleteServerGroup ==
    /\ task = <<"deleteGroup", None>>
    /\ IF group \in {"owned", "foreign"} THEN Return(mem, "error") /\ UNCHANGED group
       ELSE /\ group' = "none"
            /\ NextTask
            /\ UNCHANGED <<mem, base, aux, outcome>>
    /\ UNCHANGED <<k8s, queued, cloud, addr, cpInitialized, paused>>

(* A call fails; a delete that failed may have worked.                       *)
deleteServerGroupsFails ==
    /\ "apiError" \in Env
    /\ \/ task = <<"deleteGroups", None>> /\ UNCHANGED group
       \/ /\ task = <<"deleteGroup", None>>
          /\ group' \in {group} \cup (IF group = "empty" THEN {"none"} ELSE {})
    /\ Return(mem, "error")
    /\ UNCHANGED <<k8s, queued, cloud, addr, cpInitialized, paused>>

-----------------------------------------------------------------------------
(* ClusterScope.Close: three patches, each of what changed in memory since   *)
(* the snapshot, one after the other whatever becomes of them.               *)

Merge(before, after, stored) == IF after = before THEN stored ELSE after

MergeConditions ==
    [obj EXCEPT !.cond = [p \in Parts |-> Merge(base.cond[p], mem.cond[p], @[p])],
                !.ready = Merge(base.ready, mem.ready, @)]

(* A condition that someone else changed meanwhile to another value is a      *)
(* conflict, and none of the conditions is patched.                          *)
Conflict(before, after, stored) == after # before /\ stored # before /\ after # stored

ConditionsConflict ==
    \/ \E p \in Parts : Conflict(base.cond[p], mem.cond[p], obj.cond[p])
    \/ Conflict(base.ready, mem.ready, obj.ready)

MergeObject ==
    [obj EXCEPT !.finalizer = Merge(base.finalizer, mem.finalizer, @),
                !.endpoint = Merge(base.endpoint, mem.endpoint, @)]

(* status.networks is one array and status.routers another: a patch replaces *)
(* an array as a whole.                                                      *)
Field(k) == IF k \in NetworkKeys THEN NetworkKeys
            ELSE IF k \in RouterKeys THEN RouterKeys ELSE {k}

(* Fault: the whole status is written.                                       *)
MergeStatus_replace ==
    [obj EXCEPT !.ids = mem.ids, !.members = mem.members, !.provisioned = mem.provisioned]

MergeStatus ==
    [obj EXCEPT
        !.ids = [k \in StatusKeys |-> IF \A j \in Field(k) : mem.ids[j] = base.ids[j]
                                      THEN @[k] ELSE mem.ids[k]],
        !.members = Merge(base.members, mem.members, @),
        !.provisioned = Merge(base.provisioned, mem.provisioned, @)]

(* Fault: any update is admitted.                                            *)
ValidateUpdate_any(new, old) == TRUE

(* ValidateUpdate: the endpoint is immutable once set.                       *)
ValidateUpdate(new, old) == old.endpoint = None \/ new.endpoint = old.endpoint

Stored(o) == IF o.phase = "deleting" /\ ~o.finalizer THEN GoneCluster ELSE o

Patch(new, admitted) ==
    \/ /\ obj.phase # "gone"
       /\ admitted
       /\ obj' = Stored(new)
       /\ UNCHANGED outcome
    \/ /\ obj.phase = "gone" \/ ~admitted \/ "patchError" \in Env
       /\ outcome' = "error"
       /\ UNCHANGED obj

PatchConditions ==
    /\ task = <<"close", "conditions">> /\ outcome # None
    /\ Patch(MergeConditions, ~ConditionsConflict)
    /\ Goto(<<"close", "object">>)
    /\ UNCHANGED <<cache, queued, mem, base, aux, cloud, world>>

(* Fault: the status goes out before metadata and spec.                      *)
PatchObject_statusFirst ==
    /\ task = <<"close", "object">> /\ outcome # None
    /\ Patch(MergeStatus, TRUE)
    /\ Goto(<<"close", "status">>)
    /\ UNCHANGED <<cache, queued, mem, base, aux, cloud, world>>

PatchObject ==
    /\ task = <<"close", "object">> /\ outcome # None
    /\ Patch(MergeObject, ValidateUpdate(MergeObject, obj))
    /\ Goto(<<"close", "status">>)
    /\ UNCHANGED <<cache, queued, mem, base, aux, cloud, world>>

(* That the object is gone is no error when the reconcile itself removed the *)
(* finalizer.  An error or a requeue puts the object back into the queue.    *)
PatchStatus ==
    /\ task = <<"close", "status">> /\ outcome # None
    /\ IF obj.phase = "gone" /\ mem.phase = "deleting" /\ ~mem.finalizer
       THEN UNCHANGED <<obj, outcome>>
       ELSE Patch(MergeStatus, TRUE)
    /\ queued' = (queued \/ outcome' # "done")
    /\ task' = Idle
    /\ mem' = NewCluster /\ base' = NewCluster
    /\ UNCHANGED <<cache, todo, aux, cloud, world>>

-----------------------------------------------------------------------------
(* Events: the informer, the watches of SetupWithManager, the user.         *)

CacheSync ==
    /\ cache # obj
    /\ cache' = obj
    /\ queued' = TRUE
    /\ UNCHANGED <<obj, local, cloud, world>>

(* The Cluster controller of Cluster API sets the owner reference.           *)
SetOwnerRef ==
    /\ obj.phase = "live" /\ ~obj.owned
    /\ obj' = [obj EXCEPT !.owned = TRUE]
    /\ UNCHANGED <<cache, queued, local, cloud, world>>

(* ClusterPausedTransitions.                                                 *)
PauseTransition ==
    /\ "pause" \in Env
    /\ paused' = ~paused
    /\ queued' = TRUE
    /\ UNCHANGED <<k8s, local, cloud, group, addr, cpInitialized>>

(* ClusterControlPlaneInitialized, once there is a control plane to reach.   *)
ControlPlaneInitialized ==
    /\ ~cpInitialized
    /\ obj.provisioned
    /\ cpInitialized' = TRUE
    /\ queued' = TRUE
    /\ UNCHANGED <<k8s, local, cloud, group, addr, paused>>

(* cloudscaleMachineToCluster: a control plane machine gets, changes or      *)
(* loses its address; it gets one only while its member can still be made,   *)
(* and none when the cluster is deleted, whose machines Cluster API removes. *)
MachineEvent(c) ==
    /\ "machines" \in Env
    /\ LBEnabled /\ addr[c] = None => Fresh(MemberKey(c)) # {}
    /\ \E a \in (Addresses \cup {None}) \ {addr[c]} :
        /\ a # None => obj.phase = "live"
        /\ addr' = [addr EXCEPT ![c] = a]
    /\ queued' = TRUE
    /\ UNCHANGED <<k8s, local, cloud, group, cpInitialized, paused>>

(* The machine controller makes a group, puts a server into it, records the  *)
(* server, and deletes it.                                                   *)
GroupEvent ==
    /\ "groups" \in Env
    /\ \/ group = "none" /\ obj.phase = "live" /\ group' = "empty"
       \/ group = "empty" /\ obj.phase = "live" /\ group' = "foreign"
       \/ group = "foreign" /\ group' = "owned"
       \/ group = "owned" /\ group' = "empty"
    /\ UNCHANGED <<k8s, queued, local, cloud, addr, cpInitialized, paused>>

Resync ==
    /\ ~queued
    /\ queued' = TRUE
    /\ UNCHANGED <<k8s, local, cloud, world>>

DeleteObject ==
    /\ obj.phase = "live"
    /\ (IF obj.finalizer THEN "delete" ELSE "earlyDelete") \in Env
    /\ obj' = Stored([obj EXCEPT !.phase = "deleting"])
    /\ UNCHANGED <<cache, queued, local, cloud, world>>

(* A create in flight at the crash is one that timed out just before.        *)
Crash ==
    /\ "crash" \in Env
    /\ task # Idle
    /\ cache' = obj
    /\ queued' = TRUE
    /\ task' = Idle /\ todo' = <<>>
    /\ mem' = NewCluster /\ base' = NewCluster
    /\ aux' = NoAux
    /\ outcome' = "done"
    /\ UNCHANGED <<obj, cloud, world>>

-----------------------------------------------------------------------------
(* The cloud.                                                               *)

Becomes(u, from, to) ==
    /\ cloud[u].state = from
    /\ cloud' = [cloud EXCEPT ![u].state = to]
    /\ UNCHANGED <<k8s, queued, local, world>>

BecomesReady(u) == Becomes(u, "changing", "up")

(* A create that timed out takes effect, unless what it needs is gone by     *)
(* then, or is lost for good.                                                *)
PendingLands(u) ==
    /\ cloud[u].parent = None \/ Exists(cloud[u].parent) \/ u[1][1] = "fip"
    /\ u[1] \in InterfaceKeys =>
        /\ Exists(cloud[u].attr)
        /\ \A v \in InterfacesOf(cloud[u].parent) : cloud[v].attr # cloud[u].attr
    /\ Becomes(u, "pending", NewState(u[1]))

PendingLost(u) ==
    /\ cloud[u].state = "pending"
    /\ cloud' = [cloud EXCEPT ![u] = Unused]
    /\ UNCHANGED <<k8s, queued, local, world>>

(* The pool members of a deleted load balancer are gone at last.             *)
CleanedUp(u) == Becomes(u, "leaving", "deleted")

(* A member whose machine is gone or has another address.                    *)
Stale(u) == u[1] \in MemberKeys /\ Exists(u) /\ cloud[u].attr # addr[MachineOf(u)]

(* A load balancer that leaves the running state is back only when every     *)
(* member of its pool answers.                                               *)
Degrades(u) == "degraded" \in Env /\ u[1] = LBKey /\ Becomes(u, "up", "degraded")
Recovers(u) == (\A v \in Uuids : ~Stale(v)) /\ Becomes(u, "degraded", "up")

(* Someone else deletes a resource that nothing is attached to.              *)
DeletedExternally(u) ==
    /\ "external" \in Env
    /\ u[1] \in Deletable /\ Exists(u)
    /\ ~NetworkInUse(u) /\ InterfacesOf(u) = {}
    /\ cloud' = Erase(u)
    /\ UNCHANGED <<k8s, queued, local, world>>

(* Someone else attaches a pre-existing router to a network of the spec.     *)
AttachedExternally(r, n) ==
    LET k == InterfaceKey(r, n)
        router == <<RouterKey(r), 0>>
    IN  /\ "attach" \in Env
        /\ ~Managed(RouterKey(r)) /\ Managed(k)
        /\ cloud[<<k, 0>>] = Unused
        /\ \E net \in Found(NetworkKey(n)) :
            /\ \A v \in InterfacesOf(router) : cloud[v].attr # net
            /\ cloud' = [cloud EXCEPT ![<<k, 0>>] = [state |-> "up", parent |-> router,
                                                     attr |-> net]]
        /\ UNCHANGED <<k8s, queued, local, world>>

-----------------------------------------------------------------------------
(* The specification.                                                       *)

Attachments == {k[2] : k \in InterfaceKeys}

NetworkStep(n) == reconcilePreExistingNetwork(n) \/ deleteNetwork(n)

RouterStep(r) == adoptRouter(r) \/ readRouter(r) \/ deleteRouter(r)

InterfaceStep(r, n) ==
    \/ adoptRouterInterface(r, n) \/ claimRouterInterface(r, n)
    \/ createRouterInterface(r, n) \/ detachInterface(r, n)

LoadBalancerStep ==
    \/ loadBalancerReconciled
    \/ LBEnabled /\ (readLB \/ listMembers \/ deleteLoadBalancer)

MemberStep(u) == updateLoadBalancerMember(u) \/ deleteLoadBalancerMember(u)

FloatingIPStep ==
    \/ floatingIPReconciled
    \/ FIPWanted /\ (\/ reconcilePreExistingFloatingIP \/ ensureFloatingIPAssignment
                     \/ deleteFloatingIP)

ResourceStep(k) ==
    GetResource(k) \/ ListResource(k) \/ CreateResource(k) \/ CreateResourceRefused(k)

ControllerStep ==
    \/ ReconcileSkip \/ ReconcileNormal \/ ReconcileDelete
    \/ networksReconciled \/ routersReconciled \/ finish
    \/ deleteServerGroups \/ deleteServerGroup \/ routersDeleted \/ networksDeleted
    \/ PatchConditions \/ PatchObject \/ PatchStatus

Succeeds ==
    \/ ControllerStep \/ LoadBalancerStep \/ FloatingIPStep
    \/ \E n \in NetworkNames : NetworkStep(n)
    \/ \E r \in RouterNames : RouterStep(r)
    \/ \E i \in Attachments : InterfaceStep(i[1], i[2])
    \/ \E c \in CPMachines : LBEnabled /\ createLoadBalancerMember(c)
    \/ \E u \in Uuids : u[1] \in MemberKeys /\ MemberStep(u)
    \/ \E k \in EnsuredKeys : ResourceStep(k)

Fails ==
    \/ CallFails \/ deleteServerGroupsFails
    \/ LBEnabled /\ deleteLoadBalancerFails
    \/ FIPWanted /\ deleteFloatingIPFails
    \/ \E n \in NetworkNames : deleteNetworkFails(n)
    \/ \E r \in RouterNames : deleteRouterFails(r)
    \/ \E i \in Attachments :
        createRouterInterfaceFails(i[1], i[2]) \/ detachInterfaceFails(i[1], i[2])

Timeout ==
    \/ \E i \in Attachments : createRouterInterfaceTimeout(i[1], i[2])
    \/ \E c \in CPMachines : LBEnabled /\ createLoadBalancerMemberTimeout(c)
    \/ \E k \in EnsuredKeys : CreateResourceTimeout(k)

Event ==
    \/ CacheSync \/ SetOwnerRef \/ PauseTransition \/ ControlPlaneInitialized
    \/ GroupEvent \/ Resync \/ DeleteObject
    \/ \E c \in CPMachines : MachineEvent(c)

Settles(u) ==
    BecomesReady(u) \/ PendingLands(u) \/ PendingLost(u) \/ CleanedUp(u) \/ Recovers(u)

CloudEvent(u) == Settles(u) \/ Degrades(u) \/ DeletedExternally(u)

Next ==
    \/ Succeeds \/ Fails \/ Timeout \/ Event \/ Crash
    \/ \E u \in Uuids : CloudEvent(u)
    \/ \E i \in Attachments : AttachedExternally(i[1], i[2])

Spec == Init /\ [][Next]_vars

(* A worker takes the queued object and every call returns; the informer     *)
(* catches up; Cluster API sets the owner reference and, when the cluster is *)
(* deleted, its machines leave their groups; what is changing, pending or    *)
(* being cleaned up settles, and a load balancer recovers.                   *)
Fairness ==
    /\ WF_vars(Succeeds \/ Fails \/ Timeout)
    /\ WF_vars(CacheSync)
    /\ WF_vars(SetOwnerRef)
    /\ WF_vars(GroupEvent)
    /\ \A u \in Uuids : WF_vars(Settles(u))

(* A call fails that could have succeeded.  An error that the controller or  *)
(* the API gives in any case is not among them.                              *)
APIError == Fails /\ ~Succeeds /\ ENABLED Succeeds

(* Crashes, timeouts, API errors, a degraded load balancer, changes of the   *)
(* machines and of the pause flag come to an end.                            *)
Disturbance ==
    \/ Crash \/ Timeout \/ APIError \/ PauseTransition
    \/ \E c \in CPMachines : MachineEvent(c)
    \/ \E u \in Uuids : Degrades(u)

FairSpec == Spec /\ Fairness /\ <>[][~Disturbance]_vars

-----------------------------------------------------------------------------
(* Properties.                                                              *)

IsCluster(o) ==
    /\ DOMAIN o = DOMAIN NewCluster
    /\ o.phase \in {"live", "deleting", "gone"}
    /\ {o.owned, o.finalizer, o.provisioned, o.ready} \subseteq BOOLEAN
    /\ o.cond \in [Parts -> BOOLEAN]
    /\ o.endpoint \in {None, UserEndpoint} \cup {u \in Uuids : u[1] \in {LBKey, FIPKey}}
    /\ \A k \in StatusKeys : o.ids[k] \in {None, Unanswered} \cup {u \in Uuids : u[1] = k}
    /\ \A u \in o.members : u \in Uuids /\ u[1] \in MemberKeys

(* An ID field only ever holds a resource of its own kind and name, and only *)
(* an interface entry can be without an ID.                                  *)
TypeOK ==
    /\ \A o \in {obj, cache, mem, base} :
        /\ IsCluster(o)
        /\ \A k \in StatusKeys \ InterfaceKeys : o.ids[k] # Unanswered
    /\ queued \in BOOLEAN /\ cpInitialized \in BOOLEAN /\ paused \in BOOLEAN
    /\ task \in Tasks
    /\ Range(todo) \subseteq Tasks
    /\ outcome \in {None, "done", "requeue", "error"}
    /\ \A u \in Uuids : cloud[u].state \in ResourceStates
    /\ group \in {"none", "empty", "owned", "foreign"}
    /\ addr \in [CPMachines -> Addresses \cup {None}]

Made(u) == u[2] > 0 /\ Exists(u)

(* No network, router, load balancer, pool member ... exists twice: status   *)
(* ID and tag search together find what an earlier reconcile made, though it *)
(* crashed, timed out or worked from a stale object.                         *)
AtMostOneResource ==
    \A u, v \in Uuids : Made(u) /\ Made(v) /\ u[1] = v[1] => u = v

(* Deleting the cluster removes everything that was made for it.             *)
NoOrphanResource == obj.phase = "gone" => \A u \in Uuids : ~Made(u)

(* Nothing that the spec names by UUID or address is ever deleted.           *)
PreExistingIsKept == \A k \in PreExisting : Exists(<<k, 0>>)

(* An ID is never stored before the finalizer.                               *)
RecordedIsProtected ==
    (obj.members # {} \/ \E k \in StatusKeys : obj.ids[k] # None) => obj.finalizer

(* Cluster API copies spec.controlPlaneEndpoint when it sees Provisioned.    *)
ProvisionedHasEndpoint == obj.provisioned => obj.endpoint # None

(* "a controlPlaneEndpoint once set, is never changed", not even by a        *)
(* reconcile that does not see it yet.                                       *)
EndpointIsFinal ==
    [][obj.endpoint # None /\ obj'.phase # "gone" => obj'.endpoint = obj.endpoint]_vars

(* Provisioned is recomputed by every reconcile and is never taken back.     *)
ProvisionedIsFinal ==
    [][obj.provisioned /\ obj'.phase # "gone" => obj'.provisioned]_vars

(* While a live cluster says Provisioned, its status names all its resources.*)
ProvisionedIsRecorded ==
    obj.provisioned /\ obj.phase = "live" => isInfrastructureProvisioned(obj)

(* A cluster that is not deleted ends up provisioned and Ready.              *)
Converges == <>[](obj.phase = "live" => obj.provisioned /\ obj.ready)

(* A deleted cluster loses its finalizer in the end: no deletion goes on for *)
(* ever.                                                                     *)
DeletionCompletes == <>[](obj.phase # "deleting")

PoolMembers == {u \in Uuids : u[1] \in MemberKeys /\ Exists(u)}

(* The pool has in the end one member for every control plane machine that   *)
(* has an address, with that address, and no other.                          *)
PoolFollowsMachines ==
    <>[](obj.phase = "live" /\ LBEnabled =>
            /\ \A u \in PoolMembers : cloud[u].attr = addr[MachineOf(u)]
            /\ \A c \in CPMachines : addr[c] # None => \E u \in PoolMembers : MachineOf(u) = c)

(* The floating IP ends up on the load balancer that status names or, without *)
(* one, on a control plane server that exists, unless its routers, which     *)
(* come first, cannot be attached.                                           *)
FloatingIPIsAssigned ==
    <>[](/\ obj.phase = "live" /\ obj.cond["router"]
         /\ FIPWanted /\ getFloatingIPTarget(obj) # {}
         => /\ obj.ids[FIPKey] # None
            /\ cloud[obj.ids[FIPKey]].parent \in getFloatingIPTarget(obj))

=============================================================================
