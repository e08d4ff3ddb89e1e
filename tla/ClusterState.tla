----------------------------- MODULE ClusterState -----------------------------
(***************************************************************************)
(* The state that the parts of the CloudscaleCluster controller share: the *)
(* CloudscaleCluster object, the reconcile in progress, and the resources  *)
(* at cloudscale.ch.  ClusterNetwork, ClusterRouter, ClusterLoadBalancer   *)
(* and ClusterFloatingIP describe one part each, ClusterController puts    *)
(* them together.                                                          *)
(*                                                                         *)
(* A reconcile is a program: a current task and the tasks left to do.  A   *)
(* task is one call of the cloudscale.ch API, or the local end of a part.  *)
(***************************************************************************)
EXTENDS Naturals, Sequences, FiniteSets, Functions

CONSTANTS
    Networks,           \* names of spec.networks, in order
    Routers,            \* names of spec.routers, in order
    Attach,             \* router -> its spec interfaces' networks, in order
    PreExisting,        \* keys of what the spec names by UUID or address
    LBEnabled,          \* spec.controlPlaneLoadBalancer.enabled
    LBNetwork,          \* its network, None for a public VIP
    PoolMemberNetwork,  \* its poolMemberNetwork, or None
    FIPWanted,          \* spec.floatingIP is set
    UserEndpoint,       \* spec.controlPlaneEndpoint given by the user, or None
    CPMachines,         \* names of the control plane's CloudscaleMachines
    Addresses,          \* addresses of their servers
    MaxCreates,         \* bound on the creates of one resource
    Deletable,          \* keys of the resources someone else may delete
    None,               \* the empty string and the nil pointer
    Unanswered,         \* the interfaceID of an attach that was not answered
    Env                 \* what the environment may do, a subset of EnvKinds

(***************************************************************************)
(* crash        the process stops between two calls and is restarted       *)
(* timeout      a create call ends in a timeout                            *)
(* late         a timed-out create may take effect after a later list      *)
(* stale        a reconcile may start from a cache behind the API server   *)
(* external     resources of Deletable are deleted by someone else         *)
(* attach       someone else attaches a pre-existing router                *)
(* degraded     the load balancer leaves the running state                 *)
(* delete       the object is deleted, its finalizer being stored          *)
(* earlyDelete  the object is deleted before its finalizer is stored       *)
(* apiError     calls of the cloudscale.ch API fail                        *)
(* patchError   a patch sent by Close fails                                *)
(* pause        the owning Cluster is paused and unpaused                  *)
(* machines     control plane machines come, change address and go         *)
(* groups       machines make, enter and leave a server group              *)
(***************************************************************************)
EnvKinds == {"crash", "timeout", "late", "stale", "external", "attach", "degraded",
             "delete", "earlyDelete", "apiError", "patchError", "pause", "machines",
             "groups"}

-----------------------------------------------------------------------------
(* Resources.  A key is what tags identify: <<kind, name>>.  A UUID is the   *)
(* key with a serial number; 0 is one that CAPCS did not make.               *)

NetworkNames == Range(Networks)
RouterNames == Range(Routers)

NetworkKey(n) == <<"network", n>>
SubnetKey(n) == <<"subnet", n>>
RouterKey(r) == <<"router", r>>
InterfaceKey(r, n) == <<"interface", <<r, n>>>>
MemberKey(c) == <<"member", c>>
LBKey == <<"lb", None>>
PoolKey == <<"pool", None>>
ListenerKey == <<"listener", None>>
MonitorKey == <<"monitor", None>>
FIPKey == <<"fip", None>>

NetworkKeys == {NetworkKey(n) : n \in NetworkNames}
               \cup {SubnetKey(n) : n \in NetworkNames}
InterfaceKeys == UNION {{InterfaceKey(r, n) : n \in Range(Attach[r])} : r \in RouterNames}
RouterKeys == {RouterKey(r) : r \in RouterNames} \cup InterfaceKeys
LBKeys == IF LBEnabled THEN {LBKey, PoolKey, ListenerKey, MonitorKey} ELSE {}
FIPKeys == IF FIPWanted THEN {FIPKey} ELSE {}
MemberKeys == IF LBEnabled THEN {MemberKey(c) : c \in CPMachines} ELSE {}

(* The keys with an ID field in status.                                      *)
StatusKeys == NetworkKeys \cup RouterKeys \cup LBKeys \cup FIPKeys
Keys == StatusKeys \cup MemberKeys
Uuids == Keys \X (0..MaxCreates)

Managed(k) == k \notin PreExisting

(* changing is a load balancer or router that is not ready yet, degraded a   *)
(* load balancer in any other state than running and changing, leaving one   *)
(* whose pool members are still being cleaned up after its deletion.         *)
ExistingStates == {"changing", "up", "degraded"}
ResourceStates == ExistingStates \cup {"unused", "pending", "leaving", "deleted"}

ASSUME ClusterEnvAssumption == Env \subseteq EnvKinds
ASSUME ClusterSpecAssumption ==
    /\ Networks \in Seq(NetworkNames) /\ Networks # <<>>
    /\ Routers \in Seq(RouterNames)
    /\ Attach \in [RouterNames -> Seq(NetworkNames)] /\ DOMAIN Attach = RouterNames
    /\ \A r \in RouterNames : Range(Attach[r]) \subseteq NetworkNames
    /\ PreExisting \subseteq NetworkKeys \cup RouterKeys \cup FIPKeys
    /\ LBNetwork \in NetworkNames \cup {None}
    /\ PoolMemberNetwork \in NetworkNames \cup {None}
    /\ LBEnabled \in BOOLEAN /\ FIPWanted \in BOOLEAN
    /\ MaxCreates \in Nat
ASSUME ClusterNoneAssumption ==
    None # Unanswered /\ None \notin Uuids /\ Unanswered \notin Uuids
(* The webhook admits an interface by UUID only on a router by UUID; and    *)
(* nobody else deletes what the user gave to the cluster.                    *)
ASSUME ClusterGivenAssumption ==
    /\ \A r \in RouterNames : \A n \in Range(Attach[r]) :
        InterfaceKey(r, n) \in PreExisting => RouterKey(r) \in PreExisting
    /\ Deletable \cap PreExisting = {}

-----------------------------------------------------------------------------
VARIABLES
    obj,      \* the CloudscaleCluster in the Kubernetes API server
    cache,    \* the informer's copy, which Reconcile reads
    queued,   \* the object is in the work queue
    task,     \* the current task of the reconcile
    todo,     \* the tasks after it
    mem,      \* the object in memory during a reconcile
    base,     \* the patch helper's snapshot, taken by NewClusterScope
    aux,      \* local variables of the handlers
    outcome,  \* what Reconcile is about to return, None before it does
    cloud,    \* the resources at cloudscale.ch
    group,    \* a server group of the cluster
    addr,     \* the address of each control plane machine, None without one
    cpInitialized,  \* Cluster.status.initialization.controlPlaneInitialized
    paused    \* Cluster.spec.paused

k8s == <<obj, cache>>
local == <<task, todo, mem, base, aux, outcome>>
world == <<group, addr, cpInitialized, paused>>
vars == <<k8s, queued, local, cloud, world>>

(* Local variables: the Cluster's controlPlaneInitialized as read at the     *)
(* start, each network whose subnet is being reconciled, the requeue of      *)
(* reconcileRouters, the errors of the delete loops, lbPending and the VIP   *)
(* (named by its load balancer), the interfaces in each router's last        *)
(* answer, an interface that could not be deleted, deleted networks, and the *)
(* members wanted in the pool.                                               *)
NoAux == [cpInit |-> FALSE,
          net |-> [n \in NetworkNames |-> None], waiting |-> FALSE, failed |-> FALSE,
          lbPending |-> FALSE, vip |-> None, seen |-> [r \in RouterNames |-> {}],
          detachFailed |-> FALSE, gone |-> {},
          desired |-> [c \in CPMachines |-> None]]

Parts == {"network", "router", "lb", "fip"}

NewCluster == [phase |-> "live", owned |-> FALSE, finalizer |-> FALSE,
               endpoint |-> UserEndpoint, ids |-> [k \in StatusKeys |-> None],
               members |-> {}, provisioned |-> FALSE,
               cond |-> [p \in Parts |-> FALSE], ready |-> FALSE]

GoneCluster == [NewCluster EXCEPT !.phase = "gone"]

Idle == <<"idle", None>>

(* An interface is not made through ensureResource.                          *)
EnsuredKeys == StatusKeys \ InterfaceKeys

Tasks == ({"ensure", "list", "create"} \X EnsuredKeys)
         \cup ({"discover", "deleteNetwork", "adopt", "readRouter", "deleteRouter",
                "interface", "detach", "readLB", "members", "addMember", "adoptFIP",
                "assign", "deleteFIP", "deleteLB"} \X Keys)
         \cup ({"updateMember", "removeMember"} \X Uuids)
         \cup ({"idle", "finish", "deleteGroups", "deleteGroup"} \X {None})
         \cup ({"end"} \X (Parts \cup {"routers", "networks"}))
         \cup ({"close"} \X {"conditions", "object", "status"})

-----------------------------------------------------------------------------
(* The cloudscale.ch API.                                                   *)

Unused == [state |-> "unused", parent |-> None, attr |-> None]

(* What the spec names by UUID or address is there from the beginning.       *)
PreExistingResource(k) ==
    [state |-> "up",
     parent |-> IF k[1] = "interface" THEN <<RouterKey(k[2][1]), 0>> ELSE None,
     attr |-> IF k[1] = "interface" THEN <<NetworkKey(k[2][2]), 0>> ELSE None]

Exists(u) == u \in Uuids /\ cloud[u].state \in ExistingStates

(* List with a tag filter: the resources made for the key.                   *)
Found(k) == {u \in Uuids : u[1] = k /\ Exists(u)}

Pending(k) == {u \in Uuids : u[1] = k /\ cloud[u].state = "pending"}

(* Unless creates may land late, a create has taken effect, or never will,   *)
(* when a later call on the same resource is answered.                       *)
Settled(k) == "late" \in Env \/ Pending(k) = {}

(* The UUID of the next create; none is left when the quota is used up.      *)
Fresh(k) == {u \in Uuids : /\ u[1] = k /\ u[2] > 0
                           /\ cloud[u].state = "unused"
                           /\ \A j \in 1..(u[2] - 1) : cloud[<<k, j>>].state # "unused"}

(* A load balancer takes its pool, listener, monitor and members with it, a  *)
(* network its subnet, a router its interfaces.  A 404 changes nothing.      *)
Below(u) == LET children(S) == {v \in Uuids : cloud[v].parent \in S}
            IN  {u} \cup children({u}) \cup children(children({u}))

Erase(u) ==
    [v \in Uuids |->
        IF Exists(u) /\ v \in Below(u) /\ (v = u \/ v[1][1] # "fip") /\ Exists(v)
        THEN [cloud[v] EXCEPT !.state = IF v[1] = LBKey THEN "leaving" ELSE "deleted"]
        ELSE cloud[v]]

(* Interfaces of a router, as its Get returns them.                          *)
InterfacesOf(u) == {v \in Uuids : v[1] \in InterfaceKeys /\ cloud[v].parent = u /\ Exists(v)}

-----------------------------------------------------------------------------
(* Control.                                                                 *)

Goto(t) == task' = t /\ UNCHANGED todo

Push(ts) ==
    /\ ts \o todo # <<>>
    /\ task' = Head(ts \o todo)
    /\ todo' = Tail(ts \o todo)

NextTask == Push(<<>>)

Record(o, k, u) == [o EXCEPT !.ids[k] = u]

(* Reconcile returns: what is left is the deferred Close.                    *)
Return(o, res) ==
    /\ mem' = o
    /\ outcome' = res
    /\ task' = <<"close", "conditions">>
    /\ todo' = <<>>
    /\ aux' = NoAux
    /\ UNCHANGED base

(* setReadyCondition, deferred by reconcileNormal: Ready is True when all    *)
(* parts' conditions are.                                                    *)
setReadyCondition(o) == [o EXCEPT !.ready = \A p \in Parts : o.cond[p]]

setCondition(o, p, b) == [o EXCEPT !.cond[p] = b]

(* reconcileNormal returns out of a part, whose deferred function has set    *)
(* its condition.                                                            *)
ReturnFrom(p, b, o, res) == Return(setReadyCondition(setCondition(o, p, b)), res)

outside == <<k8s, queued, world>>
=============================================================================
