------------------------------- MODULE Provider -------------------------------
(***************************************************************************)
(* Both controllers of one cluster in one process.  They share the         *)
(* informers and the account at cloudscale.ch:                             *)
(*   - a machine is reconciled while the cached CloudscaleCluster exists   *)
(*     and is Provisioned (cloudscalemachine_controller.go);               *)
(*   - the cluster's deletion judges a server group by the servers that    *)
(*     the cached CloudscaleMachines record                                *)
(*     (cloudscalecluster_servergroup.go);                                 *)
(*   - each controller watches the objects of the other.                   *)
(* What MachineController and ClusterController leave to their environment *)
(* in these places is defined here by the state of the other.              *)
(*                                                                         *)
(* Cluster API deletes a Cluster's machines first and its CloudscaleCluster*)
(* when they are gone.                                                     *)
(***************************************************************************)
EXTENDS Naturals, FiniteSets

CONSTANTS
    Machines, Servers, Groups, GroupNames, GroupOf,
    ControlPlane,    \* the machines with the control plane label
    Networks, PreExisting, UserEndpoint, MaxCreates,
    None, Unanswered,
    MachineEnv, ClusterEnv

VARIABLES
    mObj, mCache, mQueued, pc, mMem, mBase, mOutcome, serverGroupMu,
    servers, groups, bootstrapped,
    cObj, cCache, cQueued, task, todo, cMem, cBase, aux, cOutcome, cloud,
    cpInitialized,
    paused,          \* Cluster.spec.paused
    clusterDeleted   \* the Cluster has a deletion timestamp

machineLocal == <<pc, mMem, mBase, mOutcome, serverGroupMu>>
machineVars == <<mObj, mCache, mQueued, machineLocal, servers, groups, bootstrapped>>
clusterLocal == <<task, todo, cMem, cBase, aux, cOutcome>>
clusterVars == <<cObj, cCache, cQueued, clusterLocal, cloud, cpInitialized>>
vars == <<machineVars, clusterVars, paused, clusterDeleted>>

-----------------------------------------------------------------------------
(* What each controller sees of the other.                                  *)

(* Fault: the machines wait for the Ready condition.                         *)
ClusterProvisioned_ready ==
    cCache.phase # "gone" /\ cCache.provisioned /\ cCache.ready

(* The check of the CloudscaleCluster in the machines' Reconcile.            *)
ClusterProvisioned == cCache.phase # "gone" /\ cCache.provisioned

(* getOwnedServerIDs.                                                        *)
OwnedServerIDs ==
    {mCache[m].serverID : m \in {n \in Machines : mCache[n].phase # "gone"}} \ {None}

(* Fault: a group counts as used while its machines' objects exist.          *)
ServerGroup_objects ==
    LET live == {g \in Groups : groups[g].state = "live"}
        inside == {s \in Servers : servers[s].group \in live
                                   /\ servers[s].state \in {"changing", "running", "stopped"}}
    IN  CASE live = {} -> "none"
          [] live # {} /\ \E m \in Machines : mCache[m].phase # "gone" -> "foreign"
          [] live # {} /\ inside # {} -> "owned"
          [] OTHER -> "empty"

(* The verdict of deleteServerGroups on the cluster's server group.          *)
ServerGroup ==
    LET live == {g \in Groups : groups[g].state = "live"}
        inside == {s \in Servers : servers[s].group \in live
                                   /\ servers[s].state \in {"changing", "running", "stopped"}}
    IN  CASE live = {} -> "none"
          [] live # {} /\ inside = {} -> "empty"
          [] live # {} /\ inside \cap OwnedServerIDs # {} -> "owned"
          [] OTHER -> "foreign"

M == INSTANCE MachineController WITH
        obj <- mObj, cache <- mCache, queued <- mQueued, mem <- mMem,
        base <- mBase, outcome <- mOutcome,
        clusterProvisioned <- ClusterProvisioned, Env <- MachineEnv

(* A cluster of networks only, whose endpoint the user gives: the other      *)
(* parts do not touch machines, except the pool members and the floating IP. *)
C == INSTANCE ClusterController WITH
        obj <- cObj, cache <- cCache, queued <- cQueued, mem <- cMem,
        base <- cBase, outcome <- cOutcome,
        group <- ServerGroup, addr <- [c \in {} |-> None],
        Routers <- <<>>, Attach <- [r \in {} |-> <<>>], LBEnabled <- FALSE,
        LBNetwork <- None, PoolMemberNetwork <- None, FIPWanted <- FALSE,
        CPMachines <- {}, Addresses <- {}, Deletable <- {}, Env <- ClusterEnv

(* Cluster API has set the owner references.                                 *)
Init ==
    /\ mObj = [m \in Machines |-> [M!NewObject EXCEPT !.owned = TRUE]] /\ mCache = mObj
    /\ mQueued = Machines
    /\ pc = [m \in Machines |-> "idle"]
    /\ mMem = [m \in Machines |-> M!NewObject] /\ mBase = mMem
    /\ mOutcome = [m \in Machines |-> "done"]
    /\ serverGroupMu = None
    /\ servers = [s \in Servers |-> M!UnusedServer]
    /\ groups = [g \in Groups |-> M!UnusedGroup]
    /\ bootstrapped = {}
    /\ cObj = [C!NewCluster EXCEPT !.owned = TRUE] /\ cCache = cObj
    /\ cQueued = TRUE
    /\ task = C!Idle /\ todo = <<>>
    /\ cMem = C!NewCluster /\ cBase = C!NewCluster
    /\ aux = C!NoAux
    /\ cOutcome = "done"
    /\ cloud = C!InitialCloud
    /\ cpInitialized = FALSE
    /\ paused = FALSE
    /\ clusterDeleted = FALSE

-----------------------------------------------------------------------------
(* Steps of one controller.                                                 *)

MachineReconciles(m) ==
    /\ UNCHANGED <<clusterVars, paused, clusterDeleted>>
    /\ M!Succeeds(m)

(* The only resources of the machines that the cluster's controller changes  *)
(* are the groups, in the call of deleteServerGroup, whether it is answered  *)
(* or not.                                                                   *)
ClusterCall ==
    /\ UNCHANGED <<mObj, mCache, mQueued, machineLocal, servers, bootstrapped>>
    /\ UNCHANGED <<paused, clusterDeleted>>
    /\ IF task = <<"deleteGroup", None>> /\ ServerGroup = "empty"
       THEN groups' \in {groups, [g \in Groups |-> IF groups[g].state = "live"
                                                   THEN [groups[g] EXCEPT !.state = "deleted"]
                                                   ELSE groups[g]]}
       ELSE UNCHANGED groups

ClusterSucceeds == ClusterCall /\ C!Succeeds

ClusterFails == ClusterCall /\ C!Fails

(* The informers, and the watches of the other controller's objects.        *)

(* Fault: the machines do not watch their CloudscaleCluster.                 *)
ClusterCacheSync_unmapped ==
    /\ UNCHANGED <<machineVars, paused, clusterDeleted>>
    /\ C!CacheSync

(* cloudscaleClusterToCloudscaleMachines: all machines of a cluster that has *)
(* an owner and is not being deleted.                                        *)
ClusterCacheSync ==
    /\ UNCHANGED <<mObj, mCache, machineLocal, servers, groups, bootstrapped>>
    /\ UNCHANGED <<paused, clusterDeleted>>
    /\ C!CacheSync
    /\ mQueued' = IF cObj.phase = "live" /\ cObj.owned THEN Machines ELSE mQueued

(* cloudscaleMachineToCluster.                                               *)
MachineCacheSync(m) ==
    /\ cQueued' = (cQueued \/ (m \in ControlPlane /\ cCache.phase # "gone"))
    /\ UNCHANGED <<cObj, cCache, clusterLocal, cloud, cpInitialized>>
    /\ UNCHANGED <<paused, clusterDeleted>>
    /\ M!CacheSync(m)

-----------------------------------------------------------------------------
(* Cluster API and the user.                                                *)

(* The bootstrap provider waits for the infrastructure of the cluster.       *)
MachineBootstrapped(m) ==
    /\ cObj.provisioned
    /\ UNCHANGED <<clusterVars, paused, clusterDeleted>>
    /\ M!BootstrapDataReady(m)

ControlPlaneInitialized ==
    /\ UNCHANGED <<machineVars, paused, clusterDeleted>>
    /\ C!ControlPlaneInitialized

(* Fault: the machines do not watch their Cluster.                           *)
PauseTransition_unwatched ==
    /\ UNCHANGED <<machineVars, clusterDeleted>>
    /\ UNCHANGED <<cObj, cCache, clusterLocal, cloud, cpInitialized>>
    /\ C!PauseTransition

(* The Cluster is paused or unpaused; both controllers watch it.             *)
PauseTransition ==
    /\ UNCHANGED <<mObj, mCache, machineLocal, servers, groups, bootstrapped>>
    /\ UNCHANGED <<cObj, cCache, clusterLocal, cloud, cpInitialized, clusterDeleted>>
    /\ M!PauseTransition
    /\ C!PauseTransition

(* The user deletes the Cluster.                                             *)
DeleteCluster ==
    /\ ~clusterDeleted
    /\ clusterDeleted' = TRUE
    /\ UNCHANGED <<machineVars, clusterVars, paused>>

(* A machine is deleted with the Cluster, or before that to scale down.  One *)
(* without a finalizer disappears at once; that its first reconcile has then *)
(* not yet begun is the restriction NoOrphanServer needs as well.            *)
DeleteMachine(m) ==
    /\ mObj[m].finalizer \/ pc[m] = "idle"
    /\ UNCHANGED <<clusterVars, paused, clusterDeleted>>
    /\ M!DeleteObject(m)

(* The CloudscaleCluster is deleted after all machines.                      *)
DeleteInfraCluster ==
    /\ clusterDeleted
    /\ \A m \in Machines : mObj[m].phase = "gone"
    /\ cObj.finalizer \/ task = C!Idle
    /\ UNCHANGED <<machineVars, paused, clusterDeleted>>
    /\ C!DeleteObject

-----------------------------------------------------------------------------
(* The cloud.                                                               *)

ServerBoots(s) ==
    /\ UNCHANGED <<clusterVars, paused, clusterDeleted>>
    /\ M!ServerBoots(s)

Next ==
    \/ \E m \in Machines :
        \/ MachineReconciles(m) \/ MachineCacheSync(m)
        \/ MachineBootstrapped(m) \/ DeleteMachine(m)
    \/ ClusterSucceeds \/ ClusterFails \/ ClusterCacheSync
    \/ ControlPlaneInitialized \/ PauseTransition
    \/ DeleteCluster \/ DeleteInfraCluster
    \/ \E s \in Servers : ServerBoots(s)

Spec == Init /\ [][Next]_vars

(* As for the controllers alone.  Cluster API deletes the machines and then  *)
(* the CloudscaleCluster of a Cluster under deletion.  Pausing and the calls *)
(* that fail though they could succeed come to an end.                       *)
Fairness ==
    /\ \A m \in Machines :
        /\ WF_vars(MachineReconciles(m))
        /\ WF_vars(MachineCacheSync(m))
        /\ WF_vars(MachineBootstrapped(m))
        /\ WF_vars(clusterDeleted /\ DeleteMachine(m))
    /\ WF_vars(ClusterSucceeds \/ ClusterFails)
    /\ WF_vars(ClusterCacheSync)
    /\ WF_vars(DeleteInfraCluster)
    /\ \A s \in Servers : WF_vars(ServerBoots(s))
    /\ <>[][~PauseTransition /\ (ClusterFails => ClusterSucceeds)]_vars

FairSpec == Spec /\ Fairness

-----------------------------------------------------------------------------
(* Properties.                                                              *)

(* A machine with a finalizer is never held up at the check of the           *)
(* CloudscaleCluster, where Reconcile returns without a requeue: its         *)
(* deletion would not go on.                                                 *)
GateStaysOpen ==
    \A m \in Machines : mObj[m].finalizer => ClusterProvisioned

(* What a deleted Cluster leaves at cloudscale.ch: a gone machine no server, *)
(* the gone CloudscaleCluster no server group, though it is judged by a      *)
(* cache of machines that may be behind.                                     *)
NothingIsLeft ==
    /\ M!NoOrphanServer
    /\ cObj.phase = "gone" =>
          \A g \in Groups : groups[g].state \in {"unused", "deleted"}

(* The machines of a deleted Cluster and then its CloudscaleCluster go away  *)
(* in the end: neither controller waits for the other for ever.              *)
EverythingIsDeleted ==
    <>[](clusterDeleted /\ ~paused =>
            cObj.phase = "gone" /\ \A m \in Machines : mObj[m].phase = "gone")

(* Until then the cluster ends up provisioned and every machine past the     *)
(* check of it: the event that opens the check is not lost, whenever it      *)
(* comes and though pausing may hide it.                                     *)
EveryMachineStarts ==
    <>[](~clusterDeleted /\ ~paused =>
            /\ cObj.provisioned /\ cObj.ready
            /\ \A m \in Machines : mObj[m].phase = "live" => mObj[m].finalizer)
=============================================================================
