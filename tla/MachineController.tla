-------------------------- MODULE MachineController --------------------------
(***************************************************************************)
(* The CloudscaleMachine controller: internal/controller/                  *)
(* cloudscalemachine_controller.go, cloudscalemachine_server.go and        *)
(* cloudscalemachine_servergroup.go, with the machine scope's Close.       *)
(*                                                                         *)
(* One reconcile of a machine is a sequence of steps, one for every call   *)
(* that leaves the process: the read of the informer cache, each call of   *)
(* the cloudscale.ch API, and the three patches that Close sends.  What    *)
(* happens between two calls is local to the goroutine and belongs to the  *)
(* step of the call before it.  The steps of different machines            *)
(* interleave (MaxConcurrentReconciles); the work queue runs one reconcile *)
(* of a machine at a time.                                                 *)
(***************************************************************************)
CONSTANTS
    Machines,      \* CloudscaleMachine objects of one cluster
    Servers,       \* server UUIDs; each names one create request
    Groups,        \* server group UUIDs
    GroupNames,    \* values of spec.serverGroup.name
    GroupOf,       \* Machines -> spec.serverGroup.name, None when nil
    None,          \* the empty string, the nil pointer, the unlocked mutex
    Env            \* what the environment may do, a subset of EnvKinds

(***************************************************************************)
(* crash        the process stops between two calls and is restarted       *)
(* timeout      a create call ends in a timeout (cloudscale.WriteTimeout)  *)
(* late         a timed-out create may take effect after a later list      *)
(* stale        a reconcile may start from a cache behind the API server   *)
(* external     servers and groups are deleted or stopped by someone else  *)
(* delete       the object is deleted, its finalizer being stored          *)
(* earlyDelete  the object is deleted before its finalizer is stored       *)
(* apiError     calls of the cloudscale.ch API fail                        *)
(* patchError   a patch sent by Close fails                                *)
(* pause        the owning Cluster is paused and unpaused                  *)
(***************************************************************************)
EnvKinds == {"crash", "timeout", "late", "stale", "external", "delete",
             "earlyDelete", "apiError", "patchError", "pause"}

ASSUME EnvAssumption == Env \subseteq EnvKinds
ASSUME GroupOfAssumption == GroupOf \in [Machines -> GroupNames \cup {None}]
ASSUME NoneAssumption ==
    None \notin Machines \cup Servers \cup Groups \cup GroupNames

VARIABLES
    obj,                 \* the CloudscaleMachines in the Kubernetes API server
    cache,               \* the informer's copy, which Reconcile reads
    queued,              \* the machines in the work queue
    pc,                  \* the next step of each machine's reconcile
    mem,                 \* the object in memory during a reconcile
    base,                \* the patch helper's snapshot, taken by NewMachineScope
    outcome,             \* what Reconcile is about to return
    serverGroupMu,       \* holder of the mutex, or None
    servers,             \* the servers at cloudscale.ch
    groups,              \* the server groups at cloudscale.ch
    bootstrapped,        \* machines whose Machine has a DataSecretName
    clusterProvisioned,  \* Cluster and CloudscaleCluster exist, Provisioned is true
    paused               \* Cluster.spec.paused

k8s == <<obj, cache>>
local == <<pc, mem, base, outcome>>
cloud == <<servers, groups>>
gates == <<bootstrapped, clusterProvisioned, paused>>
vars == <<k8s, queued, local, serverGroupMu, cloud, gates>>

-----------------------------------------------------------------------------
(* Types.                                                                   *)

Phases == {"live", "deleting", "gone"}

(* ServerReady's reason stands for the condition: it is True exactly for     *)
(* ServerRunning.  ServerStarting and ServerChanging are one reason here,    *)
(* and so are the reasons of a server that exists but is not running.        *)
Reasons == {"Unset", "WaitingForBootstrapData", "ServerChanging",
            "ServerRunning", "ServerStopped", "ServerError",
            "ServerDeletedExternally", "ServerDeleting"}

Objects == [phase : Phases, owned : BOOLEAN, finalizer : BOOLEAN,
            providerID : Servers \cup {None}, serverID : Servers \cup {None},
            groupID : Groups \cup {None}, provisioned : BOOLEAN,
            serverReady : Reasons, groupReady : BOOLEAN, ready : BOOLEAN]

NewObject == [phase |-> "live", owned |-> FALSE, finalizer |-> FALSE,
              providerID |-> None, serverID |-> None, groupID |-> None,
              provisioned |-> FALSE, serverReady |-> "Unset",
              groupReady |-> FALSE, ready |-> FALSE]

GoneObject == [NewObject EXCEPT !.phase = "gone"]

Steps == {"idle", "getGroup", "listGroups", "createGroup", "getServer",
          "listServers", "createServer", "deleteServer",
          "patchConditions", "patchObject", "patchStatus"}

Outcomes == {"done", "requeue", "error"}

(* A pending server is a create request whose call ended without an answer.  *)
(* "stopped" is every state of an existing server other than the two named.  *)
LiveStates == {"changing", "running", "stopped"}
ServerStates == LiveStates \cup {"unused", "pending", "deleted"}
GroupStates == {"unused", "pending", "live", "deleted"}

TypeOK ==
    /\ obj \in [Machines -> Objects]
    /\ cache \in [Machines -> Objects]
    /\ queued \subseteq Machines
    /\ pc \in [Machines -> Steps]
    /\ mem \in [Machines -> Objects]
    /\ base \in [Machines -> Objects]
    /\ outcome \in [Machines -> Outcomes]
    /\ serverGroupMu \in Machines \cup {None}
    /\ servers \in [Servers -> [state : ServerStates,
                                owner : Machines \cup {None},
                                group : Groups \cup {None}]]
    /\ groups \in [Groups -> [state : GroupStates,
                              name : GroupNames \cup {None}]]
    /\ bootstrapped \subseteq Machines
    /\ clusterProvisioned \in BOOLEAN
    /\ paused \in BOOLEAN

UnusedServer == [state |-> "unused", owner |-> None, group |-> None]
UnusedGroup == [state |-> "unused", name |-> None]

Init ==
    /\ obj = [m \in Machines |-> NewObject]
    /\ cache = obj
    /\ queued = Machines
    /\ pc = [m \in Machines |-> "idle"]
    /\ mem = [m \in Machines |-> NewObject]
    /\ base = mem
    /\ outcome = [m \in Machines |-> "done"]
    /\ serverGroupMu = None
    /\ servers = [s \in Servers |-> UnusedServer]
    /\ groups = [g \in Groups |-> UnusedGroup]
    /\ bootstrapped = {}
    /\ clusterProvisioned = FALSE
    /\ paused = FALSE

-----------------------------------------------------------------------------
(* The cloudscale.ch API as the controller sees it.                         *)

(* Fault: the list is not filtered by the machine's tag.                     *)
ServersOf_untagged(m) == {s \in Servers : servers[s].state \in LiveStates}

(* Servers.List with machineLookupTag: the servers created for m.            *)
ServersOf(m) == {s \in Servers : servers[s].owner = m
                                 /\ servers[s].state \in LiveStates}

(* ServerGroups.List with clusterOwnershipTags, filtered by name and zone.   *)
GroupsNamed(n) == {g \in Groups : groups[g].name = n /\ groups[g].state = "live"}

PendingServers(m) == {s \in Servers : servers[s].owner = m
                                      /\ servers[s].state = "pending"}
PendingGroups(n) == {g \in Groups : groups[g].name = n
                                    /\ groups[g].state = "pending"}

(* Unless creates may land late, a create has taken effect, or never will,   *)
(* when a later list is answered.                                            *)
ServersSettled(m) == "late" \in Env \/ PendingServers(m) = {}
GroupsSettled(n) == "late" \in Env \/ PendingGroups(n) = {}

GroupUsable(g) == g = None \/ (g \in Groups /\ groups[g].state = "live")

-----------------------------------------------------------------------------
(* Edits of the object in memory.                                           *)

IsServerReady(o) == o.serverReady = "ServerRunning"

setReadyCondition(o) == [o EXCEPT !.ready = IsServerReady(o)]

(* reconcileNormal after reconcileServer returned no error; its deferred     *)
(* setReadyCondition included.                                               *)
setProvisioned(o) ==
    setReadyCondition([o EXCEPT !.provisioned = @ \/ IsServerReady(o)])

(* Fault: the status of the API is used as the reason.                       *)
setServerStatusCondition_raw(o, state) == [o EXCEPT !.serverReady = state]

setServerStatusCondition(o, state) ==
    [o EXCEPT !.serverReady = CASE state = "running" -> "ServerRunning"
                                [] state = "changing" -> "ServerChanging"
                                [] OTHER -> "ServerStopped"]

(* Fault: the provider ID is forgotten.                                      *)
updateMachineFromServer_noProviderID(o, s) == [o EXCEPT !.serverID = s]

(* The server is recorded in status and, by updateMachineFromServer, as the  *)
(* provider ID in spec.                                                      *)
updateMachineFromServer(o, s) == [o EXCEPT !.serverID = s, !.providerID = s]

serverError(o) == setReadyCondition([o EXCEPT !.serverReady = "ServerError"])

(* The deferred condition of reconcileServerGroup on its error path, with    *)
(* the deferred setReadyCondition of reconcileNormal.                        *)
groupError(o) == setReadyCondition([o EXCEPT !.groupReady = FALSE])

(* reconcileDelete once the server is gone: deleteServerGroup, the Ready     *)
(* condition, RemoveFinalizer.                                               *)
deleted(m, o) ==
    [o EXCEPT !.serverID = None,
              !.serverReady = "ServerDeleting",
              !.groupID = IF GroupOf[m] = None THEN @ ELSE None,
              !.ready = FALSE,
              !.finalizer = FALSE]

-----------------------------------------------------------------------------
(* Control.                                                                 *)

Goto(m, step) == pc' = [pc EXCEPT ![m] = step]

Edit(m, o) == mem' = [mem EXCEPT ![m] = o]

(* Reconcile returns: what is left is the deferred Close.                    *)
Return(m, o, res) ==
    /\ Edit(m, o)
    /\ outcome' = [outcome EXCEPT ![m] = res]
    /\ Goto(m, "patchConditions")
    /\ UNCHANGED base

Continue(m, o, step) ==
    /\ Edit(m, o)
    /\ Goto(m, step)
    /\ UNCHANGED <<base, outcome>>

(* reconcileServer begins with the server of the status, if there is one.    *)
ServerStep(o) == IF o.serverID = None THEN "listServers" ELSE "getServer"

-----------------------------------------------------------------------------
(* Reconcile.                                                               *)

(* The conditions that let Reconcile go on to its scope; when one fails it   *)
(* returns without error, without requeue and without a patch.               *)
MayReconcile(o) ==
    /\ o.phase # "gone"
    /\ o.owned
    /\ ~paused
    /\ clusterProvisioned

Dequeue(m) ==
    /\ pc[m] = "idle"
    /\ m \in queued
    /\ "stale" \in Env \/ cache[m] = obj[m]
    /\ queued' = queued \ {m}

(* The early returns.  A Paused or WaitingForClusterInfrastructure condition *)
(* is set on the object in memory only, and that object is dropped.          *)
ReconcileSkip(m) ==
    /\ Dequeue(m)
    /\ ~MayReconcile(cache[m])
    /\ UNCHANGED <<k8s, local, serverGroupMu, cloud, gates>>

(* The scope is opened on the cached object and the finalizer added in       *)
(* memory; then reconcileNormal up to its first call of the cloud.           *)
ReconcileNormal(m) ==
    LET o == [cache[m] EXCEPT !.finalizer = TRUE]
    IN  /\ Dequeue(m)
        /\ MayReconcile(cache[m])
        /\ cache[m].phase = "live"
        /\ base' = [base EXCEPT ![m] = cache[m]]
        /\ outcome' = [outcome EXCEPT ![m] = "done"]
        /\ IF m \notin bootstrapped
           THEN /\ Edit(m, setReadyCondition(
                            [o EXCEPT !.serverReady = "WaitingForBootstrapData"]))
                /\ Goto(m, "patchConditions")
           ELSE /\ Edit(m, o)
                /\ Goto(m, CASE GroupOf[m] = None -> ServerStep(o)
                             [] GroupOf[m] # None /\ o.groupID = None -> "listGroups"
                             [] OTHER -> "getGroup")
        /\ UNCHANGED <<k8s, serverGroupMu, cloud, gates>>

(* reconcileDelete up to the delete call.  Without a server ID in status     *)
(* deleteServer returns at once: the cloud is not searched by tag.           *)
ReconcileDelete(m) ==
    LET o == cache[m]
    IN  /\ Dequeue(m)
        /\ MayReconcile(o)
        /\ o.phase = "deleting"
        /\ base' = [base EXCEPT ![m] = o]
        /\ outcome' = [outcome EXCEPT ![m] = "done"]
        /\ IF o.serverID = None
           THEN Edit(m, deleted(m, o)) /\ Goto(m, "patchConditions")
           ELSE Edit(m, o) /\ Goto(m, "deleteServer")
        /\ UNCHANGED <<k8s, serverGroupMu, cloud, gates>>

-----------------------------------------------------------------------------
(* reconcileServerGroup.                                                    *)

(* ServerGroups.Get on the ID of the status, outside the mutex.              *)
GetGroup(m) ==
    /\ pc[m] = "getGroup"
    /\ IF groups[mem[m].groupID].state = "live"
       THEN Continue(m, [mem[m] EXCEPT !.groupReady = TRUE], ServerStep(mem[m]))
       ELSE Continue(m, [mem[m] EXCEPT !.groupID = None], "listGroups")
    /\ UNCHANGED <<k8s, queued, serverGroupMu, cloud, gates>>

(* Fault: the list is made before the mutex is taken.                        *)
ListGroups_unlocked(m) ==
    /\ pc[m] = "listGroups"
    /\ GroupsSettled(GroupOf[m])
    /\ \/ \E g \in GroupsNamed(GroupOf[m]) :
            LET o == [mem[m] EXCEPT !.groupID = g, !.groupReady = TRUE]
            IN  Continue(m, o, ServerStep(o)) /\ UNCHANGED serverGroupMu
       \/ /\ GroupsNamed(GroupOf[m]) = {}
          /\ serverGroupMu' = m
          /\ Continue(m, mem[m], "createGroup")
    /\ UNCHANGED <<k8s, queued, cloud, gates>>

(* serverGroupMu.Lock and the list.  A match releases the mutex again; no    *)
(* match keeps it for the create.                                            *)
ListGroups(m) ==
    /\ pc[m] = "listGroups"
    /\ serverGroupMu = None
    /\ GroupsSettled(GroupOf[m])
    /\ \/ \E g \in GroupsNamed(GroupOf[m]) :
            LET o == [mem[m] EXCEPT !.groupID = g, !.groupReady = TRUE]
            IN  Continue(m, o, ServerStep(o)) /\ UNCHANGED serverGroupMu
       \/ /\ GroupsNamed(GroupOf[m]) = {}
          /\ serverGroupMu' = m
          /\ Continue(m, mem[m], "createGroup")
    /\ UNCHANGED <<k8s, queued, cloud, gates>>

CreateGroup(m) ==
    /\ pc[m] = "createGroup"
    /\ \E g \in Groups :
        LET o == [mem[m] EXCEPT !.groupID = g, !.groupReady = TRUE]
        IN  /\ groups[g].state = "unused"
            /\ groups' = [groups EXCEPT ![g] = [state |-> "live",
                                                name |-> GroupOf[m]]]
            /\ Continue(m, o, ServerStep(o))
    /\ serverGroupMu' = None
    /\ UNCHANGED <<k8s, queued, servers, gates>>

(* Fault: the timeout does not ask for a requeue.                            *)
CreateGroupTimeout_forgets(m) ==
    /\ "timeout" \in Env
    /\ pc[m] = "createGroup"
    /\ serverGroupMu' = None
    /\ Return(m, mem[m], "done")
    /\ UNCHANGED <<k8s, queued, cloud, gates>>

(* A timed-out create returns a requeue and no error, so the deferred        *)
(* condition is set to True.  The request is lost, or still on its way.      *)
CreateGroupTimeout(m) ==
    /\ "timeout" \in Env
    /\ pc[m] = "createGroup"
    /\ \/ UNCHANGED groups
       \/ \E g \in Groups :
            /\ groups[g].state = "unused"
            /\ groups' = [groups EXCEPT ![g] = [state |-> "pending",
                                                name |-> GroupOf[m]]]
    /\ serverGroupMu' = None
    /\ Return(m, setReadyCondition([mem[m] EXCEPT !.groupReady = TRUE]), "requeue")
    /\ UNCHANGED <<k8s, queued, servers, gates>>

(* The API refuses the create, since Groups, its quota, is used up.          *)
CreateGroupRefused(m) ==
    /\ pc[m] = "createGroup"
    /\ \A g \in Groups : groups[g].state # "unused"
    /\ serverGroupMu' = None
    /\ Return(m, groupError(mem[m]), "error")
    /\ UNCHANGED <<k8s, queued, cloud, gates>>

(* The error returns of reconcileServerGroup; the mutex is released.         *)
GroupCallFails(m) ==
    /\ "apiError" \in Env
    /\ \/ pc[m] = "getGroup" /\ UNCHANGED serverGroupMu
       \/ pc[m] = "listGroups" /\ serverGroupMu = None /\ UNCHANGED serverGroupMu
       \/ pc[m] = "createGroup" /\ serverGroupMu' = None
    /\ Return(m, groupError(mem[m]), "error")
    /\ UNCHANGED <<k8s, queued, cloud, gates>>

-----------------------------------------------------------------------------
(* reconcileServer.                                                         *)

(* The return with a server in hand: it is recorded, its state becomes the   *)
(* ServerReady condition, and a changing server is polled.                   *)
ReturnServer(m, s, state) ==
    Return(m,
           setProvisioned(setServerStatusCondition(
               updateMachineFromServer(mem[m], s), state)),
           IF state = "changing" THEN "requeue" ELSE "done")

(* 1. Servers.Get on the ID of the status.  A server that is gone is         *)
(* reported and never replaced.                                              *)
GetServer(m) ==
    LET s == mem[m].serverID
    IN  /\ pc[m] = "getServer"
        /\ IF servers[s].state \in LiveStates
           THEN ReturnServer(m, s, servers[s].state)
           ELSE Return(m, setProvisioned([mem[m] EXCEPT
                              !.serverReady = "ServerDeletedExternally"]), "done")
        /\ UNCHANGED <<k8s, queued, serverGroupMu, cloud, gates>>

(* Fault: no search by tag before the create.                                *)
ListServers_skipped(m) ==
    /\ pc[m] = "listServers"
    /\ Continue(m, mem[m], "createServer")
    /\ UNCHANGED <<k8s, queued, serverGroupMu, cloud, gates>>

(* 2. Search by tag.                                                         *)
ListServers(m) ==
    /\ pc[m] = "listServers"
    /\ ServersSettled(m)
    /\ \/ /\ ServersOf(m) = {}
          /\ Continue(m, mem[m], "createServer")
       \/ \E s \in ServersOf(m) :
            /\ ServersOf(m) = {s}
            /\ ReturnServer(m, s, servers[s].state)
       \/ /\ \E s, t \in ServersOf(m) : s # t
          /\ Return(m, serverError(mem[m]), "error")
    /\ UNCHANGED <<k8s, queued, serverGroupMu, cloud, gates>>

(* 3. Create.  The API refuses a server group that no longer exists.         *)
CreateServer(m) ==
    /\ pc[m] = "createServer"
    /\ GroupUsable(mem[m].groupID)
    /\ \E s \in Servers, state \in {"changing", "running"} :
        /\ servers[s].state = "unused"
        /\ servers' = [servers EXCEPT ![s] = [state |-> state, owner |-> m,
                                              group |-> mem[m].groupID]]
        /\ ReturnServer(m, s, state)
    /\ UNCHANGED <<k8s, queued, serverGroupMu, groups, gates>>

(* A timed-out create is retried after a while.  No server is returned, so   *)
(* the ServerReady condition stays what it was.                              *)
CreateServerTimeout(m) ==
    /\ "timeout" \in Env
    /\ pc[m] = "createServer"
    /\ \/ UNCHANGED servers
       \/ /\ GroupUsable(mem[m].groupID)
          /\ \E s \in Servers :
              /\ servers[s].state = "unused"
              /\ servers' = [servers EXCEPT ![s] = [state |-> "pending", owner |-> m,
                                                    group |-> mem[m].groupID]]
    /\ Return(m, setProvisioned(mem[m]), "requeue")
    /\ UNCHANGED <<k8s, queued, serverGroupMu, groups, gates>>

(* The API refuses the create: the server group no longer exists, or the     *)
(* account has no server left (Servers stands for its quota).                *)
CreateServerRefused(m) ==
    /\ pc[m] = "createServer"
    /\ ~GroupUsable(mem[m].groupID) \/ \A s \in Servers : servers[s].state # "unused"
    /\ Return(m, serverError(mem[m]), "error")
    /\ UNCHANGED <<k8s, queued, serverGroupMu, cloud, gates>>

(* The error returns of reconcileServer.  In "createServer" they include a   *)
(* missing bootstrap secret and an interface of an unknown network.          *)
ServerCallFails(m) ==
    /\ "apiError" \in Env
    /\ pc[m] \in {"getServer", "listServers", "createServer"}
    /\ Return(m, serverError(mem[m]), "error")
    /\ UNCHANGED <<k8s, queued, serverGroupMu, cloud, gates>>

-----------------------------------------------------------------------------
(* deleteServer and the rest of reconcileDelete.                            *)

Destroy(s) == IF servers[s].state \in LiveStates
              THEN [servers EXCEPT ![s].state = "deleted"]
              ELSE servers

(* A 404 counts as success.                                                  *)
DeleteServer(m) ==
    /\ pc[m] = "deleteServer"
    /\ servers' = Destroy(mem[m].serverID)
    /\ Return(m, deleted(m, mem[m]), "done")
    /\ UNCHANGED <<k8s, queued, serverGroupMu, groups, gates>>

(* Fault: every error of the delete call counts as success.                  *)
DeleteServerFails_ignored(m) ==
    /\ "apiError" \in Env
    /\ pc[m] = "deleteServer"
    /\ servers' \in {servers, Destroy(mem[m].serverID)}
    /\ Return(m, deleted(m, mem[m]), "done")
    /\ UNCHANGED <<k8s, queued, serverGroupMu, groups, gates>>

(* Any other error, a timeout included: the request may have worked.  The    *)
(* server ID and the finalizer stay, and so does the Ready condition.        *)
DeleteServerFails(m) ==
    /\ "apiError" \in Env
    /\ pc[m] = "deleteServer"
    /\ servers' \in {servers, Destroy(mem[m].serverID)}
    /\ Return(m, [mem[m] EXCEPT !.serverReady = "ServerError"], "error")
    /\ UNCHANGED <<k8s, queued, serverGroupMu, groups, gates>>

-----------------------------------------------------------------------------
(* Close: the Cluster API patch helper sends the fields that differ from its *)
(* snapshot, conditions first, then metadata and spec, then status.  Each of *)
(* the three is tried whatever became of the one before.                     *)

Merge(before, after, stored) == IF after = before THEN stored ELSE after

MergeConditions(m) ==
    [obj[m] EXCEPT
        !.serverReady = Merge(base[m].serverReady, mem[m].serverReady, @),
        !.groupReady = Merge(base[m].groupReady, mem[m].groupReady, @),
        !.ready = Merge(base[m].ready, mem[m].ready, @)]

(* A condition that was changed meanwhile to another value is a conflict, and *)
(* none of the conditions is patched.                                        *)
Conflict(before, after, stored) == after # before /\ stored # before /\ after # stored

ConditionsConflict(m) ==
    \/ Conflict(base[m].serverReady, mem[m].serverReady, obj[m].serverReady)
    \/ Conflict(base[m].groupReady, mem[m].groupReady, obj[m].groupReady)
    \/ Conflict(base[m].ready, mem[m].ready, obj[m].ready)

MergeObject(m) ==
    [obj[m] EXCEPT
        !.finalizer = Merge(base[m].finalizer, mem[m].finalizer, @),
        !.providerID = Merge(base[m].providerID, mem[m].providerID, @)]

(* Fault: the whole status is written, not what the reconcile changed.       *)
MergeStatus_replace(m) ==
    [obj[m] EXCEPT !.serverID = mem[m].serverID, !.groupID = mem[m].groupID,
                   !.provisioned = mem[m].provisioned]

MergeStatus(m) ==
    [obj[m] EXCEPT
        !.serverID = Merge(base[m].serverID, mem[m].serverID, @),
        !.groupID = Merge(base[m].groupID, mem[m].groupID, @),
        !.provisioned = Merge(base[m].provisioned, mem[m].provisioned, @)]

(* validateMachineSpecUpdate: the provider ID is immutable once set.         *)
validateMachineSpecUpdate(new, old) ==
    old.providerID = None \/ new.providerID = old.providerID

(* An object under deletion disappears with its last finalizer.              *)
Stored(o) == IF o.phase = "deleting" /\ ~o.finalizer THEN GoneObject ELSE o

(* One patch: it is stored, or it fails, because the object is gone, because *)
(* admission refuses it or for any other reason, and Reconcile returns the   *)
(* error.                                                                    *)
Patch(m, new, admitted) ==
    \/ /\ obj[m].phase # "gone"
       /\ admitted
       /\ obj' = [obj EXCEPT ![m] = Stored(new)]
       /\ UNCHANGED outcome
    \/ /\ obj[m].phase = "gone" \/ ~admitted \/ "patchError" \in Env
       /\ outcome' = [outcome EXCEPT ![m] = "error"]
       /\ UNCHANGED obj

PatchConditions(m) ==
    /\ pc[m] = "patchConditions"
    /\ Patch(m, MergeConditions(m), ~ConditionsConflict(m))
    /\ Goto(m, "patchObject")
    /\ UNCHANGED <<cache, queued, mem, base, serverGroupMu, cloud, gates>>

(* Fault: the status goes out before metadata and spec.                      *)
PatchObject_statusFirst(m) ==
    /\ pc[m] = "patchObject"
    /\ Patch(m, MergeStatus(m), TRUE)
    /\ Goto(m, "patchStatus")
    /\ UNCHANGED <<cache, queued, mem, base, serverGroupMu, cloud, gates>>

PatchObject(m) ==
    /\ pc[m] = "patchObject"
    /\ Patch(m, MergeObject(m), validateMachineSpecUpdate(MergeObject(m), obj[m]))
    /\ Goto(m, "patchStatus")
    /\ UNCHANGED <<cache, queued, mem, base, serverGroupMu, cloud, gates>>

(* Fault: an error does not put the machine back into the queue.             *)
PatchStatus_dropsError(m) ==
    /\ pc[m] = "patchStatus"
    /\ IF obj[m].phase = "gone" /\ mem[m].phase = "deleting" /\ ~mem[m].finalizer
       THEN UNCHANGED <<obj, outcome>>
       ELSE Patch(m, MergeStatus(m), TRUE)
    /\ Goto(m, "idle")
    /\ queued' = IF outcome'[m] = "requeue" THEN queued \cup {m} ELSE queued
    /\ mem' = [mem EXCEPT ![m] = NewObject]
    /\ base' = [base EXCEPT ![m] = NewObject]
    /\ UNCHANGED <<cache, serverGroupMu, cloud, gates>>

(* The last patch ends the reconcile: an error or a requeue puts the machine *)
(* back into the queue.  That the object is gone is no error here when the   *)
(* reconcile itself removed the finalizer.                                   *)
PatchStatus(m) ==
    /\ pc[m] = "patchStatus"
    /\ IF obj[m].phase = "gone" /\ mem[m].phase = "deleting" /\ ~mem[m].finalizer
       THEN UNCHANGED <<obj, outcome>>
       ELSE Patch(m, MergeStatus(m), TRUE)
    /\ Goto(m, "idle")
    /\ queued' = IF outcome'[m] = "done" THEN queued ELSE queued \cup {m}
    /\ mem' = [mem EXCEPT ![m] = NewObject]
    /\ base' = [base EXCEPT ![m] = NewObject]
    /\ UNCHANGED <<cache, serverGroupMu, cloud, gates>>

-----------------------------------------------------------------------------
(* Events: the informer, the watches of SetupWithManager, the user.         *)

(* The informer catches up; every change of the object is an event.          *)
CacheSync(m) ==
    /\ cache[m] # obj[m]
    /\ cache' = [cache EXCEPT ![m] = obj[m]]
    /\ queued' = queued \cup {m}
    /\ UNCHANGED <<obj, local, serverGroupMu, cloud, gates>>

(* The Machine controller of Cluster API sets the owner reference.           *)
SetOwnerRef(m) ==
    /\ obj[m].phase = "live" /\ ~obj[m].owned
    /\ obj' = [obj EXCEPT ![m].owned = TRUE]
    /\ UNCHANGED <<cache, queued, local, serverGroupMu, cloud, gates>>

(* The watch of Machine: spec.bootstrap.dataSecretName is set.               *)
BootstrapDataReady(m) ==
    /\ m \notin bootstrapped
    /\ bootstrapped' = bootstrapped \cup {m}
    /\ queued' = queued \cup {m}
    /\ UNCHANGED <<k8s, local, serverGroupMu, cloud, clusterProvisioned, paused>>

(* The watch of CloudscaleCluster, mapped to all machines of the cluster.    *)
ClusterProvisioned ==
    /\ ~clusterProvisioned
    /\ clusterProvisioned' = TRUE
    /\ queued' = Machines
    /\ UNCHANGED <<k8s, local, serverGroupMu, cloud, bootstrapped, paused>>

(* The watch of Cluster: both transitions of spec.paused are events.         *)
PauseTransition ==
    /\ "pause" \in Env
    /\ paused' = ~paused
    /\ queued' = Machines
    /\ UNCHANGED <<k8s, local, serverGroupMu, cloud, bootstrapped, clusterProvisioned>>

(* The informer's periodic resync, and events that change nothing here.      *)
Resync(m) ==
    /\ m \notin queued
    /\ queued' = queued \cup {m}
    /\ UNCHANGED <<k8s, local, serverGroupMu, cloud, gates>>

(* Someone deletes the CloudscaleMachine.  Without a finalizer it disappears *)
(* at once.                                                                  *)
DeleteObject(m) ==
    /\ obj[m].phase = "live"
    /\ (IF obj[m].finalizer THEN "delete" ELSE "earlyDelete") \in Env
    /\ obj' = [obj EXCEPT ![m] = Stored([@ EXCEPT !.phase = "deleting"])]
    /\ UNCHANGED <<cache, queued, local, serverGroupMu, cloud, gates>>

(* The process is gone, and with it every reconcile; its successor lists all *)
(* objects.  A create in flight at the crash is one that timed out just      *)
(* before.                                                                   *)
Crash ==
    /\ "crash" \in Env
    /\ cache' = obj
    /\ queued' = Machines
    /\ pc' = [m \in Machines |-> "idle"]
    /\ mem' = [m \in Machines |-> NewObject]
    /\ base' = [m \in Machines |-> NewObject]
    /\ outcome' = [m \in Machines |-> "done"]
    /\ serverGroupMu' = None
    /\ UNCHANGED <<obj, cloud, gates>>

-----------------------------------------------------------------------------
(* The cloud.                                                               *)

ServerBecomes(s, from, to) ==
    /\ servers[s].state \in from
    /\ servers' = [servers EXCEPT ![s].state = to]
    /\ UNCHANGED <<k8s, queued, local, serverGroupMu, groups, gates>>

GroupBecomes(g, from, to) ==
    /\ groups[g].state = from
    /\ groups' = [groups EXCEPT ![g].state = to]
    /\ UNCHANGED <<k8s, queued, local, serverGroupMu, servers, gates>>

ServerBoots(s) == ServerBecomes(s, {"changing"}, "running")

(* A create whose call timed out takes effect, or is lost for good; nobody   *)
(* has seen the UUID of a lost one.                                          *)
PendingServerLands(s) == ServerBecomes(s, {"pending"}, "changing")
PendingGroupLands(g) == GroupBecomes(g, "pending", "live")

PendingServerLost(s) ==
    /\ servers[s].state = "pending"
    /\ servers' = [servers EXCEPT ![s] = UnusedServer]
    /\ UNCHANGED <<k8s, queued, local, serverGroupMu, groups, gates>>

PendingGroupLost(g) ==
    /\ groups[g].state = "pending"
    /\ groups' = [groups EXCEPT ![g] = UnusedGroup]
    /\ UNCHANGED <<k8s, queued, local, serverGroupMu, servers, gates>>

(* Someone else stops, restarts or deletes a server.                         *)
ServerStopped(s) == "external" \in Env /\ ServerBecomes(s, {"running"}, "stopped")
ServerRestarted(s) == "external" \in Env /\ ServerBecomes(s, {"stopped"}, "changing")
ServerDeletedExternally(s) ==
    "external" \in Env /\ ServerBecomes(s, LiveStates, "deleted")

(* A group can be deleted once no server is in it.                           *)
GroupDeletedExternally(g) ==
    /\ "external" \in Env
    /\ \A s \in Servers :
        servers[s].group = g => servers[s].state \notin LiveStates \cup {"pending"}
    /\ GroupBecomes(g, "live", "deleted")

-----------------------------------------------------------------------------
(* The specification.                                                       *)

Succeeds(m) ==
    \/ ReconcileSkip(m) \/ ReconcileNormal(m) \/ ReconcileDelete(m)
    \/ GetGroup(m) \/ ListGroups(m) \/ CreateGroup(m) \/ CreateGroupRefused(m)
    \/ GetServer(m) \/ ListServers(m) \/ CreateServer(m) \/ CreateServerRefused(m)
    \/ DeleteServer(m)
    \/ PatchConditions(m) \/ PatchObject(m) \/ PatchStatus(m)

Fails(m) ==
    \/ CreateGroupTimeout(m) \/ GroupCallFails(m)
    \/ CreateServerTimeout(m) \/ ServerCallFails(m)
    \/ DeleteServerFails(m)

Event(m) ==
    \/ CacheSync(m) \/ SetOwnerRef(m) \/ BootstrapDataReady(m)
    \/ Resync(m) \/ DeleteObject(m)

ServerEvent(s) ==
    \/ ServerBoots(s) \/ PendingServerLands(s) \/ PendingServerLost(s)
    \/ ServerStopped(s) \/ ServerRestarted(s) \/ ServerDeletedExternally(s)

GroupEvent(g) ==
    \/ PendingGroupLands(g) \/ PendingGroupLost(g) \/ GroupDeletedExternally(g)

Next ==
    \/ \E m \in Machines : Succeeds(m) \/ Fails(m) \/ Event(m)
    \/ \E s \in Servers : ServerEvent(s)
    \/ \E g \in Groups : GroupEvent(g)
    \/ ClusterProvisioned \/ PauseTransition \/ Crash

Spec == Init /\ [][Next]_vars

(* Workers take every queued machine and every call returns; informers catch *)
(* up; Cluster API sets the owner reference, the bootstrap data and the      *)
(* Provisioned flag in the end; a create in flight is settled and a changing *)
(* server settles.  Resync, deletion and outside interference are not fair.  *)
Fairness ==
    /\ \A m \in Machines :
        /\ WF_vars(Succeeds(m) \/ Fails(m))
        /\ WF_vars(CacheSync(m))
        /\ WF_vars(SetOwnerRef(m))
        /\ WF_vars(BootstrapDataReady(m))
    /\ \A s \in Servers :
        /\ WF_vars(ServerBoots(s))
        /\ WF_vars(PendingServerLands(s) \/ PendingServerLost(s))
    /\ \A g \in Groups : WF_vars(PendingGroupLands(g) \/ PendingGroupLost(g))
    /\ WF_vars(ClusterProvisioned)

(* Faults stop at some point: what is left is what the controller makes of   *)
(* them.  An error that a call gives in any case is not among them.          *)
Fault == Crash \/ \E m \in Machines : Fails(m) /\ ~Succeeds(m)

FairSpec == Spec /\ Fairness /\ <>[][~Fault]_vars

-----------------------------------------------------------------------------
(* Properties.                                                              *)

(* A machine never has two servers: the search by tag before every create    *)
(* finds the server of a reconcile that crashed, timed out, could not store  *)
(* its result, or was not seen by a stale cache.                             *)
AtMostOneServer ==
    \A s, t \in Servers :
        /\ servers[s].state \in LiveStates /\ servers[t].state \in LiveStates
        /\ servers[s].owner = servers[t].owner
        => s = t

(* The machines of a cluster never make two server groups of one name:       *)
(* serverGroupMu is held from the list to the create.                        *)
AtMostOneGroup ==
    \A g, h \in Groups :
        /\ groups[g].state = "live" /\ groups[h].state = "live"
        /\ groups[g].name = groups[h].name
        => g = h

(* Machines with the same server group name are placed in the same server    *)
(* group, which keeps them on different hosts.                               *)
AntiAffinity ==
    \A s, t \in Servers :
        /\ servers[s].state \in LiveStates /\ servers[t].state \in LiveStates
        /\ GroupOf[servers[s].owner] # None
        /\ GroupOf[servers[s].owner] = GroupOf[servers[t].owner]
        => servers[s].group # None /\ servers[s].group = servers[t].group

(* Every server ID a machine stores, caches or works with is a server made   *)
(* for it: deleteServer never deletes the server of another machine.         *)
RecordedServerIsOwn ==
    \A m \in Machines : \A o \in {obj[m], cache[m], mem[m]} :
        \A s \in {o.serverID, o.providerID} \ {None} : servers[s].owner = m

(* Nothing is left behind: once the object is gone, reconcileDelete has      *)
(* removed the server made for it.                                           *)
NoOrphanServer ==
    \A m \in Machines : obj[m].phase = "gone" => ServersOf(m) = {}

(* A server ID is never stored before the finalizer, so that deleting the    *)
(* object always goes through deleteServer.                                  *)
RecordedServerIsProtected ==
    \A m \in Machines : obj[m].serverID # None => obj[m].finalizer

(* Cluster API reads spec.providerID when it sees Provisioned: Close never   *)
(* publishes the flag without it.                                            *)
ProvisionedHasProviderID ==
    \A m \in Machines : obj[m].provisioned => obj[m].providerID # None

(* The provider ID of spec, which cannot be changed, names the server that   *)
(* status names.                                                             *)
IdentityAgrees ==
    \A m \in Machines :
        obj[m].serverID # None => obj[m].providerID = obj[m].serverID

(* "Set Provisioned=true when server is ready (only once, never reverted)":  *)
(* no patch, not even one computed from a stale object, takes it back.       *)
ProvisionedIsFinal ==
    [][\A m \in Machines : obj[m].provisioned /\ obj'[m].phase # "gone"
                            => obj'[m].provisioned]_vars

(* A machine that has recorded a server is never moved to another one.       *)
ServerIDIsFinal ==
    [][\A m \in Machines : obj[m].serverID # None
                            => obj'[m].serverID \in {obj[m].serverID, None}]_vars

(* A machine that is not deleted ends up provisioned and Ready, whatever     *)
(* faults there were: no event, poll or retry that it needs is lost.         *)
Converges ==
    \A m \in Machines :
        <>[](obj[m].phase = "live" => obj[m].provisioned /\ obj[m].ready)

(* A deleted machine loses its finalizer in the end.                         *)
DeletionCompletes ==
    \A m \in Machines : obj[m].phase = "deleting" ~> obj[m].phase = "gone"

-----------------------------------------------------------------------------
(* What the controller promises about servers, and the state that shows it.  *)

Fleet == INSTANCE MachineServers WITH
            up <- {s \in Servers : servers[s].state \in LiveStates},
            owner <- [s \in Servers |-> IF servers[s].state \in {"unused", "pending"}
                                        THEN None ELSE servers[s].owner]

(* Every step of the controller and of the cloud is a step of MachineServers *)
(* or changes no server: create is reached only when the machine has none.   *)
ImplementsFleet == Fleet!Spec
=============================================================================
