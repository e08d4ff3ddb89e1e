------------------------ MODULE MachineServerProofs -------------------------
(*****************************************************************************)
(* Type correctness of MachineController, for any set of machines, servers   *)
(* and server groups and any environment.  A machine has at most one server, *)
(* the controller implements the abstract fleet, and there is at most one    *)
(* server group of a name, in any environment in which creates do not land   *)
(* late.                                                                     *)
(*                                                                           *)
(* What each step of the controller does to the object in memory and to the  *)
(* stored one; Provisioned is final in any environment.                      *)
(*****************************************************************************)
EXTENDS MachineController, TLAPS

-----------------------------------------------------------------------------
(* The two fixed objects.                                                    *)
LEMMA NewObjectType == NewObject \in Objects /\ GoneObject \in Objects
<1>1. NewObject \in Objects
  BY DEF NewObject, Objects, Phases, Reasons
<1>2. GoneObject \in Objects
  BY <1>1 DEF GoneObject, Objects, Phases
<1> QED BY <1>1, <1>2

(* The edits of the object in memory keep it an object.                      *)
LEMMA EditTypes ==
    ASSUME NEW o \in Objects
    PROVE  /\ setReadyCondition(o) \in Objects
           /\ setProvisioned(o) \in Objects
           /\ serverError(o) \in Objects
           /\ groupError(o) \in Objects
           /\ \A state : setServerStatusCondition(o, state) \in Objects
           /\ \A s \in Servers \cup {None} : updateMachineFromServer(o, s) \in Objects
           /\ \A m \in Machines : deleted(m, o) \in Objects
           /\ Stored(o) \in Objects
<1>b. \A x : IsServerReady(x) \in BOOLEAN
  BY DEF IsServerReady
<1>1. ASSUME NEW x \in Objects PROVE setReadyCondition(x) \in Objects
  BY <1>b DEF setReadyCondition, Objects
<1>2. setProvisioned(o) \in Objects
  <2>1. (o.provisioned \/ IsServerReady(o)) \in BOOLEAN
    OBVIOUS
  <2>2. [o EXCEPT !.provisioned = @ \/ IsServerReady(o)] \in Objects
    BY <2>1, Zenon DEF Objects
  <2> QED BY <1>1, <2>2 DEF setProvisioned
<1>3. serverError(o) \in Objects
  <2>1. [o EXCEPT !.serverReady = "ServerError"] \in Objects
    BY DEF Objects, Reasons
  <2> QED BY <1>1, <2>1 DEF serverError
<1>4. groupError(o) \in Objects
  <2>1. [o EXCEPT !.groupReady = FALSE] \in Objects
    BY Zenon DEF Objects
  <2> QED BY <1>1, <2>1 DEF groupError
<1>5. \A state : setServerStatusCondition(o, state) \in Objects
  BY DEF setServerStatusCondition, Objects, Reasons
<1>6. \A s \in Servers \cup {None} : updateMachineFromServer(o, s) \in Objects
  BY Zenon DEF updateMachineFromServer, Objects
<1>7. \A m \in Machines : deleted(m, o) \in Objects
  <2> SUFFICES ASSUME NEW m \in Machines PROVE deleted(m, o) \in Objects
    BY Zenon
  <2> DEFINE g == IF GroupOf[m] = None THEN o.groupID ELSE None
  <2>1. g \in Groups \cup {None}
    BY DEF Objects
  <2>2. [o EXCEPT !.serverID = None, !.serverReady = "ServerDeleting", !.groupID = g,
                  !.ready = FALSE, !.finalizer = FALSE] \in Objects
    <3> HIDE DEF g
    <3> QED BY <2>1, Zenon DEF Objects, Reasons
  <2> QED BY <2>2 DEF deleted
<1>8. Stored(o) \in Objects
  BY NewObjectType DEF Stored
<1> QED BY <1>1, <1>2, <1>3, <1>4, <1>5, <1>6, <1>7, <1>8

(* What Return and Continue do to the variables of a reconcile.              *)
LEMMA LocalTypes ==
    ASSUME TypeOK, NEW m \in Machines, NEW o \in Objects
    PROVE  /\ \A res \in Outcomes : Return(m, o, res) =>
                /\ pc' \in [Machines -> Steps] /\ mem' \in [Machines -> Objects]
                /\ base' \in [Machines -> Objects]
                /\ outcome' \in [Machines -> Outcomes]
           /\ \A step \in Steps : Continue(m, o, step) =>
                /\ pc' \in [Machines -> Steps] /\ mem' \in [Machines -> Objects]
                /\ base' \in [Machines -> Objects]
                /\ outcome' \in [Machines -> Outcomes]
           /\ ServerStep(o) \in Steps
<1>1. ASSUME NEW res \in Outcomes, Return(m, o, res)
      PROVE  /\ pc' \in [Machines -> Steps] /\ mem' \in [Machines -> Objects]
             /\ base' \in [Machines -> Objects]
             /\ outcome' \in [Machines -> Outcomes]
  BY <1>1 DEF TypeOK, Return, Edit, Goto, Steps
<1>2. ASSUME NEW step \in Steps, Continue(m, o, step)
      PROVE  /\ pc' \in [Machines -> Steps] /\ mem' \in [Machines -> Objects]
             /\ base' \in [Machines -> Objects]
             /\ outcome' \in [Machines -> Outcomes]
  BY <1>2 DEF TypeOK, Continue, Edit, Goto
<1>3. ServerStep(o) \in Steps
  BY DEF ServerStep, Steps
<1> QED BY <1>1, <1>2, <1>3

(* ReturnServer keeps the types.                                             *)
LEMMA ReturnServerTypes ==
    ASSUME TypeOK, NEW m \in Machines, NEW s \in Servers \cup {None}, NEW state,
           ReturnServer(m, s, state)
    PROVE  /\ pc' \in [Machines -> Steps] /\ mem' \in [Machines -> Objects]
           /\ base' \in [Machines -> Objects]
           /\ outcome' \in [Machines -> Outcomes]
<1> DEFINE o1 == updateMachineFromServer(mem[m], s)
           o2 == setServerStatusCondition(o1, state)
           o3 == setProvisioned(o2)
           res == IF state = "changing" THEN "requeue" ELSE "done"
<1>1. mem[m] \in Objects
  BY DEF TypeOK
<1>2. o1 \in Objects
  BY <1>1, EditTypes
<1>3. o2 \in Objects
  BY <1>2, EditTypes
<1>4. o3 \in Objects
  BY <1>3, EditTypes
<1>5. res \in Outcomes
  BY DEF Outcomes
<1>6. Return(m, o3, res)
  BY DEF ReturnServer
<1> HIDE DEF o3, res
<1> QED BY <1>4, <1>5, <1>6, LocalTypes

(* The objects that Close stores.                                            *)
LEMMA MergeTypes ==
    ASSUME TypeOK, NEW m \in Machines
    PROVE  /\ MergeConditions(m) \in Objects
           /\ MergeObject(m) \in Objects
           /\ MergeStatus(m) \in Objects
<1> obj[m] \in Objects /\ mem[m] \in Objects /\ base[m] \in Objects
  BY DEF TypeOK
<1> DEFINE M(f) == Merge(base[m][f], mem[m][f], obj[m][f])
<1>0. /\ {M("finalizer"), M("provisioned"), M("groupReady"), M("ready")} \subseteq BOOLEAN
      /\ M("providerID") \in Servers \cup {None} /\ M("serverID") \in Servers \cup {None}
      /\ M("groupID") \in Groups \cup {None}
      /\ M("serverReady") \in Reasons
  BY DEF Merge, Objects
<1>1. MergeConditions(m) \in Objects
  <2> [obj[m] EXCEPT !.serverReady = M("serverReady"), !.groupReady = M("groupReady"),
                     !.ready = M("ready")] \in Objects
    <3> HIDE DEF M
    <3> QED BY <1>0, Zenon DEF Objects
  <2> QED BY DEF MergeConditions
<1>2. MergeObject(m) \in Objects
  <2> [obj[m] EXCEPT !.finalizer = M("finalizer"), !.providerID = M("providerID")]
        \in Objects
    <3> HIDE DEF M
    <3> QED BY <1>0, Zenon DEF Objects
  <2> QED BY DEF MergeObject
<1>3. MergeStatus(m) \in Objects
  <2> [obj[m] EXCEPT !.serverID = M("serverID"), !.groupID = M("groupID"),
                     !.provisioned = M("provisioned")] \in Objects
    <3> HIDE DEF M
    <3> QED BY <1>0, Zenon DEF Objects
  <2> QED BY DEF MergeStatus
<1> QED BY <1>1, <1>2, <1>3

(* A patch stores an object and may turn the outcome into an error.          *)
LEMMA PatchTypes ==
    ASSUME TypeOK, NEW m \in Machines, NEW new \in Objects, NEW admitted,
           Patch(m, new, admitted)
    PROVE  obj' \in [Machines -> Objects] /\ outcome' \in [Machines -> Outcomes]
BY EditTypes DEF TypeOK, Patch, Outcomes

(* TypeOK is inductive: every field, step and cloud resource keeps its type. *)
THEOREM TypeCorrect == Spec => []TypeOK
<1>1. Init => TypeOK
  <2> SUFFICES ASSUME Init PROVE TypeOK
    OBVIOUS
  <2>1. obj \in [Machines -> Objects] /\ cache \in [Machines -> Objects]
        /\ mem \in [Machines -> Objects] /\ base \in [Machines -> Objects]
    BY NewObjectType DEF Init
  <2>2. pc \in [Machines -> Steps] /\ outcome \in [Machines -> Outcomes]
    BY DEF Init, Steps, Outcomes
  <2>3. servers \in [Servers -> [state : ServerStates, owner : Machines \cup {None},
                                 group : Groups \cup {None}]]
    BY DEF Init, UnusedServer, ServerStates
  <2>4. groups \in [Groups -> [state : GroupStates, name : GroupNames \cup {None}]]
    BY DEF Init, UnusedGroup, GroupStates
  <2> QED BY <2>1, <2>2, <2>3, <2>4, Zenon DEF Init, TypeOK
<1>2. TypeOK /\ [Next]_vars => TypeOK'
  <2> SUFFICES ASSUME TypeOK, [Next]_vars PROVE TypeOK'
    OBVIOUS
  <2>o. \A m \in Machines : obj[m] \in Objects /\ cache[m] \in Objects
                            /\ mem[m] \in Objects /\ base[m] \in Objects
    BY DEF TypeOK
  <2> USE DEF k8s, local, cloud, gates
  <2>1. ASSUME NEW m \in Machines, ReconcileSkip(m) PROVE TypeOK'
    BY <2>1 DEF TypeOK, ReconcileSkip, Dequeue
  <2>2. ASSUME NEW m \in Machines, ReconcileNormal(m) PROVE TypeOK'
    <3> DEFINE o == [cache[m] EXCEPT !.finalizer = TRUE]
               w == [o EXCEPT !.serverReady = "WaitingForBootstrapData"]
    <3>0. o \in Objects
      BY <2>o, Zenon DEF Objects
    <3>1. o \in Objects /\ w \in Objects
      <4> HIDE DEF o
      <4> QED BY <3>0 DEF Objects, Reasons
    <3>2. setReadyCondition(w) \in Objects /\ ServerStep(o) \in Steps
      BY <3>1, EditTypes DEF ServerStep, Steps
    <3>3. mem' \in [Machines -> Objects] /\ pc' \in [Machines -> Steps]
      <4> HIDE DEF o, w
      <4>1. \/ Edit(m, setReadyCondition(w)) /\ Goto(m, "patchConditions")
            \/ Edit(m, o) /\ \E st \in Steps : Goto(m, st)
        BY <2>2, <3>2 DEF ReconcileNormal, Steps, o, w
      <4> QED BY <3>1, <3>2, <4>1 DEF TypeOK, Edit, Goto, Steps
    <3>4. base' \in [Machines -> Objects] /\ outcome' \in [Machines -> Outcomes]
      BY <2>2, <2>o DEF ReconcileNormal, TypeOK, Outcomes
    <3> QED BY <2>2, <3>3, <3>4 DEF TypeOK, ReconcileNormal, Dequeue
  <2>3. ASSUME NEW m \in Machines, ReconcileDelete(m) PROVE TypeOK'
    <3>1. deleted(m, cache[m]) \in Objects
      BY <2>o, EditTypes, Zenon
    <3>2. mem' \in [Machines -> Objects] /\ pc' \in [Machines -> Steps]
      BY <2>3, <2>o, <3>1 DEF ReconcileDelete, TypeOK, Edit, Goto, Steps
    <3>3. base' \in [Machines -> Objects] /\ outcome' \in [Machines -> Outcomes]
      BY <2>3, <2>o DEF ReconcileDelete, TypeOK, Outcomes
    <3> QED BY <2>3, <3>2, <3>3 DEF TypeOK, ReconcileDelete, Dequeue
  <2>4. ASSUME NEW m \in Machines, GetGroup(m) PROVE TypeOK'
    <3>1. [mem[m] EXCEPT !.groupReady = TRUE] \in Objects
      BY <2>o, Zenon DEF Objects
    <3>2. [mem[m] EXCEPT !.groupID = None] \in Objects
      BY <2>o, Zenon DEF Objects
    <3>3. ServerStep(mem[m]) \in Steps /\ "listGroups" \in Steps
      BY DEF ServerStep, Steps
    <3> QED BY <2>4, <3>1, <3>2, <3>3, LocalTypes DEF GetGroup, TypeOK
  <2>5. ASSUME NEW m \in Machines, NEW g \in Groups
        PROVE  LET o == [mem[m] EXCEPT !.groupID = g, !.groupReady = TRUE]
               IN  o \in Objects /\ ServerStep(o) \in Steps
    BY <2>o, Zenon DEF Objects, ServerStep, Steps
  <2>6. ASSUME NEW m \in Machines, ListGroups(m) PROVE TypeOK'
    <3>1. "createGroup" \in Steps
      BY DEF Steps
    <3>2. CASE \E g \in Groups :
                 LET o == [mem[m] EXCEPT !.groupID = g, !.groupReady = TRUE]
                 IN  Continue(m, o, ServerStep(o)) /\ UNCHANGED serverGroupMu
      BY <2>5, <2>6, <3>2, LocalTypes, Zenon DEF ListGroups, TypeOK
    <3>3. CASE Continue(m, mem[m], "createGroup") /\ serverGroupMu' = m
      BY <2>6, <2>o, <3>1, <3>3, LocalTypes, Zenon DEF ListGroups, TypeOK
    <3> QED BY <2>6, <3>2, <3>3, Zenon DEF ListGroups, GroupsNamed
  <2>7. ASSUME NEW m \in Machines, CreateGroup(m) PROVE TypeOK'
    <3>1. PICK g \in Groups :
            LET o == [mem[m] EXCEPT !.groupID = g, !.groupReady = TRUE]
            IN  /\ groups' = [groups EXCEPT ![g] = [state |-> "live", name |-> GroupOf[m]]]
                /\ Continue(m, o, ServerStep(o))
      BY <2>7, Zenon DEF CreateGroup
    <3>2. groups' \in [Groups -> [state : GroupStates, name : GroupNames \cup {None}]]
      BY <3>1, GroupOfAssumption DEF TypeOK, GroupStates
    <3> QED BY <2>5, <2>7, <3>1, <3>2, LocalTypes, Zenon DEF CreateGroup, TypeOK
  <2>8. ASSUME NEW m \in Machines, CreateGroupTimeout(m) PROVE TypeOK'
    <3>1. groups' \in [Groups -> [state : GroupStates, name : GroupNames \cup {None}]]
      BY <2>8, GroupOfAssumption DEF CreateGroupTimeout, TypeOK, GroupStates
    <3>2. [mem[m] EXCEPT !.groupReady = TRUE] \in Objects
      BY <2>o, Zenon DEF Objects
    <3>3. setReadyCondition([mem[m] EXCEPT !.groupReady = TRUE]) \in Objects
      BY <3>2, EditTypes
    <3>4. "requeue" \in Outcomes
      BY DEF Outcomes
    <3> QED BY <2>8, <3>1, <3>3, <3>4, LocalTypes DEF CreateGroupTimeout, TypeOK
  <2>9. ASSUME NEW m \in Machines, GroupCallFails(m) \/ CreateGroupRefused(m) PROVE TypeOK'
    <3>1. groupError(mem[m]) \in Objects /\ "error" \in Outcomes
      BY <2>o, EditTypes DEF Outcomes
    <3> QED BY <2>9, <3>1, LocalTypes DEF GroupCallFails, CreateGroupRefused, TypeOK
  <2>10. ASSUME NEW m \in Machines, GetServer(m) PROVE TypeOK'
    <3>1. mem[m].serverID \in Servers \cup {None} /\ "done" \in Outcomes
      BY <2>o DEF Objects, Outcomes
    <3>2. [mem[m] EXCEPT !.serverReady = "ServerDeletedExternally"] \in Objects
      BY <2>o DEF Objects, Reasons
    <3>3. setProvisioned([mem[m] EXCEPT !.serverReady = "ServerDeletedExternally"])
            \in Objects
      BY <3>2, EditTypes
    <3> QED BY <2>10, <3>1, <3>3, LocalTypes, ReturnServerTypes DEF GetServer, TypeOK
  <2>11. ASSUME NEW m \in Machines, ListServers(m) PROVE TypeOK'
    <3>1. serverError(mem[m]) \in Objects /\ "error" \in Outcomes /\ "createServer" \in Steps
      BY <2>o, EditTypes DEF Outcomes, Steps
    <3>2. /\ pc' \in [Machines -> Steps] /\ mem' \in [Machines -> Objects]
          /\ base' \in [Machines -> Objects] /\ outcome' \in [Machines -> Outcomes]
      <4>1. CASE Continue(m, mem[m], "createServer")
        BY <2>o, <3>1, <4>1, LocalTypes
      <4>2. CASE \E s \in Servers : ReturnServer(m, s, servers[s].state)
        BY <4>2, ReturnServerTypes
      <4>3. CASE Return(m, serverError(mem[m]), "error")
        BY <3>1, <4>3, LocalTypes
      <4> QED BY <2>11, <4>1, <4>2, <4>3 DEF ListServers, ServersOf
    <3> QED BY <2>11, <3>2 DEF ListServers, TypeOK
  <2>12. ASSUME NEW m \in Machines, CreateServer(m) PROVE TypeOK'
    <3>1. PICK s \in Servers, state \in {"changing", "running"} :
            /\ servers' = [servers EXCEPT ![s] = [state |-> state, owner |-> m,
                                                  group |-> mem[m].groupID]]
            /\ ReturnServer(m, s, state)
      BY <2>12, Zenon DEF CreateServer
    <3>2. servers' \in [Servers -> [state : ServerStates, owner : Machines \cup {None},
                                    group : Groups \cup {None}]]
      BY <2>o, <3>1 DEF TypeOK, ServerStates, LiveStates, Objects
    <3> QED BY <2>12, <3>1, <3>2, ReturnServerTypes DEF CreateServer, TypeOK
  <2>13. ASSUME NEW m \in Machines, CreateServerTimeout(m) PROVE TypeOK'
    <3>1. servers' \in [Servers -> [state : ServerStates, owner : Machines \cup {None},
                                    group : Groups \cup {None}]]
      <4>1. /\ mem[m].groupID \in Groups \cup {None}
            /\ servers \in [Servers -> [state : ServerStates, owner : Machines \cup {None},
                                         group : Groups \cup {None}]]
        BY <2>o DEF TypeOK, Objects
      <4>2. CASE UNCHANGED servers
        BY <4>1, <4>2
      <4>3. ASSUME NEW s \in Servers,
                   servers' = [servers EXCEPT ![s] = [state |-> "pending", owner |-> m,
                                                      group |-> mem[m].groupID]]
            PROVE  servers' \in [Servers -> [state : ServerStates,
                            owner : Machines \cup {None}, group : Groups \cup {None}]]
        BY <4>1, <4>3 DEF ServerStates
      <4> QED BY <2>13, <4>2, <4>3 DEF CreateServerTimeout
    <3>2. setProvisioned(mem[m]) \in Objects /\ "requeue" \in Outcomes
      BY <2>o, EditTypes DEF Outcomes
    <3> QED BY <2>13, <3>1, <3>2, LocalTypes DEF CreateServerTimeout, TypeOK
  <2>14. ASSUME NEW m \in Machines, ServerCallFails(m) \/ CreateServerRefused(m) PROVE TypeOK'
    <3>1. serverError(mem[m]) \in Objects /\ "error" \in Outcomes
      BY <2>o, EditTypes DEF Outcomes
    <3> QED BY <2>14, <3>1, LocalTypes DEF ServerCallFails, CreateServerRefused, TypeOK
  <2>15. ASSUME NEW s PROVE Destroy(s) \in [Servers -> [state : ServerStates,
                                 owner : Machines \cup {None}, group : Groups \cup {None}]]
    <3>1. servers \in [Servers -> [state : ServerStates, owner : Machines \cup {None},
                                   group : Groups \cup {None}]]
      BY DEF TypeOK
    <3>2. CASE s \in Servers
      <4>1. [servers[s] EXCEPT !.state = "deleted"] \in
              [state : ServerStates, owner : Machines \cup {None}, group : Groups \cup {None}]
        BY <3>1, <3>2 DEF ServerStates
      <4> QED BY <3>1, <3>2, <4>1 DEF Destroy
    <3>3. CASE s \notin Servers
      BY <3>1, <3>3, Zenon DEF Destroy
    <3> QED BY <3>2, <3>3
  <2>16. ASSUME NEW m \in Machines, DeleteServer(m) PROVE TypeOK'
    <3>1. deleted(m, mem[m]) \in Objects /\ "done" \in Outcomes
      BY <2>o, EditTypes, Zenon DEF Outcomes
    <3> QED BY <2>15, <2>16, <3>1, LocalTypes DEF DeleteServer, TypeOK
  <2>17. ASSUME NEW m \in Machines, DeleteServerFails(m) PROVE TypeOK'
    <3>1. [mem[m] EXCEPT !.serverReady = "ServerError"] \in Objects /\ "error" \in Outcomes
      BY <2>o DEF Objects, Reasons, Outcomes
    <3> QED BY <2>15, <2>17, <3>1, LocalTypes DEF DeleteServerFails, TypeOK
  <2>18. ASSUME NEW m \in Machines, PatchConditions(m) PROVE TypeOK'
    <3>1. obj' \in [Machines -> Objects] /\ outcome' \in [Machines -> Outcomes]
      BY <2>18, MergeTypes, PatchTypes DEF PatchConditions
    <3> QED BY <2>18, <3>1, Zenon DEF PatchConditions, TypeOK, Goto, Steps
  <2>19. ASSUME NEW m \in Machines, PatchObject(m) PROVE TypeOK'
    <3>1. obj' \in [Machines -> Objects] /\ outcome' \in [Machines -> Outcomes]
      BY <2>19, MergeTypes, PatchTypes DEF PatchObject
    <3> QED BY <2>19, <3>1, Zenon DEF PatchObject, TypeOK, Goto, Steps
  <2>20. ASSUME NEW m \in Machines, PatchStatus(m) PROVE TypeOK'
    <3>1. obj' \in [Machines -> Objects] /\ outcome' \in [Machines -> Outcomes]
      <4>1. CASE Patch(m, MergeStatus(m), TRUE)
        BY <4>1, MergeTypes, PatchTypes, Zenon
      <4>2. CASE UNCHANGED <<obj, outcome>>
        BY <4>2 DEF TypeOK
      <4> QED BY <2>20, <4>1, <4>2, Zenon DEF PatchStatus
    <3>2. mem' \in [Machines -> Objects] /\ base' \in [Machines -> Objects]
      BY <2>20, NewObjectType DEF PatchStatus, TypeOK
    <3> QED BY <2>20, <3>1, <3>2 DEF PatchStatus, TypeOK, Goto, Steps
  <2>21. ASSUME NEW m \in Machines, Event(m) PROVE TypeOK'
    <3>1. CASE CacheSync(m)
      BY <3>1, <2>o DEF CacheSync, TypeOK
    <3>2. CASE SetOwnerRef(m)
      <4>1. [obj[m] EXCEPT !.owned = TRUE] \in Objects
        BY <2>o, Zenon DEF Objects
      <4> QED BY <3>2, <4>1 DEF SetOwnerRef, TypeOK
    <3>3. CASE BootstrapDataReady(m)
      BY <3>3 DEF BootstrapDataReady, TypeOK
    <3>4. CASE Resync(m)
      BY <3>4 DEF Resync, TypeOK
    <3>5. CASE DeleteObject(m)
      <4>1. [obj[m] EXCEPT !.phase = "deleting"] \in Objects
        BY <2>o DEF Objects, Phases
      <4>2. Stored([obj[m] EXCEPT !.phase = "deleting"]) \in Objects
        BY <4>1, EditTypes
      <4> QED BY <3>5, <4>2 DEF DeleteObject, TypeOK
    <3> QED BY <2>21, <3>1, <3>2, <3>3, <3>4, <3>5 DEF Event
  <2>22. ASSUME NEW s \in Servers, ServerEvent(s) PROVE TypeOK'
    <3>1. CASE PendingServerLost(s)
      BY <3>1 DEF PendingServerLost, TypeOK, UnusedServer, ServerStates
    <3>2. ASSUME NEW from, NEW to \in ServerStates, ServerBecomes(s, from, to)
          PROVE  TypeOK'
      BY <3>2, Zenon DEF ServerBecomes, TypeOK
    <3>3. {"changing", "running", "stopped", "deleted"} \subseteq ServerStates
      BY DEF ServerStates, LiveStates
    <3> QED BY <2>22, <3>1, <3>2, <3>3
            DEF ServerEvent, ServerBoots, PendingServerLands, ServerStopped,
                ServerRestarted, ServerDeletedExternally
  <2>23. ASSUME NEW g \in Groups, GroupEvent(g) PROVE TypeOK'
    <3>1. CASE PendingGroupLost(g)
      BY <3>1 DEF PendingGroupLost, TypeOK, UnusedGroup, GroupStates
    <3>2. CASE \E from, to \in GroupStates : GroupBecomes(g, from, to)
      BY <3>2 DEF GroupBecomes, TypeOK
    <3> QED BY <2>23, <3>1, <3>2
            DEF GroupEvent, PendingGroupLands, GroupDeletedExternally, GroupStates
  <2>24. CASE ClusterProvisioned
    BY <2>24 DEF ClusterProvisioned, TypeOK
  <2>25. CASE PauseTransition
    <3>1. paused' \in BOOLEAN
      BY <2>25 DEF PauseTransition
    <3> QED BY <2>25, <3>1 DEF PauseTransition, TypeOK
  <2>26. CASE Crash
    BY <2>26, NewObjectType DEF Crash, TypeOK, Steps, Outcomes
  <2>27. CASE UNCHANGED vars
    BY <2>27 DEF TypeOK, vars
  <2> QED
    BY <2>1, <2>2, <2>3, <2>4, <2>6, <2>7, <2>8, <2>9, <2>10, <2>11, <2>12, <2>13,
       <2>14, <2>16, <2>17, <2>18, <2>19, <2>20, <2>21, <2>22, <2>23, <2>24, <2>25,
       <2>26, <2>27 DEF Next, Succeeds, Fails
<1> QED BY <1>1, <1>2, PTL DEF Spec


-----------------------------------------------------------------------------
(* Who gets to a create: only the list that found nothing.                   *)
LEMMA EntersCreate ==
    ASSUME TypeOK, [Next]_vars, NEW m \in Machines
    PROVE  /\ pc'[m] = "createServer" /\ pc[m] # "createServer" => ListServers(m)
           /\ pc'[m] = "createGroup" /\ pc[m] # "createGroup" => ListGroups(m)
<1> USE DEF k8s, local, cloud, gates
<1> DEFINE Keeps == pc'[m] \in {"createServer", "createGroup"} => pc'[m] = pc[m]
<1>0. ASSUME NEW n \in Machines, NEW st, Goto(n, st),
             st \notin {"createServer", "createGroup"}
      PROVE  Keeps
  BY <1>0 DEF TypeOK, Goto
<1>1. ASSUME NEW n \in Machines, NEW o PROVE ServerStep(o) \notin {"createServer", "createGroup"}
  BY DEF ServerStep
<1>2. ASSUME NEW n \in Machines, NEW o, NEW res, Return(n, o, res) PROVE Keeps
  BY <1>0, <1>2 DEF Return
<1>3. ASSUME NEW n \in Machines, NEW o, NEW q, Continue(n, o, ServerStep(q)) PROVE Keeps
  BY <1>0, <1>1, <1>3 DEF Continue
<1>4. ASSUME NEW n \in Machines, Succeeds(n), ~ListServers(n), ~ListGroups(n) PROVE Keeps
  <2>1. CASE ReconcileSkip(n)
    BY <2>1 DEF ReconcileSkip
  <2>2. CASE ReconcileNormal(n)
    <3>1. \E st : Goto(n, st) /\ st \notin {"createServer", "createGroup"}
      BY <2>2, <1>1 DEF ReconcileNormal
    <3> QED BY <3>1, <1>0
  <2>3. CASE ReconcileDelete(n)
    BY <2>3, <1>0 DEF ReconcileDelete
  <2>4. CASE GetGroup(n)
    <3>1. CASE Continue(n, [mem[n] EXCEPT !.groupID = None], "listGroups")
      BY <3>1, <1>0 DEF Continue
    <3> QED BY <2>4, <3>1, <1>3 DEF GetGroup
  <2>5. CASE CreateGroup(n) \/ CreateGroupRefused(n)
    BY Zenon, <2>5, <1>2, <1>3 DEF CreateGroup, CreateGroupRefused
  <2>6. CASE GetServer(n)
    BY <2>6, <1>2 DEF GetServer, ReturnServer
  <2>7. CASE CreateServer(n) \/ CreateServerRefused(n)
    BY <2>7, <1>2 DEF CreateServer, CreateServerRefused, ReturnServer
  <2>8. CASE DeleteServer(n)
    BY <2>8, <1>2 DEF DeleteServer
  <2>9. CASE PatchConditions(n) \/ PatchObject(n) \/ PatchStatus(n)
    BY <2>9, <1>0, Zenon DEF PatchConditions, PatchObject, PatchStatus
  <2> QED BY <1>4, <2>1, <2>2, <2>3, <2>4, <2>5, <2>6, <2>7, <2>8, <2>9 DEF Succeeds
<1>5. ASSUME NEW n \in Machines, Fails(n) PROVE Keeps
  BY <1>5, <1>2 DEF Fails, CreateGroupTimeout, GroupCallFails, CreateServerTimeout,
                    ServerCallFails, DeleteServerFails
<1>6. ASSUME NEW n \in Machines, Event(n) PROVE Keeps
  BY <1>6 DEF Event, CacheSync, SetOwnerRef, BootstrapDataReady, Resync, DeleteObject
<1>7. ASSUME NEW s \in Servers, ServerEvent(s) PROVE Keeps
  BY <1>7 DEF ServerEvent, ServerBoots, PendingServerLands, PendingServerLost,
              ServerStopped, ServerRestarted, ServerDeletedExternally, ServerBecomes
<1>8. ASSUME NEW g \in Groups, GroupEvent(g) PROVE Keeps
  BY <1>8 DEF GroupEvent, PendingGroupLands, PendingGroupLost, GroupDeletedExternally,
              GroupBecomes
<1>9. CASE ClusterProvisioned \/ PauseTransition \/ UNCHANGED vars
  BY <1>9 DEF ClusterProvisioned, PauseTransition, vars
<1>10. CASE Crash
  BY <1>10 DEF Crash
<1>11. ASSUME NEW n \in Machines, ListServers(n), n # m PROVE Keeps
  BY <1>11 DEF ListServers, Continue, Return, ReturnServer, Goto, TypeOK
<1>12. ASSUME NEW n \in Machines, ListGroups(n), n # m PROVE Keeps
  BY <1>12, Zenon DEF ListGroups, Continue, Goto, TypeOK
<1>13. ListServers(m) => pc[m] = "listServers" /\ pc'[m] # "createGroup"
  BY DEF ListServers, Continue, Return, ReturnServer, Goto, TypeOK
<1>14. ListGroups(m) => pc'[m] # "createServer"
  BY <1>1, Zenon DEF ListGroups, Continue, Goto, TypeOK
<1> QED BY <1>4, <1>5, <1>6, <1>7, <1>8, <1>9, <1>10, <1>11, <1>12, <1>13, <1>14 DEF Next

(* A server is claimed from the request on, whether or not it is known that  *)
(* the request took effect.                                                  *)
ClaimedStates == LiveStates \cup {"pending"}

(* Inductive for AtMostOneServer: a claim belongs to a machine, a machine    *)
(* has one claim, and none while its reconcile is about to create.           *)
OneServerInv ==
    /\ \A s \in Servers :
        servers[s].state \in ClaimedStates => servers[s].owner \in Machines
    /\ \A s, t \in Servers :
        /\ servers[s].state \in ClaimedStates /\ servers[t].state \in ClaimedStates
        /\ servers[s].owner = servers[t].owner
        => s = t
    /\ \A m \in Machines : \A s \in Servers :
        pc[m] = "createServer" /\ servers[s].state \in ClaimedStates
        => servers[s].owner # m

(* What a step may do to a server: a machine makes it, or claims it by a     *)
(* request that timed out; it changes its state; its request is lost.        *)
Makes(m, s, state) ==
    /\ pc[m] = "createServer" /\ pc' = [pc EXCEPT ![m] = "patchConditions"]
    /\ GroupUsable(mem[m].groupID)
    /\ servers[s].state = "unused"
    /\ servers' = [servers EXCEPT ![s] = [state |-> state, owner |-> m,
                                          group |-> mem[m].groupID]]

Moves(s, to) ==
    /\ \/ servers[s].state \in LiveStates /\ to \in LiveStates \cup {"deleted"}
       \/ servers[s].state = "pending" /\ to \in LiveStates
    /\ servers' = [servers EXCEPT ![s].state = to]

Drops(s) ==
    /\ servers[s].state = "pending"
    /\ servers' = [servers EXCEPT ![s] = UnusedServer]

(* Every step is one of these or changes no server.                          *)
LEMMA ServerSteps ==
    ASSUME TypeOK, [Next]_vars
    PROVE  \/ servers' = servers
           \/ \E m \in Machines, s \in Servers, state \in ClaimedStates : Makes(m, s, state)
           \/ \E s \in Servers, to \in ServerStates : Moves(s, to)
           \/ \E s \in Servers : Drops(s)
<1> USE DEF k8s, local, cloud, gates
<1>1. ASSUME NEW n \in Machines, CreateServer(n)
      PROVE  \E s \in Servers, state \in ClaimedStates : Makes(n, s, state)
  BY <1>1, Zenon
     DEF CreateServer, ReturnServer, Return, Goto, ClaimedStates, LiveStates, Makes
<1>2. ASSUME NEW n \in Machines, CreateServerTimeout(n)
      PROVE  \/ servers' = servers
             \/ \E s \in Servers, state \in ClaimedStates : Makes(n, s, state)
  BY <1>2 DEF CreateServerTimeout, Return, Goto, ClaimedStates, Makes
<1>3. ASSUME NEW n \in Machines, DeleteServer(n) \/ DeleteServerFails(n)
      PROVE  servers' = servers \/ \E s \in Servers, to \in ServerStates : Moves(s, to)
  <2>1. mem[n].serverID \in Servers \cup {None}
    BY DEF TypeOK, Objects
  <2>2. CASE mem[n].serverID \in Servers
    BY <1>3, <2>2 DEF DeleteServer, DeleteServerFails, Destroy, Moves, ServerStates
  <2>3. CASE mem[n].serverID \notin Servers
    <3>1. servers' \in {servers, Destroy(mem[n].serverID)}
      BY <1>3 DEF DeleteServer, DeleteServerFails
    <3>2. Destroy(mem[n].serverID) = servers
      BY <2>3 DEF Destroy, TypeOK
    <3> QED BY <3>1, <3>2
  <2> QED BY <2>1, <2>2, <2>3
<1>4. ASSUME NEW r \in Servers, ServerEvent(r)
      PROVE  Drops(r) \/ \E to \in ServerStates : Moves(r, to)
  BY <1>4 DEF ServerEvent, ServerBoots, PendingServerLands, PendingServerLost, ServerStopped,
              ServerRestarted, ServerDeletedExternally, ServerBecomes, Drops, Moves,
              LiveStates, ServerStates
<1>5. ASSUME NEW n \in Machines, Succeeds(n), ~CreateServer(n), ~DeleteServer(n)
      PROVE  servers' = servers
  BY <1>5, Zenon DEF Succeeds, ReconcileSkip, ReconcileNormal, ReconcileDelete, GetGroup,
              ListGroups, CreateGroup, CreateGroupRefused, GetServer, ListServers,
              CreateServerRefused,
              PatchConditions, PatchObject, PatchStatus
<1>6. ASSUME NEW n \in Machines, Fails(n), ~CreateServerTimeout(n), ~DeleteServerFails(n)
      PROVE  servers' = servers
  BY <1>6 DEF Fails, CreateGroupTimeout, GroupCallFails, ServerCallFails
<1>7. ASSUME NEW n \in Machines, Event(n) PROVE servers' = servers
  BY <1>7 DEF Event, CacheSync, SetOwnerRef, BootstrapDataReady, Resync, DeleteObject
<1>8. ASSUME NEW g \in Groups, GroupEvent(g) PROVE servers' = servers
  BY <1>8 DEF GroupEvent, PendingGroupLands, PendingGroupLost, GroupDeletedExternally,
              GroupBecomes
<1>9. CASE ClusterProvisioned \/ PauseTransition \/ Crash \/ UNCHANGED vars
  BY <1>9 DEF ClusterProvisioned, PauseTransition, Crash, vars
<1> QED BY <1>1, <1>2, <1>3, <1>4, <1>5, <1>6, <1>7, <1>8, <1>9 DEF Next

(* A machine that starts to create has no claim on any server: its list came *)
(* back empty and no create was in flight.                                   *)
LEMMA NoClaimBeforeCreate ==
    ASSUME TypeOK, "late" \notin Env, NEW m \in Machines, ListServers(m),
           pc'[m] = "createServer"
    PROVE  \A s \in Servers : servers[s].state \in ClaimedStates => servers[s].owner # m
<1>1. ServersOf(m) = {}
  BY DEF ListServers, ReturnServer, Return, Goto, TypeOK
<1>2. PendingServers(m) = {}
  BY DEF ListServers, ServersSettled
<1> QED BY <1>1, <1>2 DEF ServersOf, PendingServers, ClaimedStates

(* The inductive invariant, for an environment in which creates do not land  *)
(* late.                                                                     *)
LEMMA OneServerInvariant ==
    ASSUME "late" \notin Env
    PROVE  Spec => []OneServerInv
<1>1. Init => OneServerInv
  BY DEF Init, OneServerInv, UnusedServer, ClaimedStates, LiveStates
<1>2. TypeOK /\ OneServerInv /\ [Next]_vars => OneServerInv'
  <2> SUFFICES ASSUME TypeOK, OneServerInv, [Next]_vars PROVE OneServerInv'
    OBVIOUS
  <2>1. CASE \A s \in Servers : servers'[s].state \in ClaimedStates =>
                /\ servers[s].state \in ClaimedStates
                /\ servers'[s].owner = servers[s].owner
    <3>1. ASSUME NEW m \in Machines, NEW s \in Servers,
                 pc'[m] = "createServer", servers'[s].state \in ClaimedStates
          PROVE  servers'[s].owner # m
      <4>1. CASE pc[m] = "createServer"
        BY <2>1, <3>1, <4>1 DEF OneServerInv
      <4>2. CASE pc[m] # "createServer"
        BY <2>1, <3>1, <4>2, EntersCreate, NoClaimBeforeCreate
      <4> QED BY <4>1, <4>2
    <3> QED BY <2>1, <3>1 DEF OneServerInv
  <2>2. ASSUME NEW m \in Machines, NEW s \in Servers, NEW state \in ClaimedStates,
               Makes(m, s, state)
        PROVE  OneServerInv'
    <3>1. \A t \in Servers : t # s => servers'[t] = servers[t]
      BY <2>2 DEF Makes, TypeOK
    <3>2. servers'[s].owner = m /\ servers'[s].state = state
      BY <2>2 DEF Makes, TypeOK
    <3>3. \A n \in Machines : pc'[n] = "createServer" => n # m /\ pc[n] = "createServer"
      BY <2>2 DEF Makes, TypeOK
    <3> QED BY <2>2, <3>1, <3>2, <3>3 DEF Makes, OneServerInv
  <2>3. ASSUME NEW r \in Servers, Drops(r) \/ \E to \in ServerStates : Moves(r, to)
        PROVE  \A s \in Servers : servers'[s].state \in ClaimedStates =>
                  /\ servers[s].state \in ClaimedStates
                  /\ servers'[s].owner = servers[s].owner
    <3>1. CASE Drops(r)
      BY <3>1 DEF Drops, UnusedServer, TypeOK, ClaimedStates, LiveStates
    <3>2. ASSUME NEW to \in ServerStates, Moves(r, to)
          PROVE  \A s \in Servers : servers'[s].state \in ClaimedStates =>
                    /\ servers[s].state \in ClaimedStates
                    /\ servers'[s].owner = servers[s].owner
      BY <3>2 DEF Moves, TypeOK, ClaimedStates
    <3> QED BY <2>3, <3>1, <3>2
  <2> QED BY <2>1, <2>2, <2>3, ServerSteps
<1> QED BY <1>1, <1>2, TypeCorrect, PTL DEF Spec

(* A machine never has two servers, if creates do not land late; crashes,    *)
(* timeouts, stale caches and failed patches included.                       *)
THEOREM OneServer ==
    ASSUME "late" \notin Env
    PROVE  Spec => []AtMostOneServer
<1>1. OneServerInv => AtMostOneServer
  BY DEF OneServerInv, AtMostOneServer, ClaimedStates
<1> QED BY <1>1, OneServerInvariant, PTL

(* The controller, with its cache, its retries and its crashes, implements   *)
(* the abstract fleet in which a machine is given a server only when it has  *)
(* none.                                                                     *)
THEOREM Implements ==
    ASSUME "late" \notin Env
    PROVE  Spec => ImplementsFleet
<1> DEFINE up == {s \in Servers : servers[s].state \in LiveStates}
           owner == [s \in Servers |-> IF servers[s].state \in {"unused", "pending"}
                                       THEN None ELSE servers[s].owner]
<1>1. Init => Fleet!Init
  BY DEF Init, Fleet!Init, UnusedServer, LiveStates
<1>2. TypeOK /\ OneServerInv /\ [Next]_vars => [Fleet!Next]_<<up, owner>>
  <2> SUFFICES ASSUME TypeOK, OneServerInv, [Next]_vars
               PROVE  Fleet!Next \/ (up' = up /\ owner' = owner)
    OBVIOUS
  <2>1. CASE servers' = servers
    BY <2>1
  <2>2. ASSUME NEW m \in Machines, NEW s \in Servers, NEW state \in ClaimedStates,
               Makes(m, s, state)
        PROVE  Fleet!Next \/ (up' = up /\ owner' = owner)
    <3>1. CASE state = "pending"
      BY <2>2, <3>1 DEF Makes, TypeOK, LiveStates
    <3>2. CASE state \in LiveStates
      <4>1. owner[s] = None
        BY <2>2 DEF Makes
      <4>2. \A t \in up : owner[t] # m
        BY <2>2 DEF Makes, OneServerInv, ClaimedStates, LiveStates
      <4>3. up' = up \cup {s}
        <5>1. \A t \in Servers : servers'[t].state = IF t = s THEN state
                                                     ELSE servers[t].state
          BY <2>2 DEF Makes, TypeOK
        <5> QED BY <3>2, <5>1
      <4>4. owner' = [owner EXCEPT ![s] = m]
        BY <2>2, <3>2, Zenon DEF Makes, TypeOK, LiveStates
      <4> QED BY <4>1, <4>2, <4>3, <4>4, Zenon DEF Fleet!Next, Fleet!Provision
    <3> QED BY <3>1, <3>2 DEF ClaimedStates
  <2>3. ASSUME NEW s \in Servers, NEW to \in ServerStates, Moves(s, to)
        PROVE  Fleet!Next \/ (up' = up /\ owner' = owner)
    <3>1. CASE servers[s].state \in LiveStates /\ to \in LiveStates
      BY <2>3, <3>1 DEF Moves, TypeOK, LiveStates
    <3>2. CASE servers[s].state \in LiveStates /\ to = "deleted"
      <4>1. s \in up
        BY <3>2
      <4>2. up' = up \ {s}
        BY <2>3, <3>2 DEF Moves, TypeOK, LiveStates
      <4>3. owner' = owner
        BY <2>3, <3>2 DEF Moves, TypeOK, LiveStates
      <4> QED BY <4>1, <4>2, <4>3 DEF Fleet!Next, Fleet!Retire
    <3>3. CASE servers[s].state = "pending" /\ to \in LiveStates
      <4> DEFINE m == servers[s].owner
      <4>1. owner[s] = None
        BY <3>3
      <4>2. \A t \in up : owner[t] # m
        BY <3>3 DEF OneServerInv, ClaimedStates, LiveStates
      <4>3. up' = up \cup {s}
        BY <2>3, <3>3 DEF Moves, TypeOK
      <4>4. owner' = [owner EXCEPT ![s] = m]
        BY <2>3, <3>3, Zenon DEF Moves, TypeOK, LiveStates
      <4>5. m \in Machines
        BY <3>3 DEF OneServerInv, ClaimedStates
      <4> QED BY <4>1, <4>2, <4>3, <4>4, <4>5, Zenon DEF Fleet!Next, Fleet!Provision
    <3> QED BY <2>3, <3>1, <3>2, <3>3 DEF Moves
  <2>4. ASSUME NEW s \in Servers, Drops(s)
        PROVE  Fleet!Next \/ (up' = up /\ owner' = owner)
    BY Zenon, <2>4 DEF Drops, UnusedServer, TypeOK, LiveStates
  <2> QED BY <2>1, <2>2, <2>3, <2>4, ServerSteps
<1> QED BY <1>1, <1>2, TypeCorrect, OneServerInvariant, PTL DEF Spec, ImplementsFleet, Fleet!Spec

-----------------------------------------------------------------------------
(* A group is claimed from the request on; the request is made under the     *)
(* mutex.                                                                    *)
ClaimedGroups == {"live", "pending"}

(* Inductive for AtMostOneGroup: the machine that is about to create a group *)
(* holds serverGroupMu and nobody has claimed its name.                      *)
OneGroupInv ==
    /\ \A g, h \in Groups :
        /\ groups[g].state \in ClaimedGroups /\ groups[h].state \in ClaimedGroups
        /\ groups[g].name = groups[h].name
        => g = h
    /\ \A m \in Machines : pc[m] = "createGroup" =>
        /\ serverGroupMu = m
        /\ \A g \in Groups : groups[g].state \in ClaimedGroups
                              => groups[g].name # GroupOf[m]

(* A step claims no group and leaves the mutex to its holder, or the holder  *)
(* leaves its create.                                                        *)
LEMMA GroupClaims ==
    ASSUME TypeOK, [Next]_vars
    PROVE  \/ /\ \A g \in Groups : groups'[g].state \in ClaimedGroups =>
                    /\ groups[g].state \in ClaimedGroups
                    /\ groups'[g].name = groups[g].name
              /\ \/ serverGroupMu' = serverGroupMu
                 \/ \E m \in Machines : ListGroups(m) /\ serverGroupMu' = m
                 \/ \E m \in Machines : pc[m] = "createGroup"
                        /\ pc' = [pc EXCEPT ![m] = "patchConditions"]
                 \/ pc' = [m \in Machines |-> "idle"]
           \/ \E m \in Machines, g \in Groups, state \in ClaimedGroups,
                 st \in {"listServers", "getServer", "patchConditions"} :
                /\ pc[m] = "createGroup" /\ pc' = [pc EXCEPT ![m] = st]
                /\ groups' = [groups EXCEPT ![g] = [state |-> state, name |-> GroupOf[m]]]
<1> USE DEF k8s, local, cloud, gates
<1>1. ASSUME NEW n \in Machines, CreateGroup(n)
      PROVE  \E g \in Groups, state \in ClaimedGroups,
                st \in {"listServers", "getServer", "patchConditions"} :
                /\ pc[n] = "createGroup" /\ pc' = [pc EXCEPT ![n] = st]
                /\ groups' = [groups EXCEPT ![g] = [state |-> state, name |-> GroupOf[n]]]
  BY <1>1, Zenon DEF CreateGroup, Continue, Goto, ServerStep, ClaimedGroups
<1>2. ASSUME NEW n \in Machines, CreateGroupTimeout(n)
      PROVE  \/ groups' = groups /\ pc[n] = "createGroup"
                /\ pc' = [pc EXCEPT ![n] = "patchConditions"]
             \/ \E g \in Groups, state \in ClaimedGroups,
                   st \in {"listServers", "getServer", "patchConditions"} :
                /\ pc[n] = "createGroup" /\ pc' = [pc EXCEPT ![n] = st]
                /\ groups' = [groups EXCEPT ![g] = [state |-> state, name |-> GroupOf[n]]]
  BY <1>2 DEF CreateGroupTimeout, Return, Goto, ClaimedGroups
<1>3. ASSUME NEW n \in Machines, GroupCallFails(n) \/ CreateGroupRefused(n)
      PROVE  /\ groups' = groups
             /\ \/ serverGroupMu' = serverGroupMu
                \/ pc[n] = "createGroup" /\ pc' = [pc EXCEPT ![n] = "patchConditions"]
  BY <1>3, Zenon DEF GroupCallFails, CreateGroupRefused, cloud, Return, Goto
<1>4. ASSUME NEW n \in Machines, ListGroups(n)
      PROVE  groups' = groups /\ (serverGroupMu' = serverGroupMu \/ serverGroupMu' = n)
  BY <1>4, Zenon DEF ListGroups
<1>5. ASSUME NEW h \in Groups, GroupEvent(h)
      PROVE  /\ \A g \in Groups : groups'[g].state \in ClaimedGroups =>
                    /\ groups[g].state \in ClaimedGroups
                    /\ groups'[g].name = groups[g].name
             /\ serverGroupMu' = serverGroupMu
  <2>1. CASE PendingGroupLost(h)
    BY <2>1 DEF PendingGroupLost, UnusedGroup, TypeOK, ClaimedGroups
  <2>2. CASE PendingGroupLands(h)
    BY <2>2 DEF PendingGroupLands, GroupBecomes, TypeOK, ClaimedGroups
  <2>3. CASE GroupDeletedExternally(h)
    BY <2>3 DEF GroupDeletedExternally, GroupBecomes, TypeOK, ClaimedGroups
  <2> QED BY <1>5, <2>1, <2>2, <2>3 DEF GroupEvent
<1>6. ASSUME NEW n \in Machines, Succeeds(n), ~CreateGroup(n), ~CreateGroupRefused(n),
             ~ListGroups(n)
      PROVE  groups' = groups /\ serverGroupMu' = serverGroupMu
  BY <1>6, Zenon
     DEF Succeeds, ReconcileSkip, ReconcileNormal, ReconcileDelete, GetGroup,
         GetServer, ListServers, CreateServer, CreateServerRefused, DeleteServer,
         PatchConditions, PatchObject, PatchStatus
<1>7. ASSUME NEW n \in Machines, Fails(n), ~CreateGroupTimeout(n), ~GroupCallFails(n)
      PROVE  groups' = groups /\ serverGroupMu' = serverGroupMu
  BY <1>7 DEF Fails, CreateServerTimeout, ServerCallFails, DeleteServerFails
<1>8. ASSUME NEW n \in Machines, Event(n)
      PROVE  groups' = groups /\ serverGroupMu' = serverGroupMu
  BY <1>8 DEF Event, CacheSync, SetOwnerRef, BootstrapDataReady, Resync, DeleteObject
<1>9. ASSUME NEW s \in Servers, ServerEvent(s)
      PROVE  groups' = groups /\ serverGroupMu' = serverGroupMu
  BY <1>9 DEF ServerEvent, ServerBoots, PendingServerLands, PendingServerLost,
              ServerStopped, ServerRestarted, ServerDeletedExternally, ServerBecomes
<1>10. CASE ClusterProvisioned \/ PauseTransition \/ UNCHANGED vars
  BY <1>10 DEF ClusterProvisioned, PauseTransition, vars
<1>11. CASE Crash
  BY <1>11 DEF Crash
<1>a. CASE groups' = groups /\ serverGroupMu' = serverGroupMu
  BY <1>a
<1>b. CASE \E n \in Machines : CreateGroup(n)
  BY <1>b, <1>1
<1>c. CASE \E n \in Machines : CreateGroupTimeout(n)
  BY <1>c, <1>2
<1>d. CASE \E n \in Machines : GroupCallFails(n) \/ CreateGroupRefused(n)
  BY <1>d, <1>3
<1>e. CASE \E n \in Machines : ListGroups(n)
  BY <1>e, <1>4
<1>f. CASE \E h \in Groups : GroupEvent(h)
  BY <1>f, <1>5
<1> QED
  BY <1>6, <1>7, <1>8, <1>9, <1>10, <1>11, <1>a, <1>b, <1>c, <1>d, <1>e, <1>f DEF Next

(* A machine that starts to create a group has found no group of the name,   *)
(* no create of one in flight, and the mutex free.                           *)
LEMMA NoClaimBeforeCreateGroup ==
    ASSUME TypeOK, "late" \notin Env, NEW m \in Machines, ListGroups(m),
           pc'[m] = "createGroup"
    PROVE  /\ serverGroupMu = None /\ serverGroupMu' = m
           /\ \A g \in Groups : groups[g].state \in ClaimedGroups
                                 => groups[g].name # GroupOf[m]
<1>1. \A o : ServerStep(o) # "createGroup"
  BY DEF ServerStep
<1>2. serverGroupMu = None /\ GroupsNamed(GroupOf[m]) = {} /\ serverGroupMu' = m
  BY <1>1, Zenon DEF ListGroups, Continue, Goto, TypeOK
<1>3. PendingGroups(GroupOf[m]) = {}
  BY Zenon DEF ListGroups, GroupsSettled
<1> QED BY <1>2, <1>3 DEF GroupsNamed, PendingGroups, ClaimedGroups

(* The mutex prevents duplicate server groups, if creates do not land late,  *)
(* for any number of machines that reconcile at once.                        *)
THEOREM OneGroup ==
    ASSUME "late" \notin Env
    PROVE  Spec => []AtMostOneGroup
<1>1. Init => OneGroupInv
  BY DEF Init, OneGroupInv, UnusedGroup, ClaimedGroups
<1>2. TypeOK /\ OneGroupInv /\ [Next]_vars => OneGroupInv'
  <2> SUFFICES ASSUME TypeOK, OneGroupInv, [Next]_vars PROVE OneGroupInv'
    OBVIOUS
  <2>n. \A m \in Machines : m # None
    BY NoneAssumption
  <2>1. CASE /\ \A g \in Groups : groups'[g].state \in ClaimedGroups =>
                    /\ groups[g].state \in ClaimedGroups
                    /\ groups'[g].name = groups[g].name
             /\ \/ serverGroupMu' = serverGroupMu
                \/ \E m \in Machines : ListGroups(m) /\ serverGroupMu' = m
                \/ \E m \in Machines : pc[m] = "createGroup"
                        /\ pc' = [pc EXCEPT ![m] = "patchConditions"]
                \/ pc' = [m \in Machines |-> "idle"]
    <3>1. ASSUME NEW m \in Machines, pc'[m] = "createGroup"
          PROVE  /\ serverGroupMu' = m
                 /\ \A g \in Groups : groups'[g].state \in ClaimedGroups
                                       => groups'[g].name # GroupOf[m]
      <4>1. CASE pc[m] = "createGroup"
        <5>1. serverGroupMu = m
          BY <4>1 DEF OneGroupInv
        <5>2. CASE \E n \in Machines : ListGroups(n)
          BY <2>n, <5>1, <5>2, Zenon DEF ListGroups
        <5>3. ASSUME NEW n \in Machines, pc[n] = "createGroup",
                     pc' = [pc EXCEPT ![n] = "patchConditions"]
              PROVE  FALSE
          BY <3>1, <5>1, <5>3 DEF OneGroupInv, TypeOK
        <5>4. serverGroupMu' = m
          BY <2>1, <3>1, <5>1, <5>2, <5>3
        <5> QED BY <2>1, <4>1, <5>4 DEF OneGroupInv
      <4>2. CASE pc[m] # "createGroup"
        BY <2>1, <3>1, <4>2, EntersCreate, NoClaimBeforeCreateGroup
      <4> QED BY <4>1, <4>2
    <3> QED BY <2>1, <3>1 DEF OneGroupInv
  <2>2. ASSUME NEW m \in Machines, NEW g \in Groups, NEW state \in ClaimedGroups,
               NEW st \in {"listServers", "getServer", "patchConditions"},
               pc[m] = "createGroup", pc' = [pc EXCEPT ![m] = st],
               groups' = [groups EXCEPT ![g] = [state |-> state, name |-> GroupOf[m]]]
        PROVE  OneGroupInv'
    <3>0. DOMAIN groups = Groups /\ DOMAIN pc = Machines
      BY DEF TypeOK
    <3>1. \A h \in Groups : h # g => groups'[h] = groups[h]
      BY <2>2, <3>0
    <3>2. groups'[g].name = GroupOf[m]
      BY <2>2, <3>0
    <3>3. \A n \in Machines : pc'[n] # "createGroup"
      BY <2>2, <3>0 DEF OneGroupInv
    <3>4. \A h \in Groups : groups[h].state \in ClaimedGroups
                             => groups[h].name # GroupOf[m]
      BY <2>2 DEF OneGroupInv
    <3>5. \A a, b \in Groups :
            /\ groups'[a].state \in ClaimedGroups /\ groups'[b].state \in ClaimedGroups
            /\ groups'[a].name = groups'[b].name
            => a = b
      BY <3>1, <3>2, <3>4 DEF OneGroupInv
    <3> QED BY <3>3, <3>5 DEF OneGroupInv
  <2> QED BY <2>1, <2>2, GroupClaims
<1>3. OneGroupInv => AtMostOneGroup
  BY DEF OneGroupInv, AtMostOneGroup, ClaimedGroups
<1> QED BY <1>1, <1>2, <1>3, TypeCorrect, PTL DEF Spec

-----------------------------------------------------------------------------
(* Object p is the stored object later than o was.                           *)
Follows(o, p) ==
    /\ o.finalizer => p.finalizer \/ p.phase = "gone"
    /\ o.phase = "deleting" => o.finalizer /\ p.phase # "live"

(* A stored object with an ID, or under deletion, has the finalizer.         *)
Protected(p) ==
    p.serverID # None \/ p.providerID # None \/ p.phase = "deleting" => p.finalizer

(* A reconcile at the given step, from snapshot b to object w: reconcileNormal *)
(* has set the finalizer, reconcileDelete records no ID.                     *)
Reconciling(b, w, step) ==
    /\ w.phase = b.phase
    /\ w.phase \in {"live", "deleting"}
    /\ w.phase = "live" => w.finalizer /\ step # "deleteServer"
    /\ w.phase = "deleting" =>
          /\ step \in {"deleteServer", "patchConditions", "patchObject", "patchStatus"}
          /\ w.providerID = b.providerID
          /\ w.serverID \in {b.serverID, None}

(* Inductive for RecordedServerIsProtected.  When the status is patched, the *)
(* patch before it has left the finalizer on the object: it was sent, or the *)
(* snapshot had it, or the patch was refused since the object has a provider *)
(* ID and therefore the finalizer.                                           *)
CloseInv ==
    \A m \in Machines :
        /\ Protected(obj[m])
        /\ Follows(cache[m], obj[m])
        /\ pc[m] # "idle" =>
              Follows(base[m], obj[m]) /\ Reconciling(base[m], mem[m], pc[m])
        /\ pc[m] = "patchStatus" /\ mem[m].phase = "live" =>
              obj[m].finalizer \/ obj[m].phase = "gone"

(* A reconcile never takes Provisioned back from the object it started from. *)
ProvisionedInv ==
    \A m \in Machines : base[m].provisioned => mem[m].provisioned

-----------------------------------------------------------------------------
(* The step leaves machine m, its cached copy and its reconcile alone.       *)
Untouched(m) ==
    /\ obj'[m] = obj[m] /\ cache'[m] = cache[m]
    /\ pc'[m] = pc[m] /\ mem'[m] = mem[m] /\ base'[m] = base[m]

(* The fields of which the invariants speak are the same in both objects,    *)
(* except that Provisioned may have been set.                                *)
Alike(o, q) ==
    /\ q.phase = o.phase /\ q.finalizer = o.finalizer
    /\ o.provisioned => q.provisioned

(* Edits of the object in memory keep phase, finalizer and Provisioned.      *)
LEMMA EditsAlike ==
    ASSUME NEW o \in Objects
    PROVE  /\ Alike(o, setReadyCondition(o))
           /\ Alike(o, setProvisioned(o))
           /\ Alike(o, serverError(o))
           /\ Alike(o, groupError(o))
           /\ \A state : Alike(o, setServerStatusCondition(o, state))
           /\ \A s : Alike(o, updateMachineFromServer(o, s))
           /\ \A g : Alike(o, [o EXCEPT !.groupID = g])
           /\ \A g, b : Alike(o, [o EXCEPT !.groupID = g, !.groupReady = b])
           /\ \A b : Alike(o, [o EXCEPT !.groupReady = b])
           /\ \A r : Alike(o, [o EXCEPT !.serverReady = r])
<1> USE DEF Alike, Objects
<1>1. Alike(o, setReadyCondition(o))
  BY DEF setReadyCondition
<1>2. Alike(o, setProvisioned(o))
  BY DEF setProvisioned, setReadyCondition, IsServerReady
<1>3. Alike(o, serverError(o)) /\ Alike(o, groupError(o))
  BY DEF serverError, groupError, setReadyCondition
<1>4. \A state : Alike(o, setServerStatusCondition(o, state))
  BY DEF setServerStatusCondition
<1>5. \A s : Alike(o, updateMachineFromServer(o, s))
  BY DEF updateMachineFromServer
<1>6. /\ \A g : Alike(o, [o EXCEPT !.groupID = g])
      /\ \A g, b : Alike(o, [o EXCEPT !.groupID = g, !.groupReady = b])
      /\ \A b : Alike(o, [o EXCEPT !.groupReady = b])
      /\ \A r : Alike(o, [o EXCEPT !.serverReady = r])
  OBVIOUS
<1> QED BY <1>1, <1>2, <1>3, <1>4, <1>5, <1>6

(* A call of reconcileNormal keeps phase and finalizer of the object, one of *)
(* reconcileDelete records no ID; neither takes Provisioned back.            *)
Calls(m) ==
    /\ UNCHANGED <<obj, cache, base>>
    /\ pc[m] \notin {"idle", "patchConditions", "patchObject", "patchStatus"}
    /\ IF pc[m] = "deleteServer"
       THEN /\ pc'[m] = "patchConditions"
            /\ mem'[m].phase = mem[m].phase
            /\ mem'[m].providerID = mem[m].providerID
            /\ mem'[m].serverID \in {mem[m].serverID, None}
            /\ mem[m].provisioned => mem'[m].provisioned
       ELSE /\ pc'[m] \notin {"idle", "deleteServer", "patchObject", "patchStatus"}
            /\ Alike(mem[m], mem'[m])

LEMMA CallSteps ==
    ASSUME TypeOK, NEW m \in Machines,
           \/ GetGroup(m) \/ ListGroups(m) \/ CreateGroup(m) \/ CreateGroupRefused(m)
           \/ GetServer(m) \/ ListServers(m) \/ CreateServer(m) \/ CreateServerRefused(m)
           \/ DeleteServer(m) \/ Fails(m)
    PROVE  Calls(m)
<1> USE DEF k8s, local, cloud, gates
<1> DEFINE Normal == pc[m] \notin {"idle", "deleteServer", "patchConditions", "patchObject",
                                   "patchStatus"}
<1>o. mem[m] \in Objects
  BY DEF TypeOK
<1>1. ASSUME NEW o, NEW res, Return(m, o, res)
      PROVE  mem'[m] = o /\ pc'[m] = "patchConditions" /\ base' = base
  BY <1>1 DEF Return, Edit, Goto, TypeOK
<1>2. ASSUME NEW o, NEW step, Continue(m, o, step)
      PROVE  mem'[m] = o /\ pc'[m] = step /\ base' = base
  BY Zenon, <1>2 DEF Continue, Edit, Goto, TypeOK
<1>3. ASSUME NEW o, NEW res, Return(m, o, res), Alike(mem[m], o), Normal,
             UNCHANGED <<obj, cache>>
      PROVE  Calls(m)
  BY Zenon, <1>1, <1>3 DEF Calls
<1>4. ASSUME NEW o, NEW step, Continue(m, o, step), Alike(mem[m], o), Normal,
             UNCHANGED <<obj, cache>>,
             step \notin {"idle", "deleteServer", "patchObject", "patchStatus"}
      PROVE  Calls(m)
  BY <1>2, <1>4 DEF Calls
<1>s. \A o : ServerStep(o) \notin {"idle", "deleteServer", "patchObject", "patchStatus"}
  BY DEF ServerStep
<1>a. ASSUME NEW o, NEW q, NEW r, Alike(o, q), Alike(q, r) PROVE Alike(o, r)
  BY <1>a DEF Alike
<1>b. Alike(mem[m], mem[m])
  BY Zenon DEF Alike
<1>r. ASSUME NEW s \in Servers \cup {None}, NEW state, ReturnServer(m, s, state), Normal,
             UNCHANGED <<obj, cache>>
      PROVE  Calls(m)
  <2> DEFINE o1 == updateMachineFromServer(mem[m], s)
             o2 == setServerStatusCondition(o1, state)
             o3 == setProvisioned(o2)
  <2>1. o1 \in Objects /\ Alike(mem[m], o1)
    BY Zenon, <1>o, EditTypes, EditsAlike
  <2>2. o2 \in Objects /\ Alike(o1, o2)
    BY Zenon, <2>1, EditTypes, EditsAlike
  <2>3. Alike(o2, o3)
    BY Zenon, <2>2, EditsAlike
  <2>4. Alike(mem[m], o3)
    BY <2>1, <2>2, <2>3, <1>a
  <2>5. \E res : Return(m, o3, res)
    BY <1>r, Zenon DEF ReturnServer
  <2> HIDE DEF o3
  <2> QED BY <2>4, <2>5, <1>r, <1>3
<1>5. CASE GetGroup(m)
  <2>1. PICK o, step : Continue(m, o, step) /\ Alike(mem[m], o)
                       /\ step \notin {"idle", "deleteServer", "patchObject", "patchStatus"}
    <3>1. CASE Continue(m, [mem[m] EXCEPT !.groupReady = TRUE], ServerStep(mem[m]))
      BY <3>1, <1>o, <1>s, EditsAlike, Zenon
    <3>2. CASE Continue(m, [mem[m] EXCEPT !.groupID = None], "listGroups")
      <4>1. "listGroups" \notin {"idle", "deleteServer", "patchObject", "patchStatus"}
        OBVIOUS
      <4> QED BY <3>2, <4>1, <1>o, EditsAlike, Zenon
    <3> QED BY <1>5, <3>1, <3>2, Zenon DEF GetGroup
  <2> QED BY <1>5, <2>1, <1>4 DEF GetGroup
<1>6. CASE ListGroups(m)
  <2>1. PICK o, step : Continue(m, o, step) /\ Alike(mem[m], o)
                       /\ step \notin {"idle", "deleteServer", "patchObject", "patchStatus"}
    <3>1. CASE Continue(m, mem[m], "createGroup")
      BY <3>1, <1>b
    <3>2. ASSUME NEW g, LET o == [mem[m] EXCEPT !.groupID = g, !.groupReady = TRUE]
                        IN  Continue(m, o, ServerStep(o))
          PROVE  \E o, step : Continue(m, o, step) /\ Alike(mem[m], o)
                    /\ step \notin {"idle", "deleteServer", "patchObject", "patchStatus"}
      BY <3>2, <1>o, <1>s, EditsAlike, Zenon
    <3> QED BY <1>6, <3>1, <3>2, Zenon DEF ListGroups
  <2> QED BY Zenon, <1>6, <2>1, <1>4 DEF ListGroups
<1>7. CASE CreateGroup(m)
  <2>1. PICK o, step : Continue(m, o, step) /\ Alike(mem[m], o)
                       /\ step \notin {"idle", "deleteServer", "patchObject", "patchStatus"}
    BY <1>7, <1>o, <1>s, EditsAlike, Zenon DEF CreateGroup
  <2> QED BY Zenon, <1>7, <2>1, <1>4 DEF CreateGroup
<1>8. CASE CreateGroupRefused(m) \/ GroupCallFails(m)
  BY Zenon, <1>8, <1>o, <1>3, EditsAlike DEF CreateGroupRefused, GroupCallFails
<1>9. CASE GetServer(m)
  <2> DEFINE o == [mem[m] EXCEPT !.serverReady = "ServerDeletedExternally"]
  <2>1. o \in Objects /\ Alike(mem[m], o)
    BY Zenon, <1>o, EditsAlike DEF Objects, Reasons
  <2>2. Alike(mem[m], setProvisioned(o))
    BY Zenon, <2>1, <1>a, EditsAlike
  <2>3. mem[m].serverID \in Servers \cup {None}
    BY <1>o DEF Objects
  <2> QED BY <1>9, <2>2, <2>3, <1>3, <1>r DEF GetServer
<1>10. CASE ListServers(m)
  <2>1. CASE Continue(m, mem[m], "createServer")
    BY <1>10, <2>1, <1>b, <1>4 DEF ListServers
  <2>2. CASE Return(m, serverError(mem[m]), "error")
    BY Zenon, <1>10, <2>2, <1>o, <1>3, EditsAlike DEF ListServers
  <2>3. ASSUME NEW s \in Servers, ReturnServer(m, s, servers[s].state) PROVE Calls(m)
    BY Zenon, <1>10, <2>3, <1>r DEF ListServers
  <2> QED BY <1>10, <2>1, <2>2, <2>3, Zenon DEF ListServers, ServersOf
<1>11. CASE CreateServer(m)
  BY <1>11, <1>r DEF CreateServer
<1>12. CASE CreateServerRefused(m) \/ ServerCallFails(m)
  BY Zenon, <1>12, <1>o, <1>3, EditsAlike DEF CreateServerRefused, ServerCallFails
<1>13. CASE CreateServerTimeout(m)
  BY Zenon, <1>13, <1>o, <1>3, EditsAlike DEF CreateServerTimeout
<1>14. CASE CreateGroupTimeout(m)
  <2> DEFINE o == [mem[m] EXCEPT !.groupReady = TRUE]
  <2>1. o \in Objects /\ Alike(mem[m], o)
    BY <1>o, EditsAlike, Zenon DEF Objects
  <2>2. Alike(mem[m], setReadyCondition(o))
    BY Zenon, <2>1, <1>a, EditsAlike
  <2> QED BY <1>14, <2>2, <1>3 DEF CreateGroupTimeout
<1>15. CASE DeleteServer(m)
  <2> DEFINE g == IF GroupOf[m] = None THEN mem[m].groupID ELSE None
             d == [mem[m] EXCEPT !.serverID = None, !.serverReady = "ServerDeleting",
                                 !.groupID = g, !.ready = FALSE, !.finalizer = FALSE]
  <2>1. Return(m, d, "done")
    BY <1>15, Zenon DEF DeleteServer, deleted
  <2>2. mem'[m] = d /\ pc'[m] = "patchConditions" /\ base' = base
    BY <2>1, <1>1
  <2>3. /\ d.phase = mem[m].phase /\ d.providerID = mem[m].providerID
        /\ d.serverID = None /\ d.provisioned = mem[m].provisioned
    <3> HIDE DEF g
    <3> QED BY <1>o DEF Objects
  <2> HIDE DEF d
  <2> QED BY Zenon, <1>15, <2>2, <2>3 DEF DeleteServer, Calls
<1>16. CASE DeleteServerFails(m)
  BY <1>16, <1>o, <1>1 DEF DeleteServerFails, Calls, Objects
<1> QED BY <1>5, <1>6, <1>7, <1>8, <1>9, <1>10, <1>11, <1>12, <1>13, <1>14, <1>15, <1>16 DEF Fails

(* The reconcile of m begins on the cached object, with the finalizer unless *)
(* the object is being deleted.                                              *)
LEMMA BeginSteps ==
    ASSUME TypeOK, NEW m \in Machines, ReconcileNormal(m) \/ ReconcileDelete(m)
    PROVE  /\ UNCHANGED <<obj, cache>>
           /\ pc[m] = "idle"
           /\ pc'[m] \notin {"idle", "patchObject", "patchStatus"}
           /\ base'[m] = cache[m]
           /\ Reconciling(cache[m], mem'[m], pc'[m])
           /\ cache[m].provisioned => mem'[m].provisioned
<1> USE DEF k8s, local, cloud, gates
<1>o. cache[m] \in Objects
  BY Zenon DEF TypeOK
<1>1. CASE ReconcileNormal(m)
  <2> DEFINE o == [cache[m] EXCEPT !.finalizer = TRUE]
             w == [o EXCEPT !.serverReady = "WaitingForBootstrapData"]
  <2>1. /\ o \in Objects /\ o.finalizer
        /\ o.phase = cache[m].phase /\ o.provisioned = cache[m].provisioned
    BY <1>o, Zenon DEF Objects
  <2>2. w \in Objects /\ Alike(o, w)
    <3> HIDE DEF o
    <3> QED BY Zenon, <2>1, EditsAlike DEF Objects, Reasons
  <2>3. Alike(w, setReadyCondition(w))
    BY Zenon, <2>2, EditsAlike
  <2>4. mem'[m] \in {o, setReadyCondition(w)}
    BY <1>1 DEF ReconcileNormal, Edit, TypeOK
  <2>5. mem'[m].phase = "live" /\ mem'[m].finalizer
        /\ (cache[m].provisioned => mem'[m].provisioned)
    <3>1. cache[m].phase = "live"
      BY <1>1 DEF ReconcileNormal
    <3> HIDE DEF o, w
    <3> QED BY Zenon, <2>1, <2>2, <2>3, <2>4, <3>1 DEF Alike
  <2>6. pc'[m] \notin {"idle", "deleteServer", "patchObject", "patchStatus"}
    BY <1>1 DEF ReconcileNormal, Goto, ServerStep, TypeOK
  <2>7. UNCHANGED <<obj, cache>> /\ pc[m] = "idle" /\ base'[m] = cache[m]
        /\ cache[m].phase = "live"
    BY <1>1 DEF ReconcileNormal, Dequeue, TypeOK
  <2> QED BY <2>5, <2>6, <2>7 DEF Reconciling
<1>2. CASE ReconcileDelete(m)
  <2> DEFINE g == IF GroupOf[m] = None THEN cache[m].groupID ELSE None
             d == [cache[m] EXCEPT !.serverID = None, !.serverReady = "ServerDeleting",
                                   !.groupID = g, !.ready = FALSE, !.finalizer = FALSE]
  <2>1. deleted(m, cache[m]) = d
    BY Zenon DEF deleted
  <2>2. mem'[m] \in {cache[m], d}
    BY <1>2, <2>1 DEF ReconcileDelete, Edit, TypeOK
  <2>3. /\ d.phase = cache[m].phase /\ d.providerID = cache[m].providerID
        /\ d.serverID = None /\ d.provisioned = cache[m].provisioned
    <3> HIDE DEF g
    <3> QED BY <1>o DEF Objects
  <2>4. pc'[m] \in {"deleteServer", "patchConditions"}
    BY <1>2 DEF ReconcileDelete, Goto, TypeOK
  <2>5. UNCHANGED <<obj, cache>> /\ pc[m] = "idle" /\ base'[m] = cache[m]
        /\ cache[m].phase = "deleting"
    BY <1>2 DEF ReconcileDelete, Dequeue, TypeOK
  <2> HIDE DEF d
  <2> QED BY <2>2, <2>3, <2>4, <2>5 DEF Reconciling
<1> QED BY <1>1, <1>2

(* A step of another machine, or of the cloud, leaves m alone.               *)
LEMMA OtherSteps ==
    ASSUME TypeOK, NEW m \in Machines,
           \/ \E n \in Machines \ {m} : Succeeds(n) \/ Fails(n) \/ Event(n)
           \/ \E s \in Servers : ServerEvent(s)
           \/ \E g \in Groups : GroupEvent(g)
           \/ ClusterProvisioned \/ PauseTransition \/ UNCHANGED vars
           \/ ReconcileSkip(m) \/ BootstrapDataReady(m) \/ Resync(m)
    PROVE  Untouched(m)
<1> USE DEF k8s, local, cloud, gates, Untouched
<1>1. ASSUME NEW n \in Machines \ {m}, Succeeds(n) PROVE Untouched(m)
  <2>r. ASSUME NEW o, NEW res, Return(n, o, res), UNCHANGED <<obj, cache>>
        PROVE  Untouched(m)
    BY <2>r DEF Return, Edit, Goto, TypeOK
  <2>c. ASSUME NEW o, NEW step, Continue(n, o, step), UNCHANGED <<obj, cache>>
        PROVE  Untouched(m)
    BY <2>c DEF Continue, Edit, Goto, TypeOK
  <2>p. ASSUME NEW new, NEW ok, Patch(n, new, ok) PROVE obj'[m] = obj[m]
    BY <2>p DEF Patch, TypeOK
  <2>1. CASE ReconcileSkip(n)
    BY <2>1 DEF ReconcileSkip
  <2>2. CASE ReconcileNormal(n)
    BY <2>2 DEF ReconcileNormal, Edit, Goto, TypeOK
  <2>3. CASE ReconcileDelete(n)
    BY <2>3 DEF ReconcileDelete, Edit, Goto, TypeOK
  <2>4. CASE GetGroup(n)
    BY <2>4, <2>c DEF GetGroup
  <2>5. CASE ListGroups(n)
    BY <2>5, <2>c, Zenon DEF ListGroups
  <2>6. CASE CreateGroup(n) \/ CreateGroupRefused(n)
    BY <2>6, <2>c, <2>r, Zenon DEF CreateGroup, CreateGroupRefused
  <2>7. CASE GetServer(n)
    BY <2>7, <2>r, Zenon DEF GetServer, ReturnServer
  <2>8. CASE ListServers(n)
    BY <2>8, <2>r, <2>c, Zenon DEF ListServers, ReturnServer
  <2>9. CASE CreateServer(n) \/ CreateServerRefused(n)
    BY <2>9, <2>r, Zenon DEF CreateServer, CreateServerRefused, ReturnServer
  <2>10. CASE DeleteServer(n)
    BY <2>10, <2>r, Zenon DEF DeleteServer
  <2>11. CASE PatchConditions(n) \/ PatchObject(n)
    <3>1. obj'[m] = obj[m]
      BY <2>11, <2>p, Zenon DEF PatchConditions, PatchObject
    <3> QED BY <2>11, <3>1 DEF PatchConditions, PatchObject, Goto, TypeOK
  <2>12. CASE PatchStatus(n)
    <3>1. obj'[m] = obj[m]
      BY <2>12, <2>p, Zenon DEF PatchStatus
    <3> QED BY <2>12, <3>1 DEF PatchStatus, Goto, TypeOK
  <2> QED BY Zenon, <1>1, <2>1, <2>2, <2>3, <2>4, <2>5, <2>6, <2>7, <2>8, <2>9, <2>10, <2>11,
             <2>12 DEF Succeeds
<1>2. ASSUME NEW n \in Machines \ {m}, Fails(n) PROVE Untouched(m)
  <2>r. ASSUME NEW o, NEW res, Return(n, o, res), UNCHANGED <<obj, cache>>
        PROVE  Untouched(m)
    BY <2>r DEF Return, Edit, Goto, TypeOK
  <2> QED BY <1>2, <2>r, Zenon DEF Fails, CreateGroupTimeout, GroupCallFails,
             CreateServerTimeout, ServerCallFails, DeleteServerFails
<1>3. ASSUME NEW n \in Machines \ {m}, Event(n) PROVE Untouched(m)
  BY <1>3 DEF Event, CacheSync, SetOwnerRef, BootstrapDataReady, Resync, DeleteObject, TypeOK
<1>4. ASSUME NEW s \in Servers, ServerEvent(s) PROVE Untouched(m)
  BY <1>4, Zenon DEF ServerEvent, ServerBoots, PendingServerLands, PendingServerLost,
     ServerStopped, ServerRestarted, ServerDeletedExternally, ServerBecomes
<1>5. ASSUME NEW g \in Groups, GroupEvent(g) PROVE Untouched(m)
  BY <1>5, Zenon DEF GroupEvent, PendingGroupLands, PendingGroupLost,
     GroupDeletedExternally, GroupBecomes
<1>6. CASE \/ ClusterProvisioned \/ PauseTransition \/ UNCHANGED vars
           \/ ReconcileSkip(m) \/ BootstrapDataReady(m) \/ Resync(m)
  BY <1>6, Zenon DEF ClusterProvisioned, PauseTransition, vars, ReconcileSkip,
     BootstrapDataReady, Resync
<1> QED BY Zenon, <1>1, <1>2, <1>3, <1>4, <1>5, <1>6

(* What a step can be for machine m.                                         *)
LEMMA StepKinds ==
    ASSUME TypeOK, [Next]_vars, NEW m \in Machines
    PROVE  \/ Untouched(m) \/ Calls(m)
           \/ ReconcileNormal(m) \/ ReconcileDelete(m)
           \/ PatchConditions(m) \/ PatchObject(m) \/ PatchStatus(m)
           \/ CacheSync(m) \/ SetOwnerRef(m) \/ DeleteObject(m) \/ Crash
<1>1. ASSUME Succeeds(m) \/ Fails(m) \/ Event(m)
      PROVE  \/ Untouched(m) \/ Calls(m)
             \/ ReconcileNormal(m) \/ ReconcileDelete(m)
             \/ PatchConditions(m) \/ PatchObject(m) \/ PatchStatus(m)
             \/ CacheSync(m) \/ SetOwnerRef(m) \/ DeleteObject(m)
  BY <1>1, CallSteps, OtherSteps, Zenon DEF Succeeds, Event
<1> QED BY <1>1, OtherSteps, Zenon DEF Next

-----------------------------------------------------------------------------
(* A patch changes only the object of its machine, to what is stored of it,  *)
(* or fails.                                                                 *)
LEMMA Patched ==
    ASSUME TypeOK, NEW m \in Machines, NEW new, NEW admitted, Patch(m, new, admitted)
    PROVE  \/ obj[m].phase # "gone" /\ admitted /\ obj'[m] = Stored(new)
           \/ /\ obj'[m] = obj[m]
              /\ obj[m].phase = "gone" \/ ~admitted \/ "patchError" \in Env
BY Zenon DEF Patch, TypeOK

(* The fields that each of the three patches writes.                         *)
LEMMA Merged ==
    ASSUME TypeOK, NEW m \in Machines
    PROVE  /\ \A f \in {"phase", "finalizer", "providerID", "serverID", "groupID", "provisioned"} :
                MergeConditions(m)[f] = obj[m][f]
           /\ \A f \in {"phase", "serverID", "groupID", "provisioned"} :
                MergeObject(m)[f] = obj[m][f]
           /\ \A f \in {"finalizer", "providerID"} :
                MergeObject(m)[f] = Merge(base[m][f], mem[m][f], obj[m][f])
           /\ \A f \in {"phase", "finalizer", "providerID"} : MergeStatus(m)[f] = obj[m][f]
           /\ \A f \in {"serverID", "groupID", "provisioned"} :
                MergeStatus(m)[f] = Merge(base[m][f], mem[m][f], obj[m][f])
<1> obj[m] \in Objects /\ mem[m] \in Objects /\ base[m] \in Objects
  BY DEF TypeOK
<1>1. \A f \in {"phase", "finalizer", "providerID", "serverID", "groupID", "provisioned"} :
        MergeConditions(m)[f] = obj[m][f]
  BY Zenon DEF MergeConditions, Objects
<1>2. /\ \A f \in {"phase", "serverID", "groupID", "provisioned"} :
                MergeObject(m)[f] = obj[m][f]
      /\ \A f \in {"finalizer", "providerID"} :
           MergeObject(m)[f] = Merge(base[m][f], mem[m][f], obj[m][f])
  BY DEF MergeObject, Objects
<1>3. /\ \A f \in {"phase", "finalizer", "providerID"} : MergeStatus(m)[f] = obj[m][f]
      /\ \A f \in {"serverID", "groupID", "provisioned"} :
           MergeStatus(m)[f] = Merge(base[m][f], mem[m][f], obj[m][f])
  BY DEF MergeStatus, Objects
<1> QED BY <1>1, <1>2, <1>3

(* Provisioned is final, whatever the environment does: the patch of the     *)
(* status sends it only if the reconcile set it.                             *)
THEOREM ProvisionedFinal == Spec => ProvisionedIsFinal
<1>1. Init => ProvisionedInv
  BY Zenon DEF Init, ProvisionedInv
<1>2. TypeOK /\ ProvisionedInv /\ [Next]_vars => ProvisionedInv'
  <2> SUFFICES ASSUME TypeOK, ProvisionedInv, [Next]_vars, NEW m \in Machines
               PROVE  base'[m].provisioned => mem'[m].provisioned
    BY DEF ProvisionedInv
  <2>0. base[m].provisioned => mem[m].provisioned
    BY DEF ProvisionedInv
  <2>1. CASE Untouched(m)
    BY Zenon, <2>0, <2>1 DEF Untouched
  <2>2. CASE Calls(m)
    BY <2>0, <2>2 DEF Calls, Alike
  <2>3. CASE ReconcileNormal(m) \/ ReconcileDelete(m)
    BY <2>3, BeginSteps
  <2>4. CASE PatchConditions(m) \/ PatchObject(m)
    BY <2>0, <2>4 DEF PatchConditions, PatchObject
  <2>5. CASE PatchStatus(m)
    BY <2>5 DEF PatchStatus, TypeOK
  <2>6. CASE CacheSync(m) \/ SetOwnerRef(m) \/ DeleteObject(m)
    BY <2>0, <2>6 DEF CacheSync, SetOwnerRef, DeleteObject, local
  <2>7. CASE Crash
    BY Zenon, <2>7 DEF Crash
  <2> QED BY <2>1, <2>2, <2>3, <2>4, <2>5, <2>6, <2>7, StepKinds
<1>3. TypeOK /\ ProvisionedInv /\ [Next]_vars =>
        [\A m \in Machines : obj[m].provisioned /\ obj'[m].phase # "gone"
                              => obj'[m].provisioned]_vars
  <2> SUFFICES ASSUME TypeOK, ProvisionedInv, [Next]_vars, NEW m \in Machines,
                      obj[m].provisioned, obj'[m].phase # "gone"
               PROVE  obj'[m].provisioned
    OBVIOUS
  <2>o. obj[m] \in Objects /\ (base[m].provisioned => mem[m].provisioned)
    BY DEF TypeOK, ProvisionedInv
  <2>g. ASSUME NEW o, obj'[m] = Stored(o) PROVE obj'[m] = o
    BY <2>g DEF Stored, GoneObject, NewObject
  <2>p. ASSUME NEW new, NEW admitted, Patch(m, new, admitted), new.provisioned
        PROVE  obj'[m].provisioned
    BY <2>p, <2>g, Patched
  <2>1. CASE Untouched(m) \/ Calls(m)
    BY <2>1 DEF Untouched, Calls
  <2>2. CASE ReconcileNormal(m) \/ ReconcileDelete(m)
    BY <2>2, BeginSteps
  <2>3. CASE PatchConditions(m) \/ PatchObject(m)
    <3>1. MergeConditions(m).provisioned /\ MergeObject(m).provisioned
      BY Merged
    <3> QED BY Zenon, <2>3, <2>p, <3>1 DEF PatchConditions, PatchObject
  <2>4. CASE PatchStatus(m)
    <3>1. MergeStatus(m).provisioned
      <4>1. MergeStatus(m).provisioned
              = Merge(base[m].provisioned, mem[m].provisioned, obj[m].provisioned)
        BY Zenon, Merged
      <4>2. mem[m].provisioned \in BOOLEAN /\ base[m].provisioned \in BOOLEAN
        BY DEF TypeOK, Objects
      <4>3. CASE mem[m].provisioned = base[m].provisioned
        BY <4>1, <4>3, Zenon DEF Merge
      <4>4. CASE mem[m].provisioned # base[m].provisioned
        <5>1. mem[m].provisioned
          BY <2>o, <4>2, <4>4
        <5> QED BY <4>1, <4>4, <5>1, Zenon DEF Merge
      <4> QED BY <4>3, <4>4
    <3> QED BY Zenon, <2>4, <2>p, <3>1 DEF PatchStatus
  <2>5. CASE SetOwnerRef(m)
    BY <2>5, <2>o DEF SetOwnerRef, TypeOK, Objects
  <2>6. CASE DeleteObject(m)
    <3>1. obj'[m] = [obj[m] EXCEPT !.phase = "deleting"]
      BY <2>6, <2>g DEF DeleteObject, TypeOK
    <3> QED BY <3>1, <2>o DEF Objects
  <2>7. CASE CacheSync(m) \/ Crash
    BY SMTT(30), <2>7 DEF CacheSync, Crash
  <2> QED BY <2>1, <2>2, <2>3, <2>4, <2>5, <2>6, <2>7, StepKinds
<1> QED BY <1>1, <1>2, <1>3, TypeCorrect, PTL DEF Spec, ProvisionedIsFinal
=============================================================================
