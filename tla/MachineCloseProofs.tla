------------------------- MODULE MachineCloseProofs -------------------------
(*****************************************************************************)
(* What the order of the three patches of Close guarantees about the stored  *)
(* object, for any set of machines, servers and server groups: the server ID *)
(* is protected by the finalizer in any environment in which the API server  *)
(* takes every valid patch.                                                  *)
(*                                                                           *)
(* What a machine records: every server ID is that of a server made for it,  *)
(* in any environment; and the servers of machines with one server group     *)
(* name are in one group, as long as creates do not land late.  Last, what a *)
(* reconcile holds in memory at each of its steps.                           *)
(*****************************************************************************)
EXTENDS MachineServerProofs

-----------------------------------------------------------------------------
(* CloseInv is inductive, unless a patch can fail for no reason of its own.  *)
LEMMA CloseInductive ==
    ASSUME "patchError" \notin Env, TypeOK, CloseInv, [Next]_vars
    PROVE  CloseInv'
<1> SUFFICES ASSUME NEW m \in Machines
             PROVE  /\ Protected(obj'[m])
                    /\ Follows(cache'[m], obj'[m])
                    /\ pc'[m] # "idle" =>
                          /\ Follows(base'[m], obj'[m])
                          /\ Reconciling(base'[m], mem'[m], pc'[m])
                    /\ pc'[m] = "patchStatus" /\ mem'[m].phase = "live" =>
                          obj'[m].finalizer \/ obj'[m].phase = "gone"
  BY DEF CloseInv
<1>i. /\ Protected(obj[m])
      /\ Follows(cache[m], obj[m])
      /\ pc[m] # "idle" =>
            Follows(base[m], obj[m]) /\ Reconciling(base[m], mem[m], pc[m])
      /\ pc[m] = "patchStatus" /\ mem[m].phase = "live" =>
            obj[m].finalizer \/ obj[m].phase = "gone"
  BY DEF CloseInv
<1>o. obj[m] \in Objects /\ mem[m] \in Objects /\ base[m] \in Objects
  BY DEF TypeOK
<1>g. Protected(GoneObject) /\ \A o : ~(o.phase = "deleting" /\ ~o.finalizer)
        => Follows(o, GoneObject)
  BY DEF GoneObject, NewObject, Protected, Follows
<1>f. Protected(obj[m]) => Follows(obj[m], obj[m])
  BY DEF Protected, Follows
<1>1. CASE Untouched(m)
  BY <1>1, <1>i DEF Untouched
<1>2. CASE Calls(m)
  <2>1. UNCHANGED <<obj, cache, base>> /\ pc[m] # "idle" /\ pc'[m] # "patchStatus"
    BY <1>2 DEF Calls
  <2>2. Reconciling(base[m], mem'[m], pc'[m])
    BY <1>2, <1>i DEF Calls, Alike, Reconciling
  <2> QED BY <2>1, <2>2, <1>i
<1>3. CASE ReconcileNormal(m) \/ ReconcileDelete(m)
  BY <1>3, <1>i, BeginSteps
<1>4. CASE CacheSync(m)
  BY <1>4, <1>i, <1>f DEF CacheSync, TypeOK, local
<1>5. CASE Crash
  BY <1>5, <1>i, <1>f DEF Crash
<1>6. CASE SetOwnerRef(m)
  <2>1. obj'[m] = [obj[m] EXCEPT !.owned = TRUE] /\ UNCHANGED <<cache, local>>
    BY <1>6 DEF SetOwnerRef, TypeOK
  <2>2. \A f \in {"phase", "finalizer", "providerID", "serverID"} : obj'[m][f] = obj[m][f]
    BY <2>1, <1>o DEF Objects
  <2> QED BY <2>1, <2>2, <1>i DEF local, Protected, Follows
<1>7. CASE DeleteObject(m)
  <2> DEFINE d == [obj[m] EXCEPT !.phase = "deleting"]
  <2>1. /\ d.phase = "deleting" /\ d.finalizer = obj[m].finalizer
        /\ d.providerID = obj[m].providerID /\ d.serverID = obj[m].serverID
    BY <1>o DEF Objects
  <2>2. obj'[m] = Stored(d) /\ UNCHANGED <<cache, local>> /\ obj[m].phase = "live"
    BY <1>7 DEF DeleteObject, TypeOK
  <2>3. GoneObject.phase = "gone"
    BY DEF GoneObject, NewObject
  <2> HIDE DEF d
  <2> QED BY <2>1, <2>2, <2>3, <1>g, <1>i DEF Stored, local, Protected, Follows
<1>8. CASE PatchConditions(m)
  <2>1. \A f \in {"phase", "finalizer", "providerID", "serverID"} :
          MergeConditions(m)[f] = obj[m][f]
    BY Merged
  <2>2. Stored(MergeConditions(m)) = MergeConditions(m)
    BY <2>1, <1>i DEF Stored, Protected
  <2>3. \A f \in {"phase", "finalizer", "providerID", "serverID"} : obj'[m][f] = obj[m][f]
    BY <1>8, <2>1, <2>2, Patched DEF PatchConditions
  <2>4. UNCHANGED <<cache, mem, base>> /\ pc[m] = "patchConditions" /\ pc'[m] = "patchObject"
    BY <1>8 DEF PatchConditions, Goto, TypeOK
  <2> QED BY <2>3, <2>4, <1>i DEF Protected, Follows, Reconciling
<1>9. CASE PatchStatus(m)
  <2>1. /\ \A f \in {"phase", "finalizer", "providerID"} : MergeStatus(m)[f] = obj[m][f]
        /\ MergeStatus(m).serverID \in {obj[m].serverID, mem[m].serverID}
        /\ mem[m].serverID = base[m].serverID => MergeStatus(m).serverID = obj[m].serverID
    BY Merged DEF Merge
  <2>2. Stored(MergeStatus(m)) = MergeStatus(m)
    BY <2>1, <1>i DEF Stored, Protected
  <2>3. UNCHANGED cache /\ pc[m] = "patchStatus" /\ pc'[m] = "idle"
    BY <1>9 DEF PatchStatus, Goto, TypeOK
  <2>4. CASE obj'[m] = obj[m]
    BY <2>3, <2>4, <1>i
  <2>5. CASE obj'[m] = MergeStatus(m) /\ obj[m].phase # "gone"
    <3>1. MergeStatus(m).serverID # None => obj[m].finalizer
      BY SMTT(30), <2>1, <2>3, <2>5, <1>i DEF Reconciling, Protected
    <3> QED BY <2>1, <2>3, <2>5, <3>1, <1>i DEF Protected, Follows
  <2> QED BY Zenon, <1>9, <2>2, <2>4, <2>5, Patched DEF PatchStatus
<1>10. CASE PatchObject(m)
  <2> DEFINE new == MergeObject(m)
  <2>1. /\ new.phase = obj[m].phase /\ new.serverID = obj[m].serverID
        /\ new.finalizer = Merge(base[m].finalizer, mem[m].finalizer, obj[m].finalizer)
        /\ new.providerID = Merge(base[m].providerID, mem[m].providerID, obj[m].providerID)
    BY Merged
  <2>2. UNCHANGED <<cache, mem, base>> /\ pc[m] = "patchObject" /\ pc'[m] = "patchStatus"
    BY <1>10 DEF PatchObject, Goto, TypeOK
  <2>3. Follows(base[m], obj[m]) /\ Reconciling(base[m], mem[m], pc[m])
    BY <2>2, <1>i
  <2>4. Reconciling(base[m], mem[m], "patchStatus")
    BY <2>2, <2>3 DEF Reconciling
  <2>b. base[m].finalizer \in BOOLEAN /\ mem[m].finalizer \in BOOLEAN
        /\ obj[m].finalizer \in BOOLEAN
    BY <1>o DEF Objects
  <2>5. CASE obj[m].phase # "gone" /\ obj'[m] = Stored(new)
    <3>1. CASE mem[m].phase = "live"
      <4>1. new.finalizer
        <5>1. mem[m].finalizer /\ (base[m].finalizer => obj[m].finalizer)
          BY <2>3, <2>5, <3>1 DEF Reconciling, Follows
        <5>2. CASE base[m].finalizer = mem[m].finalizer
          BY <2>1, <5>1, <5>2, Zenon DEF Merge
        <5>3. CASE base[m].finalizer # mem[m].finalizer
          BY <2>1, <5>1, <5>3, Zenon DEF Merge
        <5> QED BY <5>2, <5>3
      <4>2. obj'[m] = new
        BY <2>5, <4>1 DEF Stored
      <4> QED BY <2>1, <2>2, <2>3, <2>4, <4>1, <4>2, <1>i DEF Protected, Follows
    <3>2. CASE mem[m].phase = "deleting"
      <4>1. base[m].finalizer /\ obj[m].phase = "deleting" /\ obj[m].finalizer
            /\ mem[m].providerID = base[m].providerID
        BY <2>3, <2>5, <3>2, <1>o DEF Reconciling, Follows, Objects, Phases
      <4>2. new.providerID = obj[m].providerID
        BY <2>1, <4>1 DEF Merge
      <4>3. new.finalizer \in BOOLEAN
        BY SMTT(30), <2>1, <2>b DEF Merge
      <4>4. CASE new.finalizer
        <5>1. obj'[m] = new
          BY <2>5, <4>4 DEF Stored
        <5> QED BY <2>1, <2>2, <2>3, <2>4, <3>2, <4>1, <4>2, <4>4, <5>1, <1>i
                DEF Protected, Follows
      <4>5. CASE ~new.finalizer
        <5>1. obj'[m] = GoneObject
          BY <2>1, <2>5, <4>1, <4>5 DEF Stored
        <5>2. Follows(cache[m], GoneObject) /\ Follows(base[m], GoneObject)
          BY <2>3, <1>g, <1>i DEF Follows
        <5> QED BY <2>2, <2>4, <3>2, <5>1, <5>2, <1>g
      <4> QED BY <4>4, <4>5
    <3> QED BY <2>3, <3>1, <3>2 DEF Reconciling
  <2>6. CASE /\ obj'[m] = obj[m]
             /\ obj[m].phase = "gone" \/ ~validateMachineSpecUpdate(new, obj[m])
    <3>1. obj[m].phase = "gone" \/ obj[m].finalizer
      BY <2>6, <1>i DEF validateMachineSpecUpdate, Protected
    <3> QED BY <2>2, <2>3, <2>4, <2>6, <3>1, <1>i
  <2> QED BY <1>10, <2>5, <2>6, Patched DEF PatchObject
<1> QED BY SMTT(30), <1>1, <1>2, <1>3, <1>4, <1>5, <1>6, <1>7, <1>8, <1>9, <1>10, StepKinds

(* A server ID is never stored without the finalizer, though the cache may   *)
(* be stale, the process may crash between two patches, and the object may   *)
(* be deleted at any time.                                                   *)
THEOREM ServerProtected ==
    ASSUME "patchError" \notin Env
    PROVE  Spec => []RecordedServerIsProtected
<1>1. Init => CloseInv
  <2>1. Protected(NewObject) /\ Follows(NewObject, NewObject)
    BY DEF Protected, Follows, NewObject
  <2>2. ASSUME Init, NEW m \in Machines
        PROVE  obj[m] = NewObject /\ cache[m] = NewObject /\ pc[m] = "idle"
    BY <2>2 DEF Init
  <2>3. "idle" # "patchStatus"
    OBVIOUS
  <2> QED BY <2>1, <2>2, <2>3, Zenon DEF CloseInv
<1>2. TypeOK /\ CloseInv /\ [Next]_vars => CloseInv'
  BY CloseInductive
<1>3. CloseInv => RecordedServerIsProtected
  BY DEF CloseInv, Protected, RecordedServerIsProtected
<1> QED BY <1>1, <1>2, <1>3, TypeCorrect, PTL DEF Spec

-----------------------------------------------------------------------------
(* An ID that some answer for machine m has named.  What it names may be     *)
(* gone by now, but was made for m, or under its server group name.          *)
MadeServer(s, m, srv) ==
    \/ s = None
    \/ /\ s \in Servers
       /\ srv[s].owner = m /\ srv[s].state \in LiveStates \cup {"deleted"}

MadeGroup(g, m, grp) ==
    \/ g = None
    \/ /\ g \in Groups
       /\ grp[g].name = GroupOf[m] /\ grp[g].state \in {"live", "deleted"}

Recorded(o, m, srv, grp) ==
    /\ MadeServer(o.serverID, m, srv)
    /\ MadeServer(o.providerID, m, srv)
    /\ MadeGroup(o.groupID, m, grp)

(* Inductive for RecordedServerIsOwn.                                        *)
RecordInv ==
    \A m \in Machines : /\ Recorded(obj[m], m, servers, groups)
                        /\ Recorded(cache[m], m, servers, groups)
                        /\ Recorded(mem[m], m, servers, groups)
                        /\ Recorded(base[m], m, servers, groups)

(* Inductive, with RecordInv, for AntiAffinity: a machine with a server      *)
(* group has one in hand when it gets to its server, and a group with        *)
(* servers in it, or on their way, stays.                                    *)
GroupSteps == {"getGroup", "listServers", "createServer"}

AffinityInv ==
    /\ \A m \in Machines :
          GroupOf[m] # None /\ pc[m] \in GroupSteps => mem[m].groupID # None
    /\ \A s \in Servers : servers[s].state \in ClaimedStates =>
          /\ servers[s].owner \in Machines
          /\ GroupOf[servers[s].owner] # None =>
                /\ servers[s].group \in Groups
                /\ groups[servers[s].group].state = "live"
                /\ groups[servers[s].group].name = GroupOf[servers[s].owner]

-----------------------------------------------------------------------------
(* A group that has been answered stays what it is, or is deleted while no   *)
(* server is in it.                                                          *)
LEMMA GroupsKept ==
    ASSUME TypeOK, [Next]_vars, NEW g \in Groups, groups[g].state \in {"live", "deleted"}
    PROVE  \/ groups'[g] = groups[g]
           \/ /\ groups'[g].state = "deleted" /\ groups'[g].name = groups[g].name
              /\ servers' = servers
              /\ \A s \in Servers : servers[s].group = g
                                     => servers[s].state \notin ClaimedStates
<1> USE DEF k8s, local, cloud, gates
<1>1. ASSUME NEW n \in Machines, CreateGroup(n) \/ CreateGroupTimeout(n)
      PROVE  groups'[g] = groups[g]
  <2>1. groups' = groups \/ \E h \in Groups : \E r :
            groups[h].state = "unused" /\ groups' = [groups EXCEPT ![h] = r]
    BY <1>1, Zenon DEF CreateGroup, CreateGroupTimeout
  <2> QED BY <2>1 DEF TypeOK
<1>2. ASSUME NEW n \in Machines, Succeeds(n), ~CreateGroup(n) PROVE groups' = groups
  BY <1>2, Zenon
     DEF Succeeds, ReconcileSkip, ReconcileNormal, ReconcileDelete, GetGroup, ListGroups,
         CreateGroupRefused, GetServer, ListServers, CreateServer, CreateServerRefused,
         DeleteServer, PatchConditions, PatchObject, PatchStatus
<1>3. ASSUME NEW n \in Machines, Fails(n), ~CreateGroupTimeout(n) PROVE groups' = groups
  BY <1>3 DEF Fails, GroupCallFails, CreateServerTimeout, ServerCallFails, DeleteServerFails
<1>4. ASSUME NEW n \in Machines, Event(n) PROVE groups' = groups
  BY <1>4 DEF Event, CacheSync, SetOwnerRef, BootstrapDataReady, Resync, DeleteObject
<1>5. ASSUME NEW s \in Servers, ServerEvent(s) PROVE groups' = groups
  BY <1>5 DEF ServerEvent, ServerBoots, PendingServerLands, PendingServerLost,
              ServerStopped, ServerRestarted, ServerDeletedExternally, ServerBecomes
<1>6. ASSUME ClusterProvisioned \/ PauseTransition \/ Crash \/ UNCHANGED vars
      PROVE  groups' = groups
  BY <1>6 DEF ClusterProvisioned, PauseTransition, Crash, vars
<1>7. ASSUME NEW h \in Groups, PendingGroupLands(h) \/ PendingGroupLost(h)
      PROVE  groups'[g] = groups[g]
  BY <1>7 DEF PendingGroupLands, PendingGroupLost, GroupBecomes, TypeOK
<1>8. ASSUME NEW h \in Groups, GroupDeletedExternally(h)
      PROVE  \/ groups'[g] = groups[g]
             \/ /\ groups'[g].state = "deleted" /\ groups'[g].name = groups[g].name
                /\ servers' = servers
                /\ \A s \in Servers : servers[s].group = g
                                       => servers[s].state \notin ClaimedStates
  BY SMTT(30), <1>8 DEF GroupDeletedExternally, GroupBecomes, ClaimedStates, TypeOK
<1> QED BY <1>1, <1>2, <1>3, <1>4, <1>5, <1>6, <1>7, <1>8 DEF Next, GroupEvent

(* A server that has been answered keeps its owner.                          *)
LEMMA ServersKept ==
    ASSUME TypeOK, [Next]_vars, NEW s \in Servers,
           servers[s].state \in LiveStates \cup {"deleted"}
    PROVE  /\ servers'[s].owner = servers[s].owner
           /\ servers'[s].state \in LiveStates \cup {"deleted"}
<1>1. servers[s].state \notin {"unused", "pending"}
  BY SMTT(30) DEF LiveStates
<1>2. CASE \E n \in Machines, t \in Servers, state \in ClaimedStates : Makes(n, t, state)
  BY <1>1, <1>2 DEF Makes, TypeOK
<1>3. CASE \E t \in Servers, to \in ServerStates : Moves(t, to)
  BY <1>1, <1>3 DEF Moves, TypeOK
<1>4. CASE \E t \in Servers : Drops(t)
  BY <1>1, <1>4 DEF Drops, TypeOK
<1> QED BY <1>2, <1>3, <1>4, ServerSteps

(* So what was recorded stays true.                                          *)
LEMMA RecordsKept ==
    ASSUME TypeOK, [Next]_vars, NEW m \in Machines, NEW o,
           Recorded(o, m, servers, groups)
    PROVE  Recorded(o, m, servers', groups')
<1>1. ASSUME NEW s, MadeServer(s, m, servers) PROVE MadeServer(s, m, servers')
  BY <1>1, ServersKept DEF MadeServer
<1>2. ASSUME NEW g, MadeGroup(g, m, groups) PROVE MadeGroup(g, m, groups')
  BY <1>2, GroupsKept DEF MadeGroup
<1> QED BY <1>1, <1>2 DEF Recorded

-----------------------------------------------------------------------------
SameIDs(o, q) ==
    q.serverID = o.serverID /\ q.providerID = o.providerID /\ q.groupID = o.groupID

(* Conditions and Provisioned are no IDs.                                    *)
LEMMA EditsKeepIDs ==
    ASSUME NEW o \in Objects
    PROVE  /\ SameIDs(o, setReadyCondition(o))
           /\ SameIDs(o, setProvisioned(o))
           /\ SameIDs(o, serverError(o))
           /\ SameIDs(o, groupError(o))
           /\ \A state : SameIDs(o, setServerStatusCondition(o, state))
           /\ \A b : SameIDs(o, [o EXCEPT !.groupReady = b])
           /\ \A r : SameIDs(o, [o EXCEPT !.serverReady = r])
<1> USE DEF SameIDs, Objects
<1>1. SameIDs(o, setReadyCondition(o))
  BY DEF setReadyCondition
<1>2. SameIDs(o, setProvisioned(o))
  BY DEF setProvisioned, setReadyCondition, IsServerReady
<1>3. SameIDs(o, serverError(o)) /\ SameIDs(o, groupError(o))
  BY DEF serverError, groupError, setReadyCondition
<1>4. \A state : SameIDs(o, setServerStatusCondition(o, state))
  BY DEF setServerStatusCondition
<1>5. /\ \A b : SameIDs(o, [o EXCEPT !.groupReady = b])
      /\ \A r : SameIDs(o, [o EXCEPT !.serverReady = r])
  OBVIOUS
<1> QED BY <1>1, <1>2, <1>3, <1>4, <1>5

(* reconcileDelete forgets IDs and records none.                             *)
LEMMA ForgottenRecords ==
    ASSUME NEW m \in Machines, NEW o \in Objects, NEW srv, NEW grp, Recorded(o, m, srv, grp)
    PROVE  Recorded(deleted(m, o), m, srv, grp)
<1> DEFINE g == IF GroupOf[m] = None THEN o.groupID ELSE None
           d == [o EXCEPT !.serverID = None, !.serverReady = "ServerDeleting",
                          !.groupID = g, !.ready = FALSE, !.finalizer = FALSE]
<1>1. deleted(m, o) = d
  BY Zenon DEF deleted
<1>2. d.serverID = None /\ d.providerID = o.providerID /\ d.groupID = g
  <2> HIDE DEF g
  <2> QED BY DEF Objects
<1>3. g \in {o.groupID, None}
  BY SMTT(30)
<1> HIDE DEF d, g
<1> QED BY <1>1, <1>2, <1>3 DEF Recorded, MadeServer, MadeGroup

(* A call leaves in memory what was recorded before and what its own answer  *)
(* names.                                                                    *)
LEMMA CallRecords ==
    ASSUME TypeOK, [Next]_vars, NEW m \in Machines, Recorded(mem[m], m, servers, groups),
           \/ GetGroup(m) \/ ListGroups(m) \/ CreateGroup(m) \/ CreateGroupRefused(m)
           \/ GetServer(m) \/ ListServers(m) \/ CreateServer(m) \/ CreateServerRefused(m)
           \/ DeleteServer(m) \/ Fails(m)
    PROVE  Recorded(mem'[m], m, servers', groups')
<1> USE DEF k8s, local, cloud, gates
<1> DEFINE Fine(o) == Recorded(o, m, servers', groups')
<1>o. mem[m] \in Objects
  BY DEF TypeOK
<1>k. Fine(mem[m])
  BY RecordsKept
<1>1. ASSUME NEW o, NEW res, Return(m, o, res), Fine(o) PROVE Fine(mem'[m])
  BY <1>1 DEF Return, Edit, TypeOK
<1>2. ASSUME NEW o, NEW step, Continue(m, o, step), Fine(o) PROVE Fine(mem'[m])
  BY <1>2 DEF Continue, Edit, TypeOK
<1>3. ASSUME NEW o, NEW q, SameIDs(o, q), Fine(o) PROVE Fine(q)
  BY <1>3 DEF SameIDs, Recorded
<1>4. ASSUME NEW s \in Servers, NEW state, ReturnServer(m, s, state),
             MadeServer(s, m, servers')
      PROVE  Fine(mem'[m])
  <2> DEFINE o1 == updateMachineFromServer(mem[m], s)
             o2 == setServerStatusCondition(o1, state)
             o3 == setProvisioned(o2)
  <2>1. o1.serverID = s /\ o1.providerID = s /\ o1.groupID = mem[m].groupID
    BY SMTT(30), <1>o DEF updateMachineFromServer, Objects
  <2>2. Fine(o1)
    BY <2>1, <1>4, <1>k DEF Recorded
  <2>3. o1 \in Objects /\ o2 \in Objects
    BY Zenon, <1>o, EditTypes
  <2>4. Fine(o3)
    BY <2>2, <2>3, <1>3, EditsKeepIDs
  <2>5. \E res : Return(m, o3, res)
    BY <1>4, ZenonT(30) DEF ReturnServer
  <2> HIDE DEF o3
  <2> QED BY <2>4, <2>5, <1>1
<1>g. ASSUME NEW g \in Groups, MadeGroup(g, m, groups'),
             LET o == [mem[m] EXCEPT !.groupID = g, !.groupReady = TRUE]
             IN  Continue(m, o, ServerStep(o))
      PROVE  Fine(mem'[m])
  <2> DEFINE o == [mem[m] EXCEPT !.groupID = g, !.groupReady = TRUE]
  <2>1. Continue(m, o, ServerStep(o))
    BY <1>g, Zenon
  <2>2. o.serverID = mem[m].serverID /\ o.providerID = mem[m].providerID /\ o.groupID = g
    BY <1>o DEF Objects
  <2> HIDE DEF o
  <2>3. Fine(o)
    BY <2>2, <1>g, <1>k DEF Recorded
  <2> QED BY <2>1, <2>3, <1>2
<1>5. CASE GetGroup(m)
  <2>1. CASE Continue(m, [mem[m] EXCEPT !.groupReady = TRUE], ServerStep(mem[m]))
    BY <2>1, <1>o, <1>k, <1>2, <1>3, EditsKeepIDs
  <2>2. CASE Continue(m, [mem[m] EXCEPT !.groupID = None], "listGroups")
    <3>1. Fine([mem[m] EXCEPT !.groupID = None])
      BY <1>o, <1>k DEF Recorded, MadeGroup, Objects
    <3> QED BY <2>2, <3>1, <1>2
  <2> QED BY <1>5, <2>1, <2>2, Zenon DEF GetGroup
<1>6. CASE ListGroups(m)
  <2>1. CASE Continue(m, mem[m], "createGroup")
    BY <2>1, <1>k, <1>2
  <2>2. ASSUME NEW g \in GroupsNamed(GroupOf[m]),
               LET o == [mem[m] EXCEPT !.groupID = g, !.groupReady = TRUE]
               IN  Continue(m, o, ServerStep(o))
        PROVE  Fine(mem'[m])
    <3>1. groups' = groups
      BY <1>6, Zenon DEF ListGroups
    <3>2. g \in Groups /\ MadeGroup(g, m, groups')
      BY <2>2, <3>1 DEF GroupsNamed, MadeGroup
    <3> QED BY Zenon, <2>2, <3>2, <1>g
  <2> QED BY <1>6, <2>1, <2>2, Zenon DEF ListGroups
<1>7. CASE CreateGroup(m)
  <2>1. PICK g \in Groups :
           LET o == [mem[m] EXCEPT !.groupID = g, !.groupReady = TRUE]
           IN  /\ groups' = [groups EXCEPT ![g] = [state |-> "live", name |-> GroupOf[m]]]
               /\ Continue(m, o, ServerStep(o))
    BY <1>7, Zenon DEF CreateGroup
  <2>2. groups' = [groups EXCEPT ![g] = [state |-> "live", name |-> GroupOf[m]]]
    BY <2>1, ZenonT(30)
  <2>3. MadeGroup(g, m, groups')
    BY <2>2 DEF MadeGroup, TypeOK
  <2> QED BY <2>1, <2>3, <1>g, Zenon
<1>8. CASE CreateGroupRefused(m) \/ GroupCallFails(m)
  BY <1>8, <1>o, <1>k, <1>1, <1>3, EditsKeepIDs DEF CreateGroupRefused, GroupCallFails
<1>9. CASE GetServer(m)
  <2> DEFINE o == [mem[m] EXCEPT !.serverReady = "ServerDeletedExternally"]
  <2>1. o \in Objects /\ SameIDs(mem[m], o)
    BY SMTT(30), <1>o, EditsKeepIDs DEF Objects, Reasons
  <2>2. Fine(setProvisioned(o))
    BY <2>1, <1>k, <1>3, EditsKeepIDs
  <2>3. CASE ReturnServer(m, mem[m].serverID, servers[mem[m].serverID].state)
             /\ mem[m].serverID \in Servers
    <3>1. MadeServer(mem[m].serverID, m, servers')
      BY <1>k DEF Recorded
    <3> QED BY <2>3, <3>1, <1>4
  <2>4. CASE ReturnServer(m, mem[m].serverID, servers[mem[m].serverID].state)
             /\ mem[m].serverID = None
    <3> DEFINE o1 == updateMachineFromServer(mem[m], None)
               o2 == setServerStatusCondition(o1, servers[mem[m].serverID].state)
               o3 == setProvisioned(o2)
    <3>1. o1.serverID = None /\ o1.providerID = None /\ o1.groupID = mem[m].groupID
      BY Zenon, <1>o DEF updateMachineFromServer, Objects
    <3>2. Fine(o1)
      BY <3>1, <1>k DEF Recorded, MadeServer
    <3>3. o1 \in Objects /\ o2 \in Objects
      BY Zenon, <1>o, EditTypes
    <3>4. Fine(o3)
      BY <3>2, <3>3, <1>3, EditsKeepIDs
    <3>5. \E res : Return(m, o3, res)
      BY <2>4, ZenonT(30) DEF ReturnServer
    <3> HIDE DEF o3
    <3> QED BY <3>4, <3>5, <1>1
  <2>5. mem[m].serverID \in Servers \cup {None}
    BY <1>o DEF Objects
  <2>6. \/ ReturnServer(m, mem[m].serverID, servers[mem[m].serverID].state)
        \/ Return(m, setProvisioned(o), "done")
    BY <1>9, Zenon DEF GetServer
  <2> QED BY <2>2, <2>3, <2>4, <2>5, <2>6, <1>1
<1>10. CASE ListServers(m)
  <2>1. CASE Continue(m, mem[m], "createServer")
    BY Zenon, <2>1, <1>k, <1>2
  <2>2. CASE Return(m, serverError(mem[m]), "error")
    BY <2>2, <1>o, <1>k, <1>1, <1>3, EditsKeepIDs
  <2>3. ASSUME NEW s \in ServersOf(m), ReturnServer(m, s, servers[s].state)
        PROVE  Fine(mem'[m])
    <3>1. servers' = servers
      BY Zenon, <1>10 DEF ListServers, cloud
    <3>2. s \in Servers /\ MadeServer(s, m, servers')
      BY <2>3, <3>1 DEF ServersOf, MadeServer
    <3> QED BY SMTT(30), <2>3, <3>2, <1>4
  <2> QED BY <1>10, <2>1, <2>2, <2>3, Zenon DEF ListServers
<1>11. CASE CreateServer(m)
  <2>1. PICK s \in Servers, state \in {"changing", "running"} :
           /\ servers' = [servers EXCEPT ![s] = [state |-> state, owner |-> m,
                                                 group |-> mem[m].groupID]]
           /\ ReturnServer(m, s, state)
    BY <1>11, ZenonT(30) DEF CreateServer
  <2>2. MadeServer(s, m, servers')
    BY Zenon, <2>1 DEF MadeServer, LiveStates, TypeOK
  <2> QED BY Zenon, <2>1, <2>2, <1>4
<1>12. CASE CreateServerRefused(m) \/ ServerCallFails(m)
  BY <1>12, <1>o, <1>k, <1>1, <1>3, EditsKeepIDs DEF CreateServerRefused, ServerCallFails
<1>13. CASE CreateServerTimeout(m)
  BY <1>13, <1>o, <1>k, <1>1, <1>3, EditsKeepIDs DEF CreateServerTimeout
<1>14. CASE CreateGroupTimeout(m)
  <2> DEFINE o == [mem[m] EXCEPT !.groupReady = TRUE]
  <2>1. o \in Objects /\ SameIDs(mem[m], o)
    BY <1>o, EditsKeepIDs, Zenon DEF Objects
  <2>2. Fine(setReadyCondition(o))
    BY SMTT(30), <2>1, <1>k, <1>3, EditsKeepIDs
  <2> QED BY <1>14, <2>2, <1>1 DEF CreateGroupTimeout
<1>15. CASE DeleteServer(m)
  <2>1. Fine(deleted(m, mem[m]))
    BY <1>o, <1>k, ForgottenRecords
  <2> QED BY <1>15, <2>1, <1>1 DEF DeleteServer
<1>16. CASE DeleteServerFails(m)
  BY <1>16, <1>o, <1>k, <1>1, <1>3, EditsKeepIDs DEF DeleteServerFails
<1> QED BY <1>5, <1>6, <1>7, <1>8, <1>9, <1>10, <1>11, <1>12, <1>13, <1>14, <1>15, <1>16 DEF Fails

-----------------------------------------------------------------------------
(* A patch writes IDs that were stored, or that the reconcile has recorded.  *)
LEMMA PatchRecords ==
    ASSUME TypeOK, NEW m \in Machines, NEW srv, NEW grp,
           Recorded(obj[m], m, srv, grp), Recorded(mem[m], m, srv, grp),
           PatchConditions(m) \/ PatchObject(m) \/ PatchStatus(m)
    PROVE  Recorded(obj'[m], m, srv, grp)
<1>1. \A f \in {"serverID", "providerID", "groupID"} :
        \A o \in {MergeConditions(m), MergeObject(m), MergeStatus(m)} :
            o[f] \in {obj[m][f], mem[m][f]}
  BY SMTT(30), Merged DEF Merge
<1>2. \A o \in {MergeConditions(m), MergeObject(m), MergeStatus(m)} :
        Recorded(o, m, srv, grp)
  BY <1>1 DEF Recorded
<1>3. Recorded(GoneObject, m, srv, grp)
  BY DEF GoneObject, NewObject, Recorded, MadeServer, MadeGroup
<1>4. \/ obj'[m] = obj[m]
      \/ \E o \in {MergeConditions(m), MergeObject(m), MergeStatus(m)} : obj'[m] = Stored(o)
  <2>1. CASE PatchConditions(m)
    BY SMTT(30), <2>1, Patched DEF PatchConditions
  <2>2. CASE PatchObject(m)
    BY <2>2, Patched DEF PatchObject
  <2>3. CASE PatchStatus(m)
    BY Zenon, <2>3, Patched DEF PatchStatus
  <2> QED BY <2>1, <2>2, <2>3
<1> QED BY <1>2, <1>3, <1>4 DEF Stored

(* No object gets ahead of the answers.                                      *)
LEMMA RecordInductive ==
    ASSUME TypeOK, RecordInv, [Next]_vars
    PROVE  RecordInv'
<1> USE DEF k8s, local, cloud, gates
<1> SUFFICES ASSUME NEW m \in Machines
             PROVE  /\ Recorded(obj'[m], m, servers', groups')
                    /\ Recorded(cache'[m], m, servers', groups')
                    /\ Recorded(mem'[m], m, servers', groups')
                    /\ Recorded(base'[m], m, servers', groups')
  BY DEF RecordInv
<1> DEFINE Fine(o) == Recorded(o, m, servers', groups')
<1>o. /\ obj[m] \in Objects /\ cache[m] \in Objects
      /\ mem[m] \in Objects /\ base[m] \in Objects
  BY DEF TypeOK
<1>k. Fine(obj[m]) /\ Fine(cache[m]) /\ Fine(mem[m]) /\ Fine(base[m])
  BY RecordsKept DEF RecordInv
<1>n. Fine(NewObject) /\ Fine(GoneObject)
  BY DEF GoneObject, NewObject, Recorded, MadeServer, MadeGroup
<1>s. ASSUME NEW o, NEW q, SameIDs(o, q), Fine(o) PROVE Fine(q)
  BY <1>s DEF SameIDs, Recorded
<1> HIDE DEF Fine
<1> SUFFICES Fine(obj'[m]) /\ Fine(cache'[m]) /\ Fine(mem'[m]) /\ Fine(base'[m])
  BY DEF Fine
<1>1. CASE Untouched(m)
  BY <1>1, <1>k DEF Untouched
<1>2. CASE \/ GetGroup(m) \/ ListGroups(m) \/ CreateGroup(m) \/ CreateGroupRefused(m)
           \/ GetServer(m) \/ ListServers(m) \/ CreateServer(m) \/ CreateServerRefused(m)
           \/ DeleteServer(m) \/ Fails(m)
  <2>1. UNCHANGED <<obj, cache, base>>
    BY SMTT(30), <1>2, CallSteps DEF Calls
  <2>2. Fine(mem'[m])
    BY <1>2, CallRecords DEF RecordInv, Fine
  <2> QED BY <2>1, <2>2, <1>k
<1>3. CASE ReconcileNormal(m)
  <2> DEFINE o == [cache[m] EXCEPT !.finalizer = TRUE]
             w == [o EXCEPT !.serverReady = "WaitingForBootstrapData"]
  <2>1. o \in Objects
    BY <1>o, Zenon DEF Objects
  <2>2. SameIDs(cache[m], o)
    BY <1>o DEF SameIDs, Objects
  <2>3. w \in Objects /\ SameIDs(o, w)
    <3> HIDE DEF o
    <3> QED BY <2>1, EditsKeepIDs DEF Objects, Reasons
  <2>4. SameIDs(w, setReadyCondition(w))
    BY <2>3, EditsKeepIDs
  <2>5. mem'[m] \in {o, setReadyCondition(w)}
    BY <1>3 DEF ReconcileNormal, Edit, TypeOK
  <2>6. UNCHANGED <<obj, cache>> /\ base'[m] = cache[m]
    BY <1>3 DEF ReconcileNormal, TypeOK
  <2> HIDE DEF o, w
  <2>7. Fine(o) /\ Fine(w) /\ Fine(setReadyCondition(w))
    BY <2>2, <2>3, <2>4, <1>k, <1>s
  <2> QED BY <2>5, <2>6, <2>7, <1>k
<1>4. CASE ReconcileDelete(m)
  <2>1. Fine(deleted(m, cache[m]))
    BY <1>o, <1>k, ForgottenRecords DEF Fine
  <2>2. /\ mem'[m] \in {cache[m], deleted(m, cache[m])}
        /\ UNCHANGED <<obj, cache>> /\ base'[m] = cache[m]
    BY <1>4 DEF ReconcileDelete, Edit, TypeOK
  <2> QED BY <2>1, <2>2, <1>k
<1>5. CASE PatchConditions(m) \/ PatchObject(m) \/ PatchStatus(m)
  <2>1. Fine(obj'[m])
    BY <1>5, <1>k, PatchRecords DEF Fine
  <2>2. /\ cache' = cache
        /\ mem'[m] \in {mem[m], NewObject} /\ base'[m] \in {base[m], NewObject}
    BY Zenon, <1>5 DEF PatchConditions, PatchObject, PatchStatus, TypeOK
  <2> QED BY SMTT(30), <2>1, <2>2, <1>k, <1>n
<1>6. CASE CacheSync(m)
  BY <1>6, <1>k DEF CacheSync, TypeOK
<1>7. CASE SetOwnerRef(m)
  <2>1. SameIDs(obj[m], obj'[m]) /\ UNCHANGED <<cache, mem, base>>
    BY <1>7, <1>o DEF SetOwnerRef, SameIDs, TypeOK, Objects
  <2> QED BY <2>1, <1>k, <1>s
<1>8. CASE DeleteObject(m)
  <2> DEFINE d == [obj[m] EXCEPT !.phase = "deleting"]
  <2>1. obj'[m] \in {d, GoneObject} /\ UNCHANGED <<cache, mem, base>>
    BY <1>8 DEF DeleteObject, Stored, TypeOK
  <2>2. SameIDs(obj[m], d)
    BY <1>o DEF SameIDs, Objects
  <2> HIDE DEF d
  <2> QED BY <2>1, <2>2, <1>k, <1>s, <1>n
<1>9. CASE Crash
  BY <1>9, <1>k, <1>n DEF Crash, TypeOK
<1>10. ASSUME Succeeds(m) \/ Fails(m) \/ Event(m)
       PROVE  Fine(obj'[m]) /\ Fine(cache'[m]) /\ Fine(mem'[m]) /\ Fine(base'[m])
  BY <1>1, <1>2, <1>3, <1>4, <1>5, <1>6, <1>7, <1>8, <1>10, OtherSteps, Zenon
     DEF Succeeds, Event
<1> QED BY <1>1, <1>9, <1>10, OtherSteps, Zenon DEF Next

(* The initial objects name nothing.                                         *)
LEMMA RecordInitial == Init => RecordInv
<1> SUFFICES ASSUME Init, NEW m \in Machines
             PROVE  /\ Recorded(obj[m], m, servers, groups)
                    /\ Recorded(cache[m], m, servers, groups)
                    /\ Recorded(mem[m], m, servers, groups)
                    /\ Recorded(base[m], m, servers, groups)
  BY Zenon DEF RecordInv
<1>1. obj[m] = NewObject /\ mem[m] = NewObject /\ cache = obj /\ base = mem
  BY DEF Init
<1>2. Recorded(NewObject, m, servers, groups)
  BY DEF NewObject, Recorded, MadeServer, MadeGroup
<1> QED BY <1>1, <1>2

(* deleteServer never deletes the server of another machine, in any          *)
(* environment and for any number of machines: no server ID in store, cache  *)
(* or memory is that of a server made for another machine.                   *)
THEOREM OwnServer == Spec => []RecordedServerIsOwn
<1>1. RecordInv => RecordedServerIsOwn
  BY DEF RecordInv, Recorded, MadeServer, RecordedServerIsOwn
<1> QED BY <1>1, RecordInitial, RecordInductive, TypeCorrect, PTL DEF Spec

-----------------------------------------------------------------------------
(* A machine with a server group does not get to its server without one.     *)
LEMMA GroupInHand ==
    ASSUME TypeOK, [Next]_vars, NEW m \in Machines, GroupOf[m] # None,
           pc[m] \in GroupSteps => mem[m].groupID # None,
           pc'[m] \in GroupSteps
    PROVE  mem'[m].groupID # None
<1> USE DEF k8s, local, cloud, gates
<1>o. mem[m] \in Objects /\ cache[m] \in Objects
  BY DEF TypeOK
<1>1. ASSUME NEW o, NEW res, Return(m, o, res) PROVE FALSE
  BY <1>1 DEF Return, Goto, GroupSteps, TypeOK
<1>2. ASSUME NEW o, NEW step, Continue(m, o, step) PROVE mem'[m] = o /\ pc'[m] = step
  BY <1>2 DEF Continue, Edit, Goto, TypeOK
<1>g. ASSUME NEW g \in Groups,
             LET o == [mem[m] EXCEPT !.groupID = g, !.groupReady = TRUE]
             IN  Continue(m, o, ServerStep(o))
      PROVE  mem'[m].groupID # None
  <2> DEFINE o == [mem[m] EXCEPT !.groupID = g, !.groupReady = TRUE]
  <2>1. Continue(m, o, ServerStep(o))
    BY <1>g, Zenon
  <2>2. o.groupID = g
    BY <1>o DEF Objects
  <2> HIDE DEF o
  <2> QED BY <2>1, <2>2, <1>2, NoneAssumption
<1>3. CASE Untouched(m)
  BY <1>3 DEF Untouched
<1>4. CASE GetGroup(m)
  <2>1. CASE Continue(m, [mem[m] EXCEPT !.groupReady = TRUE], ServerStep(mem[m]))
    <3>1. mem[m].groupID # None
      BY <1>4 DEF GetGroup, GroupSteps
    <3> QED BY <2>1, <3>1, <1>o, <1>2 DEF Objects
  <2>2. CASE Continue(m, [mem[m] EXCEPT !.groupID = None], "listGroups")
    BY <2>2, <1>2 DEF GroupSteps
  <2> QED BY <1>4, <2>1, <2>2, Zenon DEF GetGroup
<1>5. CASE ListGroups(m)
  <2>1. CASE Continue(m, mem[m], "createGroup")
    BY <2>1, <1>2 DEF GroupSteps
  <2> QED BY <1>5, <2>1, <1>g, Zenon DEF ListGroups, GroupsNamed
<1>6. CASE CreateGroup(m)
  BY <1>6, <1>g, Zenon DEF CreateGroup
<1>7. CASE ListServers(m)
  <2>1. mem[m].groupID # None
    BY <1>7 DEF ListServers, GroupSteps
  <2>2. CASE Continue(m, mem[m], "createServer")
    BY <2>1, <2>2, <1>2
  <2> QED BY <1>7, <2>2, <1>1, Zenon DEF ListServers, ReturnServer
<1>8. CASE \/ CreateGroupRefused(m) \/ GetServer(m) \/ CreateServer(m)
           \/ CreateServerRefused(m) \/ DeleteServer(m) \/ Fails(m)
  BY <1>8, <1>1, Zenon
     DEF CreateGroupRefused, GetServer, CreateServer, CreateServerRefused, DeleteServer,
         Fails, CreateGroupTimeout, GroupCallFails, CreateServerTimeout, ServerCallFails,
         DeleteServerFails, ReturnServer
<1>9. CASE ReconcileNormal(m)
  <2> DEFINE o == [cache[m] EXCEPT !.finalizer = TRUE]
  <2>1. o.groupID = cache[m].groupID
    BY <1>o DEF Objects
  <2>2. /\ mem'[m] = o
        /\ pc'[m] = CASE GroupOf[m] = None -> ServerStep(o)
                      [] GroupOf[m] # None /\ o.groupID = None -> "listGroups"
                      [] OTHER -> "getGroup"
    BY Zenon, <1>9 DEF ReconcileNormal, Edit, Goto, GroupSteps, TypeOK
  <2>3. o.groupID # None
    <3> HIDE DEF o
    <3> QED BY <2>2 DEF GroupSteps
  <2> QED BY <2>2, <2>3
<1>10. CASE \/ ReconcileDelete(m) \/ PatchConditions(m) \/ PatchObject(m) \/ PatchStatus(m)
            \/ Crash
  BY Zenon, <1>10 DEF ReconcileDelete, PatchConditions, PatchObject, PatchStatus, Crash, Goto,
               GroupSteps, TypeOK
<1>11. CASE CacheSync(m) \/ SetOwnerRef(m) \/ DeleteObject(m)
  BY <1>11 DEF CacheSync, SetOwnerRef, DeleteObject
<1>12. ASSUME Succeeds(m) \/ Fails(m) \/ Event(m) PROVE mem'[m].groupID # None
  BY <1>3, <1>4, <1>5, <1>6, <1>7, <1>8, <1>9, <1>10, <1>11, <1>12, OtherSteps, Zenon
     DEF Succeeds, Event
<1> QED BY <1>3, <1>10, <1>12, OtherSteps, Zenon DEF Next

(* A server is made in a group that is there, and the group stays for it.    *)
LEMMA GroupOfServer ==
    ASSUME TypeOK, RecordInv, AffinityInv, [Next]_vars, NEW s \in Servers,
           servers'[s].state \in ClaimedStates
    PROVE  /\ servers'[s].owner \in Machines
           /\ GroupOf[servers'[s].owner] # None =>
                 /\ servers'[s].group \in Groups
                 /\ groups'[servers'[s].group].state = "live"
                 /\ groups'[servers'[s].group].name = GroupOf[servers'[s].owner]
<1>1. ASSUME servers[s].state \in ClaimedStates,
             servers'[s].owner = servers[s].owner, servers'[s].group = servers[s].group
      PROVE  /\ servers'[s].owner \in Machines
             /\ GroupOf[servers'[s].owner] # None =>
                   /\ servers'[s].group \in Groups
                   /\ groups'[servers'[s].group].state = "live"
                   /\ groups'[servers'[s].group].name = GroupOf[servers'[s].owner]
  <2>1. servers'[s].owner \in Machines
    BY <1>1 DEF AffinityInv
  <2>2. ASSUME GroupOf[servers'[s].owner] # None
        PROVE  /\ servers'[s].group \in Groups
               /\ groups'[servers'[s].group].state = "live"
               /\ groups'[servers'[s].group].name = GroupOf[servers'[s].owner]
    <3>1. /\ servers[s].group \in Groups
          /\ groups[servers[s].group].state = "live"
          /\ groups[servers[s].group].name = GroupOf[servers[s].owner]
      BY <1>1, <2>2 DEF AffinityInv
    <3>2. groups'[servers[s].group] = groups[servers[s].group]
      BY <1>1, <3>1, GroupsKept
    <3> QED BY <1>1, <3>1, <3>2
  <2> QED BY SMTT(30), <2>1, <2>2
<1>2. CASE servers' = servers
  BY <1>1, <1>2
<1>3. ASSUME NEW n \in Machines, NEW t \in Servers, NEW state \in ClaimedStates,
             Makes(n, t, state)
      PROVE  /\ servers'[s].owner \in Machines
             /\ GroupOf[servers'[s].owner] # None =>
                   /\ servers'[s].group \in Groups
                   /\ groups'[servers'[s].group].state = "live"
                   /\ groups'[servers'[s].group].name = GroupOf[servers'[s].owner]
  <2>1. CASE s # t
    BY <1>1, <1>3, <2>1 DEF Makes, TypeOK
  <2>2. CASE s = t
    <3>1. servers'[s].owner = n /\ servers'[s].group = mem[n].groupID
      BY <1>3, <2>2 DEF Makes, TypeOK
    <3>2. servers' # servers
      BY SMTT(30), <1>3, <2>2 DEF Makes, ClaimedStates, LiveStates, TypeOK
    <3>3. ASSUME GroupOf[n] # None
          PROVE  /\ mem[n].groupID \in Groups
                 /\ groups'[mem[n].groupID].state = "live"
                 /\ groups'[mem[n].groupID].name = GroupOf[n]
      <4>1. mem[n].groupID # None
        BY Zenon, <1>3, <3>3 DEF AffinityInv, Makes, GroupSteps
      <4>2. mem[n].groupID \in Groups /\ groups[mem[n].groupID].state = "live"
        BY Zenon, <1>3, <4>1 DEF Makes, GroupUsable
      <4>3. groups[mem[n].groupID].name = GroupOf[n]
        BY <4>1 DEF RecordInv, Recorded, MadeGroup
      <4>4. groups'[mem[n].groupID] = groups[mem[n].groupID]
        BY <3>2, <4>2, GroupsKept
      <4> QED BY <4>2, <4>3, <4>4
    <3> QED BY <3>1, <3>3
  <2> QED BY Zenon, <2>1, <2>2
<1>4. ASSUME NEW t \in Servers, NEW to \in ServerStates, Moves(t, to)
      PROVE  /\ servers[s].state \in ClaimedStates
             /\ servers'[s].owner = servers[s].owner /\ servers'[s].group = servers[s].group
  BY <1>4 DEF Moves, ClaimedStates, TypeOK
<1>5. ASSUME NEW t \in Servers, Drops(t)
      PROVE  /\ servers[s].state \in ClaimedStates
             /\ servers'[s].owner = servers[s].owner /\ servers'[s].group = servers[s].group
  BY <1>5 DEF Drops, UnusedServer, ClaimedStates, LiveStates, TypeOK
<1> QED BY <1>1, <1>2, <1>3, <1>4, <1>5, ServerSteps

(* Machines with one server group name have their servers in one server      *)
(* group, which keeps them on different hosts, if creates do not land late:  *)
(* for any number of machines, whatever crashes, fails or is deleted by      *)
(* someone else.                                                             *)
THEOREM Affinity ==
    ASSUME "late" \notin Env
    PROVE  Spec => []AntiAffinity
<1>1. Init => AffinityInv
  BY DEF Init, AffinityInv, UnusedServer, ClaimedStates, LiveStates, GroupSteps
<1>2. TypeOK /\ RecordInv /\ AffinityInv /\ [Next]_vars => AffinityInv'
  <2> SUFFICES ASSUME TypeOK, RecordInv, AffinityInv, [Next]_vars PROVE AffinityInv'
    OBVIOUS
  <2>1. \A m \in Machines :
          GroupOf[m] # None /\ pc'[m] \in GroupSteps => mem'[m].groupID # None
    BY GroupInHand DEF AffinityInv
  <2> QED BY <2>1, GroupOfServer DEF AffinityInv
<1>3. AffinityInv /\ AtMostOneGroup => AntiAffinity
  <2> SUFFICES ASSUME AffinityInv, AtMostOneGroup, NEW s \in Servers, NEW t \in Servers,
                      servers[s].state \in LiveStates, servers[t].state \in LiveStates,
                      GroupOf[servers[s].owner] # None,
                      GroupOf[servers[s].owner] = GroupOf[servers[t].owner]
               PROVE  servers[s].group # None /\ servers[s].group = servers[t].group
    BY DEF AntiAffinity
  <2>1. ASSUME NEW r \in {s, t}
        PROVE  /\ servers[r].group \in Groups
               /\ groups[servers[r].group].state = "live"
               /\ groups[servers[r].group].name = GroupOf[servers[s].owner]
    BY Zenon, <2>1 DEF AffinityInv, ClaimedStates
  <2> QED BY <2>1, NoneAssumption DEF AtMostOneGroup
<1> QED BY <1>1, <1>2, <1>3, RecordInitial, RecordInductive, OneGroup, TypeCorrect, PTL
       DEF Spec

-----------------------------------------------------------------------------
(* The calls of reconcileNormal.                                             *)
NormalSteps == {"getGroup", "listGroups", "createGroup", "getServer", "listServers",
                "createServer"}

(* The object in memory at each step of a reconcile.                         *)
AtStep(o, step) ==
    /\ step = "idle" => o = NewObject
    /\ step # "idle" => o.phase \in {"live", "deleting"}
    /\ step \in NormalSteps => o.phase = "live"
    /\ step = "deleteServer" => o.phase = "deleting" /\ o.serverID # None
    /\ step = "getServer" => o.serverID # None
    /\ step \in {"listServers", "createServer"} => o.serverID = None

(* Inductive in any environment.                                             *)
StepInv ==
    \A m \in Machines : /\ AtStep(mem[m], pc[m])
                        /\ pc[m] = "idle" => base[m] = NewObject

-----------------------------------------------------------------------------
(* What the answer of a call does to the object in memory.                   *)

SameServer(o, q) == q.serverID = o.serverID /\ q.providerID = o.providerID

(* It names a server: the one of the status, the only one with the tag, or   *)
(* the new one.                                                              *)
Learns(m, s) ==
    /\ pc'[m] = "patchConditions"
    /\ mem'[m].phase = mem[m].phase /\ mem[m].phase = "live"
    /\ mem'[m].finalizer = mem[m].finalizer
    /\ mem'[m].serverID = s /\ mem'[m].providerID = s
    /\ servers'[s].owner = m /\ servers'[s].state \in LiveStates
    /\ \/ pc[m] = "getServer" /\ s = mem[m].serverID /\ servers' = servers
       \/ pc[m] = "listServers" /\ ServersOf(m) = {s} /\ servers' = servers
       \/ pc[m] = "createServer" /\ \A t \in Servers \ {s} : servers'[t] = servers[t]

(* It names none.  Only a create that timed out may set Provisioned then.    *)
Keeps(m) ==
    /\ pc[m] \in NormalSteps
    /\ pc'[m] \in NormalSteps \cup {"patchConditions"}
    /\ mem'[m].phase = mem[m].phase /\ mem'[m].finalizer = mem[m].finalizer
    /\ SameServer(mem[m], mem'[m])
    /\ AtStep(mem'[m], pc'[m])
    /\ IsServerReady(mem'[m]) => IsServerReady(mem[m])
    /\ mem'[m].provisioned =>
          \/ mem[m].provisioned
          \/ "timeout" \in Env /\ pc[m] = "createServer" /\ IsServerReady(mem[m])
    /\ pc'[m] = "createServer" => ServersOf(m) = {}
    /\ "timeout" \notin Env => servers' = servers

(* It is that of the delete call.                                            *)
Forgets(m) ==
    /\ pc[m] = "deleteServer" /\ pc'[m] = "patchConditions"
    /\ mem'[m].phase = mem[m].phase
    /\ mem'[m].providerID = mem[m].providerID
    /\ mem'[m].provisioned = mem[m].provisioned
    /\ ~IsServerReady(mem'[m])
    /\ \A t \in Servers \ {mem[m].serverID} : servers'[t] = servers[t]
    /\ \/ /\ mem'[m].serverID = mem[m].serverID
          /\ mem'[m].finalizer = mem[m].finalizer
       \/ /\ mem'[m].serverID = None
          /\ ~mem'[m].finalizer
          /\ servers'[mem[m].serverID].state \notin LiveStates

Answered(m) == Keeps(m) \/ Forgets(m) \/ \E s \in Servers : Learns(m, s)

(* The fields of an object that tell whether it may be published.            *)
LEMMA EditsKeepFlags ==
    ASSUME NEW o \in Objects
    PROVE  /\ setReadyCondition(o).serverReady = o.serverReady
           /\ setReadyCondition(o).provisioned = o.provisioned
           /\ setProvisioned(o).serverReady = o.serverReady
           /\ setProvisioned(o).provisioned => o.provisioned \/ IsServerReady(o)
           /\ groupError(o).serverReady = o.serverReady
           /\ groupError(o).provisioned = o.provisioned
           /\ serverError(o).serverReady = "ServerError"
           /\ serverError(o).provisioned = o.provisioned
<1> USE DEF Objects
<1>1. /\ setReadyCondition(o).serverReady = o.serverReady
      /\ setReadyCondition(o).provisioned = o.provisioned
  BY DEF setReadyCondition
<1>2. setProvisioned(o).serverReady = o.serverReady
  BY DEF setProvisioned, setReadyCondition
<1>3. setProvisioned(o).provisioned => o.provisioned \/ IsServerReady(o)
  BY DEF setProvisioned, setReadyCondition
<1>4. /\ groupError(o).serverReady = o.serverReady
      /\ groupError(o).provisioned = o.provisioned
      /\ serverError(o).serverReady = "ServerError"
      /\ serverError(o).provisioned = o.provisioned
  BY Zenon DEF groupError, serverError, setReadyCondition
<1> QED BY <1>1, <1>2, <1>3, <1>4

(* Every call of the cloud is answered in one of these ways.                 *)
LEMMA CallAnswers ==
    ASSUME TypeOK, NEW m \in Machines, AtStep(mem[m], pc[m]),
           MadeServer(mem[m].serverID, m, servers),
           \/ GetGroup(m) \/ ListGroups(m) \/ CreateGroup(m) \/ CreateGroupRefused(m)
           \/ GetServer(m) \/ ListServers(m) \/ CreateServer(m) \/ CreateServerRefused(m)
           \/ DeleteServer(m) \/ Fails(m)
    PROVE  Answered(m)
<1> USE DEF k8s, local, cloud, gates
<1>o. mem[m] \in Objects
  BY DEF TypeOK
<1>1. ASSUME NEW o, NEW res, Return(m, o, res)
      PROVE  mem'[m] = o /\ pc'[m] = "patchConditions"
  BY <1>1 DEF Return, Edit, Goto, TypeOK
<1>2. ASSUME NEW o, NEW step, Continue(m, o, step)
      PROVE  mem'[m] = o /\ pc'[m] = step
  BY <1>2 DEF Continue, Edit, Goto, TypeOK
<1> DEFINE Fine(o) == /\ Alike(mem[m], o) /\ SameServer(mem[m], o)
                      /\ IsServerReady(o) => IsServerReady(mem[m])
           Flagged(o) == o.provisioned => \/ mem[m].provisioned
                                          \/ /\ "timeout" \in Env /\ pc[m] = "createServer"
                                             /\ IsServerReady(mem[m])
<1>3. ASSUME NEW o, NEW res, Return(m, o, res), Fine(o), Flagged(o), pc[m] \in NormalSteps,
             "timeout" \notin Env => servers' = servers
      PROVE  Answered(m)
  <2>1. mem'[m] = o /\ pc'[m] = "patchConditions"
    BY Zenon, <1>1, <1>3
  <2>2. mem[m].phase = "live"
    BY Zenon, <1>3 DEF AtStep
  <2> QED BY Zenon, <1>3, <2>1, <2>2 DEF Answered, Keeps, AtStep, Alike, NormalSteps
<1>4. ASSUME NEW o, NEW step, Continue(m, o, step), Fine(o), Flagged(o), pc[m] \in NormalSteps,
             step \in NormalSteps, servers' = servers,
             step = "getServer" => o.serverID # None,
             step \in {"listServers", "createServer"} => o.serverID = None,
             step = "createServer" => ServersOf(m) = {}
      PROVE  Answered(m)
  <2>1. mem'[m] = o /\ pc'[m] = step
    BY Zenon, <1>2, <1>4
  <2>2. mem[m].phase = "live"
    BY Zenon, <1>4 DEF AtStep
  <2> QED BY Zenon, <1>4, <2>1, <2>2 DEF Answered, Keeps, AtStep, Alike, NormalSteps
<1>b. Fine(mem[m]) /\ Flagged(mem[m])
  BY Zenon DEF Alike, SameServer
<1>e. /\ \A b : Fine([mem[m] EXCEPT !.groupReady = b])
                /\ Flagged([mem[m] EXCEPT !.groupReady = b])
      /\ \A g : Fine([mem[m] EXCEPT !.groupID = g])
                /\ Flagged([mem[m] EXCEPT !.groupID = g])
      /\ \A g, b : Fine([mem[m] EXCEPT !.groupID = g, !.groupReady = b])
                   /\ Flagged([mem[m] EXCEPT !.groupID = g, !.groupReady = b])
  BY Zenon, <1>o, EditsAlike DEF SameServer, IsServerReady, Objects
<1>f. /\ Fine(groupError(mem[m])) /\ Flagged(groupError(mem[m]))
      /\ Fine(serverError(mem[m])) /\ Flagged(serverError(mem[m]))
  BY Zenon, <1>o, EditsAlike, EditsKeepIDs, EditsKeepFlags DEF SameServer, SameIDs, IsServerReady
<1> HIDE DEF Fine, Flagged
<1>s. \A o : /\ ServerStep(o) \in NormalSteps
             /\ ServerStep(o) = "getServer" => o.serverID # None
             /\ ServerStep(o) = "listServers" => o.serverID = None
             /\ ServerStep(o) # "createServer"
  BY DEF ServerStep, NormalSteps
<1>c. ASSUME NEW o, NEW q, Continue(m, q, ServerStep(o)), Fine(q), Flagged(q),
             q.serverID = o.serverID, pc[m] \in NormalSteps, servers' = servers
      PROVE  Answered(m)
  <2>1. /\ ServerStep(o) \in NormalSteps
        /\ ServerStep(o) = "getServer" => q.serverID # None
        /\ ServerStep(o) \in {"listServers", "createServer"} => q.serverID = None
        /\ ServerStep(o) = "createServer" => ServersOf(m) = {}
    BY Zenon, <1>c, <1>s
  <2> QED BY Zenon, <1>c, <2>1, <1>4
<1>r. ASSUME NEW s \in Servers, NEW state, ReturnServer(m, s, state), pc[m] \in NormalSteps,
             servers'[s].owner = m, servers'[s].state \in LiveStates,
             \/ pc[m] = "getServer" /\ s = mem[m].serverID /\ servers' = servers
             \/ pc[m] = "listServers" /\ ServersOf(m) = {s} /\ servers' = servers
             \/ pc[m] = "createServer" /\ \A t \in Servers \ {s} : servers'[t] = servers[t]
      PROVE  Answered(m)
  <2> DEFINE o1 == updateMachineFromServer(mem[m], s)
             o2 == setServerStatusCondition(o1, state)
             o3 == setProvisioned(o2)
  <2>1. o1 \in Objects /\ Alike(mem[m], o1) /\ o1.serverID = s /\ o1.providerID = s
    <3>1. o1.serverID = s /\ o1.providerID = s
      BY <1>o DEF updateMachineFromServer, Objects
    <3> QED BY Zenon, <1>o, <3>1, EditTypes, EditsAlike
  <2>2. o2 \in Objects /\ Alike(o1, o2) /\ SameIDs(o1, o2)
    BY Zenon, <2>1, EditTypes, EditsAlike, EditsKeepIDs
  <2>3. Alike(o2, o3) /\ SameIDs(o2, o3)
    BY Zenon, <2>2, EditsAlike, EditsKeepIDs
  <2>4. \E res : Return(m, o3, res)
    BY <1>r, Zenon DEF ReturnServer
  <2> HIDE DEF o1, o2, o3
  <2>5. mem'[m] = o3 /\ pc'[m] = "patchConditions"
    BY Zenon, <2>4, <1>1
  <2>6. mem[m].phase = "live"
    BY Zenon, <1>r DEF AtStep
  <2> QED BY Zenon, <1>r, <2>1, <2>2, <2>3, <2>5, <2>6 DEF Answered, Learns, Alike, SameIDs
<1>n. {"getGroup", "listGroups", "createGroup", "getServer", "listServers", "createServer"}
        \subseteq NormalSteps
  BY Zenon DEF NormalSteps
<1>5. CASE GetGroup(m)
  <2>0. pc[m] \in NormalSteps /\ servers' = servers
    BY <1>5, <1>n DEF GetGroup
  <2>1. CASE Continue(m, [mem[m] EXCEPT !.groupReady = TRUE], ServerStep(mem[m]))
    <3>1. [mem[m] EXCEPT !.groupReady = TRUE].serverID = mem[m].serverID
      BY <1>o DEF Objects
    <3> QED BY Zenon, <2>0, <2>1, <3>1, <1>c, <1>e
  <2>2. CASE Continue(m, [mem[m] EXCEPT !.groupID = None], "listGroups")
    <3>1. Fine([mem[m] EXCEPT !.groupID = None]) /\ Flagged([mem[m] EXCEPT !.groupID = None])
      BY <1>e, Zenon
    <3>2. "listGroups" \in NormalSteps
          /\ "listGroups" \notin {"getServer", "listServers", "createServer"}
      BY <1>n
    <3> QED BY <2>0, <2>2, <3>1, <3>2, <1>4, Zenon
  <2> QED BY <1>5, <2>1, <2>2, Zenon DEF GetGroup
<1>g. ASSUME NEW g, LET o == [mem[m] EXCEPT !.groupID = g, !.groupReady = TRUE]
                    IN  Continue(m, o, ServerStep(o)),
             pc[m] \in NormalSteps, servers' = servers
      PROVE  Answered(m)
  <2> DEFINE o == [mem[m] EXCEPT !.groupID = g, !.groupReady = TRUE]
  <2>1. Continue(m, o, ServerStep(o))
    BY <1>g, Zenon
  <2>2. Fine(o) /\ Flagged(o)
    BY Zenon, <1>e
  <2> HIDE DEF o
  <2> QED BY <1>g, <2>1, <2>2, <1>c
<1>6. CASE ListGroups(m)
  <2>0. pc[m] \in NormalSteps /\ servers' = servers
    BY Zenon, <1>6, <1>n DEF ListGroups
  <2>1. CASE Continue(m, mem[m], "createGroup")
    BY <2>0, <2>1, <1>4, <1>b, <1>n
  <2> QED BY <1>6, <2>0, <2>1, <1>g, Zenon DEF ListGroups
<1>7. CASE CreateGroup(m)
  <2>0. pc[m] \in NormalSteps /\ servers' = servers
    BY Zenon, <1>7, <1>n DEF CreateGroup
  <2> QED BY <1>7, <2>0, <1>g, Zenon DEF CreateGroup
<1>8. CASE CreateGroupRefused(m) \/ GroupCallFails(m)
  <2>1. pc[m] \in NormalSteps /\ servers' = servers /\ Return(m, groupError(mem[m]), "error")
    BY Zenon, <1>8, <1>n DEF CreateGroupRefused, GroupCallFails
  <2> QED BY <2>1, <1>3, <1>f
<1>9. CASE GetServer(m)
  <2> DEFINE o == [mem[m] EXCEPT !.serverReady = "ServerDeletedExternally"]
  <2>0. /\ pc[m] = "getServer" /\ pc[m] \in NormalSteps /\ servers' = servers
        /\ mem[m].serverID \in Servers
    BY <1>9, <1>o, <1>n DEF GetServer, AtStep, Objects
  <2>1. o \in Objects /\ Alike(mem[m], o) /\ SameIDs(mem[m], o)
        /\ o.serverReady = "ServerDeletedExternally" /\ o.provisioned = mem[m].provisioned
    BY Zenon, <1>o, EditsAlike, EditsKeepIDs DEF Objects, Reasons
  <2>2. Alike(o, setProvisioned(o)) /\ SameIDs(o, setProvisioned(o))
        /\ setProvisioned(o).serverReady = "ServerDeletedExternally"
        /\ (setProvisioned(o).provisioned => mem[m].provisioned)
    BY Zenon, <2>1, EditsAlike, EditsKeepIDs, EditsKeepFlags DEF IsServerReady
  <2>3. Fine(setProvisioned(o)) /\ Flagged(setProvisioned(o))
    <3> HIDE DEF o
    <3> QED BY Zenon, <2>1, <2>2 DEF Fine, Flagged, Alike, SameServer, SameIDs, IsServerReady
  <2>4. CASE Return(m, setProvisioned(o), "done")
    BY Zenon, <2>0, <2>3, <2>4, <1>3
  <2>5. CASE /\ servers[mem[m].serverID].state \in LiveStates
             /\ ReturnServer(m, mem[m].serverID, servers[mem[m].serverID].state)
    <3>1. servers[mem[m].serverID].owner = m
      BY <2>0, NoneAssumption DEF MadeServer
    <3> QED BY Zenon, <2>0, <2>5, <3>1, <1>r
  <2> QED BY <1>9, <2>4, <2>5, Zenon DEF GetServer
<1>10. CASE ListServers(m)
  <2>0. pc[m] = "listServers" /\ pc[m] \in NormalSteps /\ servers' = servers
    BY Zenon, <1>10, <1>n DEF ListServers
  <2>1. CASE Continue(m, mem[m], "createServer") /\ ServersOf(m) = {}
    BY Zenon, <2>0, <2>1, <1>4, <1>b, <1>n DEF AtStep
  <2>2. CASE Return(m, serverError(mem[m]), "error")
    BY Zenon, <2>0, <2>2, <1>3, <1>f
  <2>3. ASSUME NEW s \in ServersOf(m), ServersOf(m) = {s}, ReturnServer(m, s, servers[s].state)
        PROVE  Answered(m)
    BY Zenon, <2>0, <2>3, <1>r DEF ServersOf
  <2> QED BY <1>10, <2>1, <2>2, <2>3, Zenon DEF ListServers
<1>11. CASE CreateServer(m)
  <2>1. PICK s \in Servers, state \in {"changing", "running"} :
           /\ servers' = [servers EXCEPT ![s] = [state |-> state, owner |-> m,
                                                 group |-> mem[m].groupID]]
           /\ ReturnServer(m, s, state)
    BY <1>11, Zenon DEF CreateServer
  <2>2. /\ servers'[s].owner = m /\ servers'[s].state \in LiveStates
        /\ \A t \in Servers \ {s} : servers'[t] = servers[t]
    BY Zenon, <2>1 DEF LiveStates, TypeOK
  <2>3. pc[m] = "createServer" /\ pc[m] \in NormalSteps
    BY <1>11, <1>n DEF CreateServer
  <2> QED BY Zenon, <2>1, <2>2, <2>3, <1>r
<1>12. CASE CreateServerRefused(m) \/ ServerCallFails(m)
  <2>1. pc[m] \in NormalSteps /\ servers' = servers /\ Return(m, serverError(mem[m]), "error")
    BY Zenon, <1>12, <1>n DEF CreateServerRefused, ServerCallFails
  <2> QED BY Zenon, <2>1, <1>3, <1>f
<1>13. CASE CreateServerTimeout(m)
  <2>1. Fine(setProvisioned(mem[m]))
    BY Zenon, <1>o, EditsAlike, EditsKeepIDs, EditsKeepFlags
       DEF Fine, SameServer, SameIDs, IsServerReady
  <2>2. /\ pc[m] = "createServer" /\ pc[m] \in NormalSteps /\ "timeout" \in Env
        /\ Return(m, setProvisioned(mem[m]), "requeue")
    BY <1>13, <1>n DEF CreateServerTimeout
  <2>3. Flagged(setProvisioned(mem[m]))
    BY Zenon, <1>o, <2>2, EditsKeepFlags DEF Flagged
  <2> QED BY Zenon, <2>1, <2>2, <2>3, <1>3
<1>14. CASE CreateGroupTimeout(m)
  <2> DEFINE o == [mem[m] EXCEPT !.groupReady = TRUE]
  <2>1. o \in Objects
    BY <1>o, Zenon DEF Objects
  <2>2. Fine(o) /\ Flagged(o)
    BY Zenon, <1>e
  <2> HIDE DEF o
  <2>3. Fine(setReadyCondition(o)) /\ Flagged(setReadyCondition(o))
    BY <2>1, <2>2, EditsAlike, EditsKeepIDs, EditsKeepFlags
       DEF Fine, Flagged, Alike, SameServer, SameIDs, IsServerReady
  <2>4. /\ pc[m] \in NormalSteps /\ servers' = servers
        /\ Return(m, setReadyCondition(o), "requeue")
    BY <1>14, <1>n DEF CreateGroupTimeout, o
  <2> QED BY Zenon, <2>3, <2>4, <1>3
<1>d. ASSUME pc[m] = "deleteServer", servers' \in {servers, Destroy(mem[m].serverID)}
      PROVE  /\ mem[m].serverID \in Servers
             /\ \A t \in Servers \ {mem[m].serverID} : servers'[t] = servers[t]
             /\ Destroy(mem[m].serverID)[mem[m].serverID].state \notin LiveStates
  <2>1. mem[m].serverID \in Servers
    BY Zenon, <1>d, <1>o DEF AtStep, Objects
  <2> QED BY <1>d, <2>1 DEF Destroy, TypeOK, LiveStates
<1>15. CASE DeleteServer(m)
  <2> DEFINE g == IF GroupOf[m] = None THEN mem[m].groupID ELSE None
             d == [mem[m] EXCEPT !.serverID = None, !.serverReady = "ServerDeleting",
                                 !.groupID = g, !.ready = FALSE, !.finalizer = FALSE]
  <2>1. Return(m, d, "done")
    BY <1>15, Zenon DEF DeleteServer, deleted
  <2>2. mem'[m] = d /\ pc'[m] = "patchConditions"
    BY <2>1, <1>1
  <2>3. /\ d.phase = mem[m].phase /\ d.providerID = mem[m].providerID
        /\ d.serverID = None /\ d.provisioned = mem[m].provisioned
        /\ d.serverReady = "ServerDeleting" /\ d.finalizer = FALSE
    <3> HIDE DEF g
    <3> QED BY <1>o DEF Objects
  <2>4. pc[m] = "deleteServer" /\ servers' = Destroy(mem[m].serverID)
    BY Zenon, <1>15 DEF DeleteServer
  <2> HIDE DEF d
  <2> QED BY Zenon, <2>2, <2>3, <2>4, <1>d DEF Answered, Forgets, IsServerReady
<1>16. CASE DeleteServerFails(m)
  <2> DEFINE d == [mem[m] EXCEPT !.serverReady = "ServerError"]
  <2>1. mem'[m] = d /\ pc'[m] = "patchConditions"
    BY <1>16, <1>1 DEF DeleteServerFails
  <2>2. /\ d.phase = mem[m].phase /\ d.providerID = mem[m].providerID
        /\ d.serverID = mem[m].serverID /\ d.provisioned = mem[m].provisioned
        /\ d.serverReady = "ServerError" /\ d.finalizer = mem[m].finalizer
    BY <1>o DEF Objects
  <2>3. pc[m] = "deleteServer" /\ servers' \in {servers, Destroy(mem[m].serverID)}
    BY <1>16 DEF DeleteServerFails
  <2> HIDE DEF d
  <2> QED BY Zenon, <2>1, <2>2, <2>3, <1>d DEF Answered, Forgets, IsServerReady
<1> QED BY <1>5, <1>6, <1>7, <1>8, <1>9, <1>10, <1>11, <1>12, <1>13, <1>14, <1>15, <1>16 DEF Fails

(* A reconcile begins with the IDs and flags of the cached object.           *)
Begins(m) ==
    /\ pc[m] = "idle" /\ pc'[m] \notin {"idle", "createServer", "patchObject", "patchStatus"}
    /\ "stale" \in Env \/ cache[m] = obj[m]
    /\ UNCHANGED <<obj, cache, servers>>
    /\ base'[m] = cache[m]
    /\ SameServer(cache[m], mem'[m])
    /\ mem'[m].phase = cache[m].phase /\ mem'[m].provisioned = cache[m].provisioned
    /\ IsServerReady(mem'[m]) => IsServerReady(cache[m])
    /\ AtStep(mem'[m], pc'[m])
    /\ \/ cache[m].phase = "live" /\ mem'[m].finalizer
       \/ /\ cache[m].phase = "deleting"
          /\ \/ mem'[m].finalizer = cache[m].finalizer
             \/ ~mem'[m].finalizer /\ mem'[m].serverID = None

LEMMA BeginAnswers ==
    ASSUME TypeOK, NEW m \in Machines, ReconcileNormal(m) \/ ReconcileDelete(m)
    PROVE  Begins(m)
<1> USE DEF k8s, local, cloud, gates
<1>o. cache[m] \in Objects
  BY DEF TypeOK
<1>1. CASE ReconcileNormal(m)
  <2> DEFINE o == [cache[m] EXCEPT !.finalizer = TRUE]
             w == [o EXCEPT !.serverReady = "WaitingForBootstrapData"]
  <2>1. /\ o \in Objects /\ o.finalizer
        /\ o.phase = cache[m].phase /\ o.provisioned = cache[m].provisioned
        /\ SameServer(cache[m], o) /\ o.serverReady = cache[m].serverReady
        /\ o.groupID = cache[m].groupID
    <3>1. o \in Objects /\ o.finalizer /\ o.phase = cache[m].phase
      BY <1>o, Zenon DEF Objects
    <3>2. /\ o.provisioned = cache[m].provisioned /\ SameServer(cache[m], o)
          /\ o.serverReady = cache[m].serverReady /\ o.groupID = cache[m].groupID
      BY <1>o DEF Objects, SameServer
    <3> QED BY <3>1, <3>2
  <2>2. /\ w \in Objects /\ w.finalizer = o.finalizer /\ w.phase = o.phase
        /\ w.provisioned = o.provisioned /\ SameServer(o, w)
        /\ w.serverReady = "WaitingForBootstrapData"
    <3> HIDE DEF o
    <3> QED BY Zenon, <2>1 DEF Objects, Reasons, SameServer
  <2> DEFINE v == setReadyCondition(w)
  <2>3. /\ v.finalizer = w.finalizer /\ v.phase = w.phase /\ SameServer(w, v)
        /\ v.provisioned = w.provisioned /\ v.serverReady = w.serverReady
    <3> HIDE DEF w
    <3> QED BY Zenon, <2>2, EditsAlike, EditsKeepIDs, EditsKeepFlags
            DEF Alike, SameIDs, SameServer
  <2>4. /\ pc[m] = "idle" /\ cache[m].phase = "live" /\ base'[m] = cache[m]
        /\ "stale" \in Env \/ cache[m] = obj[m]
        /\ UNCHANGED <<obj, cache, servers>>
    BY <1>1 DEF ReconcileNormal, Dequeue, TypeOK
  <2>5. \/ mem'[m] = v /\ pc'[m] = "patchConditions"
        \/ mem'[m] = o /\ pc'[m] \in {ServerStep(o), "listGroups", "getGroup"}
    BY Zenon, <1>1 DEF ReconcileNormal, Edit, Goto, TypeOK
  <2> HIDE DEF o, w, v
  <2>6. CASE mem'[m] = v /\ pc'[m] = "patchConditions"
    BY Zenon, <2>1, <2>2, <2>3, <2>4, <2>6 DEF Begins, AtStep, SameServer, IsServerReady, NormalSteps
  <2>7. CASE mem'[m] = o /\ pc'[m] \in {ServerStep(o), "listGroups", "getGroup"}
    BY <2>1, <2>4, <2>7 DEF Begins, AtStep, IsServerReady, NormalSteps, ServerStep
  <2> QED BY <2>5, <2>6, <2>7
<1>2. CASE ReconcileDelete(m)
  <2> DEFINE g == IF GroupOf[m] = None THEN cache[m].groupID ELSE None
             d == [cache[m] EXCEPT !.serverID = None, !.serverReady = "ServerDeleting",
                                   !.groupID = g, !.ready = FALSE, !.finalizer = FALSE]
  <2>1. deleted(m, cache[m]) = d
    BY Zenon DEF deleted
  <2>2. /\ d.phase = cache[m].phase /\ d.providerID = cache[m].providerID
        /\ d.serverID = None /\ d.provisioned = cache[m].provisioned
        /\ d.serverReady = "ServerDeleting" /\ d.finalizer = FALSE
    <3> HIDE DEF g
    <3> QED BY <1>o DEF Objects
  <2> HIDE DEF d
  <2>3. /\ pc[m] = "idle" /\ cache[m].phase = "deleting" /\ base'[m] = cache[m]
        /\ "stale" \in Env \/ cache[m] = obj[m]
        /\ UNCHANGED <<obj, cache, servers>>
    BY <1>2 DEF ReconcileDelete, Dequeue, TypeOK
  <2>4. \/ cache[m].serverID = None /\ mem'[m] = d /\ pc'[m] = "patchConditions"
        \/ cache[m].serverID # None /\ mem'[m] = cache[m] /\ pc'[m] = "deleteServer"
    BY <1>2, <2>1 DEF ReconcileDelete, Edit, Goto, TypeOK
  <2> QED BY <2>2, <2>3, <2>4 DEF Begins, AtStep, SameServer, IsServerReady, NormalSteps
<1> QED BY <1>1, <1>2

(* What a step can be for machine m.                                         *)
LEMMA MachineSteps ==
    ASSUME TypeOK, StepInv, RecordInv, [Next]_vars, NEW m \in Machines
    PROVE  \/ Untouched(m)
           \/ Calls(m) /\ Answered(m)
           \/ Begins(m)
           \/ PatchConditions(m) \/ PatchObject(m) \/ PatchStatus(m)
           \/ CacheSync(m) \/ SetOwnerRef(m) \/ DeleteObject(m) \/ Crash
<1>0. AtStep(mem[m], pc[m]) /\ MadeServer(mem[m].serverID, m, servers)
  BY DEF StepInv, RecordInv, Recorded
<1>1. ASSUME \/ GetGroup(m) \/ ListGroups(m) \/ CreateGroup(m) \/ CreateGroupRefused(m)
             \/ GetServer(m) \/ ListServers(m) \/ CreateServer(m) \/ CreateServerRefused(m)
             \/ DeleteServer(m) \/ Fails(m)
      PROVE  Calls(m) /\ Answered(m)
  BY <1>0, <1>1, CallSteps, CallAnswers, Zenon
<1>2. ASSUME Succeeds(m) \/ Fails(m) \/ Event(m)
      PROVE  \/ Untouched(m)
             \/ Calls(m) /\ Answered(m)
             \/ Begins(m)
             \/ PatchConditions(m) \/ PatchObject(m) \/ PatchStatus(m)
             \/ CacheSync(m) \/ SetOwnerRef(m) \/ DeleteObject(m)
  BY <1>1, <1>2, BeginAnswers, OtherSteps, Zenon DEF Succeeds, Event
<1> QED BY <1>2, OtherSteps, Zenon DEF Next

(* The events that change the stored or the cached object only.              *)
LEMMA EventSteps ==
    ASSUME TypeOK, NEW m \in Machines
    PROVE  /\ CacheSync(m) =>
                 cache'[m] = obj[m] /\ UNCHANGED <<obj, pc, mem, base, servers>>
           /\ SetOwnerRef(m) =>
                 /\ UNCHANGED <<cache, pc, mem, base, servers>>
                 /\ \A f \in {"phase", "finalizer", "providerID", "serverID", "provisioned",
                              "serverReady"} : obj'[m][f] = obj[m][f]
           /\ DeleteObject(m) =>
                 /\ obj[m].phase = "live"
                 /\ UNCHANGED <<cache, pc, mem, base, servers>>
                 /\ \/ obj'[m] = GoneObject /\ ~obj[m].finalizer
                    \/ /\ obj'[m].phase = "deleting" /\ obj[m].finalizer
                       /\ \A f \in {"finalizer", "providerID", "serverID", "provisioned",
                                    "serverReady"} : obj'[m][f] = obj[m][f]
           /\ Crash =>
                 /\ UNCHANGED <<obj, servers>> /\ cache' = obj
                 /\ pc'[m] = "idle" /\ mem'[m] = NewObject /\ base'[m] = NewObject
<1> USE DEF k8s, local, cloud, gates
<1>o. obj[m] \in Objects
  BY DEF TypeOK
<1>1. CacheSync(m) => cache'[m] = obj[m] /\ UNCHANGED <<obj, pc, mem, base, servers>>
  BY DEF CacheSync, TypeOK
<1>2. ASSUME SetOwnerRef(m)
      PROVE  /\ UNCHANGED <<cache, pc, mem, base, servers>>
             /\ \A f \in {"phase", "finalizer", "providerID", "serverID", "provisioned",
                          "serverReady"} : obj'[m][f] = obj[m][f]
  <2>1. obj'[m] = [obj[m] EXCEPT !.owned = TRUE]
    BY <1>2 DEF SetOwnerRef, TypeOK
  <2> QED BY <1>2, <1>o, <2>1 DEF SetOwnerRef, Objects
<1>3. ASSUME DeleteObject(m)
      PROVE  /\ obj[m].phase = "live"
             /\ UNCHANGED <<cache, pc, mem, base, servers>>
             /\ \/ obj'[m] = GoneObject /\ ~obj[m].finalizer
                \/ /\ obj'[m].phase = "deleting" /\ obj[m].finalizer
                   /\ \A f \in {"finalizer", "providerID", "serverID", "provisioned",
                                "serverReady"} : obj'[m][f] = obj[m][f]
  <2> DEFINE d == [obj[m] EXCEPT !.phase = "deleting"]
  <2>1. /\ obj'[m] = Stored(d) /\ obj[m].phase = "live"
        /\ UNCHANGED <<cache, pc, mem, base, servers>>
    BY <1>3 DEF DeleteObject, TypeOK
  <2>2. /\ d.phase = "deleting"
        /\ \A f \in {"finalizer", "providerID", "serverID", "provisioned", "serverReady"} :
             d[f] = obj[m][f]
    BY <1>o DEF Objects
  <2> HIDE DEF d
  <2> QED BY <2>1, <2>2 DEF Stored
<1>4. Crash => /\ UNCHANGED <<obj, servers>> /\ cache' = obj
               /\ pc'[m] = "idle" /\ mem'[m] = NewObject /\ base'[m] = NewObject
  BY Zenon DEF Crash
<1> QED BY <1>1, <1>2, <1>3, <1>4

(* The three patches, in the fields that the invariants speak of.            *)
LEMMA PatchSteps ==
    ASSUME TypeOK, NEW m \in Machines
    PROVE  /\ PatchConditions(m) =>
                 /\ pc[m] = "patchConditions" /\ pc'[m] = "patchObject"
                 /\ UNCHANGED <<cache, mem, base, servers>>
                 /\ \/ obj'[m] = obj[m]
                    \/ obj[m].phase # "gone" /\ obj'[m] = Stored(MergeConditions(m))
           /\ PatchObject(m) =>
                 /\ pc[m] = "patchObject" /\ pc'[m] = "patchStatus"
                 /\ UNCHANGED <<cache, mem, base, servers>>
                 /\ \/ /\ obj'[m] = obj[m]
                       /\ \/ obj[m].phase = "gone" \/ "patchError" \in Env
                          \/ ~validateMachineSpecUpdate(MergeObject(m), obj[m])
                    \/ /\ obj[m].phase # "gone" /\ obj'[m] = Stored(MergeObject(m))
                       /\ validateMachineSpecUpdate(MergeObject(m), obj[m])
           /\ PatchStatus(m) =>
                 /\ pc[m] = "patchStatus" /\ pc'[m] = "idle"
                 /\ UNCHANGED <<cache, servers>>
                 /\ mem'[m] = NewObject /\ base'[m] = NewObject
                 /\ \/ obj'[m] = obj[m] /\ (obj[m].phase = "gone" \/ "patchError" \in Env)
                    \/ obj[m].phase # "gone" /\ obj'[m] = Stored(MergeStatus(m))
<1> USE DEF k8s, local, cloud, gates
<1>1. PatchConditions(m) =>
         /\ pc[m] = "patchConditions" /\ pc'[m] = "patchObject"
         /\ UNCHANGED <<cache, mem, base, servers>>
         /\ \/ obj'[m] = obj[m]
            \/ obj[m].phase # "gone" /\ obj'[m] = Stored(MergeConditions(m))
  BY Zenon, Patched DEF PatchConditions, Goto, TypeOK
<1>2. PatchObject(m) =>
         /\ pc[m] = "patchObject" /\ pc'[m] = "patchStatus"
         /\ UNCHANGED <<cache, mem, base, servers>>
         /\ \/ /\ obj'[m] = obj[m]
               /\ \/ obj[m].phase = "gone" \/ "patchError" \in Env
                  \/ ~validateMachineSpecUpdate(MergeObject(m), obj[m])
            \/ /\ obj[m].phase # "gone" /\ obj'[m] = Stored(MergeObject(m))
               /\ validateMachineSpecUpdate(MergeObject(m), obj[m])
  <2> SUFFICES ASSUME PatchObject(m)
               PROVE  /\ pc[m] = "patchObject" /\ pc'[m] = "patchStatus"
                      /\ UNCHANGED <<cache, mem, base, servers>>
                      /\ \/ /\ obj'[m] = obj[m]
                            /\ \/ obj[m].phase = "gone" \/ "patchError" \in Env
                               \/ ~validateMachineSpecUpdate(MergeObject(m), obj[m])
                         \/ /\ obj[m].phase # "gone" /\ obj'[m] = Stored(MergeObject(m))
                            /\ validateMachineSpecUpdate(MergeObject(m), obj[m])
    BY Zenon
  <2>1. /\ pc[m] = "patchObject" /\ pc'[m] = "patchStatus"
        /\ UNCHANGED <<cache, mem, base, servers>>
    BY Zenon DEF PatchObject, Goto, TypeOK
  <2>2. Patch(m, MergeObject(m), validateMachineSpecUpdate(MergeObject(m), obj[m]))
    BY Zenon DEF PatchObject
  <2> QED BY Zenon, <2>1, <2>2, Patched
<1>3. PatchStatus(m) =>
         /\ pc[m] = "patchStatus" /\ pc'[m] = "idle"
         /\ UNCHANGED <<cache, servers>>
         /\ mem'[m] = NewObject /\ base'[m] = NewObject
         /\ \/ obj'[m] = obj[m] /\ (obj[m].phase = "gone" \/ "patchError" \in Env)
            \/ obj[m].phase # "gone" /\ obj'[m] = Stored(MergeStatus(m))
  BY Zenon, Patched DEF PatchStatus, Goto, TypeOK
<1> QED BY <1>1, <1>2, <1>3

(* What a reconcile holds at its steps.                                      *)
LEMMA StepInductive ==
    ASSUME TypeOK, StepInv, RecordInv, [Next]_vars
    PROVE  StepInv'
<1> SUFFICES ASSUME NEW m \in Machines
             PROVE  /\ AtStep(mem'[m], pc'[m])
                    /\ pc'[m] = "idle" => base'[m] = NewObject
  BY DEF StepInv
<1>i. AtStep(mem[m], pc[m]) /\ (pc[m] = "idle" => base[m] = NewObject)
  BY DEF StepInv
<1>n. AtStep(NewObject, "idle")
  BY DEF AtStep, NormalSteps
<1>1. CASE Untouched(m)
  BY <1>1, <1>i DEF Untouched
<1>2. CASE Calls(m) /\ Answered(m)
  <2>1. pc[m] # "idle" /\ pc'[m] # "idle"
    BY <1>2 DEF Calls
  <2>2. CASE Keeps(m)
    BY Zenon, <2>1, <2>2 DEF Keeps
  <2>3. CASE Forgets(m)
    BY Zenon, <2>1, <2>3, <1>i DEF Forgets, AtStep, NormalSteps
  <2>4. ASSUME NEW s \in Servers, Learns(m, s) PROVE AtStep(mem'[m], pc'[m])
    BY <2>4 DEF Learns, AtStep, NormalSteps
  <2> QED BY <1>2, <2>1, <2>2, <2>3, <2>4 DEF Answered
<1>3. CASE Begins(m)
  BY Zenon, <1>3 DEF Begins
<1>4. CASE PatchConditions(m) \/ PatchObject(m)
  BY Zenon, <1>4, <1>i, PatchSteps DEF AtStep, NormalSteps
<1>5. CASE PatchStatus(m)
  BY Zenon, <1>5, <1>n, PatchSteps
<1>6. CASE CacheSync(m) \/ SetOwnerRef(m) \/ DeleteObject(m)
  BY Zenon, <1>6, <1>i, EventSteps
<1>7. CASE Crash
  BY Zenon, <1>7, <1>n, EventSteps
<1> QED BY Zenon, <1>1, <1>2, <1>3, <1>4, <1>5, <1>6, <1>7, MachineSteps

(* The facts that hold in any environment.                                   *)
BasicInv == TypeOK /\ StepInv /\ RecordInv

LEMMA BasicInvariant == Spec => []BasicInv
<1>1. Init => StepInv
  <2> SUFFICES ASSUME Init, NEW m \in Machines
               PROVE  AtStep(mem[m], pc[m]) /\ base[m] = NewObject
    BY Zenon DEF StepInv
  <2>1. mem[m] = NewObject /\ base[m] = NewObject /\ pc[m] = "idle"
    BY DEF Init
  <2> QED BY <2>1 DEF AtStep, NormalSteps
<1>2. TypeOK /\ StepInv /\ RecordInv /\ [Next]_vars => StepInv' /\ RecordInv'
  BY StepInductive, RecordInductive
<1> QED BY <1>1, <1>2, RecordInitial, TypeCorrect, PTL DEF Spec, BasicInv
=============================================================================
