------------------------ MODULE MachineIdentityProofs ------------------------
(*****************************************************************************)
(* Which server a machine stands for, for any set of machines, servers and   *)
(* server groups: it is never moved to another server, the provider ID names *)
(* the server of the status, it is published before Provisioned, and a       *)
(* deleted machine leaves no server behind.  Each theorem names the faults   *)
(* that it excludes; with them the property does not hold.                   *)
(*****************************************************************************)
EXTENDS MachineCloseProofs

-----------------------------------------------------------------------------
(* The steps that change a server.                                           *)
LEMMA ServerMoves ==
    ASSUME [Next]_vars
    PROVE  \/ servers' = servers
           \/ \E n \in Machines : \/ CreateServer(n) \/ CreateServerTimeout(n)
                                   \/ DeleteServer(n) \/ DeleteServerFails(n)
           \/ \E s \in Servers : ServerEvent(s)
<1> USE DEF k8s, local, cloud, gates
<1>1. ASSUME NEW n \in Machines, Succeeds(n), ~CreateServer(n), ~DeleteServer(n)
      PROVE  servers' = servers
  BY <1>1, Zenon DEF Succeeds, ReconcileSkip, ReconcileNormal, ReconcileDelete, GetGroup,
              ListGroups, CreateGroup, CreateGroupRefused, GetServer, ListServers,
              CreateServerRefused, PatchConditions, PatchObject, PatchStatus
<1>2. ASSUME NEW n \in Machines, Fails(n), ~CreateServerTimeout(n), ~DeleteServerFails(n)
      PROVE  servers' = servers
  BY <1>2 DEF Fails, CreateGroupTimeout, GroupCallFails, ServerCallFails
<1>3. ASSUME NEW n \in Machines, Event(n) PROVE servers' = servers
  BY <1>3 DEF Event, CacheSync, SetOwnerRef, BootstrapDataReady, Resync, DeleteObject
<1>4. ASSUME NEW g \in Groups, GroupEvent(g) PROVE servers' = servers
  BY <1>4 DEF GroupEvent, PendingGroupLands, PendingGroupLost, GroupDeletedExternally,
              GroupBecomes
<1>5. CASE ClusterProvisioned \/ PauseTransition \/ Crash \/ UNCHANGED vars
  BY <1>5 DEF ClusterProvisioned, PauseTransition, Crash, vars
<1>6. Next \/ UNCHANGED vars
  OBVIOUS
<1> QED BY <1>1, <1>2, <1>3, <1>4, <1>5, <1>6, Zenon DEF Next

(* If no one else deletes servers, a server of m stays until m deletes it.   *)
LEMMA ServersStay ==
    ASSUME BasicInv, [Next]_vars, "external" \notin Env, NEW m \in Machines,
           NEW s \in ServersOf(m), pc[m] # "deleteServer"
    PROVE  s \in ServersOf(m)'
<1> USE DEF k8s, local, cloud, gates, BasicInv
<1>0. s \in Servers /\ servers[s].owner = m /\ servers[s].state \in LiveStates
  BY DEF ServersOf
<1> SUFFICES servers'[s].state \in LiveStates
  BY <1>0, ServersKept DEF ServersOf
<1>1. CASE servers' = servers
  BY <1>0, <1>1
<1>2. ASSUME NEW n \in Machines, DeleteServer(n) \/ DeleteServerFails(n)
      PROVE  servers'[s].state \in LiveStates
  <2>1. n # m /\ servers' \in {servers, Destroy(mem[n].serverID)}
    BY <1>2 DEF DeleteServer, DeleteServerFails
  <2>2. mem[n].serverID # s
    BY <1>0, <2>1, NoneAssumption DEF RecordInv, Recorded, MadeServer
  <2>3. Destroy(mem[n].serverID)[s] = servers[s]
    BY <1>0, <2>2 DEF Destroy, TypeOK
  <2> QED BY <1>0, <2>1, <2>3
<1>3. ASSUME NEW n \in Machines, NEW t \in Servers, NEW state \in ClaimedStates,
             Makes(n, t, state)
      PROVE  servers'[s].state \in LiveStates
  BY <1>0, <1>3 DEF Makes, TypeOK, LiveStates
<1>4. ASSUME NEW n \in Machines, CreateServer(n) \/ CreateServerTimeout(n)
      PROVE  \/ servers' = servers
             \/ \E t \in Servers, state \in ClaimedStates : Makes(n, t, state)
  <2>1. CASE CreateServer(n)
    BY <2>1, Zenon DEF CreateServer, ReturnServer, Return, Goto, ClaimedStates, LiveStates,
                       Makes
  <2>2. CASE CreateServerTimeout(n)
    BY <2>2 DEF CreateServerTimeout, Return, Goto, ClaimedStates, Makes
  <2> QED BY <1>4, <2>1, <2>2
<1>5. ASSUME NEW t \in Servers, ServerEvent(t) PROVE servers'[s].state \in LiveStates
  BY SMTT(30), <1>0, <1>5 DEF ServerEvent, ServerBoots, PendingServerLands, PendingServerLost,
                    ServerStopped, ServerRestarted, ServerDeletedExternally, ServerBecomes,
                    LiveStates, TypeOK
<1> QED BY <1>1, <1>2, <1>3, <1>4, <1>5, ServerMoves

(* Inductive in any environment without outside deletion: whatever is known  *)
(* of m's server, stored, cached or in memory, is one ID; the server is      *)
(* there while m is not being deleted; and nothing is known of a server when *)
(* a create is due.                                                          *)
Ids(o) == {o.serverID, o.providerID} \ {None}
AllIds(m) == Ids(obj[m]) \cup Ids(cache[m]) \cup Ids(mem[m]) \cup Ids(base[m])

Working(m) == cache[m].phase = "live" \/ (pc[m] # "idle" /\ mem[m].phase = "live")

PhaseInv ==
    \A m \in Machines :
        /\ pc[m] # "idle" /\ mem[m].phase = "deleting" => cache[m].phase # "live"
        /\ cache[m].phase # "live" => obj[m].phase # "live"

OneIdentity ==
    \A m \in Machines :
        /\ \A s, t \in AllIds(m) : s = t
        /\ Working(m) => AllIds(m) \subseteq ServersOf(m)
        /\ pc[m] = "createServer" => AllIds(m) = {}

(* Stored, cached and working copies go through the phases in order.         *)
LEMMA PhaseInductive ==
    ASSUME BasicInv, PhaseInv, [Next]_vars
    PROVE  PhaseInv' /\ \A m \in Machines : Working(m)' => Working(m)
<1> SUFFICES ASSUME NEW m \in Machines
             PROVE  /\ pc'[m] # "idle" /\ mem'[m].phase = "deleting" => cache'[m].phase # "live"
                    /\ cache'[m].phase # "live" => obj'[m].phase # "live"
                    /\ Working(m)' => Working(m)
  BY DEF PhaseInv
<1> USE DEF Working
<1>i. /\ pc[m] # "idle" /\ mem[m].phase = "deleting" => cache[m].phase # "live"
      /\ cache[m].phase # "live" => obj[m].phase # "live"
      /\ TypeOK /\ StepInv /\ RecordInv
  BY DEF PhaseInv, BasicInv
<1>g. GoneObject.phase = "gone"
  BY DEF GoneObject, NewObject
<1>s. ASSUME NEW o, o.phase = obj[m].phase PROVE Stored(o).phase \in {obj[m].phase, "gone"}
  BY <1>s, <1>g DEF Stored
<1>1. CASE Untouched(m)
  BY SMTT(30), <1>1, <1>i DEF Untouched
<1>2. CASE Calls(m) /\ Answered(m)
  BY SMTT(30), <1>2, <1>i DEF Calls, Answered, Keeps, Forgets, Learns
<1>3. CASE Begins(m)
  BY <1>3, <1>i DEF Begins
<1>4. CASE PatchConditions(m) \/ PatchObject(m) \/ PatchStatus(m)
  <2>1. \A o \in {MergeConditions(m), MergeObject(m), MergeStatus(m)} :
          o.phase = obj[m].phase
    BY <1>i, Merged
  <2>2. obj'[m].phase \in {obj[m].phase, "gone"}
    BY <1>4, <1>i, <1>s, <2>1, PatchSteps
  <2> QED BY <1>4, <1>i, <2>2, PatchSteps
<1>5. CASE CacheSync(m) \/ SetOwnerRef(m) \/ DeleteObject(m) \/ Crash
  BY <1>5, <1>i, <1>g, EventSteps
<1> QED BY <1>i, <1>1, <1>2, <1>3, <1>4, <1>5, MachineSteps

(* The IDs known of m's server are those known before, and the one that an   *)
(* answer names.                                                             *)
LEMMA KnownIds ==
    ASSUME BasicInv, [Next]_vars, NEW m \in Machines
    PROVE  \/ AllIds(m)' \subseteq AllIds(m)
           \/ \E s \in Servers : Calls(m) /\ Learns(m, s)
                                 /\ AllIds(m)' \subseteq AllIds(m) \cup {s}
<1> USE DEF AllIds, Ids
<1>i. TypeOK /\ StepInv /\ RecordInv
  BY DEF BasicInv
<1>n. Ids(NewObject) = {} /\ Ids(GoneObject) = {}
  BY DEF NewObject, GoneObject
<1>1. CASE Untouched(m)
  BY Zenon, <1>1 DEF Untouched
<1>2. CASE Calls(m) /\ Answered(m)
  <2>1. obj' = obj /\ cache' = cache /\ base' = base
    BY Zenon, <1>2 DEF Calls
  <2>2. CASE Keeps(m)
    <3>1. SameServer(mem[m], mem'[m])
      BY Zenon, <2>2 DEF Keeps
    <3> QED BY <2>1, <3>1 DEF SameServer
  <2>3. CASE Forgets(m)
    <3>1. /\ mem'[m].providerID = mem[m].providerID
          /\ mem'[m].serverID \in {mem[m].serverID, None}
      BY Zenon, <2>3 DEF Forgets
    <3> QED BY <2>1, <3>1
  <2>4. ASSUME NEW s \in Servers, Learns(m, s)
        PROVE  AllIds(m)' \subseteq AllIds(m) \cup {s}
    <3>1. mem'[m].serverID = s /\ mem'[m].providerID = s
      BY Zenon, <2>4 DEF Learns
    <3> QED BY <2>1, <3>1
  <2> HIDE DEF AllIds, Ids
  <2> QED BY Zenon, <1>2, <2>2, <2>3, <2>4 DEF Answered
<1>3. CASE Begins(m)
  BY Zenon, <1>3 DEF Begins, SameServer
<1>4. CASE PatchConditions(m) \/ PatchObject(m) \/ PatchStatus(m)
  <2>1. \A o \in {MergeConditions(m), MergeObject(m), MergeStatus(m)} :
          /\ o.serverID \in {obj[m].serverID, mem[m].serverID}
          /\ o.providerID \in {obj[m].providerID, mem[m].providerID}
    BY <1>i, Merged DEF Merge
  <2>2. \A o \in {MergeConditions(m), MergeObject(m), MergeStatus(m)} :
          Ids(Stored(o)) \subseteq Ids(obj[m]) \cup Ids(mem[m])
    BY <1>n, <2>1 DEF Stored
  <2> HIDE DEF Ids
  <2> QED BY Zenon, <1>4, <1>i, <1>n, <2>2, PatchSteps
<1>5. CASE CacheSync(m) \/ Crash
  BY <1>5, <1>i, <1>n, EventSteps
<1>6. CASE SetOwnerRef(m) \/ DeleteObject(m)
  BY <1>6, <1>i, <1>n, EventSteps
<1> QED BY Zenon, <1>i, <1>1, <1>2, <1>3, <1>4, <1>5, <1>6, MachineSteps

LEMMA OneIdentityInductive ==
    ASSUME "external" \notin Env, BasicInv, PhaseInv, OneIdentity, [Next]_vars
    PROVE  OneIdentity'
<1> SUFFICES ASSUME NEW m \in Machines
             PROVE  /\ \A s, t \in AllIds(m)' : s = t
                    /\ Working(m)' => AllIds(m)' \subseteq ServersOf(m)'
                    /\ pc'[m] = "createServer" => AllIds(m)' = {}
  BY DEF OneIdentity
<1>i. /\ \A s, t \in AllIds(m) : s = t
      /\ Working(m) => AllIds(m) \subseteq ServersOf(m)
      /\ pc[m] = "createServer" => AllIds(m) = {}
      /\ TypeOK /\ StepInv /\ RecordInv
  BY DEF OneIdentity, BasicInv
<1>w. Working(m)' => Working(m)
  BY PhaseInductive
<1>d. Working(m) => pc[m] # "deleteServer"
  BY <1>i DEF Working, PhaseInv, StepInv, AtStep
<1>1. CASE AllIds(m)' \subseteq AllIds(m)
  <2>1. Working(m)' => AllIds(m)' \subseteq ServersOf(m)'
    BY <1>1, <1>i, <1>w, <1>d, ServersStay
  <2>2. ASSUME pc'[m] = "createServer", pc[m] # "createServer" PROVE AllIds(m) = {}
    <3>1. Keeps(m)
      BY Zenon, <2>2, <1>i, MachineSteps, PatchSteps, EventSteps
         DEF Untouched, Begins, Answered, Forgets, Learns
    <3>2. ServersOf(m) = {} /\ Working(m)
      BY Zenon, <2>2, <3>1, <1>i DEF Keeps, Working, StepInv, AtStep, NormalSteps
    <3> QED BY <3>2, <1>i
  <2> QED BY <1>1, <1>i, <2>1, <2>2
<1>2. ASSUME NEW s \in Servers, Calls(m), Learns(m, s), AllIds(m)' \subseteq AllIds(m) \cup {s}
      PROVE  /\ \A t, u \in AllIds(m)' : t = u
             /\ Working(m)' => AllIds(m)' \subseteq ServersOf(m)'
             /\ pc'[m] = "createServer" => AllIds(m)' = {}
  <2>1. Working(m)
    BY <1>2 DEF Learns, Calls, Working
  <2>2. AllIds(m) \subseteq {s}
    <3>1. CASE pc[m] = "getServer" /\ s = mem[m].serverID
      <4>1. s \in AllIds(m)
        BY <3>1, NoneAssumption DEF AllIds, Ids
      <4> QED BY <4>1, <1>i
    <3>2. CASE pc[m] = "listServers" /\ ServersOf(m) = {s}
      BY <2>1, <3>2, <1>i
    <3>3. CASE pc[m] = "createServer"
      BY <3>3, <1>i
    <3> QED BY <1>2, <3>1, <3>2, <3>3 DEF Learns
  <2>3. s \in ServersOf(m)'
    BY <1>2 DEF Learns, ServersOf
  <2>4. pc'[m] # "createServer"
    BY <1>2 DEF Learns
  <2> QED BY <1>2, <2>2, <2>3, <2>4
<1> QED BY <1>1, <1>2, KnownIds

(* The stored server ID is changed by the last patch only, to the one in     *)
(* memory, or with the object.                                               *)
LEMMA StoredServer ==
    ASSUME BasicInv, [Next]_vars, NEW m \in Machines
    PROVE  \/ obj'[m].serverID = obj[m].serverID
           \/ obj'[m] = GoneObject
           \/ /\ pc[m] = "patchStatus" /\ obj[m].phase # "gone"
              /\ mem[m].serverID # base[m].serverID
              /\ obj'[m].serverID = mem[m].serverID
<1>i. TypeOK /\ StepInv /\ RecordInv
  BY DEF BasicInv
<1>1. CASE Untouched(m) \/ Calls(m) \/ Begins(m) \/ CacheSync(m) \/ SetOwnerRef(m) \/ Crash
  BY SMTT(30), <1>1, <1>i, EventSteps DEF Untouched, Calls, Begins
<1>2. CASE DeleteObject(m)
  BY <1>2, <1>i, EventSteps
<1>3. CASE PatchConditions(m) \/ PatchObject(m)
  BY Zenon, <1>3, <1>i, PatchSteps, Merged DEF Stored
<1>4. CASE PatchStatus(m)
  <2>1. /\ pc[m] = "patchStatus"
        /\ \/ obj'[m] = obj[m]
           \/ obj[m].phase # "gone" /\ obj'[m] = Stored(MergeStatus(m))
    BY Zenon, <1>4, <1>i, PatchSteps
  <2>2. MergeStatus(m).serverID = Merge(base[m].serverID, mem[m].serverID, obj[m].serverID)
    BY SMTT(30), <1>i, Merged
  <2>3. \/ MergeStatus(m).serverID = obj[m].serverID
        \/ /\ mem[m].serverID # base[m].serverID
           /\ MergeStatus(m).serverID = mem[m].serverID
    BY Zenon, <2>2 DEF Merge
  <2>4. Stored(MergeStatus(m)) \in {GoneObject, MergeStatus(m)}
    BY Zenon DEF Stored
  <2> QED BY Zenon, <2>1, <2>3, <2>4
<1> QED BY SMTT(30), <1>i, <1>1, <1>2, <1>3, <1>4, MachineSteps

(* Inductive in any environment without stale caches: a reconcile starts     *)
(* from the server ID that is stored and keeps it, or deletes the server.    *)
StartsFresh(o, b, w, step) ==
    /\ step # "idle" /\ o.phase # "gone" => b.serverID = o.serverID
    /\ step # "idle" /\ b.serverID # None => w.serverID \in {b.serverID, None}
    /\ step \in {"listServers", "createServer"} => b.serverID = None

FreshInv ==
    \A m \in Machines :
        /\ obj[m].phase = "gone" => obj[m].serverID = None
        /\ StartsFresh(obj[m], base[m], mem[m], pc[m])
        /\ pc[m] \in NormalSteps => mem[m].serverID = base[m].serverID

LEMMA FreshInductive ==
    ASSUME "stale" \notin Env, BasicInv, FreshInv, [Next]_vars
    PROVE  FreshInv'
<1> SUFFICES ASSUME NEW m \in Machines
             PROVE  /\ obj'[m].phase = "gone" => obj'[m].serverID = None
                    /\ StartsFresh(obj'[m], base'[m], mem'[m], pc'[m])
                    /\ pc'[m] \in NormalSteps => mem'[m].serverID = base'[m].serverID
  BY DEF FreshInv
<1>i. /\ obj[m].phase = "gone" => obj[m].serverID = None
      /\ StartsFresh(obj[m], base[m], mem[m], pc[m])
      /\ pc[m] \in NormalSteps => mem[m].serverID = base[m].serverID
      /\ TypeOK /\ StepInv /\ RecordInv
      /\ AtStep(mem[m], pc[m])
  BY DEF FreshInv, BasicInv, StepInv
<1>g. GoneObject.phase = "gone" /\ GoneObject.serverID = None
  BY DEF GoneObject, NewObject
<1>1. CASE Untouched(m)
  BY <1>1, <1>i DEF Untouched
<1>2. CASE Calls(m) /\ Answered(m)
  <2>1. UNCHANGED <<obj, base>> /\ pc[m] # "idle"
    BY <1>2 DEF Calls
  <2>2. CASE Keeps(m)
    BY SMTT(30), <2>1, <2>2, <1>i DEF Keeps, SameServer, StartsFresh, NormalSteps, AtStep
  <2>3. CASE Forgets(m)
    BY SMTT(30), <2>1, <2>3, <1>i DEF Forgets, StartsFresh, NormalSteps
  <2>4. ASSUME NEW s \in Servers, Learns(m, s)
        PROVE  /\ StartsFresh(obj'[m], base'[m], mem'[m], pc'[m])
               /\ pc'[m] \in NormalSteps => mem'[m].serverID = base'[m].serverID
    BY <2>1, <2>4, <1>i DEF Learns, StartsFresh, NormalSteps
  <2> QED BY SMTT(30), <1>2, <1>i, <2>1, <2>2, <2>3, <2>4 DEF Answered
<1>3. CASE Begins(m)
  BY Zenon, <1>3, <1>i DEF Begins, SameServer, StartsFresh, AtStep
<1>4. CASE PatchConditions(m) \/ PatchObject(m)
  <2>1. \A o \in {MergeConditions(m), MergeObject(m)} :
          o.phase = obj[m].phase /\ o.serverID = obj[m].serverID
    BY SMTT(30), <1>i, Merged
  <2>2. /\ obj'[m].phase # "gone" =>
              obj'[m].phase = obj[m].phase /\ obj'[m].serverID = obj[m].serverID
        /\ obj'[m].phase = "gone" => obj'[m].serverID = None
    BY SMTT(30), <1>4, <1>i, <1>g, <2>1, PatchSteps DEF Stored
  <2> QED BY ZenonT(30), <1>4, <1>i, <2>2, PatchSteps DEF StartsFresh, NormalSteps
<1>5. CASE PatchStatus(m)
  <2>1. MergeStatus(m).phase = obj[m].phase
    BY SMTT(30), <1>i, Merged
  <2>2. obj'[m].phase = "gone" => obj'[m].serverID = None
    BY SMTT(30), <1>5, <1>i, <1>g, <2>1, PatchSteps DEF Stored
  <2> QED BY SMTT(30), <1>5, <1>i, <2>2, PatchSteps DEF StartsFresh, NormalSteps
<1>6. CASE CacheSync(m) \/ SetOwnerRef(m) \/ DeleteObject(m) \/ Crash
  BY <1>6, <1>i, <1>g, EventSteps DEF StartsFresh, NormalSteps
<1> QED BY Zenon, <1>i, <1>1, <1>2, <1>3, <1>4, <1>5, <1>6, MachineSteps

(* Nothing is known, cached or stored at first.                              *)
LEMMA IdentityInitial == Init => PhaseInv /\ OneIdentity /\ FreshInv
<1> SUFFICES ASSUME Init PROVE PhaseInv /\ OneIdentity /\ FreshInv
  BY SMTT(30)
<1>1. ASSUME NEW m \in Machines
      PROVE  /\ cache[m].phase = "live" /\ pc[m] = "idle" /\ AllIds(m) = {}
             /\ obj[m].phase = "live"
  <2>1. /\ obj[m] = NewObject /\ cache[m] = NewObject /\ mem[m] = NewObject
        /\ base[m] = NewObject /\ pc[m] = "idle"
    BY DEF Init
  <2> QED BY <2>1 DEF AllIds, Ids, NewObject
<1>2. PhaseInv
  BY Zenon, <1>1 DEF PhaseInv
<1>3. OneIdentity
  BY Zenon, <1>1 DEF OneIdentity
<1>4. FreshInv
  BY Zenon, <1>1 DEF FreshInv, StartsFresh, NormalSteps
<1> QED BY <1>2, <1>3, <1>4

(* A machine that has recorded a server is never moved to another one, if    *)
(* servers are not deleted by others or caches are not stale: the search by  *)
(* tag finds the recorded server again, or is not made at all.  Crashes,     *)
(* timeouts, late creates and failed patches are allowed.                    *)
THEOREM ServerFinal ==
    ASSUME "external" \notin Env \/ "stale" \notin Env
    PROVE  Spec => ServerIDIsFinal
<1> DEFINE Final == \A m \in Machines : obj[m].serverID # None
                                         => obj'[m].serverID \in {obj[m].serverID, None}
<1>g. GoneObject.serverID = None
  BY DEF GoneObject, NewObject
<1>1. CASE "external" \notin Env
  <2>1. BasicInv /\ PhaseInv /\ OneIdentity /\ [Next]_vars => PhaseInv' /\ OneIdentity'
    BY <1>1, PhaseInductive, OneIdentityInductive
  <2>2. BasicInv /\ OneIdentity /\ [Next]_vars => [Final]_vars
    <3> SUFFICES ASSUME BasicInv, OneIdentity, [Next]_vars, NEW m \in Machines,
                        obj[m].serverID # None
                 PROVE  obj'[m].serverID \in {obj[m].serverID, None}
      OBVIOUS
    <3>1. \A s, t \in AllIds(m) : s = t
      BY DEF OneIdentity
    <3>2. mem[m].serverID \in {obj[m].serverID, None}
      BY <3>1 DEF AllIds, Ids
    <3> QED BY <1>g, <3>2, StoredServer
  <2> QED BY <2>1, <2>2, IdentityInitial, BasicInvariant, PTL DEF Spec, ServerIDIsFinal
<1>2. CASE "stale" \notin Env
  <2>1. BasicInv /\ FreshInv /\ [Next]_vars => FreshInv'
    BY <1>2, FreshInductive
  <2>2. BasicInv /\ FreshInv /\ [Next]_vars => [Final]_vars
    <3> SUFFICES ASSUME BasicInv, FreshInv, [Next]_vars, NEW m \in Machines,
                        obj[m].serverID # None
                 PROVE  obj'[m].serverID \in {obj[m].serverID, None}
      OBVIOUS
    <3>1. pc[m] # "idle" /\ obj[m].phase # "gone" =>
             mem[m].serverID \in {obj[m].serverID, None}
      BY DEF FreshInv, StartsFresh
    <3> QED BY <1>g, <3>1, StoredServer
  <2> QED BY <2>1, <2>2, IdentityInitial, BasicInvariant, PTL DEF Spec, ServerIDIsFinal
<1> QED BY <1>1, <1>2

-----------------------------------------------------------------------------
(* The provider ID is stored, or no one reads it any more.                   *)
Published(o) == o.providerID # None \/ o.phase = "gone"

(* Inductive if every valid patch is taken: an object with a server ID has a *)
(* provider ID; the provider ID of a snapshot or of the cache is stored; and *)
(* so is that in memory when the status is patched.                          *)
Paired(o) == o.serverID # None => o.providerID # None

ProviderInv ==
    \A m \in Machines :
        /\ Paired(obj[m]) /\ Paired(cache[m]) /\ Paired(mem[m]) /\ Paired(base[m])
        /\ cache[m].providerID # None => Published(obj[m])
        /\ base[m].providerID # None => Published(obj[m])
        /\ pc[m] = "patchStatus" /\ mem[m].providerID # None => Published(obj[m])

(* A stored provider ID stays, and the second patch stores the one in        *)
(* memory.                                                                   *)
LEMMA PublishedStays ==
    ASSUME BasicInv, [Next]_vars, NEW m \in Machines
    PROVE  /\ Published(obj[m]) => Published(obj'[m])
           /\ /\ "patchError" \notin Env
              /\ pc[m] = "patchObject" /\ pc'[m] = "patchStatus"
              /\ mem[m].providerID # None
              /\ base[m].providerID # None => Published(obj[m])
              => Published(obj'[m])
<1> USE DEF Published
<1>i. TypeOK /\ StepInv /\ RecordInv
  BY DEF BasicInv
<1>g. GoneObject.phase = "gone" /\ GoneObject.providerID = None
  BY DEF GoneObject, NewObject
<1>1. CASE Untouched(m) \/ Calls(m) \/ Begins(m) \/ CacheSync(m) \/ Crash
  BY Zenon, <1>1, <1>i, EventSteps DEF Untouched, Calls, Begins
<1>2. CASE SetOwnerRef(m) \/ DeleteObject(m)
  BY <1>2, <1>i, <1>g, EventSteps
<1>3. CASE PatchConditions(m) \/ PatchStatus(m)
  <2>1. \A o \in {MergeConditions(m), MergeStatus(m)} :
          o.phase = obj[m].phase /\ o.providerID = obj[m].providerID
    BY <1>i, Merged
  <2>2. \A o \in {MergeConditions(m), MergeStatus(m)} :
          Published(obj[m]) => Published(Stored(o))
    BY SMTT(30), <1>g, <2>1 DEF Stored
  <2> HIDE DEF Published
  <2> QED BY <1>3, <1>i, <2>2, PatchSteps
<1>4. CASE PatchObject(m)
  <2>1. /\ MergeObject(m).phase = obj[m].phase
        /\ MergeObject(m).providerID
             = Merge(base[m].providerID, mem[m].providerID, obj[m].providerID)
    BY <1>i, Merged
  <2>2. Published(MergeObject(m)) => Published(Stored(MergeObject(m)))
    BY <1>g DEF Stored
  <2>3. /\ validateMachineSpecUpdate(MergeObject(m), obj[m]) /\ Published(obj[m])
           => Published(MergeObject(m))
        /\ ~validateMachineSpecUpdate(MergeObject(m), obj[m]) => Published(obj[m])
    BY <2>1 DEF validateMachineSpecUpdate
  <2>4. mem[m].providerID # None /\ (base[m].providerID # None => Published(obj[m]))
           => Published(MergeObject(m))
    BY <2>1 DEF Merge
  <2>5. obj[m].phase = "gone" => Published(obj[m])
    OBVIOUS
  <2> HIDE DEF Published
  <2> QED BY SMTT(30), <1>4, <1>i, <2>2, <2>3, <2>4, <2>5, PatchSteps
<1> QED BY Zenon, <1>i, <1>1, <1>2, <1>3, <1>4, MachineSteps

LEMMA ProviderInductive ==
    ASSUME "patchError" \notin Env, BasicInv, ProviderInv, [Next]_vars
    PROVE  ProviderInv'
<1> SUFFICES ASSUME NEW m \in Machines
             PROVE  /\ Paired(obj'[m]) /\ Paired(cache'[m])
                    /\ Paired(mem'[m]) /\ Paired(base'[m])
                    /\ cache'[m].providerID # None => Published(obj'[m])
                    /\ base'[m].providerID # None => Published(obj'[m])
                    /\ pc'[m] = "patchStatus" /\ mem'[m].providerID # None
                          => Published(obj'[m])
  BY Zenon DEF ProviderInv
<1>i. /\ Paired(obj[m]) /\ Paired(cache[m]) /\ Paired(mem[m]) /\ Paired(base[m])
      /\ cache[m].providerID # None => Published(obj[m])
      /\ base[m].providerID # None => Published(obj[m])
      /\ pc[m] = "patchStatus" /\ mem[m].providerID # None => Published(obj[m])
      /\ TypeOK /\ StepInv /\ RecordInv
  BY DEF ProviderInv, BasicInv
<1>p. /\ Published(obj[m]) => Published(obj'[m])
      /\ /\ pc[m] = "patchObject" /\ pc'[m] = "patchStatus"
         /\ mem[m].providerID # None
         /\ base[m].providerID # None => Published(obj[m])
         => Published(obj'[m])
  BY PublishedStays
<1>n. /\ Paired(NewObject) /\ NewObject.providerID = None
      /\ Paired(GoneObject) /\ GoneObject.providerID = None
  BY DEF NewObject, GoneObject, Paired
<1>o. obj[m].providerID # None => Published(obj[m])
  BY DEF Published
<1>1. CASE Untouched(m)
  BY <1>1, <1>i DEF Untouched
<1>2. CASE Calls(m) /\ Answered(m)
  <2>1. UNCHANGED <<obj, cache, base>> /\ pc'[m] # "patchStatus"
    BY <1>2 DEF Calls
  <2>2. Paired(mem'[m])
    BY ZenonT(30), <1>2, <1>i, NoneAssumption DEF Answered, Keeps, Forgets, Learns, SameServer, Paired
  <2> QED BY <1>i, <2>1, <2>2
<1>3. CASE Begins(m)
  BY SMTT(30), <1>3, <1>i DEF Begins, SameServer, Paired
<1>4. CASE PatchConditions(m)
  <2>1. MergeConditions(m).serverID = obj[m].serverID
        /\ MergeConditions(m).providerID = obj[m].providerID
    BY <1>i, Merged
  <2>2. Paired(Stored(MergeConditions(m)))
    BY SMTT(30), <1>i, <1>n, <2>1 DEF Stored, Paired
  <2> QED BY SMTT(30), <1>4, <1>i, <1>p, <2>2, PatchSteps
<1>5. CASE PatchObject(m)
  <2>1. MergeObject(m).serverID = obj[m].serverID
    BY ZenonT(30), <1>i, Merged
  <2>2. validateMachineSpecUpdate(MergeObject(m), obj[m]) => Paired(Stored(MergeObject(m)))
    BY SMTT(30), <1>i, <1>n, <2>1 DEF Stored, Paired, validateMachineSpecUpdate
  <2> QED BY <1>5, <1>i, <1>p, <2>2, PatchSteps
<1>6. CASE PatchStatus(m)
  <2>1. /\ MergeStatus(m).phase = obj[m].phase
        /\ MergeStatus(m).serverID \in {obj[m].serverID, mem[m].serverID}
        /\ MergeStatus(m).providerID = obj[m].providerID
    BY ZenonT(30), <1>i, Merged DEF Merge
  <2>2. pc[m] = "patchStatus" /\ obj[m].phase # "gone" => Paired(MergeStatus(m))
    BY <1>i, <2>1 DEF Paired, Published
  <2>3. Paired(MergeStatus(m)) => Paired(Stored(MergeStatus(m)))
    BY <1>n DEF Stored
  <2> QED BY <1>6, <1>i, <1>n, <1>p, <2>2, <2>3, PatchSteps
<1>7. CASE CacheSync(m) \/ Crash
  BY Zenon, <1>7, <1>i, <1>n, <1>o, EventSteps
<1>8. CASE SetOwnerRef(m) \/ DeleteObject(m)
  <2>1. Paired(obj'[m])
    BY <1>8, <1>i, <1>n, EventSteps DEF Paired
  <2> QED BY Zenon, <1>8, <1>i, <1>p, <2>1, EventSteps
<1> QED BY Zenon, <1>i, <1>1, <1>2, <1>3, <1>4, <1>5, <1>6, <1>7, <1>8, MachineSteps

(* Inductive if no reconcile starts from a stale cache, is cut short or      *)
(* fails to store a valid patch: server ID and provider ID are recorded      *)
(* together, so that the snapshot tells both.                                *)
Twin(o) == o.serverID = o.providerID

Pairs(o, b, w, step) ==
    /\ step = "idle" /\ o.phase = "live" => Twin(o)
    /\ o.serverID # None => Twin(o)
    /\ step # "idle" /\ w.phase = "live" => Twin(b) /\ Twin(w)
    /\ step # "idle" /\ o.phase # "gone" =>
          IF step = "patchStatus" THEN o.providerID = w.providerID
                                  ELSE o.providerID = b.providerID
    /\ b.providerID # None => w.providerID = b.providerID
    /\ step # "idle" /\ w.phase = "deleting" => w.serverID \in {b.serverID, None}

TwinInv == \A m \in Machines : Pairs(obj[m], base[m], mem[m], pc[m])

LEMMA TwinInductive ==
    ASSUME {"crash", "stale", "patchError"} \cap Env = {},
           BasicInv, PhaseInv, FreshInv, TwinInv, [Next]_vars
    PROVE  TwinInv'
<1> SUFFICES ASSUME NEW m \in Machines
             PROVE  Pairs(obj'[m], base'[m], mem'[m], pc'[m])
  BY ZenonT(30) DEF TwinInv
<1>i. /\ Pairs(obj[m], base[m], mem[m], pc[m])
      /\ StartsFresh(obj[m], base[m], mem[m], pc[m])
      /\ pc[m] \in NormalSteps => mem[m].serverID = base[m].serverID
      /\ TypeOK /\ StepInv /\ RecordInv
      /\ AtStep(mem[m], pc[m])
      /\ pc[m] # "idle" /\ mem[m].phase = "deleting" => obj[m].phase # "live"
  BY DEF TwinInv, FreshInv, BasicInv, StepInv, PhaseInv
<1>g. /\ GoneObject.phase = "gone" /\ GoneObject.serverID = None
      /\ NewObject.serverID = None /\ NewObject.providerID = None
  BY DEF GoneObject, NewObject
<1>1. CASE Untouched(m)
  BY <1>1, <1>i DEF Untouched
<1>2. CASE Calls(m) /\ Answered(m)
  <2>1. UNCHANGED <<obj, base>> /\ pc[m] # "idle" /\ pc'[m] # "idle"
        /\ pc[m] # "patchStatus" /\ pc'[m] # "patchStatus"
    BY Zenon, <1>2 DEF Calls, Answered, Keeps, Forgets, Learns, NormalSteps
  <2>2. CASE Keeps(m)
    BY Zenon, <2>1, <2>2, <1>i DEF Keeps, SameServer, Pairs, Twin
  <2>3. CASE Forgets(m)
    BY Zenon, <2>1, <2>3, <1>i DEF Forgets, Pairs, AtStep
  <2>4. ASSUME NEW s \in Servers, Learns(m, s)
        PROVE  Pairs(obj'[m], base'[m], mem'[m], pc'[m])
    <3>1. base[m].providerID # None => s = base[m].providerID
      BY <2>1, <2>4, <1>i DEF Learns, Pairs, Twin, NormalSteps, StartsFresh
    <3> QED BY ZenonT(30), <2>1, <2>4, <3>1, <1>i DEF Learns, Pairs, Twin
  <2> QED BY <1>2, <2>2, <2>3, <2>4 DEF Answered
<1>3. CASE Begins(m)
  BY Zenon, <1>3, <1>i DEF Begins, SameServer, Pairs, Twin
<1>4. CASE PatchConditions(m)
  <2>1. /\ MergeConditions(m).phase = obj[m].phase
        /\ MergeConditions(m).serverID = obj[m].serverID
        /\ MergeConditions(m).providerID = obj[m].providerID
    BY Zenon, <1>i, Merged
  <2> QED BY Zenon, <1>4, <1>i, <1>g, <2>1, PatchSteps DEF Stored, Pairs, Twin
<1>5. CASE PatchObject(m)
  <2>1. /\ MergeObject(m).phase = obj[m].phase
        /\ MergeObject(m).serverID = obj[m].serverID
        /\ MergeObject(m).providerID
             = Merge(base[m].providerID, mem[m].providerID, obj[m].providerID)
    BY Zenon, <1>i, Merged
  <2>2. pc[m] = "patchObject" /\ pc'[m] = "patchStatus"
        /\ UNCHANGED <<cache, mem, base, servers>>
    BY Zenon, <1>5, <1>i, PatchSteps
  <2>3. obj[m].phase # "gone" => MergeObject(m).providerID = mem[m].providerID
    BY Zenon, <1>i, <2>1, <2>2 DEF Merge, Pairs
  <2>4. obj[m].phase # "gone" => validateMachineSpecUpdate(MergeObject(m), obj[m])
    BY SMTT(30), <1>i, <2>2, <2>3 DEF validateMachineSpecUpdate, Pairs
  <2>5. \/ obj[m].phase = "gone" /\ obj'[m] = obj[m]
        \/ obj[m].phase # "gone" /\ obj'[m] = Stored(MergeObject(m))
    BY Zenon, <1>5, <1>i, <2>4, PatchSteps
  <2>6. obj[m].phase # "gone" /\ obj[m].serverID # None => MergeObject(m).serverID = MergeObject(m).providerID
    BY Zenon, <1>i, <2>1, <2>2, <2>3, <2>4 DEF Pairs, Twin, validateMachineSpecUpdate
  <2> QED BY Zenon, <1>i, <1>g, <2>1, <2>2, <2>3, <2>5, <2>6 DEF Stored, Pairs, Twin
<1>6. CASE PatchStatus(m)
  <2>1. /\ MergeStatus(m).phase = obj[m].phase
        /\ MergeStatus(m).serverID = Merge(base[m].serverID, mem[m].serverID, obj[m].serverID)
        /\ MergeStatus(m).providerID = obj[m].providerID
    BY Zenon, <1>i, Merged
  <2>2. /\ pc[m] = "patchStatus" /\ pc'[m] = "idle"
        /\ mem'[m] = NewObject /\ base'[m] = NewObject
        /\ \/ obj[m].phase = "gone" /\ obj'[m] = obj[m]
           \/ obj[m].phase # "gone" /\ obj'[m] = Stored(MergeStatus(m))
    BY ZenonT(30), <1>6, <1>i, PatchSteps
  <2>3. obj[m].phase # "gone" =>
          /\ MergeStatus(m).serverID = mem[m].serverID
          /\ MergeStatus(m).providerID = mem[m].providerID
    BY SMTT(30), <1>i, <2>1, <2>2 DEF Merge, StartsFresh, Pairs
  <2>4. mem[m].phase = "live" => Twin(mem[m])
    BY SMTT(30), <1>i, <2>2 DEF Pairs
  <2>5. mem[m].phase \in {"live", "deleting"}
    BY SMTT(30), <1>i, <2>2 DEF AtStep
  <2>6. mem[m].phase = "deleting" /\ mem[m].serverID # None =>
          mem[m].serverID = base[m].serverID
    BY <1>i, <2>2 DEF Pairs
  <2>7. obj[m].phase # "gone" /\ MergeStatus(m).serverID # None => Twin(MergeStatus(m))
    BY Zenon, <1>i, <2>1, <2>2, <2>3, <2>4, <2>5, <2>6 DEF Pairs, Twin, StartsFresh
  <2>8. obj[m].phase = "live" => Twin(MergeStatus(m))
    BY Zenon, <1>i, <2>2, <2>3, <2>4, <2>5 DEF Twin
  <2> QED BY Zenon, <1>i, <1>g, <2>1, <2>2, <2>7, <2>8 DEF Stored, Pairs, Twin
<1>7. CASE CacheSync(m) \/ SetOwnerRef(m) \/ DeleteObject(m)
  BY Zenon, <1>7, <1>i, <1>g, EventSteps DEF Pairs, Twin
<1>8. ~Crash
  BY DEF Crash
<1> QED BY Zenon, <1>i, <1>1, <1>2, <1>3, <1>4, <1>5, <1>6, <1>7, <1>8, MachineSteps

LEMMA ProviderInitial == Init => ProviderInv /\ TwinInv
<1> SUFFICES ASSUME Init PROVE ProviderInv /\ TwinInv
  OBVIOUS
<1>1. ASSUME NEW m \in Machines
      PROVE  /\ obj[m] = NewObject /\ cache[m] = NewObject /\ mem[m] = NewObject
             /\ base[m] = NewObject /\ pc[m] = "idle"
  BY DEF Init
<1>2. NewObject.serverID = None /\ NewObject.providerID = None
  BY DEF NewObject
<1>3. ProviderInv
  BY Zenon, <1>1, <1>2 DEF ProviderInv, Paired
<1>4. TwinInv
  BY Zenon, <1>1, <1>2 DEF TwinInv, Pairs, Twin
<1> QED BY <1>3, <1>4

(* The stored provider ID names the server of the status, if every valid     *)
(* patch is taken and servers are not deleted by others while the controller *)
(* crashes or its caches are stale.                                          *)
THEOREM IdentitiesAgree ==
    ASSUME "patchError" \notin Env,
           "external" \notin Env \/ {"crash", "stale"} \cap Env = {}
    PROVE  Spec => []IdentityAgrees
<1>1. CASE "external" \notin Env
  <2>1. BasicInv /\ PhaseInv /\ OneIdentity /\ ProviderInv /\ [Next]_vars
           => PhaseInv' /\ OneIdentity' /\ ProviderInv'
    BY <1>1, PhaseInductive, OneIdentityInductive, ProviderInductive
  <2>2. OneIdentity /\ ProviderInv => IdentityAgrees
    <3> SUFFICES ASSUME OneIdentity, ProviderInv, NEW m \in Machines,
                        obj[m].serverID # None
                 PROVE  obj[m].providerID = obj[m].serverID
      BY DEF IdentityAgrees
    <3>1. obj[m].providerID # None /\ \A s, t \in AllIds(m) : s = t
      BY DEF ProviderInv, Paired, OneIdentity
    <3> QED BY <3>1 DEF AllIds, Ids
  <2> QED BY <2>1, <2>2, IdentityInitial, ProviderInitial, BasicInvariant, PTL DEF Spec
<1>2. CASE {"crash", "stale"} \cap Env = {}
  <2>1. BasicInv /\ PhaseInv /\ FreshInv /\ TwinInv /\ [Next]_vars
           => PhaseInv' /\ FreshInv' /\ TwinInv'
    BY <1>2, PhaseInductive, FreshInductive, TwinInductive
  <2>2. TwinInv => IdentityAgrees
    BY DEF TwinInv, Pairs, Twin, IdentityAgrees
  <2> QED BY <2>1, <2>2, IdentityInitial, ProviderInitial, BasicInvariant, PTL DEF Spec
<1> QED BY <1>1, <1>2

-----------------------------------------------------------------------------
(* The ServerReady condition is stored by the first patch only.              *)
LEMMA StoredReady ==
    ASSUME BasicInv, [Next]_vars, NEW m \in Machines, IsServerReady(obj'[m])
    PROVE  \/ IsServerReady(obj[m])
           \/ PatchConditions(m) /\ IsServerReady(mem[m])
<1> USE DEF IsServerReady
<1>i. TypeOK /\ StepInv /\ RecordInv /\ obj[m] \in Objects
  BY DEF BasicInv, TypeOK
<1>g. GoneObject.serverReady = "Unset"
  BY DEF GoneObject, NewObject
<1>1. CASE Untouched(m) \/ Calls(m) \/ Begins(m) \/ CacheSync(m) \/ SetOwnerRef(m) \/ Crash
  BY Zenon, <1>1, <1>i, EventSteps DEF Untouched, Calls, Begins
<1>2. CASE DeleteObject(m)
  BY Zenon, <1>2, <1>i, <1>g, EventSteps
<1>3. CASE PatchConditions(m)
  <2>1. MergeConditions(m).serverReady \in {obj[m].serverReady, mem[m].serverReady}
    BY <1>i DEF MergeConditions, Merge, Objects
  <2> QED BY Zenon, <1>3, <1>i, <1>g, <2>1, PatchSteps DEF Stored
<1>4. CASE PatchObject(m) \/ PatchStatus(m)
  <2>1. /\ MergeObject(m).serverReady = obj[m].serverReady
        /\ MergeStatus(m).serverReady = obj[m].serverReady
    BY SMTT(30), <1>i DEF MergeObject, MergeStatus, Objects
  <2> QED BY Zenon, <1>4, <1>i, <1>g, <2>1, PatchSteps DEF Stored
<1> QED BY <1>i, <1>1, <1>2, <1>3, <1>4, MachineSteps

(* Inductive in any environment without outside deletion: a machine that is  *)
(* not being deleted and was once found running has its server, so that no   *)
(* create is due.                                                            *)
ReadyInv ==
    \A m \in Machines :
        /\ Working(m) /\ (IsServerReady(obj[m]) \/ IsServerReady(cache[m])
                          \/ IsServerReady(mem[m]))
              => ServersOf(m) # {}
        /\ pc[m] = "createServer" => ~IsServerReady(mem[m])

LEMMA ReadyInductive ==
    ASSUME "external" \notin Env, BasicInv, PhaseInv, ReadyInv, [Next]_vars
    PROVE  ReadyInv'
<1> DEFINE R(m) == IsServerReady(obj[m]) \/ IsServerReady(cache[m]) \/ IsServerReady(mem[m])
<1> SUFFICES ASSUME NEW m \in Machines
             PROVE  /\ Working(m)' /\ R(m)' => ServersOf(m)' # {}
                    /\ pc'[m] = "createServer" => ~IsServerReady(mem'[m])
  BY Zenon DEF ReadyInv
<1>i. /\ Working(m) /\ R(m) => ServersOf(m) # {}
      /\ pc[m] = "createServer" => ~IsServerReady(mem[m])
      /\ TypeOK /\ StepInv /\ RecordInv /\ AtStep(mem[m], pc[m])
  BY DEF ReadyInv, BasicInv, StepInv
<1>n. ~IsServerReady(NewObject)
  BY DEF NewObject, IsServerReady
<1>w. Working(m)' => Working(m) /\ pc[m] # "deleteServer"
  BY SMTT(30), <1>i, PhaseInductive DEF Working, PhaseInv, AtStep
<1>s. ASSUME Working(m)', R(m) PROVE ServersOf(m)' # {}
  BY <1>i, <1>w, <1>s, ServersStay
<1>1. ASSUME R(m)', ~R(m)
      PROVE  \E s \in Servers : Learns(m, s)
  <2>1. CASE Untouched(m)
    BY <1>1, <2>1 DEF Untouched
  <2>2. CASE Calls(m) /\ Answered(m)
    BY Zenon, <1>1, <2>2 DEF Calls, Answered, Keeps, Forgets
  <2>3. CASE Begins(m)
    BY Zenon, <1>1, <2>3 DEF Begins
  <2>4. CASE PatchConditions(m) \/ PatchObject(m) \/ PatchStatus(m)
    BY Zenon, <1>1, <2>4, <1>i, <1>n, StoredReady, PatchSteps
  <2>5. CASE CacheSync(m) \/ SetOwnerRef(m) \/ DeleteObject(m) \/ Crash
    BY Zenon, <1>1, <2>5, <1>i, <1>n, StoredReady, EventSteps
  <2> QED BY ZenonT(30), <1>i, <2>1, <2>2, <2>3, <2>4, <2>5, MachineSteps
<1>2. ASSUME NEW s \in Servers, Learns(m, s) PROVE ServersOf(m)' # {}
  BY <1>2 DEF Learns, ServersOf
<1>3. ASSUME pc'[m] = "createServer" PROVE ~IsServerReady(mem'[m])
  <2>1. CASE Keeps(m)
    <3>1. ServersOf(m) = {} /\ Working(m) /\ pc[m] # "idle"
      BY <1>3, <2>1, <1>i DEF Keeps, Working, AtStep, NormalSteps
    <3> QED BY SMTT(30), <1>i, <2>1, <3>1 DEF Keeps
  <2>2. CASE ~Keeps(m)
    <3>1. pc[m] = "createServer" /\ mem'[m] = mem[m]
      BY Zenon, <1>3, <2>2, <1>i, MachineSteps, PatchSteps, EventSteps
         DEF Untouched, Begins, Answered, Forgets, Learns
    <3> QED BY <1>i, <3>1
  <2> QED BY SMTT(30), <2>1, <2>2
<1> HIDE DEF R
<1> QED BY <1>s, <1>1, <1>2, <1>3

(* Inductive without crashes, if every valid patch is taken: a machine is    *)
(* called ready only with the provider ID known, which the next patch        *)
(* stores.                                                                   *)
ReadyKnownInv ==
    \A m \in Machines :
        /\ IsServerReady(obj[m]) \/ IsServerReady(cache[m]) =>
              \/ Published(obj[m])
              \/ pc[m] = "patchObject" /\ mem[m].providerID # None
        /\ IsServerReady(mem[m]) => Published(obj[m]) \/ mem[m].providerID # None

LEMMA ReadyKnownInductive ==
    ASSUME {"crash", "patchError"} \cap Env = {},
           BasicInv, ProviderInv, ReadyKnownInv, [Next]_vars
    PROVE  ReadyKnownInv'
<1> SUFFICES ASSUME NEW m \in Machines
             PROVE  /\ IsServerReady(obj'[m]) \/ IsServerReady(cache'[m]) =>
                          \/ Published(obj'[m])
                          \/ pc'[m] = "patchObject" /\ mem'[m].providerID # None
                    /\ IsServerReady(mem'[m]) =>
                          Published(obj'[m]) \/ mem'[m].providerID # None
  BY DEF ReadyKnownInv
<1>i. /\ IsServerReady(obj[m]) \/ IsServerReady(cache[m]) =>
            \/ Published(obj[m])
            \/ pc[m] = "patchObject" /\ mem[m].providerID # None
      /\ IsServerReady(mem[m]) => Published(obj[m]) \/ mem[m].providerID # None
      /\ base[m].providerID # None => Published(obj[m])
      /\ TypeOK /\ StepInv /\ RecordInv
  BY DEF ReadyKnownInv, BasicInv, ProviderInv
<1>p. /\ Published(obj[m]) => Published(obj'[m])
      /\ PatchObject(m) /\ mem[m].providerID # None => Published(obj'[m])
  BY Zenon, <1>i, PublishedStays, PatchSteps
<1>n. ~IsServerReady(NewObject)
  BY DEF NewObject, IsServerReady
<1>1. CASE Untouched(m)
  BY <1>1, <1>i DEF Untouched
<1>2. CASE Calls(m) /\ Answered(m)
  <2>1. UNCHANGED <<obj, cache>> /\ pc[m] # "patchObject"
    BY Zenon, <1>2 DEF Calls
  <2>2. IsServerReady(mem'[m]) => Published(obj'[m]) \/ mem'[m].providerID # None
    BY <1>2, <1>i, <1>p, NoneAssumption DEF Answered, Keeps, Forgets, Learns, SameServer
  <2> QED BY <1>i, <1>p, <2>1, <2>2
<1>3. CASE Begins(m)
  BY Zenon, <1>3, <1>i, <1>p DEF Begins
<1>4. CASE PatchConditions(m)
  BY Zenon, <1>4, <1>i, <1>p, StoredReady, PatchSteps
<1>5. CASE PatchObject(m) \/ PatchStatus(m)
  <2>1. ~PatchConditions(m)
    BY Zenon, <1>5, <1>i, PatchSteps
  <2> QED BY Zenon, <1>5, <1>i, <1>p, <1>n, <2>1, StoredReady, PatchSteps
<1>6. CASE CacheSync(m) \/ SetOwnerRef(m) \/ DeleteObject(m)
  <2>1. UNCHANGED <<pc, mem>> /\ cache'[m] \in {cache[m], obj[m]}
    BY Zenon, <1>6, <1>i, EventSteps
  <2>2. ~PatchConditions(m) \/ obj'[m] = obj[m]
    BY Zenon, <1>6, <1>i, EventSteps, PatchSteps
  <2>3. IsServerReady(obj'[m]) => IsServerReady(obj[m])
    BY <2>2, StoredReady
  <2> QED BY Zenon, <1>i, <1>p, <2>1, <2>3
<1>7. ~Crash
  BY DEF Crash
<1> QED BY ZenonT(30), <1>i, <1>1, <1>2, <1>3, <1>4, <1>5, <1>6, <1>7, MachineSteps

(* Inductive with the fact below: Provisioned is set only on an object whose *)
(* provider ID is known or stored.                                           *)
ProvidedInv ==
    \A m \in Machines :
        /\ obj[m].provisioned => obj[m].providerID # None
        /\ cache[m].provisioned \/ base[m].provisioned => Published(obj[m])
        /\ mem[m].provisioned => Published(obj[m]) \/ mem[m].providerID # None

(* A create that times out keeps the condition of the object in memory, and  *)
(* Provisioned follows it.                                                   *)
TimeoutIsSafe ==
    \A m \in Machines :
        "timeout" \in Env /\ pc[m] = "createServer" /\ IsServerReady(mem[m])
           => Published(obj[m]) \/ mem[m].providerID # None

LEMMA ProvidedInductive ==
    ASSUME "patchError" \notin Env, TimeoutIsSafe, BasicInv, ProviderInv, ProvidedInv,
           [Next]_vars
    PROVE  ProvidedInv'
<1> SUFFICES ASSUME NEW m \in Machines
             PROVE  /\ obj'[m].provisioned => obj'[m].providerID # None
                    /\ cache'[m].provisioned \/ base'[m].provisioned => Published(obj'[m])
                    /\ mem'[m].provisioned =>
                          Published(obj'[m]) \/ mem'[m].providerID # None
  BY Zenon DEF ProvidedInv
<1>i. /\ obj[m].provisioned => obj[m].providerID # None
      /\ cache[m].provisioned \/ base[m].provisioned => Published(obj[m])
      /\ mem[m].provisioned => Published(obj[m]) \/ mem[m].providerID # None
      /\ pc[m] = "patchStatus" /\ mem[m].providerID # None => Published(obj[m])
      /\ "timeout" \in Env /\ pc[m] = "createServer" /\ IsServerReady(mem[m])
           => Published(obj[m]) \/ mem[m].providerID # None
      /\ TypeOK /\ StepInv /\ RecordInv
  BY DEF ProvidedInv, ProviderInv, BasicInv, TimeoutIsSafe
<1>p. Published(obj[m]) => Published(obj'[m])
  BY PublishedStays
<1>n. /\ NewObject.provisioned = FALSE /\ GoneObject.provisioned = FALSE
  BY SMTT(30) DEF NewObject, GoneObject
<1>1. CASE Untouched(m)
  BY <1>1, <1>i DEF Untouched
<1>2. CASE Calls(m) /\ Answered(m)
  <2>1. UNCHANGED <<obj, cache, base>>
    BY <1>2 DEF Calls
  <2>2. mem'[m].provisioned => Published(obj[m]) \/ mem'[m].providerID # None
    BY Zenon, <1>2, <1>i, NoneAssumption DEF Answered, Keeps, Forgets, Learns, SameServer
  <2> QED BY <1>i, <2>1, <2>2
<1>3. CASE Begins(m)
  BY Zenon, <1>3, <1>i DEF Begins
<1>4. CASE PatchConditions(m) \/ PatchObject(m)
  <2>1. /\ \A o \in {MergeConditions(m), MergeObject(m)} : o.provisioned = obj[m].provisioned
        /\ MergeConditions(m).providerID = obj[m].providerID
    BY <1>i, Merged
  <2>2. obj'[m].provisioned => obj'[m].providerID # None
    BY Zenon, <1>4, <1>i, <1>n, <2>1, PatchSteps DEF Stored, validateMachineSpecUpdate
  <2> QED BY ZenonT(30), <1>4, <1>i, <1>p, <2>2, PatchSteps
<1>5. CASE PatchStatus(m)
  <2>1. /\ MergeStatus(m).phase = obj[m].phase
        /\ MergeStatus(m).provisioned \in {obj[m].provisioned, mem[m].provisioned}
        /\ MergeStatus(m).providerID = obj[m].providerID
    BY <1>i, Merged DEF Merge
  <2>2. pc[m] = "patchStatus" /\ mem[m].provisioned => Published(obj[m])
    BY <1>i
  <2>3. obj'[m].provisioned => obj'[m].providerID # None
    BY Zenon, <1>5, <1>i, <1>n, <2>1, <2>2, PatchSteps DEF Stored, Published
  <2> QED BY ZenonT(30), <1>5, <1>i, <1>p, <1>n, <2>3, PatchSteps
<1>6. CASE CacheSync(m) \/ Crash
  <2>1. obj'[m] = obj[m] /\ (obj[m].provisioned => Published(obj[m]))
    BY SMTT(30), <1>6, <1>i, EventSteps DEF Published
  <2> QED BY ZenonT(30), <1>6, <1>i, <1>n, <2>1, EventSteps
<1>7. CASE SetOwnerRef(m) \/ DeleteObject(m)
  <2>1. obj'[m].provisioned => obj'[m].providerID # None
    BY Zenon, <1>7, <1>i, <1>n, EventSteps
  <2> QED BY <1>7, <1>i, <1>p, <2>1, EventSteps
<1> QED BY Zenon, <1>i, <1>1, <1>2, <1>3, <1>4, <1>5, <1>6, <1>7, MachineSteps

LEMMA ReadyInitial == Init => ProvidedInv /\ ReadyInv /\ ReadyKnownInv
<1> SUFFICES ASSUME Init PROVE ProvidedInv /\ ReadyInv /\ ReadyKnownInv
  OBVIOUS
<1>1. ASSUME NEW m \in Machines
      PROVE  /\ obj[m] = NewObject /\ cache[m] = NewObject /\ mem[m] = NewObject
             /\ base[m] = NewObject /\ pc[m] = "idle"
  BY DEF Init
<1>2. NewObject.provisioned = FALSE /\ NewObject.serverReady = "Unset"
  BY DEF NewObject
<1>3. ProvidedInv
  BY Zenon, <1>1, <1>2 DEF ProvidedInv
<1>4. ReadyInv
  BY Zenon, <1>1, <1>2 DEF ReadyInv, IsServerReady
<1>5. ReadyKnownInv
  BY Zenon, <1>1, <1>2 DEF ReadyKnownInv, IsServerReady
<1> QED BY <1>3, <1>4, <1>5

(* Close never publishes Provisioned without the provider ID, if every valid *)
(* patch is taken and crashes, timeouts and outside deletion do not all      *)
(* happen: a crash between the patches of conditions and spec, a deletion of *)
(* the server and a create that times out break it together.                 *)
THEOREM ProvisionedIsProvided ==
    ASSUME "patchError" \notin Env,
           "crash" \notin Env \/ "timeout" \notin Env \/ "external" \notin Env
    PROVE  Spec => []ProvisionedHasProviderID
<1>0. ProvidedInv => ProvisionedHasProviderID
  BY DEF ProvidedInv, ProvisionedHasProviderID
<1>1. BasicInv /\ ProviderInv /\ [Next]_vars => ProviderInv'
  BY ProviderInductive
<1>2. TimeoutIsSafe /\ BasicInv /\ ProviderInv /\ ProvidedInv /\ [Next]_vars => ProvidedInv'
  BY ProvidedInductive
<1>3. CASE "timeout" \notin Env
  <2>1. TimeoutIsSafe
    BY <1>3 DEF TimeoutIsSafe
  <2> QED BY <1>0, <1>1, <1>2, <2>1, ReadyInitial, ProviderInitial, BasicInvariant, PTL
          DEF Spec
<1>4. CASE "external" \notin Env
  <2>1. ReadyInv => TimeoutIsSafe
    BY DEF ReadyInv, TimeoutIsSafe
  <2>2. BasicInv /\ PhaseInv /\ ReadyInv /\ [Next]_vars => PhaseInv' /\ ReadyInv'
    BY <1>4, PhaseInductive, ReadyInductive
  <2> QED BY <1>0, <1>1, <1>2, <2>1, <2>2, IdentityInitial, ReadyInitial, ProviderInitial,
             BasicInvariant, PTL DEF Spec
<1>5. CASE "crash" \notin Env
  <2>1. ReadyKnownInv => TimeoutIsSafe
    BY DEF ReadyKnownInv, TimeoutIsSafe
  <2>2. BasicInv /\ ProviderInv /\ ReadyKnownInv /\ [Next]_vars => ReadyKnownInv'
    BY SMTT(30), <1>5, ReadyKnownInductive
  <2> QED BY <1>0, <1>1, <1>2, <2>1, <2>2, ReadyInitial, ProviderInitial, BasicInvariant, PTL
          DEF Spec
<1> QED BY <1>3, <1>4, <1>5

-----------------------------------------------------------------------------
(* A server appears by a create that is answered, or by one that is pending. *)
LEMMA ServersAppear ==
    ASSUME BasicInv, [Next]_vars, \A s \in Servers : servers[s].state # "pending",
           NEW m \in Machines, NEW t \in ServersOf(m)', t \notin ServersOf(m)
    PROVE  pc[m] = "createServer" /\ Learns(m, t)
<1> USE DEF k8s, local, cloud, gates, BasicInv
<1>0. /\ t \in Servers /\ servers'[t].owner = m /\ servers'[t].state \in LiveStates
      /\ ~(servers[t].owner = m /\ servers[t].state \in LiveStates)
  BY DEF ServersOf
<1> SUFFICES CreateServer(m)
  <2>1. pc[m] = "createServer" /\ Answered(m)
    <3>1. AtStep(mem[m], pc[m]) /\ MadeServer(mem[m].serverID, m, servers)
      BY ZenonT(30) DEF StepInv, RecordInv, Recorded
    <3> QED BY Zenon, <3>1, CallAnswers DEF CreateServer
  <2>2. ASSUME NEW s \in Servers, Learns(m, s) PROVE s = t
    BY SMTT(30), <1>0, <2>1, <2>2 DEF Learns
  <2>3. ~Keeps(m)
    <3>1. PICK s \in Servers : ReturnServer(m, s, servers'[s].state) /\ servers'[s].owner = m
      BY SMTT(30) DEF CreateServer, TypeOK
    <3>2. mem'[m].serverID = s
      <4> DEFINE o1 == updateMachineFromServer(mem[m], s)
                 o2 == setServerStatusCondition(o1, servers'[s].state)
      <4>1. mem[m] \in Objects
        BY DEF TypeOK
      <4>2. o1 \in Objects /\ o1.serverID = s
        <5>1. o1.serverID = s
          BY <4>1 DEF updateMachineFromServer, Objects
        <5> QED BY <4>1, <5>1, EditTypes, Zenon
      <4>3. o2 \in Objects /\ SameIDs(o1, o2)
        BY <4>2, EditTypes, EditsKeepIDs, Zenon
      <4>4. SameIDs(o2, setProvisioned(o2))
        BY <4>3, EditsKeepIDs, Zenon
      <4>5. mem'[m] = setProvisioned(o2)
        BY ZenonT(30), <3>1 DEF ReturnServer, Return, Edit, TypeOK
      <4> HIDE DEF o1, o2
      <4> QED BY <4>2, <4>3, <4>4, <4>5 DEF SameIDs
    <3>3. mem[m].serverID = None
      BY <2>1 DEF StepInv, AtStep
    <3> QED BY Zenon, <3>2, <3>3, NoneAssumption DEF Keeps, SameServer
  <2> QED BY <2>1, <2>2, <2>3 DEF Answered, Forgets
<1>1. servers' # servers
  BY <1>0
<1>2. ASSUME NEW n \in Machines, DeleteServer(n) \/ DeleteServerFails(n) PROVE FALSE
  <2>1. servers' = Destroy(mem[n].serverID)
    BY SMTT(30), <1>1, <1>2 DEF DeleteServer, DeleteServerFails
  <2> QED BY <1>0, <1>1, <2>1 DEF Destroy, TypeOK, LiveStates
<1>3. ASSUME NEW n \in Machines, CreateServerTimeout(n) PROVE FALSE
  BY <1>0, <1>1, <1>3 DEF CreateServerTimeout, TypeOK, LiveStates
<1>4. ASSUME NEW n \in Machines, CreateServer(n) PROVE CreateServer(m)
  <2>1. PICK s \in Servers, st \in {"changing", "running"} :
          servers' = [servers EXCEPT ![s] = [state |-> st, owner |-> n, group |-> mem[n].groupID]]
    BY Zenon, <1>4 DEF CreateServer
  <2>2. servers'[t] = servers[t] \/ servers'[t].owner = n
    BY Zenon, <1>0, <2>1 DEF TypeOK
  <2>3. n = m
    BY <1>0, <2>2
  <2> QED BY <1>4, <2>3
<1>5. ASSUME NEW s \in Servers, ServerEvent(s) PROVE FALSE
  BY <1>0, <1>5 DEF ServerEvent, ServerBoots, PendingServerLands, PendingServerLost,
                    ServerStopped, ServerRestarted, ServerDeletedExternally, ServerBecomes,
                    LiveStates, TypeOK
<1> QED BY <1>1, <1>2, <1>3, <1>4, <1>5, ServerMoves

(* Without timeouts no create is ever pending.                               *)
NonePending == \A s \in Servers : servers[s].state # "pending"

LEMMA NonePendingInductive ==
    ASSUME "timeout" \notin Env, BasicInv, NonePending, [Next]_vars
    PROVE  NonePending'
<1> USE DEF k8s, local, cloud, gates, NonePending
<1> SUFFICES ASSUME NEW t \in Servers PROVE servers'[t].state # "pending"
  OBVIOUS
<1>t. servers \in [Servers -> [state : ServerStates, owner : Machines \cup {None},
                               group : Groups \cup {None}]]
  BY DEF BasicInv, TypeOK
<1>1. CASE servers' = servers
  BY <1>1
<1>2. ASSUME NEW n \in Machines, DeleteServer(n) \/ DeleteServerFails(n)
      PROVE  servers'[t].state # "pending"
  <2>1. servers' \in {servers, Destroy(mem[n].serverID)}
    BY Zenon, <1>2 DEF DeleteServer, DeleteServerFails
  <2> QED BY <1>t, <2>1 DEF Destroy
<1>3. ASSUME NEW n \in Machines, CreateServer(n) PROVE servers'[t].state # "pending"
  BY <1>t, <1>3 DEF CreateServer
<1>4. ASSUME NEW n \in Machines, CreateServerTimeout(n) PROVE FALSE
  BY Zenon, <1>4 DEF CreateServerTimeout
<1>5. ASSUME NEW s \in Servers, ServerEvent(s) PROVE servers'[t].state # "pending"
  BY <1>t, <1>5 DEF ServerEvent, ServerBoots, PendingServerLands, PendingServerLost,
                    ServerStopped, ServerRestarted, ServerDeletedExternally, ServerBecomes
<1> QED BY <1>1, <1>2, <1>3, <1>4, <1>5, ServerMoves

(* Inductive without crashes, timeouts, stale caches and failed patches: the *)
(* server of a machine is the one stored, or the one in the memory of the    *)
(* reconcile, which removes the finalizer only once it is deleted.           *)
Accounts(o, w, step, own) ==
    /\ step = "idle" => own \subseteq {o.serverID}
    /\ step # "idle" => own \subseteq {w.serverID}
    /\ o.phase = "deleting" => o.finalizer
    /\ step # "idle" /\ w.phase = "live" => w.finalizer
    /\ step # "idle" /\ o.phase = "gone" => w.phase = "deleting" /\ ~w.finalizer
    /\ step # "idle" /\ w.phase = "deleting" /\ ~w.finalizer => w.serverID = None

AccountInv == \A m \in Machines : Accounts(obj[m], mem[m], pc[m], ServersOf(m))

LEMMA AccountInductive ==
    ASSUME {"crash", "timeout", "stale", "patchError"} \cap Env = {},
           \A m \in Machines : DeleteObject(m) => obj[m].finalizer \/ pc[m] = "idle",
           BasicInv, RecordedServerIsProtected, FreshInv, NonePending, AccountInv, [Next]_vars
    PROVE  AccountInv'
<1> SUFFICES ASSUME NEW m \in Machines
             PROVE  Accounts(obj'[m], mem'[m], pc'[m], ServersOf(m)')
  BY Zenon DEF AccountInv
<1>i. /\ Accounts(obj[m], mem[m], pc[m], ServersOf(m))
      /\ StartsFresh(obj[m], base[m], mem[m], pc[m])
      /\ obj[m].phase = "gone" => obj[m].serverID = None
      /\ TypeOK /\ StepInv /\ RecordInv
      /\ AtStep(mem[m], pc[m])
      /\ obj[m].serverID # None => obj[m].finalizer
      /\ DeleteObject(m) => obj[m].finalizer \/ pc[m] = "idle"
  BY ZenonT(30) DEF AccountInv, FreshInv, BasicInv, StepInv, RecordedServerIsProtected
<1>n. None \notin ServersOf(m)
  BY NoneAssumption DEF ServersOf
<1>g. GoneObject.phase = "gone"
  BY DEF GoneObject, NewObject
<1>s. ServersOf(m)' \subseteq ServersOf(m) \/ ~Untouched(m)
  <2>1. ASSUME pc[m] = "createServer", NEW s \in Servers, Learns(m, s) PROVE ~Untouched(m)
    BY <2>1 DEF Untouched, Learns
  <2> QED BY <2>1, ServersAppear DEF NonePending, ServersOf
<1>1. CASE Untouched(m)
  <2>1. obj'[m] = obj[m] /\ mem'[m] = mem[m] /\ pc'[m] = pc[m]
    BY Zenon, <1>1 DEF Untouched
  <2>2. ServersOf(m)' \subseteq ServersOf(m)
    BY <1>1, <1>s
  <2>3. Accounts(obj[m], mem[m], pc[m], ServersOf(m)')
    <3> DEFINE S == ServersOf(m)
               T == ServersOf(m)'
    <3>1. Accounts(obj[m], mem[m], pc[m], S) /\ T \subseteq S
      BY <1>i, <2>2
    <3> HIDE DEF S, T
    <3>2. Accounts(obj[m], mem[m], pc[m], T)
      BY SMTT(30), <3>1 DEF Accounts
    <3> QED BY <3>2 DEF T
  <2> QED BY Zenon, <2>1, <2>3
<1>2. CASE Calls(m) /\ Answered(m)
  <2>1. obj' = obj /\ pc[m] # "idle" /\ pc'[m] # "idle"
    BY Zenon, <1>2 DEF Calls
  <2>2. CASE Keeps(m)
    <3>1. ServersOf(m)' = ServersOf(m)
      BY Zenon, <2>2 DEF Keeps, ServersOf
    <3> QED BY Zenon, <2>1, <2>2, <3>1, <1>i DEF Keeps, SameServer, Accounts
  <2>3. CASE Forgets(m)
    <3>1. ServersOf(m)' \subseteq ServersOf(m) \cup {mem[m].serverID}
      BY Zenon, <2>3 DEF Forgets, ServersOf
    <3>2. mem'[m].serverID = None => mem[m].serverID \notin ServersOf(m)'
      BY Zenon, <2>3, <1>i DEF Forgets, ServersOf, AtStep
    <3>3. ServersOf(m)' \subseteq {mem'[m].serverID}
      BY Zenon, <2>1, <2>3, <3>1, <3>2, <1>i, <1>n DEF Accounts, Forgets
    <3> QED BY Zenon, <2>1, <2>3, <3>3, <1>i DEF Forgets, Accounts, AtStep
  <2>4. ASSUME NEW s \in Servers, Learns(m, s)
        PROVE  Accounts(obj'[m], mem'[m], pc'[m], ServersOf(m)')
    <3>1. ServersOf(m)' \subseteq ServersOf(m) \cup {s}
      BY <2>4 DEF Learns, ServersOf
    <3>2. ServersOf(m) \subseteq {s}
      BY Zenon, <2>1, <2>4, <1>i, <1>n DEF Learns, Accounts, AtStep
    <3> QED BY Zenon, <2>1, <2>4, <3>1, <3>2, <1>i DEF Learns, Accounts
  <2> QED BY Zenon, <1>2, <2>2, <2>3, <2>4 DEF Answered
<1>3. CASE Begins(m)
  <2>1. ServersOf(m)' = ServersOf(m)
    BY <1>3 DEF Begins, ServersOf
  <2> QED BY Zenon, <1>3, <2>1, <1>i DEF Begins, SameServer, Accounts
<1>c. ASSUME UNCHANGED servers PROVE ServersOf(m)' = ServersOf(m)
  BY <1>c DEF ServersOf
<1>4. CASE PatchConditions(m) \/ PatchObject(m)
  <2>1. /\ \A o \in {MergeConditions(m), MergeObject(m)} :
              o.phase = obj[m].phase /\ o.serverID = obj[m].serverID
        /\ MergeConditions(m).finalizer = obj[m].finalizer
        /\ MergeObject(m).finalizer
             = Merge(base[m].finalizer, mem[m].finalizer, obj[m].finalizer)
    BY Zenon, <1>i, Merged
  <2>2. /\ ServersOf(m)' = ServersOf(m) /\ mem'[m] = mem[m]
        /\ pc[m] # "idle" /\ pc'[m] # "idle"
    BY Zenon, <1>4, <1>c, <1>i, PatchSteps
  <2>3. \A o \in {MergeConditions(m), MergeObject(m)} :
           obj[m].phase = "deleting" /\ ~o.finalizer => ~mem[m].finalizer
    BY Zenon, <1>i, <2>1 DEF Merge, Accounts
  <2>4. mem[m].phase \in {"live", "deleting"}
    BY Zenon, <1>i, <2>2 DEF AtStep
  <2>5. /\ obj'[m].phase = "gone" => obj[m].phase = "gone" \/ ~mem[m].finalizer
        /\ obj'[m].phase = "deleting" => obj'[m].finalizer
    BY Zenon, <1>4, <1>i, <1>g, <2>1, <2>3, PatchSteps DEF Stored, Accounts
  <2> QED BY Zenon, <1>i, <2>2, <2>4, <2>5 DEF Accounts
<1>5. CASE PatchStatus(m)
  <2>1. /\ MergeStatus(m).phase = obj[m].phase
        /\ MergeStatus(m).finalizer = obj[m].finalizer
        /\ MergeStatus(m).serverID = Merge(base[m].serverID, mem[m].serverID, obj[m].serverID)
    BY Zenon, <1>i, Merged
  <2>2. /\ ServersOf(m)' = ServersOf(m) /\ pc[m] = "patchStatus" /\ pc'[m] = "idle"
        /\ \/ obj[m].phase = "gone" /\ obj'[m] = obj[m]
           \/ obj[m].phase # "gone" /\ obj'[m] = Stored(MergeStatus(m))
    BY Zenon, <1>5, <1>c, <1>i, PatchSteps
  <2>3. obj[m].phase # "gone" =>
          /\ Stored(MergeStatus(m)) = MergeStatus(m)
          /\ MergeStatus(m).serverID = mem[m].serverID
    BY Zenon, <1>i, <2>1, <2>2 DEF Stored, Merge, StartsFresh, Accounts
  <2>4. obj[m].phase = "gone" => ServersOf(m) = {}
    BY Zenon, <1>i, <1>n, <2>2 DEF Accounts
  <2> QED BY Zenon, <1>i, <2>1, <2>2, <2>3, <2>4 DEF Accounts
<1>6. CASE CacheSync(m) \/ SetOwnerRef(m)
  <2>1. /\ ServersOf(m)' = ServersOf(m) /\ UNCHANGED <<pc, mem>>
        /\ obj'[m].phase = obj[m].phase /\ obj'[m].finalizer = obj[m].finalizer
        /\ obj'[m].serverID = obj[m].serverID
    BY Zenon, <1>6, <1>c, <1>i, EventSteps
  <2> QED BY Zenon, <2>1, <1>i DEF Accounts
<1>7. CASE DeleteObject(m)
  <2>1. /\ ServersOf(m)' = ServersOf(m) /\ UNCHANGED <<pc, mem>>
        /\ \/ obj'[m] = GoneObject /\ ~obj[m].finalizer
           \/ /\ obj'[m].phase = "deleting" /\ obj[m].finalizer
              /\ obj'[m].finalizer = obj[m].finalizer
              /\ obj'[m].serverID = obj[m].serverID
    BY Zenon, <1>7, <1>c, <1>i, EventSteps
  <2>2. ~obj[m].finalizer => pc[m] = "idle" /\ ServersOf(m) = {}
    BY Zenon, <1>7, <1>i, <1>n DEF Accounts
  <2> QED BY Zenon, <2>1, <2>2, <1>i, <1>g DEF Accounts
<1>8. ~Crash
  BY DEF Crash
<1> QED BY Zenon, <1>i, <1>1, <1>2, <1>3, <1>4, <1>5, <1>6, <1>7, <1>8, MachineSteps

(* Once the object is gone the server made for the machine is gone too: no   *)
(* crash, timeout, stale cache or failed patch hides the server from the     *)
(* status, and the object is not deleted before it has the finalizer.  Each  *)
(* of these faults breaks it.                                                *)
THEOREM NoServerLeft ==
    ASSUME {"crash", "timeout", "stale", "patchError", "earlyDelete"} \cap Env = {}
    PROVE  Spec => []NoOrphanServer
<1>1. Init => NonePending /\ AccountInv
  <2> SUFFICES ASSUME Init PROVE NonePending /\ AccountInv
    OBVIOUS
  <2>1. \A s \in Servers : servers[s].state = "unused"
    BY DEF Init, UnusedServer
  <2>2. ASSUME NEW m \in Machines
        PROVE  ServersOf(m) = {} /\ pc[m] = "idle" /\ obj[m].phase = "live"
    <3>1. pc[m] = "idle" /\ obj[m] = NewObject
      BY DEF Init
    <3> QED BY <2>1, <3>1 DEF ServersOf, LiveStates, NewObject
  <2>3. AccountInv
    BY Zenon, <2>2 DEF AccountInv, Accounts
  <2> QED BY <2>1, <2>3 DEF NonePending
<1>2. \A m \in Machines : DeleteObject(m) => obj[m].finalizer
  BY DEF DeleteObject
<1>3. /\ BasicInv /\ RecordedServerIsProtected /\ FreshInv /\ NonePending /\ AccountInv
      /\ [Next]_vars
      => FreshInv' /\ NonePending' /\ AccountInv'
  BY <1>2, FreshInductive, NonePendingInductive, AccountInductive
<1>4. FreshInv /\ AccountInv => NoOrphanServer
  <2> SUFFICES ASSUME FreshInv, AccountInv, NEW m \in Machines, obj[m].phase = "gone"
               PROVE  ServersOf(m) = {}
    BY SMTT(30) DEF NoOrphanServer
  <2>1. obj[m].serverID = None /\ Accounts(obj[m], mem[m], pc[m], ServersOf(m))
    BY DEF FreshInv, AccountInv
  <2>2. ServersOf(m) \subseteq {None}
    BY <2>1 DEF Accounts
  <2> QED BY <2>2, NoneAssumption DEF ServersOf
<1>5. Spec => []RecordedServerIsProtected
  BY ServerProtected
<1> QED BY <1>1, <1>3, <1>4, <1>5, IdentityInitial, BasicInvariant, PTL DEF Spec
=============================================================================
