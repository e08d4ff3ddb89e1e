--------------------------- MODULE ClusterTaskProofs ---------------------------
(***************************************************************************)
(* reconcileNormal reaches its end only when every resource of the spec is *)
(* recorded, and so Provisioned, once stored, is never taken back.         *)
(***************************************************************************)
EXTENDS ClusterCloseProofs, ClusterPartProofs

-----------------------------------------------------------------------------
(* ensureResource.                                                           *)

(* The calls for a key are of one part, and owe the same.                    *)
LEMMA CallFacts ==
    ASSUME NEW k \in EnsuredKeys, NEW t \in Calls(k)
    PROVE  /\ t \in Tasks \ Closing /\ ~DeleteTask(t)
           /\ t \notin {<<"end", "router">>, <<"readLB", LBKey>>}
           /\ \A s \in Calls(k) : Rank(s) = Rank(t)
           /\ \A j : \A s \in Calls(k) : s \in Owing(j) => t \in Owing(j)
           /\ \A n : \A s \in Calls(k) : s \in Calls(SubnetKey(n)) => t \in Calls(SubnetKey(n))
<1>1. t \in Tasks
  BY DEF Calls, Tasks
<1>2. /\ t \notin Closing /\ ~DeleteTask(t)
      /\ t \notin {<<"end", "router">>, <<"readLB", LBKey>>}
  BY DEF Calls, Closing, Idle, DeleteTask, DeleteKinds
<1>3. \A s \in Calls(k) : Rank(s) = Rank(t)
  <2>1. \A s \in Calls(k) : Stage(s) = k[1] /\ s # <<"end", "router">>
    BY DEF Calls, Stage
  <2> QED BY <2>1 DEF Rank
<1>4. ASSUME NEW j, NEW s \in Calls(k), s \in Calls(j) PROVE t \in Calls(j)
  BY <1>4 DEF Calls
<1>5. ASSUME NEW j, NEW s \in Calls(k), s \in Owing(j) PROVE t \in Owing(j)
  <2>1. /\ \A i : s # <<"discover", i>> /\ s # <<"interface", i>> /\ s # <<"adopt", i>>
        /\ \A i : s # <<"adoptFIP", i>>
    BY DEF Calls
  <2>2. \E i : s \in Calls(i) /\ Calls(i) \subseteq Owing(j)
    BY <1>5, <2>1, Zenon DEF Owing
  <2> QED BY <1>4, <2>2
<1> QED BY <1>1, <1>2, <1>3, <1>4, <1>5

(* The resource of the key is known.                                         *)
LEMMA ResolvedNormal ==
    ASSUME ResourceInv, NormalInv, NEW k \in EnsuredKeys, task \in Calls(k),
           mem'.phase = mem.phase,
           NEW u \in Uuids, u[1] = k, Resolved(k, u) \/ Created(k, u)
    PROVE  NormalInv'
<1>1. /\ task \notin Closing /\ ~DeleteTask(task)
      /\ task \notin {<<"end", "router">>, <<"readLB", LBKey>>}
  BY CallFacts
<1>2. Working /\ Keyed(mem) /\ aux \in Locals
  BY <1>1, TaskModes, Before
<1>3. k \in StatusKeys
  BY EnsuredFacts
<1>4. CASE k[1] = "network" /\ NetworkResolved(k[2], u)
  <2> DEFINE n == k[2]
             t == <<"ensure", SubnetKey(n)>>
  <2>1. n \in NetworkNames /\ k = NetworkKey(n)
    BY <1>3, <1>4, KeyKinds
  <2>2. aux' = [aux EXCEPT !.net[n] = u] /\ mem' = mem /\ Goto(t)
    BY <1>4, Zenon DEF NetworkResolved
  <2>3. /\ aux'.waiting = aux.waiting /\ aux'.vip = aux.vip /\ aux'.net = [aux.net EXCEPT ![n] = u]
        /\ aux.net \in [NetworkNames -> Refs]
    BY <1>2, <2>2, Zenon DEF Locals
  <2>4. SubnetKey(n) \in EnsuredKeys
    BY SMTT(30), <2>1, KeyFacts, InterfaceKeyFacts DEF EnsuredKeys, SubnetKey
  <2>5. t \in Tasks \ Closing /\ ~DeleteTask(t)
    BY Zenon, <2>4, CallFacts DEF Calls
  <2>6. Rank(t) = Rank(task)
    BY <2>1 DEF Rank, Stage, Calls, SubnetKey, NetworkKey
  <2>7. \A m \in NetworkNames : t \in Calls(SubnetKey(m)) => aux'.net[m] \in Uuids
    <3>1. \A m : t \in Calls(SubnetKey(m)) => m = n
      BY DEF Calls, SubnetKey
    <3>2. aux'.net[n] = u
      BY <2>1, <2>3
    <3> QED BY <3>1, <3>2
  <2>8. ASSUME NEW j \in StatusKeys, task \in Owing(j) PROVE t \in Owing(j)
    <3>1. j[1] \in {"network", "subnet"} /\ j[2] = n
      BY <2>1, <2>8 DEF Owing, Calls, NetworkKey, SubnetKey, RouterKey
    <3> QED BY <3>1 DEF Owing, Calls
  <2>9. \A j \in StatusKeys : mem.ids[j] \in Uuids \/ task \in Owing(j) =>
                mem'.ids[j] \in Uuids \/ t \in Owing(j)
    BY <2>2, <2>8
  <2> HIDE DEF t
  <2> QED BY <1>1, <1>2, <2>2, <2>3, <2>5, <2>6, <2>7, <2>9, AdvanceTo
<1>5. CASE k[1] = "subnet" /\ SubnetResolved(k[2], u)
  <2> DEFINE n == k[2]
  <2>1. n \in NetworkNames /\ k = SubnetKey(n)
    BY <1>3, <1>5, KeyKinds
  <2>2. /\ mem' = setNetworkStatus(mem, n, aux.net[n], u)
        /\ aux' = [aux EXCEPT !.net[n] = None] /\ NextTask
    BY <1>5, Zenon DEF SubnetResolved
  <2>3. aux'.waiting = aux.waiting /\ aux'.vip = aux.vip
    BY <1>2, <2>2, Zenon DEF Locals
  <2>4. aux.net[n] \in Uuids
    BY <1>2, <2>1 DEF NormalInv, Progress
  <2>5. /\ mem'.ids[NetworkKey(n)] \in Uuids /\ mem'.ids[SubnetKey(n)] \in Uuids
        /\ \A j \in StatusKeys \ {NetworkKey(n), SubnetKey(n)} : mem'.ids[j] = mem.ids[j]
    BY <1>2, <2>1, <2>2, <2>4, StatusOfNetwork
  <2>6. ASSUME NEW j \in StatusKeys, task \in Owing(j) PROVE j \in {NetworkKey(n), SubnetKey(n)}
    <3>1. j[1] \in {"network", "subnet"} /\ j[2] = n
      BY <2>1, <2>6 DEF Owing, Calls, NetworkKey, SubnetKey, RouterKey
    <3> QED BY <3>1, KeyKinds
  <2>7. \A j \in StatusKeys : mem.ids[j] \in Uuids \/ task \in Owing(j) =>
                mem'.ids[j] \in Uuids \/ (aux'.waiting /\ j \in RouterKeys)
    BY <2>5, <2>6
  <2> QED BY <1>1, <1>2, <2>2, <2>3, <2>7, AdvanceNext
<1>6. CASE k[1] = "router" /\ RouterResolved(k[2], u)
  BY <1>3, <1>6, KeyKinds, RouterResolvedNormal DEF RouterTasks
<1>7. CASE k \in LBKeys /\ LBResolved(k, u)
  <2>1. mem' = Record(mem, k, u) /\ NextTask /\ aux' = aux
    BY <1>7, Zenon DEF LBResolved
  <2>2. mem'.ids[k] = u /\ \A j \in StatusKeys \ {k} : mem'.ids[j] = mem.ids[j]
    BY <1>2, <1>3, <2>1, StatusRecord
  <2>3. ASSUME NEW j \in StatusKeys, task \in Owing(j) PROVE j = k
    BY <1>7, <2>3 DEF Owing, Calls, NetworkKey, SubnetKey, RouterKey, LBKeys, LBKey, PoolKey,
                      ListenerKey, MonitorKey
  <2>4. \A j \in StatusKeys : mem.ids[j] \in Uuids \/ task \in Owing(j) =>
                mem'.ids[j] \in Uuids \/ (aux'.waiting /\ j \in RouterKeys)
    BY <2>2, <2>3
  <2> QED BY <1>1, <1>2, <2>1, <2>4, AdvanceNext
<1>8. CASE k \in FIPKeys /\ (FIPResolved(u) \/ FIPCreated(u))
  BY <1>8, EnsuredFacts, FIPResolvedNormal
<1> QED BY <1>4, <1>5, <1>6, <1>7, <1>8, Zenon DEF Resolved, Created

(* The next call for the key follows; the ID may be cleared.                 *)
LEMMA NextCallNormal ==
    ASSUME ResourceInv, NormalInv, NEW k \in EnsuredKeys, task \in Calls(k),
           mem'.phase = mem.phase, NEW t \in Calls(k), Goto(t), aux' = aux,
           mem' = mem \/ (k \in LBKeys \cup FIPKeys /\ mem' = Record(mem, k, None))
    PROVE  NormalInv'
<1>1. /\ task \notin Closing /\ ~DeleteTask(task)
      /\ task \notin {<<"end", "router">>, <<"readLB", LBKey>>}
      /\ t \in Tasks \ Closing /\ ~DeleteTask(t) /\ Rank(t) = Rank(task)
  BY CallFacts
<1>2. Working /\ Keyed(mem) /\ aux \in Locals
  BY <1>1, TaskModes, Before
<1>3. \A n \in NetworkNames : t \in Calls(SubnetKey(n)) => aux'.net[n] \in Uuids
  <2>1. \A n \in NetworkNames : t \in Calls(SubnetKey(n)) => task \in Calls(SubnetKey(n))
    BY CallFacts
  <2> QED BY <1>2, <2>1 DEF NormalInv, Progress
<1>4. \A j \in StatusKeys : mem.ids[j] \in Uuids \/ task \in Owing(j) =>
                mem'.ids[j] \in Uuids \/ t \in Owing(j)
  <2>1. \A j \in StatusKeys : task \in Owing(j) => t \in Owing(j)
    BY CallFacts
  <2>2. k \in LBKeys \cup FIPKeys => t \in Owing(k)
    BY DEF Owing, Calls, LBKeys, FIPKeys, LBKey, PoolKey, ListenerKey, MonitorKey, FIPKey
  <2>3. \A j \in StatusKeys : j # k => mem'.ids[j] = mem.ids[j]
    BY <1>2, EnsuredFacts, StatusRecord
  <2>4. k \notin LBKeys \cup FIPKeys => mem' = mem
    OBVIOUS
  <2> QED BY <2>1, <2>2, <2>3, <2>4
<1> QED BY <1>1, <1>2, <1>3, <1>4, AdvanceTo

LEMMA ResourceNormal ==
    ASSUME ResourceInv, NormalInv, NEW k \in EnsuredKeys,
           ResourceStep(k) \/ CreateResourceTimeout(k)
    PROVE  NormalInv'
<1>0. Handler
  BY ResourceHandlers
<1>1. mem'.phase = mem.phase
  BY <1>0 DEF Handler, Keeps
<1>2. task \in Calls(k)
  BY Zenon DEF ResourceStep, GetResource, ListResource, CreateResource, CreateResourceRefused,
               CreateResourceTimeout, Calls
<1>3. CASE \E b, res : ReturnFrom(PartOf(k), b, mem, res)
  BY <1>3, ReturnFromNormal
<1>4. CASE \E u \in Uuids : u[1] = k /\ (Resolved(k, u) \/ Created(k, u))
  BY <1>1, <1>2, <1>4, ResolvedNormal
<1>5. <<"list", k>> \in Calls(k) /\ <<"create", k>> \in Calls(k)
  BY DEF Calls
<1>6. CASE GetResource(k)
  <2>1. CASE Exists(mem.ids[k]) /\ Resolved(k, mem.ids[k])
    BY <1>4, <2>1, Answer
  <2>2. CASE Goto(<<"list", k>>) /\ UNCHANGED <<mem, aux>>
    BY <1>1, <1>2, <1>5, <2>2, NextCallNormal
  <2> QED BY <1>6, <2>1, <2>2, Zenon DEF GetResource
<1>7. CASE ListResource(k)
  <2>1. CASE /\ Goto(<<"create", k>>) /\ UNCHANGED aux
             /\ mem' = IF k \in LBKeys \cup FIPKeys THEN Record(mem, k, None) ELSE mem
    BY <1>1, <1>2, <1>5, <2>1, NextCallNormal
  <2>2. CASE \E u \in Found(k) : Resolved(k, u)
    BY <1>4, <2>2, Answer
  <2> QED BY <1>3, <1>7, <2>1, <2>2, Zenon DEF ListResource
<1>8. CASE CreateResource(k)
  <2>1. PICK u \in Fresh(k) : Created(k, u)
    BY <1>8, Zenon DEF CreateResource
  <2> QED BY <1>4, <2>1, Answer
<1>9. CASE CreateResourceRefused(k)
  BY <1>3, <1>9, Zenon DEF CreateResourceRefused
<1>10. CASE CreateResourceTimeout(k) /\ k[1] = "router"
  <2>1. aux' = [aux EXCEPT !.waiting = TRUE] /\ mem' = mem /\ NextTask
    BY <1>10, Zenon DEF CreateResourceTimeout, RouterTimeout
  <2>2. aux'.waiting /\ aux'.vip = aux.vip
    BY <2>1, Before, Zenon DEF Locals
  <2>3. k[2] \in RouterNames /\ task \in RouterTasks(k[2])
    BY <1>2, <1>10, EnsuredFacts, KeyKinds DEF RouterTasks
  <2>4. /\ Rank(task) = 2 /\ ~DeleteTask(task) /\ task \notin Closing
        /\ task \notin {<<"end", "router">>, <<"readLB", LBKey>>}
        /\ \A j \in StatusKeys : task \in Owing(j) => j \in {RouterKey(k[2])} \cup InterfaceKeysOf(k[2])
    BY <2>3, RouterTaskFacts
  <2>5. Working
    BY <2>4, TaskModes
  <2>6. \A j \in StatusKeys : mem.ids[j] \in Uuids \/ task \in Owing(j) =>
                mem'.ids[j] \in Uuids \/ (aux'.waiting /\ j \in RouterKeys)
    BY <2>1, <2>2, <2>3, <2>4, RouterKeysOf
  <2> QED BY <1>1, <2>1, <2>2, <2>4, <2>5, <2>6, AdvanceNext
<1>11. CASE CreateResourceTimeout(k) /\ k[1] # "router"
  BY <1>3, <1>11, Zenon DEF CreateResourceTimeout
<1> QED BY <1>6, <1>7, <1>8, <1>9, <1>10, <1>11 DEF ResourceStep

-----------------------------------------------------------------------------
(* The ends, and reconcileDelete.                                            *)

LEMMA EndNormal ==
    ASSUME ResourceInv, NormalInv, networksReconciled \/ CallFails \/ finish \/ networksDeleted
    PROVE  NormalInv'
<1>1. CASE networksReconciled
  <2>0. Handler
    BY <1>1, OtherHandlers
  <2>1. task \notin Closing /\ mem'.phase = mem.phase /\ mem \in Clusters
    BY <2>0, Before DEF Handler, Keeps
  <2>2. task = <<"end", "network">> /\ mem' = setCondition(mem, "network", TRUE) /\ NextTask
        /\ aux' = aux
    BY <1>1, Zenon DEF networksReconciled
  <2>3. mem'.ids = mem.ids
    BY <2>1, <2>2, Zenon DEF setCondition, Clusters
  <2>4. /\ ~DeleteTask(task) /\ task # <<"end", "router">> /\ task # <<"readLB", LBKey>>
        /\ task[1] = "end"
    BY <2>2 DEF DeleteTask, DeleteKinds
  <2>5. Working /\ \A k \in StatusKeys : task \notin Owing(k)
    BY <2>1, <2>4, TaskModes, OwingKinds
  <2> QED BY <2>1, <2>2, <2>3, <2>4, <2>5, AdvanceSame
<1>2. CASE CallFails
  <2>1. \E p : ReturnFrom(p, FALSE, mem, "error")
    BY <1>2, Zenon DEF CallFails
  <2> QED BY Zenon, <2>1, ReturnFromNormal
<1>3. CASE finish
  <2>1. \E o, res : Return(o, res)
    BY <1>3, Zenon DEF finish
  <2> QED BY <2>1, ReturnNormal
<1>4. CASE networksDeleted
  <2>1. \E o, res : Return(o, res)
    BY <1>4, Zenon DEF networksDeleted
  <2> QED BY <2>1, ReturnNormal
<1> QED BY <1>1, <1>2, <1>3, <1>4

LEMMA ServerGroupNormal ==
    ASSUME ResourceInv, NormalInv,
           deleteServerGroups \/ deleteServerGroup \/ deleteServerGroupsFails
    PROVE  NormalInv'
<1>1. Handler
  BY OtherHandlers
<1>2. task \in {<<"deleteGroups", None>>, <<"deleteGroup", None>>}
  BY Zenon DEF deleteServerGroups, deleteServerGroup, deleteServerGroupsFails
<1>3. DeleteTask(task) /\ DeleteTask(<<"deleteGroup", None>>)
      /\ <<"deleteGroup", None>> \in Tasks \ Closing
  BY <1>2 DEF DeleteTask, DeleteKinds, Tasks, Closing, Idle
<1>4. \/ NextTask \/ Goto(<<"deleteGroup", None>>) \/ \E o, res : Return(o, res)
  BY Zenon DEF deleteServerGroups, deleteServerGroup, deleteServerGroupsFails
<1> QED BY <1>1, <1>3, <1>4, DeleteMoves

-----------------------------------------------------------------------------
(* The start of a reconcile.                                                 *)

NormalProgram == reconcileNetwork \o reconcileRouters \o reconcileLoadBalancer
                 \o reconcileFloatingIP \o << <<"finish", None>> >>

(* reconcileNormal has the parts in their order and takes every resource.    *)
LEMMA ProgramFacts ==
    /\ Block(NormalProgram, 1, 6)
    /\ <<"end", "router">> \in Range(NormalProgram)
    /\ LBEnabled => <<"readLB", LBKey>> \in Range(NormalProgram)
    /\ \A k \in StatusKeys : \E t \in Range(NormalProgram) : t \in Owing(k)
<1> DEFINE A == reconcileNetwork
           B == reconcileRouters
           C == reconcileLoadBalancer
           D == reconcileFloatingIP
           e == <<"finish", None>>
           E == <<e>>
<1>1. e \in Tasks \ Closing /\ Rank(e) = 6 /\ ~DeleteTask(e) /\ Planned(e)
  BY DEF Tasks, Closing, Idle, Rank, Stage, DeleteTask, DeleteKinds, Direct, Planned
<1>2. Block(A, 1, 1) /\ Block(B, 2, 3) /\ Block(C, 4, 4) /\ Block(D, 5, 5)
  BY NetworkBlock, RouterBlock, LoadBalancerBlock, FloatingIPBlock
<1>3. Block(E, 6, 6)
  <2> HIDE DEF e
  <2> QED BY <1>1, BlockOne
<1>4. \A s, a, b : \A c \in Nat, d \in Nat : a \in Nat /\ b \in Nat /\ c <= a /\ b <= d /\ Block(s, a, b) => Block(s, c, d)
  <2> SUFFICES ASSUME NEW s, NEW a \in Nat, NEW b \in Nat, NEW c \in Nat, NEW d \in Nat,
                      c <= a, b <= d, Block(s, a, b)
               PROVE  Block(s, c, d)
    OBVIOUS
  <2>1. \A i \in 1..Len(s) : Rank(s[i]) \in Nat
    BY RankFacts
  <2> QED BY <2>1 DEF Block
<1> HIDE DEF A, B, C, D, E
<1>5. Block(A, 1, 2) /\ Block(B, 2, 4) /\ Block(C, 4, 5) /\ Block(D, 5, 6)
  <2>1. Block(A, 1, 2)
    BY <1>2, <1>4
  <2>2. Block(B, 2, 4)
    BY <1>2, <1>4
  <2>3. Block(C, 4, 5)
    BY <1>2, <1>4
  <2>4. Block(D, 5, 6)
    BY <1>2, <1>4
  <2> QED BY <2>1, <2>2, <2>3, <2>4
<1>6. Block(A \o B, 1, 4) /\ Range(A \o B) = Range(A) \cup Range(B)
  BY <1>5, BlockConcat
<1> DEFINE AB == A \o B
           ABC == AB \o C
           ABCD == ABC \o D
<1> HIDE DEF AB, ABC, ABCD
<1>7. Block(AB \o C, 1, 5) /\ Range(AB \o C) = Range(AB) \cup Range(C)
  BY <1>5, <1>6, BlockConcat DEF AB
<1>8. Block(ABC \o D, 1, 6) /\ Range(ABC \o D) = Range(ABC) \cup Range(D)
  BY <1>5, <1>7, BlockConcat DEF ABC
<1>9. Block(ABCD \o E, 1, 6) /\ Range(ABCD \o E) = Range(ABCD) \cup Range(E)
  BY <1>3, <1>8, BlockConcat DEF ABCD
<1>10. NormalProgram = ABCD \o E
  BY DEF NormalProgram, A, B, C, D, E, AB, ABC, ABCD
<1>11. Range(A) \cup Range(B) \cup Range(C) \cup Range(D) \subseteq Range(NormalProgram)
  BY <1>6, <1>7, <1>8, <1>9, <1>10, Zenon DEF AB, ABC, ABCD
<1>12. /\ <<"end", "router">> \in Range(NormalProgram)
       /\ LBEnabled => <<"readLB", LBKey>> \in Range(NormalProgram)
  BY <1>11, RouterBlock, LoadBalancerBlock DEF B, C
<1>13. ASSUME NEW k \in StatusKeys PROVE \E t \in Range(NormalProgram) : t \in Owing(k)
  <2>1. CASE k[1] \in {"network", "subnet"}
    <3>1. k[2] \in NetworkNames
      BY <2>1, KeyKinds
    <3>2. PICK t \in Range(A) : t \in {<<"ensure", NetworkKey(k[2])>>, <<"discover", NetworkKey(k[2])>>}
      BY <3>1, NetworkBlock DEF A
    <3>3. t \in Owing(k)
      BY <2>1, <3>2 DEF Owing, Calls
    <3> QED BY <1>11, <3>2, <3>3
  <2>2. CASE k \in RouterKeys
    <3>1. \E r \in RouterNames : {<<"ensure", RouterKey(r)>>, <<"adopt", RouterKey(r)>>} \subseteq Owing(k)
      <4>1. CASE k \in InterfaceKeys
        BY <4>1, InterfaceKeyFacts DEF Owing, Calls
      <4>2. CASE \E r \in RouterNames : k = RouterKey(r)
        BY <4>2 DEF Owing, Calls, RouterKey
      <4> QED BY <2>2, <4>1, <4>2 DEF RouterKeys
    <3>2. PICK r \in RouterNames : {<<"ensure", RouterKey(r)>>, <<"adopt", RouterKey(r)>>} \subseteq Owing(k)
      BY <3>1
    <3>3. PICK t \in Range(B) : t \in {<<"ensure", RouterKey(r)>>, <<"adopt", RouterKey(r)>>}
      BY RouterBlock DEF B
    <3> QED BY <1>11, <3>2, <3>3
  <2>3. CASE k \in LBKeys
    <3>1. <<"ensure", k>> \in Range(C)
      BY <2>3, LoadBalancerBlock DEF C
    <3>2. <<"ensure", k>> \in Owing(k)
      BY <2>3 DEF LBKeys, LBKey, PoolKey, ListenerKey, MonitorKey, Owing, Calls
    <3> QED BY <1>11, <3>1, <3>2
  <2>4. CASE k \in FIPKeys
    <3>1. FIPWanted /\ k = FIPKey
      BY <2>4 DEF FIPKeys
    <3>2. PICK t \in Range(D) : t \in {<<"ensure", FIPKey>>, <<"adoptFIP", FIPKey>>}
      BY <3>1, FloatingIPBlock DEF D
    <3>3. t \in Owing(k)
      BY <3>1, <3>2 DEF Owing, Calls, FIPKey
    <3> QED BY <1>11, <3>2, <3>3
  <2> QED BY <2>1, <2>2, <2>3, <2>4 DEF StatusKeys, NetworkKeys, NetworkKey, SubnetKey
<1> QED BY <1>9, <1>10, <1>12, <1>13

(* The first task of a program is taken.                                     *)
LEMMA StartPush ==
    ASSUME NormalInv, NEW o, NEW P \in Seq(Tasks \ Closing), Start(o, P), P # <<>>
    PROVE  Push(P) /\ todo = <<>> /\ todo \in Seq(Tasks \ Closing) /\ Range(todo) = {}
<1>1. task = Idle /\ task' = Head(P) /\ todo' = Tail(P)
  BY DEF Start, Dequeue
<1>2. todo = <<>>
  BY <1>1 DEF NormalInv, TaskInv, Closing
<1>3. P \o todo = P
  BY <1>2
<1>4. todo \in Seq(Tasks \ Closing) /\ Range(todo) = {}
  BY <1>2 DEF Range
<1> QED BY <1>1, <1>2, <1>3, <1>4 DEF Push

LEMMA NormalStarts ==
    ASSUME ResourceInv, NormalInv, ReconcileNormal
    PROVE  NormalInv'
<1> DEFINE P == NormalProgram
<1>1. /\ P \in Seq(Tasks \ Closing) /\ <<"end", "router">> \in Range(P)
      /\ \A i \in 1..Len(P) : ~DeleteTask(P[i]) /\ Direct(P[i])
      /\ \A i, j \in 1..Len(P) : i < j => Rank(P[i]) <= Rank(P[j])
  BY ProgramFacts DEF Block, Planned
<1>2. P # <<>> /\ DOMAIN P = 1..Len(P) /\ Range(P) = {P[i] : i \in 1..Len(P)} /\ Len(P) \in Nat
  BY <1>1 DEF Range
<1>3. Start([cache EXCEPT !.finalizer = TRUE], P) /\ cache.phase = "live"
  BY DEF ReconcileNormal, NormalProgram
<1> HIDE DEF P
<1>4. mem'.phase = "live" /\ aux'.waiting = FALSE
  <2>1. cache \in Clusters
    BY DEF ResourceInv, ObjectInv, Keyed
  <2>2. mem' = [cache EXCEPT !.finalizer = TRUE] /\ aux' = [NoAux EXCEPT !.cpInit = cpInitialized]
    BY <1>3 DEF Start
  <2>3. mem'.phase = cache.phase
    BY <2>1, <2>2, Zenon DEF Clusters
  <2>4. aux'.waiting = NoAux.waiting
    BY <2>2, NoAuxFacts, Zenon DEF Locals
  <2> QED BY <1>3, <2>3, <2>4 DEF NoAux
<1>5. Push(P) /\ todo \in Seq(Tasks \ Closing) /\ todo = <<>> /\ Range(todo) = {}
  BY <1>1, <1>2, <1>3, StartPush
<1>6. Ahead' = Range(P)
  BY Zenon, <1>1, <1>5, PushAhead
<1>7. /\ Len(P) > 0 /\ task' = P[1] /\ task' \in Tasks \ Closing /\ todo' \in Seq(Tasks \ Closing)
      /\ Len(todo') = Len(P) - 1
      /\ \A i \in 1..Len(todo') : todo'[i] = P[i + 1]
  <2>1. Len(P) > 0 /\ Len(todo) = 0
    BY <1>1, <1>2, <1>5
  <2>2. /\ task' \in Tasks \ Closing /\ todo' \in Seq(Tasks \ Closing)
        /\ task' = P[1] /\ Len(todo') = Len(P) - 1 + Len(todo)
        /\ \A i \in 1..(Len(P) - 1) : todo'[i] = P[i + 1]
    BY <1>1, <1>5, <2>1, PushFacts
  <2> QED BY <1>2, <2>1, <2>2
<1>8. TaskInv' /\ Working'
  BY <1>4, <1>7 DEF TaskInv, Working
<1>9. \A t \in Ahead' : ~DeleteTask(t) /\ Direct(t)
  BY <1>1, <1>2, <1>6
<1>10. ASSUME NEW i \in 1..Len(todo') PROVE Rank(task') <= Rank(todo'[i])
  <2> DEFINE a == i + 1
  <2>1. a \in 1..Len(P) /\ 1 \in 1..Len(P) /\ 1 < a /\ todo'[i] = P[a]
    BY <1>2, <1>7
  <2> HIDE DEF a
  <2> QED BY <1>1, <1>7, <2>1
<1>11. ASSUME NEW i \in 1..Len(todo'), NEW j \in 1..Len(todo'), i < j
       PROVE  Rank(todo'[i]) <= Rank(todo'[j])
  <2> DEFINE a == i + 1
             b == j + 1
  <2>1. a \in 1..Len(P) /\ b \in 1..Len(P) /\ a < b /\ todo'[i] = P[a] /\ todo'[j] = P[b]
    BY <1>2, <1>7, <1>11
  <2> HIDE DEF a, b
  <2> QED BY <1>1, <2>1
<1>12. Rank(task') <= 2 => <<"end", "router">> \in Range(todo)'
  <2>1. <<"end", "router">> \in Ahead'
    BY <1>1, <1>6
  <2> QED BY <2>1, RankFacts DEF Ahead
<1>13. DOMAIN todo' = 1..Len(todo')
  BY <1>7
<1>14. OrderInv'
  BY <1>4, <1>9, <1>10, <1>11, <1>12, <1>13 DEF OrderInv, Ahead
<1>15. Progress'
  <2>1. \A k \in StatusKeys : Owed(k)'
    BY <1>6, ProgramFacts DEF Owed, P
  <2>2. LBEnabled => <<"readLB", LBKey>> \in Ahead'
    BY <1>6, ProgramFacts DEF P
  <2>3. \A n : task' \notin Calls(SubnetKey(n))
    <3>1. Direct(task')
      BY <1>9 DEF Ahead
    <3> QED BY <3>1 DEF Direct, Calls, SubnetKey
  <2> QED BY <2>1, <2>2, <2>3 DEF Progress
<1> QED BY <1>8, <1>14, <1>15 DEF NormalInv

(* A program of reconcileDelete.                                             *)
DeleteProgram(s) == s \in Seq(Tasks \ Closing) /\ \A i \in 1..Len(s) : DeleteTask(s[i])

LEMMA DeleteConcat ==
    ASSUME NEW s, NEW t, DeleteProgram(s), DeleteProgram(t)
    PROVE  DeleteProgram(s \o t)
<1> DEFINE p == s \o t
<1>1. s \in Seq(Tasks \ Closing) /\ t \in Seq(Tasks \ Closing)
  BY DEF DeleteProgram
<1>2. /\ p \in Seq(Tasks \ Closing) /\ Len(p) = Len(s) + Len(t)
      /\ \A i \in 1..Len(p) : p[i] = IF i <= Len(s) THEN s[i] ELSE t[i - Len(s)]
      /\ Len(s) \in Nat /\ Len(t) \in Nat
  BY <1>1
<1> HIDE DEF p
<1>3. ASSUME NEW i \in 1..Len(p) PROVE DeleteTask(p[i])
  <2> DEFINE d == i - Len(s)
  <2>1. \/ i \in 1..Len(s) /\ p[i] = s[i]
        \/ d \in 1..Len(t) /\ p[i] = t[d]
    BY <1>2
  <2> HIDE DEF d
  <2> QED BY <2>1 DEF DeleteProgram
<1> QED BY <1>2, <1>3 DEF DeleteProgram, p

LEMMA DeleteOne ==
    ASSUME NEW t \in Tasks \ Closing, DeleteTask(t)
    PROVE  DeleteProgram(<<t>>)
<1> DEFINE s == <<t>>
<1>1. s \in Seq(Tasks \ Closing) /\ Len(s) = 1 /\ s[1] = t
  OBVIOUS
<1> HIDE DEF s
<1> QED BY <1>1 DEF DeleteProgram, s

LEMMA DeleteProgramFacts ==
    /\ DeleteProgram(deleteFIPTasks) /\ DeleteProgram(deleteLBTasks)
    /\ DeleteProgram(deleteRouterTasks) /\ DeleteProgram(deleteNetworkTasks)
<1>0. DeleteProgram(<<>>)
  BY DEF DeleteProgram
<1>1. DeleteProgram(deleteFIPTasks)
  <2> DEFINE t == <<"deleteFIP", FIPKey>>
  <2>1. FIPWanted => t \in Tasks \ Closing /\ DeleteTask(t)
    BY KeyFacts, UuidFacts DEF Tasks, Closing, Idle, DeleteTask, DeleteKinds, Keys, StatusKeys, FIPKeys
  <2>2. deleteFIPTasks = IF FIPWanted THEN <<t>> ELSE <<>>
    BY DEF deleteFIPTasks
  <2> HIDE DEF t
  <2>3. FIPWanted => DeleteProgram(<<t>>)
    BY <2>1, DeleteOne
  <2> QED BY <1>0, <2>2, <2>3
<1>2. DeleteProgram(deleteLBTasks)
  <2> DEFINE t == <<"deleteLB", LBKey>>
  <2>1. LBEnabled => t \in Tasks \ Closing /\ DeleteTask(t)
    BY KeyFacts, UuidFacts DEF Tasks, Closing, Idle, DeleteTask, DeleteKinds, Keys, StatusKeys, LBKeys
  <2>2. deleteLBTasks = IF LBEnabled THEN <<t>> ELSE <<>>
    BY DEF deleteLBTasks
  <2> HIDE DEF t
  <2>3. LBEnabled => DeleteProgram(<<t>>)
    BY <2>1, DeleteOne
  <2> QED BY <1>0, <2>2, <2>3
<1>3. DeleteProgram(deleteRouterTasks)
  <2> DEFINE s == [i \in 1..Len(Routers) |-> <<"readRouter", RouterKey(Routers[i])>>]
             t == <<"end", "routers">>
  <2>1. Routers \in Seq(RouterNames) /\ Len(Routers) \in Nat
    BY ClusterSpecAssumption
  <2>2. \A r \in RouterNames : /\ <<"readRouter", RouterKey(r)>> \in Tasks \ Closing
                               /\ DeleteTask(<<"readRouter", RouterKey(r)>>)
    BY KeyFacts, UuidFacts DEF Tasks, Closing, Idle, DeleteTask, DeleteKinds
  <2>3. \A i \in 1..Len(Routers) : s[i] = <<"readRouter", RouterKey(Routers[i])>> /\ Routers[i] \in RouterNames
    BY <2>1
  <2>4. \A i \in 1..Len(Routers) : s[i] \in Tasks \ Closing /\ DeleteTask(s[i])
    <3> HIDE DEF s
    <3> QED BY Zenon, <2>2, <2>3
  <2>5. s = [i \in 1..Len(Routers) |-> s[i]]
    OBVIOUS
  <2>6. t \in Tasks \ Closing /\ DeleteTask(t)
    BY DEF Tasks, Closing, Idle, DeleteTask
  <2>7. deleteRouterTasks = s \o <<t>>
    BY DEF deleteRouterTasks
  <2> HIDE DEF s, t
  <2>8. DeleteProgram(s)
    BY <2>1, <2>4, <2>5, LoopTasks DEF DeleteProgram
  <2>9. DeleteProgram(<<t>>)
    BY <2>6, DeleteOne
  <2> QED BY <2>7, <2>8, <2>9, DeleteConcat
<1>4. DeleteProgram(deleteNetworkTasks)
  <2> DEFINE s == [i \in 1..Len(Networks) |-> <<"deleteNetwork", NetworkKey(Networks[i])>>]
             t == <<"end", "networks">>
  <2>1. Networks \in Seq(NetworkNames) /\ Len(Networks) \in Nat
    BY ClusterSpecAssumption
  <2>2. \A n \in NetworkNames : /\ <<"deleteNetwork", NetworkKey(n)>> \in Tasks \ Closing
                                /\ DeleteTask(<<"deleteNetwork", NetworkKey(n)>>)
    BY KeyFacts, UuidFacts DEF Tasks, Closing, Idle, DeleteTask, DeleteKinds
  <2>3. \A i \in 1..Len(Networks) :
            s[i] = <<"deleteNetwork", NetworkKey(Networks[i])>> /\ Networks[i] \in NetworkNames
    BY <2>1
  <2>4. \A i \in 1..Len(Networks) : s[i] \in Tasks \ Closing /\ DeleteTask(s[i])
    <3> HIDE DEF s
    <3> QED BY Zenon, <2>2, <2>3
  <2>5. s = [i \in 1..Len(Networks) |-> s[i]]
    OBVIOUS
  <2>6. t \in Tasks \ Closing /\ DeleteTask(t)
    BY DEF Tasks, Closing, Idle, DeleteTask
  <2>7. deleteNetworkTasks = s \o <<t>>
    BY DEF deleteNetworkTasks
  <2> HIDE DEF s, t
  <2>8. DeleteProgram(s)
    BY <2>1, <2>4, <2>5, LoopTasks DEF DeleteProgram
  <2>9. DeleteProgram(<<t>>)
    BY <2>6, DeleteOne
  <2> QED BY <2>7, <2>8, <2>9, DeleteConcat
<1> QED BY <1>1, <1>2, <1>3, <1>4

LEMMA DeleteStarts ==
    ASSUME ResourceInv, NormalInv, ReconcileDelete
    PROVE  NormalInv'
<1> DEFINE A == deleteFIPTasks
           B == deleteLBTasks
           t == <<"deleteGroups", None>>
           C == <<t>>
           D == deleteRouterTasks
           E == deleteNetworkTasks
           P == A \o B \o C \o D \o E
<1>1. DeleteProgram(A) /\ DeleteProgram(B) /\ DeleteProgram(D) /\ DeleteProgram(E)
  BY DeleteProgramFacts
<1>2. t \in Tasks \ Closing /\ DeleteTask(t)
  BY DEF Tasks, Closing, Idle, DeleteTask, DeleteKinds
<1>3. DeleteProgram(C)
  <2> HIDE DEF t
  <2> QED BY <1>2, DeleteOne
<1>4. Start(cache, P) /\ cache.phase = "deleting"
  BY Zenon DEF ReconcileDelete
<1> HIDE DEF A, B, C, D, E
<1>5. DeleteProgram(A \o B)
  BY <1>1, DeleteConcat
<1>6. DeleteProgram(A \o B \o C)
  BY <1>3, <1>5, DeleteConcat
<1>7. DeleteProgram(A \o B \o C \o D)
  BY <1>1, <1>6, DeleteConcat
<1>8. DeleteProgram(P)
  BY <1>1, <1>7, DeleteConcat
<1>9. P # <<>>
  <2>1. Len(C) = 1
    BY DEF C
  <2>2. A \in Seq(Tasks) /\ B \in Seq(Tasks) /\ C \in Seq(Tasks) /\ D \in Seq(Tasks) /\ E \in Seq(Tasks)
    BY <1>1, <1>3 DEF DeleteProgram
  <2>3. Len(P) = Len(A) + Len(B) + Len(C) + Len(D) + Len(E)
    BY <2>2
  <2> QED BY <2>1, <2>2, <2>3
<1> HIDE DEF P
<1>10. P \in Seq(Tasks \ Closing) /\ \A i \in 1..Len(P) : DeleteTask(P[i])
  BY <1>8 DEF DeleteProgram
<1>11. Push(P) /\ todo \in Seq(Tasks \ Closing) /\ Range(todo) = {}
  BY Zenon, <1>4, <1>9, <1>10, StartPush
<1>12. Ahead' = Range(P) /\ task' \in Tasks \ Closing /\ todo' \in Seq(Tasks \ Closing)
  BY <1>10, <1>11, PushAhead, PushFacts
<1>13. DOMAIN P = 1..Len(P)
  BY <1>10
<1>14. \A d \in Ahead' : DeleteTask(d)
  BY <1>10, <1>12, <1>13, Zenon DEF Range
<1>15. mem'.phase = "deleting"
  BY <1>4 DEF Start
<1>16. TaskInv' /\ ~Working'
  BY <1>12, <1>14, <1>15 DEF TaskInv, Working
<1> QED BY <1>16 DEF NormalInv, OrderInv, Progress

(* While the reconcile does not move, and in Close.                          *)
LEMMA StillNormal ==
    ASSUME NormalInv, UNCHANGED local
    PROVE  NormalInv'
BY Zenon DEF local, NormalInv, TaskInv, OrderInv, Progress, Owed, Working, Ahead

LEMMA CloseNormal ==
    ASSUME NormalInv, PatchConditions \/ PatchObject \/ PatchStatus \/ Crash
    PROVE  NormalInv'
<1>1. task' \in Closing /\ todo' = <<>>
  BY Zenon DEF PatchConditions, PatchObject, PatchStatus, Crash, Goto, Closing, Idle,
               NormalInv, TaskInv
<1>2. task' \in Tasks /\ todo' \in Seq(Tasks \ Closing)
  BY <1>1 DEF Closing, Idle, Tasks
<1> QED BY <1>1, <1>2 DEF NormalInv, TaskInv, OrderInv, Progress, Working

LEMMA InitNormal == Init => NormalInv
<1> SUFFICES ASSUME Init PROVE NormalInv
  OBVIOUS
<1>1. task \in Closing /\ todo = <<>>
  BY DEF Init, Closing
<1>2. task \in Tasks /\ todo \in Seq(Tasks \ Closing)
  BY <1>1 DEF Closing, Idle, Tasks
<1> QED BY <1>1, <1>2 DEF NormalInv, TaskInv, OrderInv, Progress, Working

LEMMA NextNormal == ResourceInv /\ NormalInv /\ [Next]_vars => NormalInv'
<1> SUFFICES ASSUME ResourceInv, NormalInv, [Next]_vars PROVE NormalInv'
  OBVIOUS
<1>1. CASE Succeeds
  <2>1. CASE ControllerStep
    <3>1. CASE ReconcileSkip
      BY <3>1, StillNormal DEF ReconcileSkip
    <3>2. CASE ReconcileNormal \/ ReconcileDelete
      BY <3>2, NormalStarts, DeleteStarts
    <3>3. CASE networksReconciled \/ routersReconciled \/ finish \/ networksDeleted
      BY <3>3, EndNormal, RouterNormal
    <3>4. CASE deleteServerGroups \/ deleteServerGroup \/ routersDeleted
      BY <3>4, ServerGroupNormal, RoutersDeletedNormal
    <3>5. CASE PatchConditions \/ PatchObject \/ PatchStatus
      BY <3>5, CloseNormal
    <3> QED BY <2>1, <3>1, <3>2, <3>3, <3>4, <3>5 DEF ControllerStep
  <2>2. CASE LoadBalancerStep
    BY <2>2, LoadBalancerNormal, LoadBalancerDeleteNormal DEF LoadBalancerStep
  <2>3. CASE FloatingIPStep
    BY <2>3, FloatingIPNormal, LoadBalancerDeleteNormal DEF FloatingIPStep
  <2>4. CASE \E n \in NetworkNames : NetworkStep(n)
    BY <2>4, NetworkNormal, NetworkDeleteNormal DEF NetworkStep
  <2>5. CASE \E r \in RouterNames : RouterStep(r)
    BY Zenon, <2>5, RouterNormal, RouterDeleteNormal DEF RouterStep
  <2>6. CASE \E i \in Attachments : InterfaceStep(i[1], i[2])
    BY <2>6, AttachmentFacts, InterfaceNormal, DetachNormal DEF InterfaceStep
  <2>7. CASE \/ \E c \in CPMachines : LBEnabled /\ createLoadBalancerMember(c)
             \/ \E u \in Uuids : u[1] \in MemberKeys /\ MemberStep(u)
    BY <2>7, MemberNormal DEF MemberStep
  <2>8. CASE \E k \in EnsuredKeys : ResourceStep(k)
    BY <2>8, ResourceNormal
  <2> QED BY <1>1, <2>1, <2>2, <2>3, <2>4, <2>5, <2>6, <2>7, <2>8 DEF Succeeds
<1>2. CASE Fails
  <2>1. CASE CallFails \/ deleteServerGroupsFails
    BY <2>1, EndNormal, ServerGroupNormal
  <2>2. CASE \/ LBEnabled /\ deleteLoadBalancerFails
             \/ FIPWanted /\ deleteFloatingIPFails
    BY <2>2, LoadBalancerDeleteNormal
  <2>3. CASE \/ \E n \in NetworkNames : deleteNetworkFails(n)
             \/ \E r \in RouterNames : deleteRouterFails(r)
    BY Zenon, <2>3, NetworkDeleteNormal, RouterDeleteNormal
  <2>4. CASE \E i \in Attachments :
                createRouterInterfaceFails(i[1], i[2]) \/ detachInterfaceFails(i[1], i[2])
    BY <2>4, AttachmentFacts, InterfaceNormal, DetachNormal
  <2> QED BY <1>2, <2>1, <2>2, <2>3, <2>4 DEF Fails
<1>3. CASE Timeout
  BY Zenon, <1>3, AttachmentFacts, InterfaceNormal, MemberNormal, ResourceNormal DEF Timeout
<1>4. CASE Event
  BY <1>4, StillNormal, Zenon DEF Event, CacheSync, SetOwnerRef, PauseTransition, ControlPlaneInitialized,
     GroupEvent, Resync, DeleteObject, MachineEvent
<1>5. CASE Crash
  BY <1>5, CloseNormal
<1>6. CASE \E u \in Uuids : CloudEvent(u)
  BY <1>6, StillNormal, Zenon DEF CloudEvent, Settles, BecomesReady, PendingLands, PendingLost,
     CleanedUp, Recovers, Degrades, DeletedExternally, Becomes
<1>7. CASE \E i \in Attachments : AttachedExternally(i[1], i[2])
  BY <1>7, StillNormal, Zenon DEF AttachedExternally
<1>8. CASE UNCHANGED vars
  BY <1>8, StillNormal DEF vars
<1> QED BY <1>1, <1>2, <1>3, <1>4, <1>5, <1>6, <1>7, <1>8 DEF Next

(* The parts are taken in their order, and a resource of the spec whose ID   *)
(* is not in memory still has its call ahead.                                *)
THEOREM TasksInOrder == Spec => []NormalInv
BY InitNormal, NextNormal, ResourcesKeyed, PTL DEF Spec

-----------------------------------------------------------------------------
(* Provisioned is final.                                                     *)

(* At the end of reconcileNormal nothing is owed.                            *)
LEMMA NothingOwed ==
    ASSUME NormalInv, finish
    PROVE  /\ \A k \in StatusKeys : mem.ids[k] \in Uuids
           /\ LBEnabled => aux.vip \in Uuids
<1>1. task = <<"finish", None>>
  BY Zenon DEF finish
<1>2. Rank(task) = 6 /\ ~DeleteTask(task) /\ task \notin Closing
  BY <1>1 DEF Rank, Stage, DeleteTask, DeleteKinds, Closing, Idle
<1>3. Working
  BY <1>2, TaskModes
<1>4. \A t \in Ahead : Rank(t) >= 6
  <2>1. \A i \in DOMAIN todo : Rank(todo[i]) >= Rank(task)
    BY <1>3, RankFacts DEF NormalInv, OrderInv
  <2> QED BY <1>2, <2>1 DEF Ahead, Range
<1>5. ~aux.waiting
  BY <1>3, <1>4, RankFacts DEF NormalInv, OrderInv
<1>6. ASSUME NEW k \in StatusKeys, NEW t \in Owing(k) PROVE Rank(t) < 6
  <2>1. \A n : \A s \in {"network", "subnet", "router", "lb", "pool", "listener", "monitor", "fip"} :
            \A c \in Calls(<<s, n>>) : Rank(c) < 6
    BY DEF Calls, Rank, Stage
  <2>2. \A x : \A s \in {"discover", "interface", "adopt", "adoptFIP"} : Rank(<<s, x>>) < 6
    BY DEF Rank, Stage
  <2>3. CASE k[1] \in {"network", "subnet"}
    BY Zenon, <2>1, <2>2, <2>3, <1>6 DEF Owing, NetworkKey, SubnetKey
  <2>4. CASE k[1] = "interface"
    BY Zenon, <2>1, <2>2, <2>4, <1>6 DEF Owing, RouterKey
  <2>5. CASE k[1] \notin {"network", "subnet", "interface"}
    <3>1. \E n : \E s \in {"router", "lb", "pool", "listener", "monitor", "fip"} : k = <<s, n>>
      BY <2>5 DEF StatusKeys, NetworkKeys, RouterKeys, InterfaceKeys, LBKeys, FIPKeys, NetworkKey,
                  SubnetKey, RouterKey, InterfaceKey, LBKey, PoolKey, ListenerKey, MonitorKey, FIPKey
    <3> QED BY Zenon, <2>1, <2>2, <2>5, <3>1, <1>6 DEF Owing
  <2> QED BY <2>3, <2>4, <2>5
<1>7. \A k \in StatusKeys : mem.ids[k] \in Uuids
  <2> SUFFICES ASSUME NEW k \in StatusKeys PROVE mem.ids[k] \in Uuids
    OBVIOUS
  <2>1. Owed(k)
    BY <1>3 DEF NormalInv, Progress
  <2>2. \A t \in Ahead : t \notin Owing(k)
    <3> SUFFICES ASSUME NEW t \in Ahead, t \in Owing(k) PROVE FALSE
      OBVIOUS
    <3>1. Rank(t) < 6 /\ Rank(t) >= 6 /\ Rank(t) \in Nat
      BY <1>4, <1>6, RankFacts
    <3> QED BY <3>1
  <2> QED BY <1>5, <2>1, <2>2, Zenon DEF Owed
<1>8. LBEnabled => aux.vip \in Uuids
  <2>1. Rank(<<"readLB", LBKey>>) = 4
    BY DEF Rank, Stage
  <2> QED BY <1>3, <1>4, <2>1 DEF NormalInv, Progress
<1> QED BY <1>7, <1>8

(* What of Provisioned has been read is kept by the reconcile; without a     *)
(* floating IP and a load balancer the endpoint is the user's.               *)
Given(o) == o.endpoint = UserEndpoint /\ (o.provisioned => UserEndpoint # None)

FinalInv ==
    /\ task # Idle /\ base.provisioned => mem.provisioned
    /\ ~FIPWanted /\ ~LBEnabled => Given(obj) /\ Given(cache) /\ Given(mem) /\ Given(base)

LEMMA FinishFinal ==
    ASSUME ResourceInv, NormalInv, FinalInv, finish
    PROVE  FinalInv'
<1>0. mem \in Clusters
  BY Before
<1> DEFINE o == reconcileControlPlaneEndpoint(mem)
<1>1. /\ UNCHANGED <<obj, cache, base>>
      /\ mem' = setReadyCondition([o EXCEPT !.provisioned = isInfrastructureProvisioned(o)])
  BY Zenon DEF finish, Return, outside, k8s
<1>2. task # Idle
  BY DEF finish, Idle
<1>3. o.ids = mem.ids /\ DOMAIN o = DOMAIN mem
  BY <1>0, Zenon DEF reconcileControlPlaneEndpoint, Clusters
<1>4. DOMAIN mem = {"phase", "owned", "finalizer", "endpoint", "ids", "members",
                    "provisioned", "cond", "ready"}
  BY <1>0 DEF Clusters
<1>5. o.endpoint = IF mem.endpoint # None THEN mem.endpoint
                   ELSE IF FIPWanted THEN mem.ids[FIPKey]
                   ELSE IF LBEnabled THEN aux.vip ELSE None
  BY <1>4, Zenon DEF reconcileControlPlaneEndpoint
<1> HIDE DEF o
<1>6. /\ mem'.endpoint = o.endpoint
      /\ mem'.provisioned = isInfrastructureProvisioned(o)
  BY <1>1, <1>3, <1>4, Zenon DEF setReadyCondition
<1>7. ASSUME base.provisioned PROVE isInfrastructureProvisioned(o)
  <2>1. \A k \in StatusKeys : o.ids[k] \in Uuids
    BY <1>3, NothingOwed
  <2>2. NetworkKeys \cup FIPKeys \cup LBKeys \cup RouterKeys \subseteq StatusKeys
    BY DEF StatusKeys
  <2>3. o.endpoint # None
    <3>1. CASE FIPWanted \/ LBEnabled
      <4>1. FIPWanted => mem.ids[FIPKey] \in Uuids
        BY NothingOwed DEF StatusKeys, FIPKeys
      <4> QED BY <1>5, <3>1, <4>1, NothingOwed, ClusterNoneAssumption
    <3>2. CASE ~FIPWanted /\ ~LBEnabled
      BY Zenon, <1>5, <1>7, <3>2 DEF FinalInv, Given
    <3> QED BY <3>1, <3>2
  <2> QED BY <2>1, <2>2, <2>3, ClusterNoneAssumption DEF isInfrastructureProvisioned
<1>8. ~FIPWanted /\ ~LBEnabled => Given(mem')
  <2>1. isInfrastructureProvisioned(o) => o.endpoint # None
    BY Zenon DEF isInfrastructureProvisioned
  <2> QED BY <1>5, <1>6, <2>1 DEF FinalInv, Given
<1> QED BY <1>1, <1>6, <1>7, <1>8 DEF FinalInv

LEMMA NextFinal ==
    ASSUME ResourceInv, NormalInv, FinalInv, [Next]_vars
    PROVE  /\ FinalInv'
           /\ obj.provisioned /\ obj'.phase # "gone" => obj'.provisioned
<1>0. obj \in Clusters /\ mem \in Clusters /\ base \in Clusters /\ cache \in Clusters
  BY Zenon DEF ResourceInv, ObjectInv, Keyed
<1>1. Given(NewCluster) /\ Given(GoneCluster) /\ GoneCluster.phase = "gone" /\ ~NewCluster.provisioned
  BY NewFacts, Zenon DEF Given
<1>2. CASE Handler
  <2>1. task # Idle
    BY <1>2 DEF Handler, Closing
  <2> QED BY <1>2, <2>1, Zenon DEF Handler, Keeps, FinalInv, Given
<1>3. CASE finish
  <2>1. obj' = obj
    BY <1>3, Zenon DEF finish, outside, k8s
  <2> QED BY <1>3, <2>1, FinishFinal
<1>4. CASE networksDeleted
  <2> DEFINE c == setCondition(mem, "network", FALSE)
             i == [k \in StatusKeys |->
                     IF \E n \in aux.gone : k \in {NetworkKey(n), SubnetKey(n)}
                     THEN None ELSE mem.ids[k]]
             o == [c EXCEPT !.ids = i]
  <2>1. /\ mem' = o \/ mem' = [o EXCEPT !.ready = FALSE, !.finalizer = FALSE]
        /\ UNCHANGED <<obj, cache, base>>
    BY <1>4, Zenon DEF networksDeleted, Return, outside, k8s
  <2>2. task # Idle
    BY <1>4 DEF networksDeleted, Idle
  <2>3. c.endpoint = mem.endpoint /\ c.provisioned = mem.provisioned /\ DOMAIN c = DOMAIN mem
    BY Zenon, <1>0 DEF setCondition, Clusters
  <2>4. DOMAIN mem = {"phase", "owned", "finalizer", "endpoint", "ids", "members",
                      "provisioned", "cond", "ready"}
    BY <1>0 DEF Clusters
  <2> HIDE DEF c, i
  <2>5. o.endpoint = c.endpoint /\ o.provisioned = c.provisioned /\ DOMAIN o = DOMAIN c
    BY <2>3, <2>4, Zenon
  <2> HIDE DEF o
  <2>6. mem'.endpoint = o.endpoint /\ mem'.provisioned = o.provisioned
    BY <2>1, <2>3, <2>4, <2>5, Zenon
  <2> QED BY <2>1, <2>2, <2>3, <2>5, <2>6, Zenon DEF FinalInv, Given
<1>5. CASE ReconcileNormal \/ ReconcileDelete
  <2>1. /\ UNCHANGED <<obj, cache>> /\ base' = cache
        /\ mem' = cache \/ mem' = [cache EXCEPT !.finalizer = TRUE]
    BY <1>5, Zenon DEF ReconcileNormal, ReconcileDelete, Start, k8s
  <2>2. mem'.endpoint = cache.endpoint /\ mem'.provisioned = cache.provisioned
    BY <1>0, <2>1, Zenon DEF Clusters
  <2> QED BY <2>1, <2>2, Zenon DEF FinalInv, Given
<1>6. CASE PatchConditions \/ PatchObject
  <2>1. UNCHANGED <<cache, mem, base>> /\ task # Idle
    BY <1>6 DEF PatchConditions, PatchObject, Idle
  <2>2. obj' \in {obj, GoneCluster, MergeConditions, MergeObject}
    BY <1>6, Zenon DEF PatchConditions, PatchObject, Patch, Stored
  <2>3. /\ obj' = GoneCluster \/ obj'.provisioned = obj.provisioned
        /\ ~FIPWanted /\ ~LBEnabled => Given(obj')
    BY <1>1, <2>2, MergeFacts, Zenon DEF FinalInv, Given, Keeps, Merge
  <2> QED BY <1>1, <2>1, <2>3, Zenon DEF FinalInv
<1>7. CASE PatchStatus
  <2>1. /\ cache' = cache /\ mem' = NewCluster /\ base' = NewCluster /\ task' = Idle
        /\ task # Idle
    BY <1>7 DEF PatchStatus, Idle
  <2>2. obj' \in {obj, GoneCluster, MergeStatus}
    BY <1>7, Zenon DEF PatchStatus, Patch, Stored
  <2>3. base.provisioned \in BOOLEAN /\ mem.provisioned \in BOOLEAN
    BY <1>0 DEF Clusters
  <2>4. obj.provisioned => MergeStatus.provisioned
    BY Zenon, <2>1, <2>3, MergeFacts DEF FinalInv, Merge
  <2>5. ~FIPWanted /\ ~LBEnabled => Given(MergeStatus)
    BY MergeFacts, Zenon DEF FinalInv, Given, Merge
  <2> QED BY <1>1, <2>1, <2>2, <2>4, <2>5, Zenon DEF FinalInv
<1>8. CASE CacheSync \/ Crash
  <2>1. obj' = obj /\ cache' = obj
    BY <1>8, Zenon DEF CacheSync, Crash
  <2>2. \/ UNCHANGED <<task, mem, base>>
        \/ task' = Idle /\ mem' = NewCluster /\ base' = NewCluster
    BY <1>8, Zenon DEF CacheSync, Crash, local
  <2> QED BY <1>1, <2>1, <2>2, Zenon DEF FinalInv
<1>9. CASE SetOwnerRef \/ DeleteObject
  <2> DEFINE o == [obj EXCEPT !.owned = TRUE]
             p == [obj EXCEPT !.phase = "deleting"]
  <2>1. UNCHANGED <<cache, mem, base, task>> /\ obj' \in {o, p, GoneCluster}
    BY <1>9, Zenon DEF SetOwnerRef, DeleteObject, local, Stored
  <2>2. /\ o.endpoint = obj.endpoint /\ o.provisioned = obj.provisioned
        /\ p.endpoint = obj.endpoint /\ p.provisioned = obj.provisioned
    BY <1>0, Zenon DEF Clusters
  <2> HIDE DEF o, p
  <2> QED BY <1>1, <2>1, <2>2, Zenon DEF FinalInv, Given
<1>10. CASE Quiet
  BY <1>10, Zenon DEF Quiet, FinalInv, Given
<1> QED BY <1>2, <1>3, <1>4, <1>5, <1>6, <1>7, <1>8, <1>9, <1>10, StepKinds

(* In any environment, Provisioned is recomputed by every reconcile and is   *)
(* never taken back: a reconcile that does not return early has recorded     *)
(* every resource of the spec by its end.                                    *)
THEOREM ProvisionedFinal == Spec => ProvisionedIsFinal
<1>1. Init => FinalInv
  BY NewFacts, Zenon DEF Init, FinalInv, Given
<1>2. ResourceInv /\ NormalInv /\ FinalInv /\ [Next]_vars => FinalInv'
  BY NextFinal
<1>3. ResourceInv /\ NormalInv /\ FinalInv /\ [Next]_vars
        => [obj.provisioned /\ obj'.phase # "gone" => obj'.provisioned]_vars
  BY NextFinal
<1> QED BY <1>1, <1>2, <1>3, ResourcesKeyed, TasksInOrder, PTL DEF Spec, ProvisionedIsFinal

=============================================================================
