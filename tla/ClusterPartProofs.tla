--------------------------- MODULE ClusterPartProofs ---------------------------
(***************************************************************************)
(* The program of a reconcile: every step of a part goes on with the tasks *)
(* of the same part and then with the next one, and a resource of the spec *)
(* whose ID is not in memory still has its call ahead.                     *)
(***************************************************************************)
EXTENDS ClusterStateProofs, Integers

(* The tasks that a reconcile has not finished.                              *)
Ahead == {task} \cup Range(todo)

(* The calls of ensureResource.                                              *)
Calls(k) == {<<"ensure", k>>, <<"list", k>>, <<"create", k>>}

(* The tasks of reconcileDelete.                                             *)
DeleteKinds == {"deleteFIP", "deleteLB", "deleteGroups", "deleteGroup", "readRouter",
                "detach", "deleteRouter", "deleteNetwork"}

DeleteTask(t) == t[1] \in DeleteKinds \/ t \in {<<"end", "routers">>, <<"end", "networks">>}

(* The place of a task of reconcileNormal in the order of its parts.         *)
Stage(t) == IF t[1] \in {"ensure", "list", "create"} THEN t[2][1]
            ELSE IF t[1] = "end" THEN t[2] ELSE t[1]

Rank(t) ==
    IF t = <<"end", "router">> THEN 3
    ELSE IF Stage(t) \in {"network", "subnet", "discover"} THEN 1
    ELSE IF Stage(t) \in {"router", "adopt", "interface"} THEN 2
    ELSE IF Stage(t) \in {"lb", "pool", "listener", "monitor", "readLB", "members",
                          "addMember", "updateMember", "removeMember"} THEN 4
    ELSE IF Stage(t) \in {"fip", "adoptFIP", "assign"} THEN 5 ELSE 6

(* A task that may wait for its turn: the list and the create follow at once,*)
(* and so does the subnet of a network.                                      *)
Direct(t) == t[1] \notin {"list", "create"} /\ ~(t[1] = "ensure" /\ t[2][1] = "subnet")

(* A task of a handler, all of reconcileNormal or all of reconcileDelete.    *)
TaskInv ==
    /\ task \in Tasks /\ todo \in Seq(Tasks \ Closing)
    /\ task \in Closing => todo = <<>>
    /\ task \notin Closing => mem.phase \in {"live", "deleting"}
    /\ task \notin Closing /\ mem.phase = "deleting" => \A t \in Ahead : DeleteTask(t)

Working == task \notin Closing /\ mem.phase = "live"

(* The parts follow each other; who waits for a router still has the end of  *)
(* reconcileRouters to come.                                                 *)
OrderInv ==
    Working =>
        /\ \A t \in Ahead : ~DeleteTask(t)
        /\ \A i \in DOMAIN todo : Rank(task) <= Rank(todo[i])
        /\ \A i, j \in DOMAIN todo : i < j => Rank(todo[i]) <= Rank(todo[j])
        /\ \A t \in Range(todo) : Direct(t)
        /\ Rank(task) <= 2 => <<"end", "router">> \in Range(todo)
        /\ aux.waiting => <<"end", "router">> \in Ahead

-----------------------------------------------------------------------------
(* Moves.                                                                    *)

(* The next task is taken, after those that were pushed.                     *)
LEMMA PushFacts ==
    ASSUME NEW T, todo \in Seq(T), NEW ts \in Seq(T), Push(ts)
    PROVE  /\ task' \in T /\ todo' \in Seq(T)
           /\ Len(ts) = 0 => /\ Len(todo) > 0 /\ task' = todo[1] /\ Len(todo') = Len(todo) - 1
                             /\ \A i \in 1..Len(todo') : todo'[i] = todo[i + 1]
           /\ Len(ts) > 0 => /\ task' = ts[1] /\ Len(todo') = Len(ts) - 1 + Len(todo)
                             /\ \A i \in 1..(Len(ts) - 1) : todo'[i] = ts[i + 1]
                             /\ \A i \in Len(ts)..Len(todo') : todo'[i] = todo[i + 1 - Len(ts)]
<1> DEFINE s == ts \o todo
<1>1. /\ s \in Seq(T) /\ Len(s) = Len(ts) + Len(todo)
      /\ \A i \in 1..Len(s) : s[i] = IF i <= Len(ts) THEN ts[i] ELSE todo[i - Len(ts)]
  OBVIOUS
<1>2. s # <<>> /\ task' = Head(s) /\ todo' = Tail(s)
  BY DEF Push
<1> HIDE DEF s
<1>3. /\ task' = s[1] /\ Len(todo') = Len(s) - 1 /\ todo' \in Seq(T) /\ Len(s) > 0
      /\ \A i \in 1..Len(todo') : todo'[i] = s[i + 1]
  BY <1>1, <1>2
<1> QED BY <1>1, <1>3

(* Going to a task is pushing it.                                            *)
LEMMA GotoPush ==
    ASSUME NEW T, todo \in Seq(T), NEW t \in T, Goto(t)
    PROVE  Push(<<t>>)
<1> DEFINE s == <<t>> \o todo
<1>1. /\ s \in Seq(T) /\ Len(s) = 1 + Len(todo) /\ s[1] = t
      /\ \A i \in 1..Len(todo) : s[i + 1] = todo[i]
  OBVIOUS
<1> HIDE DEF s
<1>2. Tail(s) \in Seq(T) /\ Len(Tail(s)) = Len(todo) /\ \A i \in 1..Len(todo) : Tail(s)[i] = todo[i]
  BY <1>1
<1>3. s # <<>> /\ Head(s) = t /\ Tail(s) = todo
  BY <1>1, <1>2
<1> QED BY <1>3 DEF Goto, Push, s

(* What is ahead after a push.                                               *)
LEMMA PushAhead ==
    ASSUME NEW T, todo \in Seq(T), NEW ts \in Seq(T), Push(ts)
    PROVE  Ahead' = Range(ts) \cup Range(todo)
<1>1. Range(todo) = {todo[i] : i \in 1..Len(todo)} /\ Range(ts) = {ts[i] : i \in 1..Len(ts)}
      /\ Range(todo)' = {todo'[i] : i \in 1..Len(todo')}
  BY PushFacts DEF Range
<1>2. CASE Len(ts) = 0
  <2>1. /\ task' = todo[1] /\ Len(todo) > 0 /\ Len(todo') = Len(todo) - 1
        /\ \A i \in 1..Len(todo') : todo'[i] = todo[i + 1]
    BY Zenon, <1>2, PushFacts
  <2>2. \A i \in 1..Len(todo) : todo[i] \in {task'} \cup {todo'[j] : j \in 1..Len(todo')}
    <3> SUFFICES ASSUME NEW i \in 1..Len(todo), i > 1 PROVE todo[i] \in {todo'[j] : j \in 1..Len(todo')}
      BY <2>1
    <3>1. i - 1 \in 1..Len(todo') /\ todo[i] = todo'[i - 1]
      BY <2>1
    <3> QED BY <3>1
  <2>3. Range(ts) = {}
    BY <1>1, <1>2
  <2>4. \A t \in Range(todo) : t = task' \/ t \in Range(todo)'
    BY <1>1, <2>2
  <2>5. ASSUME NEW j \in 1..Len(todo') PROVE todo'[j] \in Range(todo)
    <3>1. j + 1 \in 1..Len(todo) /\ todo'[j] = todo[j + 1]
      BY <2>1
    <3> QED BY <1>1, <3>1
  <2>6. \A t \in Range(todo)' : t \in Range(todo)
    BY <1>1, <2>5
  <2>7. task' \in Range(todo)
    BY <1>1, <2>1
  <2> QED BY Zenon, <2>3, <2>4, <2>6, <2>7 DEF Ahead
<1>3. CASE Len(ts) > 0
  <2>1. /\ task' = ts[1] /\ Len(todo') = Len(ts) - 1 + Len(todo)
        /\ \A i \in 1..(Len(ts) - 1) : todo'[i] = ts[i + 1]
        /\ \A i \in Len(ts)..Len(todo') : todo'[i] = todo[i + 1 - Len(ts)]
    BY <1>3, PushFacts
  <2>2. ASSUME NEW i \in 1..Len(todo) PROVE todo[i] \in {todo'[j] : j \in 1..Len(todo')}
    <3> DEFINE m == i + Len(ts) - 1
    <3>1. m \in 1..Len(todo') /\ m \in Len(ts)..Len(todo') /\ m + 1 - Len(ts) = i
      BY <1>3, <2>1
    <3> HIDE DEF m
    <3>2. todo'[m] = todo[i]
      BY <2>1, <3>1
    <3> QED BY Zenon, <3>1, <3>2
  <2>3. ASSUME NEW i \in 1..Len(ts), i > 1 PROVE ts[i] \in {todo'[j] : j \in 1..Len(todo')}
    <3> DEFINE m == i - 1
    <3>1. m \in 1..Len(todo') /\ m \in 1..(Len(ts) - 1) /\ m + 1 = i
      BY <2>1, <2>3
    <3> HIDE DEF m
    <3>2. todo'[m] = ts[i]
      BY <2>1, <3>1
    <3> QED BY Zenon, <3>1, <3>2
  <2>4. ASSUME NEW j \in 1..Len(todo') PROVE todo'[j] \in Range(ts) \cup Range(todo)
    <3>1. CASE j <= Len(ts) - 1
      BY <1>1, <2>1, <3>1
    <3>2. CASE j > Len(ts) - 1
      <4>1. j \in Len(ts)..Len(todo') /\ j + 1 - Len(ts) \in 1..Len(todo)
        BY <2>1, <3>2
      <4> QED BY <1>1, <2>1, <4>1
    <3> QED BY <3>1, <3>2
  <2>5. ts[1] \in Range(ts)
    BY <1>1, <1>3
  <2>6. \A t \in Range(ts) : t = ts[1] \/ t \in Range(todo)'
    BY <1>1, <2>3
  <2>7. \A t \in Range(todo) : t \in Range(todo)'
    BY <1>1, <2>2
  <2>8. \A t \in Range(todo)' : t \in Range(ts) \cup Range(todo)
    BY <1>1, <2>4
  <2> QED BY <2>1, <2>5, <2>6, <2>7, <2>8 DEF Ahead
<1> QED BY <1>2, <1>3

(* Ranks are numbers, and only the end of reconcileRouters has the rank 3.   *)
LEMMA RankFacts ==
    /\ \A t : Rank(t) \in 1..6
    /\ Rank(<<"end", "router">>) = 3
BY DEF Rank

(* A reconcile goes on with tasks of the same part, then with those after.   *)
LEMMA PushOrder ==
    ASSUME TaskInv, OrderInv, Working, mem'.phase = mem.phase,
           NEW ts \in Seq(Tasks \ Closing), Push(ts),
           \A i \in 1..Len(ts) : Rank(ts[i]) = Rank(task) /\ ~DeleteTask(ts[i]),
           \A i \in 2..Len(ts) : Direct(ts[i]),
           aux'.waiting => /\ aux.waiting \/ Rank(task) <= 2
                           /\ task # <<"end", "router">>
    PROVE  /\ TaskInv' /\ OrderInv' /\ Working'
           /\ Ahead' = Range(ts) \cup Range(todo) /\ Ahead \subseteq Ahead' \cup {task}
<1> DEFINE T == Tasks \ Closing
<1>1. todo \in Seq(T) /\ ts \in Seq(T)
  BY DEF TaskInv
<1>2. /\ task' \in T /\ todo' \in Seq(T)
      /\ Len(ts) = 0 => /\ Len(todo) > 0 /\ task' = todo[1] /\ Len(todo') = Len(todo) - 1
                        /\ \A i \in 1..Len(todo') : todo'[i] = todo[i + 1]
      /\ Len(ts) > 0 => /\ task' = ts[1] /\ Len(todo') = Len(ts) - 1 + Len(todo)
                        /\ \A i \in 1..(Len(ts) - 1) : todo'[i] = ts[i + 1]
                        /\ \A i \in Len(ts)..Len(todo') : todo'[i] = todo[i + 1 - Len(ts)]
  BY <1>1, PushFacts
<1>3. Ahead' = Range(ts) \cup Range(todo)
  BY <1>1, PushAhead
<1> HIDE DEF T
<1>4. Working' /\ TaskInv'
  BY <1>2 DEF Working, TaskInv, T
<1>5. Ahead \subseteq Ahead' \cup {task}
  BY <1>3 DEF Ahead
<1>6. /\ \A i \in 1..Len(todo) : Rank(task) <= Rank(todo[i])
      /\ \A i, j \in 1..Len(todo) : i < j => Rank(todo[i]) <= Rank(todo[j])
  BY <1>1 DEF OrderInv
<1>7. /\ \A i \in 1..Len(todo') : Rank(task') <= Rank(todo'[i])
      /\ \A i, j \in 1..Len(todo') : i < j => Rank(todo'[i]) <= Rank(todo'[j])
  <2>0. Len(ts) \in Nat /\ Len(todo) \in Nat /\ Len(todo') \in Nat
    BY <1>1, <1>2
  <2>1. CASE Len(ts) = 0
    <3>1. /\ Len(todo') = Len(todo) - 1 /\ 1 \in 1..Len(todo) /\ task' = todo[1]
          /\ \A i \in 1..Len(todo') : /\ i + 1 \in 1..Len(todo) /\ 1 < i + 1
                                      /\ todo'[i] = todo[i + 1]
      BY <1>2, <2>0, <2>1
    <3>2. ASSUME NEW i \in 1..Len(todo') PROVE Rank(task') <= Rank(todo'[i])
      <4> DEFINE a == i + 1
      <4>1. a \in 1..Len(todo) /\ 1 < a /\ todo'[i] = todo[a]
        BY <3>1
      <4> HIDE DEF a
      <4> QED BY <1>6, <3>1, <4>1
    <3>3. ASSUME NEW i \in 1..Len(todo'), NEW j \in 1..Len(todo'), i < j
          PROVE  Rank(todo'[i]) <= Rank(todo'[j])
      <4> DEFINE a == i + 1
                 b == j + 1
      <4>1. /\ a \in 1..Len(todo) /\ todo'[i] = todo[a]
            /\ b \in 1..Len(todo) /\ todo'[j] = todo[b] /\ a < b
        BY <2>0, <3>1, <3>3
      <4> HIDE DEF a, b
      <4> QED BY <1>6, <4>1
    <3> QED BY <3>2, <3>3
  <2>2. CASE Len(ts) > 0
    <3>1. \A i \in 1..Len(todo') :
             \/ i < Len(ts) /\ Rank(todo'[i]) = Rank(task)
             \/ /\ i >= Len(ts) /\ i + 1 - Len(ts) \in 1..Len(todo)
                /\ todo'[i] = todo[i + 1 - Len(ts)]
      BY <1>2, <2>0, <2>2
    <3>2. Rank(task') = Rank(task)
      BY <1>2, <2>0, <2>2
    <3>3. ASSUME NEW i \in 1..Len(todo') PROVE Rank(task') <= Rank(todo'[i])
      <4> DEFINE a == i + 1 - Len(ts)
      <4>1. \/ Rank(todo'[i]) = Rank(task)
            \/ a \in 1..Len(todo) /\ todo'[i] = todo[a]
        BY <3>1
      <4> HIDE DEF a
      <4>2. Rank(task) <= Rank(task)
        BY RankFacts
      <4> QED BY <1>6, <3>2, <4>1, <4>2
    <3>4. ASSUME NEW i \in 1..Len(todo'), NEW j \in 1..Len(todo'), i < j
          PROVE  Rank(todo'[i]) <= Rank(todo'[j])
      <4>1. CASE i < Len(ts)
        BY <3>1, <3>2, <3>3, <4>1
      <4>2. CASE i >= Len(ts)
        <5> DEFINE a == i + 1 - Len(ts)
                   b == j + 1 - Len(ts)
        <5>1. /\ a \in 1..Len(todo) /\ b \in 1..Len(todo) /\ a < b
              /\ todo'[i] = todo[a] /\ todo'[j] = todo[b]
          BY <2>0, <3>1, <3>4, <4>2
        <5> HIDE DEF a, b
        <5> QED BY <1>6, <5>1
      <4> QED BY <2>0, <4>1, <4>2
    <3> QED BY <3>3, <3>4
  <2> QED BY <2>0, <2>1, <2>2
<1>8. \A t \in Ahead' : ~DeleteTask(t)
  <2>1. \A t \in Range(ts) : ~DeleteTask(t)
    BY <1>1 DEF Range
  <2> QED BY <1>3, <2>1 DEF OrderInv, Ahead
<1>9. Rank(task') <= 2 => <<"end", "router">> \in Range(todo)'
  <2>1. SUFFICES ASSUME Rank(task') <= 2 PROVE <<"end", "router">> \in Range(todo)'
    OBVIOUS
  <2>2. Rank(task) <= 2
    <3>1. CASE Len(ts) = 0
      <4>1. 1 \in 1..Len(todo) /\ task' = todo[1]
        BY <1>1, <1>2, <3>1
      <4>2. Rank(task) <= Rank(task') /\ Rank(task) \in Int /\ Rank(task') \in Int
        BY <1>6, <4>1, RankFacts
      <4> QED BY <2>1, <4>2
    <3>2. CASE Len(ts) > 0
      BY <1>1, <1>2, <2>1, <3>2
    <3> QED BY <1>1, <3>1, <3>2
  <2>3. <<"end", "router">> \in Ahead'
    BY <1>3, <2>2 DEF OrderInv
  <2>4. task' # <<"end", "router">>
    BY <2>1, RankFacts
  <2> QED BY <2>3, <2>4 DEF Ahead
<1>10. aux'.waiting => <<"end", "router">> \in Ahead'
  BY <1>3 DEF OrderInv, Ahead
<1>13. \A t \in Range(todo)' : Direct(t)
  <2>1. \A i \in 1..Len(todo) : Direct(todo[i])
    BY <1>1 DEF OrderInv, Range
  <2>2. ASSUME NEW i \in 1..Len(todo') PROVE Direct(todo'[i])
    <3>1. CASE Len(ts) = 0
      <4> DEFINE a == i + 1
      <4>1. a \in 1..Len(todo) /\ todo'[i] = todo[a]
        BY <1>1, <1>2, <3>1
      <4> HIDE DEF a
      <4> QED BY <2>1, <4>1
    <3>2. CASE Len(ts) > 0
      <4> DEFINE a == i + 1
                 b == i + 1 - Len(ts)
      <4>1. \/ a \in 2..Len(ts) /\ todo'[i] = ts[a]
            \/ b \in 1..Len(todo) /\ todo'[i] = todo[b]
        BY <1>1, <1>2, <3>2
      <4> HIDE DEF a, b
      <4> QED BY <2>1, <4>1
    <3> QED BY <1>1, <3>1, <3>2
  <2> QED BY <1>2, <2>2 DEF Range
<1>11. DOMAIN todo' = 1..Len(todo')
  BY <1>2
<1>12. OrderInv'
  BY <1>7, <1>8, <1>9, <1>10, <1>11, <1>13 DEF OrderInv
<1> QED BY <1>3, <1>4, <1>5, <1>12

(* So does a deletion.                                                       *)
LEMMA PushDelete ==
    ASSUME TaskInv, task \notin Closing, mem.phase = "deleting", mem'.phase = mem.phase,
           NEW ts \in Seq(Tasks \ Closing), Push(ts),
           \A i \in 1..Len(ts) : DeleteTask(ts[i])
    PROVE  TaskInv' /\ OrderInv' /\ ~Working'
<1>1. todo \in Seq(Tasks \ Closing)
  BY DEF TaskInv
<1>2. task' \in Tasks \ Closing /\ todo' \in Seq(Tasks \ Closing)
  BY <1>1, PushFacts
<1>3. Ahead' = Range(ts) \cup Range(todo)
  BY <1>1, PushAhead
<1>4. \A t \in Range(ts) : DeleteTask(t)
  BY DEF Range
<1>5. \A t \in Ahead' : DeleteTask(t)
  BY <1>3, <1>4 DEF TaskInv, Ahead
<1> QED BY <1>2, <1>5 DEF TaskInv, OrderInv, Working

(* A reconcile returns.                                                      *)
LEMMA ReturnOrder ==
    ASSUME NEW o, NEW res, Return(o, res)
    PROVE  TaskInv' /\ OrderInv' /\ ~Working'
BY DEF Return, TaskInv, OrderInv, Working, Closing, Tasks

-----------------------------------------------------------------------------
(* Progress.                                                                 *)

(* The tasks that end with the ID of the key recorded, unless they return.   *)
Owing(k) ==
    IF k[1] \in {"network", "subnet"}
    THEN {<<"discover", NetworkKey(k[2])>>} \cup Calls(NetworkKey(k[2])) \cup Calls(SubnetKey(k[2]))
    ELSE IF k[1] = "interface"
    THEN {<<"interface", k>>, <<"adopt", RouterKey(k[2][1])>>} \cup Calls(RouterKey(k[2][1]))
    ELSE {<<"adopt", k>>, <<"adoptFIP", k>>} \cup Calls(k)

Owed(k) ==
    \/ mem.ids[k] \in Uuids
    \/ \E t \in Ahead : t \in Owing(k)
    \/ aux.waiting /\ k \in RouterKeys

(* Every ID is recorded or still to be recorded, unless the reconcile waits  *)
(* for a router.                                                             *)
Progress ==
    Working =>
        /\ \A k \in StatusKeys : Owed(k)
        /\ LBEnabled => aux.vip \in Uuids \/ <<"readLB", LBKey>> \in Ahead
        /\ \A n \in NetworkNames : task \in Calls(SubnetKey(n)) => aux.net[n] \in Uuids

NormalInv == TaskInv /\ OrderInv /\ Progress

(* A step of reconcileNormal that goes on with the tasks ts.                 *)
LEMMA Advance ==
    ASSUME NormalInv, Working, mem'.phase = mem.phase,
           NEW ts \in Seq(Tasks \ Closing), Push(ts),
           \A i \in 1..Len(ts) : Rank(ts[i]) = Rank(task) /\ ~DeleteTask(ts[i]),
           \A i \in 2..Len(ts) : Direct(ts[i]),
           aux.waiting => aux'.waiting,
           aux'.waiting => /\ aux.waiting \/ Rank(task) <= 2
                           /\ task # <<"end", "router">>,
           LBEnabled => \/ aux'.vip \in Uuids
                        \/ aux'.vip = aux.vip /\ task # <<"readLB", LBKey>>,
           \A n \in NetworkNames :
                Len(ts) > 0 /\ ts[1] \in Calls(SubnetKey(n)) => aux'.net[n] \in Uuids,
           \A k \in StatusKeys : mem.ids[k] \in Uuids \/ task \in Owing(k) =>
                \/ mem'.ids[k] \in Uuids
                \/ \E i \in 1..Len(ts) : ts[i] \in Owing(k)
                \/ aux'.waiting /\ k \in RouterKeys
    PROVE  NormalInv'
<1>1. TaskInv /\ OrderInv /\ Progress
  BY DEF NormalInv
<1>2. /\ TaskInv' /\ OrderInv' /\ Working'
      /\ Ahead' = Range(ts) \cup Range(todo) /\ Ahead \subseteq Ahead' \cup {task}
  BY <1>1, PushOrder
<1>3. ASSUME NEW k \in StatusKeys PROVE Owed(k)'
  <2>1. Owed(k)
    BY <1>1 DEF Progress
  <2>2. CASE mem.ids[k] \in Uuids \/ task \in Owing(k)
    <3>1. \A i \in 1..Len(ts) : ts[i] \in Ahead'
      BY <1>2 DEF Range
    <3> QED BY <2>2, <3>1 DEF Owed
  <2>3. CASE \E t \in Ahead : t \in Owing(k) /\ t # task
    BY <1>2, <2>3 DEF Owed
  <2>4. CASE aux.waiting /\ k \in RouterKeys
    BY <2>4 DEF Owed
  <2> QED BY <2>1, <2>2, <2>3, <2>4 DEF Owed
<1>4. LBEnabled => aux'.vip \in Uuids \/ <<"readLB", LBKey>> \in Ahead'
  BY <1>1, <1>2 DEF Progress
<1>5. ASSUME NEW n \in NetworkNames, task' \in Calls(SubnetKey(n)) PROVE aux'.net[n] \in Uuids
  <2>1. todo \in Seq(Tasks \ Closing)
    BY <1>1 DEF TaskInv
  <2>2. /\ Len(ts) = 0 => Len(todo) > 0 /\ task' = todo[1]
        /\ Len(ts) > 0 => task' = ts[1]
    BY <2>1, PushFacts
  <2>3. \A t \in Range(todo) : Direct(t)
    BY <1>1 DEF OrderInv
  <2>4. Len(ts) = 0 => Direct(task')
    BY <2>1, <2>2, <2>3 DEF Range
  <2>5. ~Direct(task')
    BY <1>5 DEF Direct, Calls, SubnetKey
  <2> QED BY <1>5, <2>2, <2>4, <2>5
<1> QED BY <1>2, <1>3, <1>4, <1>5 DEF NormalInv, Progress

(* The next task follows.                                                    *)
LEMMA AdvanceNext ==
    ASSUME NormalInv, Working, mem'.phase = mem.phase, NextTask,
           aux.waiting => aux'.waiting,
           aux'.waiting => /\ aux.waiting \/ Rank(task) <= 2
                           /\ task # <<"end", "router">>,
           LBEnabled => \/ aux'.vip \in Uuids
                        \/ aux'.vip = aux.vip /\ task # <<"readLB", LBKey>>,
           \A k \in StatusKeys : mem.ids[k] \in Uuids \/ task \in Owing(k) =>
                mem'.ids[k] \in Uuids \/ (aux'.waiting /\ k \in RouterKeys)
    PROVE  NormalInv'
<1> DEFINE ts == <<>>
<1>1. ts \in Seq(Tasks \ Closing) /\ Len(ts) = 0 /\ Push(ts)
  BY DEF NextTask
<1> HIDE DEF ts
<1>2. /\ \A i \in 1..Len(ts) : Rank(ts[i]) = Rank(task) /\ ~DeleteTask(ts[i])
      /\ \A i \in 2..Len(ts) : Direct(ts[i])
  BY <1>1
<1>3. \A n \in NetworkNames :
        Len(ts) > 0 /\ ts[1] \in Calls(SubnetKey(n)) => aux'.net[n] \in Uuids
  BY <1>1
<1>4. \A k \in StatusKeys : mem.ids[k] \in Uuids \/ task \in Owing(k) =>
                \/ mem'.ids[k] \in Uuids
                \/ \E i \in 1..Len(ts) : ts[i] \in Owing(k)
                \/ aux'.waiting /\ k \in RouterKeys
  OBVIOUS
<1> QED BY Zenon, <1>1, <1>2, <1>3, <1>4, Advance

(* A task that owes nothing is done.                                         *)
LEMMA AdvanceSame ==
    ASSUME NormalInv, Working, mem'.phase = mem.phase, mem'.ids = mem.ids, NextTask,
           aux'.waiting = aux.waiting, aux'.vip = aux.vip,
           aux.waiting => task # <<"end", "router">>,
           task # <<"readLB", LBKey>>,
           \A k \in StatusKeys : task \notin Owing(k)
    PROVE  NormalInv'
<1>1. /\ aux.waiting => aux'.waiting
      /\ aux'.waiting => /\ aux.waiting \/ Rank(task) <= 2
                         /\ task # <<"end", "router">>
  OBVIOUS
<1>2. \A k \in StatusKeys : mem.ids[k] \in Uuids \/ task \in Owing(k) =>
                mem'.ids[k] \in Uuids \/ (aux'.waiting /\ k \in RouterKeys)
  BY Zenon
<1> QED BY <1>1, <1>2, AdvanceNext

(* The task t follows at once.                                               *)
LEMMA AdvanceTo ==
    ASSUME NormalInv, Working, mem'.phase = mem.phase, NEW t \in Tasks \ Closing, Goto(t),
           Rank(t) = Rank(task), ~DeleteTask(t),
           aux'.waiting = aux.waiting, aux'.vip = aux.vip,
           task \notin {<<"end", "router">>, <<"readLB", LBKey>>},
           \A n \in NetworkNames : t \in Calls(SubnetKey(n)) => aux'.net[n] \in Uuids,
           \A k \in StatusKeys : mem.ids[k] \in Uuids \/ task \in Owing(k) =>
                mem'.ids[k] \in Uuids \/ t \in Owing(k)
    PROVE  NormalInv'
<1> DEFINE ts == <<t>>
<1>0. todo \in Seq(Tasks \ Closing)
  BY DEF NormalInv, TaskInv
<1>1. ts \in Seq(Tasks \ Closing) /\ Len(ts) = 1 /\ ts[1] = t /\ Push(ts)
  BY <1>0, GotoPush
<1> HIDE DEF ts
<1>2. /\ \A i \in 1..Len(ts) : Rank(ts[i]) = Rank(task) /\ ~DeleteTask(ts[i])
      /\ \A i \in 2..Len(ts) : Direct(ts[i])
  BY <1>1
<1>3. \A n \in NetworkNames :
        Len(ts) > 0 /\ ts[1] \in Calls(SubnetKey(n)) => aux'.net[n] \in Uuids
  BY <1>1
<1>4. \A k \in StatusKeys : mem.ids[k] \in Uuids \/ task \in Owing(k) =>
                \/ mem'.ids[k] \in Uuids
                \/ \E i \in 1..Len(ts) : ts[i] \in Owing(k)
                \/ aux'.waiting /\ k \in RouterKeys
  BY <1>1
<1>5. /\ aux.waiting => aux'.waiting
      /\ aux'.waiting => /\ aux.waiting \/ Rank(task) <= 2
                         /\ task # <<"end", "router">>
  OBVIOUS
<1> QED BY Zenon, <1>1, <1>2, <1>3, <1>4, <1>5, Advance

(* A reconcile that has returned owes nothing.                               *)
LEMMA ReturnNormal ==
    ASSUME NEW o, NEW res, Return(o, res)
    PROVE  NormalInv'
BY ReturnOrder DEF NormalInv, Progress

LEMMA ReturnFromNormal ==
    ASSUME NEW p, NEW b, NEW o, NEW res, ReturnFrom(p, b, o, res)
    PROVE  NormalInv'
BY ReturnNormal DEF ReturnFrom

(* Which tasks owe something.                                                *)
LEMMA OwingKinds ==
    \A k : \A t \in Owing(k) :
        t[1] \in {"discover", "ensure", "list", "create", "adopt", "interface", "adoptFIP"}
BY DEF Owing, Calls

(* A task of reconcileNormal, and one of reconcileDelete.                    *)
LEMMA TaskModes ==
    ASSUME NormalInv, task \notin Closing
    PROVE  /\ ~DeleteTask(task) => Working
           /\ DeleteTask(task) => mem.phase = "deleting" /\ ~Working
BY DEF NormalInv, TaskInv, OrderInv, Working, Ahead

(* A step of reconcileDelete.                                                *)
LEMMA DeleteAdvance ==
    ASSUME NormalInv, task \notin Closing, DeleteTask(task), mem'.phase = mem.phase,
           NEW ts \in Seq(Tasks \ Closing), Push(ts),
           \A i \in 1..Len(ts) : DeleteTask(ts[i])
    PROVE  NormalInv'
<1>1. TaskInv /\ mem.phase = "deleting"
  BY TaskModes DEF NormalInv
<1>2. TaskInv' /\ OrderInv' /\ ~Working'
  BY <1>1, PushDelete
<1> QED BY <1>2 DEF NormalInv, Progress

LEMMA DeleteNext ==
    ASSUME NormalInv, task \notin Closing, DeleteTask(task), mem'.phase = mem.phase, NextTask
    PROVE  NormalInv'
<1> DEFINE ts == <<>>
<1>1. ts \in Seq(Tasks \ Closing) /\ Len(ts) = 0 /\ Push(ts)
  BY DEF NextTask
<1> HIDE DEF ts
<1>2. \A i \in 1..Len(ts) : DeleteTask(ts[i])
  BY <1>1
<1> QED BY Zenon, <1>1, <1>2, DeleteAdvance

LEMMA DeleteTo ==
    ASSUME NormalInv, task \notin Closing, DeleteTask(task), mem'.phase = mem.phase,
           NEW t \in Tasks \ Closing, Goto(t), DeleteTask(t)
    PROVE  NormalInv'
<1> DEFINE ts == <<t>>
<1>0. todo \in Seq(Tasks \ Closing)
  BY DEF NormalInv, TaskInv
<1>1. ts \in Seq(Tasks \ Closing) /\ Len(ts) = 1 /\ ts[1] = t /\ Push(ts)
  BY <1>0, GotoPush
<1> HIDE DEF ts
<1>2. \A i \in 1..Len(ts) : DeleteTask(ts[i])
  BY <1>1
<1> QED BY <1>1, <1>2, DeleteAdvance

(* The tasks of a loop.                                                      *)
LEMMA LoopTasks ==
    ASSUME NEW T, NEW n \in Nat, NEW s, s = [i \in 1..n |-> s[i]], \A i \in 1..n : s[i] \in T
    PROVE  s \in Seq(T) /\ Len(s) = n
<1>1. s \in [1..n -> T]
  OBVIOUS
<1> QED BY <1>1

-----------------------------------------------------------------------------
(* The networks.                                                             *)

(* Both IDs of a network that was looked up are recorded.                    *)
LEMMA StatusOfNetwork ==
    ASSUME NEW o, Keyed(o), NEW n \in NetworkNames, NEW u, NEW v
    PROVE  LET p == setNetworkStatus(o, n, u, v)
           IN  /\ p.ids[NetworkKey(n)] = u /\ p.ids[SubnetKey(n)] = v
               /\ \A k \in StatusKeys \ {NetworkKey(n), SubnetKey(n)} : p.ids[k] = o.ids[k]
<1>1. /\ NetworkKey(n) \in StatusKeys /\ SubnetKey(n) \in StatusKeys
      /\ NetworkKey(n) # SubnetKey(n)
  BY KeyFacts DEF NetworkKey, SubnetKey
<1> DEFINE q == Record(o, NetworkKey(n), u)
<1>2. o \in Clusters /\ DOMAIN o.ids = StatusKeys
  BY DEF Keyed, Clusters
<1>3. /\ DOMAIN q = DOMAIN o /\ q.ids = [o.ids EXCEPT ![NetworkKey(n)] = u]
  BY <1>2, Zenon DEF Record, Clusters
<1>4. DOMAIN q.ids = StatusKeys /\ q.ids[NetworkKey(n)] = u
      /\ \A k \in StatusKeys \ {NetworkKey(n)} : q.ids[k] = o.ids[k]
  BY <1>1, <1>2, <1>3
<1>5. "ids" \in DOMAIN q
  BY <1>2, <1>3 DEF Clusters
<1> HIDE DEF q
<1>6. Record(q, SubnetKey(n), v).ids = [q.ids EXCEPT ![SubnetKey(n)] = v]
  BY <1>5, Zenon DEF Record
<1> QED BY <1>1, <1>4, <1>6 DEF setNetworkStatus, q

(* Recording one ID.                                                         *)
LEMMA StatusRecord ==
    ASSUME NEW o, Keyed(o), NEW k \in StatusKeys, NEW u
    PROVE  /\ Record(o, k, u).ids[k] = u
           /\ \A j \in StatusKeys \ {k} : Record(o, k, u).ids[j] = o.ids[j]
<1>1. o \in Clusters /\ DOMAIN o.ids = StatusKeys
  BY DEF Keyed, Clusters
<1>2. Record(o, k, u).ids = [o.ids EXCEPT ![k] = u]
  BY <1>1, Zenon DEF Record, Clusters
<1> QED BY <1>1, <1>2

LEMMA NetworkNormal ==
    ASSUME ResourceInv, NormalInv, NEW n \in NetworkNames, reconcilePreExistingNetwork(n)
    PROVE  NormalInv'
<1>1. Keyed(mem)
  BY Before
<1>2. Handler
  BY NetworkHandlers
<1>3. task = <<"discover", NetworkKey(n)>> /\ task \notin Closing /\ mem'.phase = mem.phase
  BY <1>2 DEF reconcilePreExistingNetwork, Handler, Keeps
<1>4. Working
  BY <1>3, TaskModes DEF DeleteTask, DeleteKinds
<1>5. CASE ReturnFrom("network", FALSE, mem, "error")
  BY Zenon, <1>5, ReturnFromNormal
<1>6. CASE ~ReturnFrom("network", FALSE, mem, "error")
  <2> DEFINE u == <<NetworkKey(n), 0>>
             v == <<SubnetKey(n), 0>>
             recorded == mem.ids[NetworkKey(n)] # None /\ mem.ids[SubnetKey(n)] # None
  <2>1. /\ NextTask /\ aux' = aux
        /\ mem' = IF recorded THEN mem ELSE setNetworkStatus(mem, n, u, v)
    BY <1>6, Zenon DEF reconcilePreExistingNetwork
  <2>2. /\ NetworkKey(n) \in StatusKeys /\ SubnetKey(n) \in StatusKeys
        /\ NetworkKey(n) \notin InterfaceKeys /\ SubnetKey(n) \notin InterfaceKeys
        /\ u \in Uuids /\ v \in Uuids
    BY KeyFacts, UuidFacts, InterfaceKeyFacts DEF NetworkKey, SubnetKey
  <2>3. mem.ids[NetworkKey(n)] \in IDs(NetworkKey(n)) /\ mem.ids[SubnetKey(n)] \in IDs(SubnetKey(n))
    BY <1>1, <2>2 DEF Keyed
  <2>4. mem'.ids[NetworkKey(n)] \in Uuids /\ mem'.ids[SubnetKey(n)] \in Uuids
    <3>1. CASE recorded
      BY Zenon, <2>1, <2>2, <2>3, <3>1 DEF IDs
    <3>2. CASE ~recorded
      BY <1>1, <2>1, <2>2, <3>2, StatusOfNetwork
    <3> QED BY Zenon, <3>1, <3>2
  <2>5. \A k \in StatusKeys \ {NetworkKey(n), SubnetKey(n)} : mem'.ids[k] = mem.ids[k]
    BY <1>1, <2>1, StatusOfNetwork
  <2>6. \A k \in StatusKeys : task \in Owing(k) => k \in {NetworkKey(n), SubnetKey(n)}
    BY <1>3, KeyKinds DEF Owing, Calls, NetworkKey
  <2>7. task # <<"end", "router">> /\ task # <<"readLB", LBKey>>
    BY <1>3
  <2>8. \A k \in StatusKeys : mem.ids[k] \in Uuids \/ task \in Owing(k) =>
                mem'.ids[k] \in Uuids \/ (aux'.waiting /\ k \in RouterKeys)
    BY <2>4, <2>5, <2>6
  <2> HIDE DEF u, v, recorded
  <2> QED BY <1>3, <1>4, <2>1, <2>7, <2>8, AdvanceNext
<1> QED BY Zenon, <1>5, <1>6

-----------------------------------------------------------------------------
(* The routers.                                                              *)

RouterTasks(r) == {<<"adopt", RouterKey(r)>>} \cup Calls(RouterKey(r))

(* A call for a router owes the router and its interfaces.                   *)
LEMMA RouterTaskFacts ==
    ASSUME NEW r \in RouterNames, NEW t \in RouterTasks(r)
    PROVE  /\ Rank(t) = 2 /\ ~DeleteTask(t) /\ t \notin Closing
           /\ t \notin {<<"end", "router">>, <<"readLB", LBKey>>}
           /\ \A n : t \notin Calls(SubnetKey(n))
           /\ \A k \in StatusKeys : t \in Owing(k) => k \in {RouterKey(r)} \cup InterfaceKeysOf(r)
<1>1. /\ Rank(t) = 2 /\ ~DeleteTask(t) /\ t \notin Closing
      /\ t \notin {<<"end", "router">>, <<"readLB", LBKey>>}
  BY DEF RouterTasks, Calls, Rank, Stage, RouterKey, DeleteTask, DeleteKinds, Closing, Idle
<1>2. \A n : t \notin Calls(SubnetKey(n))
  BY DEF RouterTasks, Calls, RouterKey, SubnetKey
<1>3. ASSUME NEW k \in StatusKeys, t \in Owing(k)
      PROVE  k \in {RouterKey(r)} \cup InterfaceKeysOf(r)
  <2>1. CASE k[1] \in {"network", "subnet"}
    BY <1>3, <2>1 DEF Owing, RouterTasks, Calls, RouterKey, NetworkKey, SubnetKey
  <2>2. CASE k[1] = "interface"
    <3>1. k \in InterfaceKeys
      BY <2>2, KeyKinds
    <3>2. RouterKey(k[2][1]) = RouterKey(r)
      BY <1>3, <2>2 DEF Owing, RouterTasks, Calls, RouterKey
    <3>3. k[2][1] = r
      BY <3>2 DEF RouterKey
    <3> QED BY <3>1, <3>3, InterfaceKeyFacts DEF InterfaceKeysOf
  <2>3. CASE k[1] \notin {"network", "subnet", "interface"}
    BY <1>3, <2>3 DEF Owing, RouterTasks, Calls, RouterKey
  <2> QED BY <2>1, <2>2, <2>3
<1> QED BY <1>1, <1>2, <1>3

(* A router and its interfaces are routers' keys.                            *)
LEMMA RouterKeysOf ==
    ASSUME NEW r \in RouterNames
    PROVE  /\ RouterKey(r) \in RouterKeys /\ InterfaceKeysOf(r) \subseteq RouterKeys
           /\ RouterKey(r) \in StatusKeys /\ InterfaceKeysOf(r) \subseteq StatusKeys
           /\ RouterKey(r) \notin InterfaceKeys
BY InterfaceKeyFacts
   DEF RouterKeys, InterfaceKeys, InterfaceKeysOf, StatusKeys, RouterKey

(* A router is recorded; its interfaces follow, or the reconcile waits.      *)
LEMMA RouterResolvedNormal ==
    ASSUME ResourceInv, NormalInv, NEW r \in RouterNames, task \in RouterTasks(r),
           NEW u \in Uuids, RouterResolved(r, u), mem'.phase = mem.phase
    PROVE  NormalInv'
<1>1. Keyed(mem) /\ aux \in Locals
  BY Before
<1>2. /\ Rank(task) = 2 /\ task \notin Closing /\ Working
      /\ task \notin {<<"end", "router">>, <<"readLB", LBKey>>}
      /\ \A k \in StatusKeys : task \in Owing(k) => k \in {RouterKey(r)} \cup InterfaceKeysOf(r)
  BY RouterTaskFacts, TaskModes
<1>3. mem' = Record(mem, RouterKey(r), u)
  BY Zenon DEF RouterResolved
<1>4. /\ mem'.ids[RouterKey(r)] = u
      /\ \A j \in StatusKeys \ {RouterKey(r)} : mem'.ids[j] = mem.ids[j]
  BY <1>1, <1>3, RouterKeysOf, StatusRecord
<1>5. CASE cloud'[u].state = "up"
  <2> DEFINE ts == [i \in 1..Len(Attach[r]) |-> <<"interface", InterfaceKey(r, Attach[r][i])>>]
             a == InterfacesOf(u)
  <2>1. aux' = [aux EXCEPT !.seen[r] = a] /\ Push(ts)
    BY <1>5, Zenon DEF RouterResolved
  <2>2. Attach[r] \in Seq(NetworkNames)
    BY ClusterSpecAssumption
  <2>3. ts \in Seq(Tasks \ Closing) /\ Len(ts) = Len(Attach[r])
    <3>1. ASSUME NEW i \in 1..Len(Attach[r]) PROVE ts[i] \in Tasks \ Closing
      <4>1. InterfaceKey(r, Attach[r][i]) \in Keys
        BY <2>2, KeyFacts, UuidFacts DEF Range
      <4> QED BY SMTT(30), <4>1 DEF Tasks, Closing, Idle
    <3>2. Len(Attach[r]) \in Nat /\ ts = [i \in 1..Len(Attach[r]) |-> ts[i]]
      BY <2>2
    <3> HIDE DEF ts
    <3> QED BY Zenon, <3>1, <3>2, LoopTasks
  <2>4. \A i \in 1..Len(ts) : ts[i] = <<"interface", InterfaceKey(r, Attach[r][i])>>
    BY <2>2, <2>3
  <2>5. \A k \in InterfaceKeysOf(r) : \E i \in 1..Len(ts) : ts[i] = <<"interface", k>>
    <3>1. \A n \in Range(Attach[r]) : \E i \in 1..Len(Attach[r]) : Attach[r][i] = n
      BY <2>2 DEF Range
    <3> SUFFICES ASSUME NEW k \in InterfaceKeysOf(r)
                 PROVE  \E i \in 1..Len(ts) : ts[i] = <<"interface", k>>
      BY Zenon
    <3>2. PICK n \in Range(Attach[r]) : k = InterfaceKey(r, n)
      BY DEF InterfaceKeysOf
    <3>3. PICK i \in 1..Len(Attach[r]) : Attach[r][i] = n
      BY <3>1
    <3>4. i \in 1..Len(ts) /\ ts[i] = <<"interface", k>>
      BY <2>3, <2>4, <3>2, <3>3
    <3> HIDE DEF ts
    <3> QED BY <3>4
  <2> HIDE DEF ts, a
  <2>6. aux'.waiting = aux.waiting /\ aux'.vip = aux.vip
    BY <1>1, <2>1, Zenon DEF Locals
  <2>7. /\ \A i \in 1..Len(ts) : Rank(ts[i]) = Rank(task) /\ ~DeleteTask(ts[i])
        /\ \A i \in 2..Len(ts) : Direct(ts[i])
    <3>1. \A k : LET t == <<"interface", k>> IN Rank(t) = 2 /\ ~DeleteTask(t) /\ Direct(t)
      BY DEF Rank, Stage, DeleteTask, DeleteKinds, Direct
    <3>2. \A i \in 1..Len(ts) : Rank(ts[i]) = 2 /\ ~DeleteTask(ts[i]) /\ Direct(ts[i])
      BY <2>4, <3>1, Zenon
    <3> QED BY <1>2, <2>3, <3>2
  <2>8. \A n \in NetworkNames :
          Len(ts) > 0 /\ ts[1] \in Calls(SubnetKey(n)) => aux'.net[n] \in Uuids
    BY <2>3, <2>4 DEF Calls
  <2>9. \A k \in StatusKeys : mem.ids[k] \in Uuids \/ task \in Owing(k) =>
                \/ mem'.ids[k] \in Uuids
                \/ \E i \in 1..Len(ts) : ts[i] \in Owing(k)
                \/ aux'.waiting /\ k \in RouterKeys
    <3>1. \A k \in InterfaceKeysOf(r) : <<"interface", k>> \in Owing(k)
      BY DEF InterfaceKeysOf, InterfaceKey, Owing
    <3>2. ASSUME NEW k \in InterfaceKeysOf(r) PROVE \E i \in 1..Len(ts) : ts[i] \in Owing(k)
      BY Zenon, <2>5, <3>1
    <3>3. ASSUME NEW k \in StatusKeys, k # RouterKey(r), mem.ids[k] \in Uuids
          PROVE  mem'.ids[k] \in Uuids
      BY <1>4, <3>3
    <3> QED BY <1>2, <1>4, <3>2, <3>3
  <2>10. /\ aux.waiting => aux'.waiting
         /\ aux'.waiting => /\ aux.waiting \/ Rank(task) <= 2
                            /\ task # <<"end", "router">>
    <3>1. Rank(task) <= 2
      BY <1>2
    <3> QED BY <1>2, <2>6, <3>1
  <2> QED BY <1>2, <2>1, <2>3, <2>6, <2>7, <2>8, <2>9, <2>10, Advance
<1>6. CASE cloud'[u].state # "up"
  <2>1. aux' = [aux EXCEPT !.waiting = TRUE] /\ NextTask
    BY <1>6, Zenon DEF RouterResolved
  <2>2. aux'.waiting /\ aux'.vip = aux.vip
    BY <1>1, <2>1, Zenon DEF Locals
  <2>3. \A k \in StatusKeys : mem.ids[k] \in Uuids \/ task \in Owing(k) =>
                mem'.ids[k] \in Uuids \/ (aux'.waiting /\ k \in RouterKeys)
    BY <1>2, <1>4, <2>2, RouterKeysOf
  <2> QED BY <1>2, <2>1, <2>2, <2>3, AdvanceNext
<1> QED BY <1>5, <1>6

(* A pre-existing router, a create of a router that timed out, the end.      *)
LEMMA RouterNormal ==
    ASSUME ResourceInv, NormalInv, NEW r,
           \/ r \in RouterNames /\ adoptRouter(r)
           \/ routersReconciled
    PROVE  NormalInv'
<1>0. Handler
  BY RouterHandlers
<1>1. task \notin Closing /\ mem'.phase = mem.phase
  BY <1>0 DEF Handler, Keeps
<1>2. ASSUME NEW o, NEW res, ReturnFrom("router", FALSE, o, res) PROVE NormalInv'
  BY Zenon, <1>2, ReturnFromNormal
<1>3. CASE r \in RouterNames /\ adoptRouter(r)
  <2>1. <<RouterKey(r), 0>> \in Uuids
    BY <1>3, KeyFacts, UuidFacts
  <2>2. task \in RouterTasks(r)
    BY <1>3 DEF adoptRouter, RouterTasks
  <2>3. RouterResolved(r, <<RouterKey(r), 0>>) \/ ReturnFrom("router", FALSE, mem, "error")
    BY <1>3, Zenon DEF adoptRouter
  <2> QED BY Zenon, <1>1, <1>2, <1>3, <2>1, <2>2, <2>3, RouterResolvedNormal
<1>4. CASE routersReconciled
  <2>1. task = <<"end", "router">>
    BY <1>4 DEF routersReconciled
  <2>2. Working
    BY <1>1, <2>1, TaskModes DEF DeleteTask, DeleteKinds
  <2>3. CASE ~aux.waiting
    <3>1. mem' = setCondition(mem, "router", TRUE) /\ NextTask /\ aux' = aux
      BY <1>4, <2>3, Zenon DEF routersReconciled
    <3>2. mem'.ids = mem.ids
      BY <3>1, Before, Zenon DEF setCondition, Clusters
    <3>3. \A k \in StatusKeys : task \notin Owing(k)
      BY <2>1, OwingKinds
    <3>4. task # <<"readLB", LBKey>>
      BY <2>1
    <3> QED BY <1>1, <2>2, <2>3, <3>1, <3>2, <3>3, <3>4, AdvanceSame
  <2> QED BY <1>2, <1>4, <2>3, Zenon DEF routersReconciled
<1> QED BY <1>3, <1>4

(* The other interfaces of the router are passed over.                       *)
LEMMA LeaveFacts ==
    ASSUME todo \in Seq(Tasks \ Closing), LeaveInterfaces
    PROVE  \E i \in 1..Len(todo) :
              /\ task' = todo[i] /\ task'[1] # "interface" /\ todo' \in Seq(Tasks \ Closing)
              /\ \A j \in 1..(i - 1) : todo[j][1] = "interface"
              /\ Len(todo') = Len(todo) - i
              /\ \A j \in 1..Len(todo') : todo'[j] = todo[i + j]
<1>1. PICK i \in 1..Len(todo) :
        /\ todo[i][1] # "interface"
        /\ \A j \in 1..(i - 1) : todo[j][1] = "interface"
        /\ task' = todo[i]
        /\ todo' = SubSeq(todo, i + 1, Len(todo))
  BY DEF LeaveInterfaces
<1>2. /\ todo' \in Seq(Tasks \ Closing) /\ Len(todo') = Len(todo) - i
      /\ \A j \in 1..Len(todo') : todo'[j] = todo[i + j]
  BY <1>1
<1> QED BY <1>1, <1>2

LEMMA LeaveOrder ==
    ASSUME TaskInv, OrderInv, Working, mem'.phase = mem.phase, Rank(task) = 2, LeaveInterfaces
    PROVE  /\ TaskInv' /\ OrderInv' /\ Working'
           /\ Ahead' \subseteq Range(todo)
           /\ \A t \in Ahead : t = task \/ t[1] = "interface" \/ t \in Ahead'
           /\ Direct(task')
<1>0. todo \in Seq(Tasks \ Closing)
  BY DEF TaskInv
<1>1. PICK i \in 1..Len(todo) :
              /\ task' = todo[i] /\ task'[1] # "interface" /\ todo' \in Seq(Tasks \ Closing)
              /\ \A j \in 1..(i - 1) : todo[j][1] = "interface"
              /\ Len(todo') = Len(todo) - i
              /\ \A j \in 1..Len(todo') : todo'[j] = todo[i + j]
  BY <1>0, LeaveFacts
<1>2. task' \in Tasks \ Closing /\ task' \in Range(todo)
  <2>1. todo[i] \in Tasks \ Closing /\ DOMAIN todo = 1..Len(todo)
    BY <1>0
  <2>2. todo[i] \in Range(todo)
    BY <2>1 DEF Range
  <2> QED BY <1>1, <2>1, <2>2
<1>3. TaskInv' /\ Working'
  BY <1>1, <1>2 DEF TaskInv, Working
<1>4. ASSUME NEW j \in 1..Len(todo')
      PROVE  /\ i + j \in 1..Len(todo) /\ todo'[j] = todo[i + j] /\ todo'[j] \in Range(todo)
  <2>1. i + j \in 1..Len(todo) /\ todo'[j] = todo[i + j]
    BY <1>0, <1>1
  <2> QED BY <1>0, <2>1 DEF Range
<1>5. Ahead' \subseteq Range(todo)
  <2>1. DOMAIN todo' = 1..Len(todo')
    BY <1>1
  <2>2. \A t \in Range(todo)' : t \in Range(todo)
    BY <1>4, <2>1, Zenon DEF Range
  <2> QED BY <1>1, <1>2, <2>2 DEF Ahead
<1>6. ASSUME NEW t \in Ahead PROVE t = task \/ t[1] = "interface" \/ t \in Ahead'
  <2>1. SUFFICES ASSUME NEW m \in 1..Len(todo), t = todo[m]
                 PROVE  t[1] = "interface" \/ t \in Ahead'
    BY <1>0 DEF Ahead, Range
  <2>2. CASE m < i
    BY <1>0, <1>1, <2>1, <2>2
  <2>3. CASE m = i
    BY <1>1, <2>1, <2>3 DEF Ahead
  <2>4. CASE m > i
    <3> DEFINE d == m - i
    <3>1. d \in 1..Len(todo') /\ todo'[d] = todo[m]
      BY <1>0, <1>1, <2>4
    <3> HIDE DEF d
    <3>2. DOMAIN todo' = 1..Len(todo')
      BY <1>1
    <3>3. todo'[d] \in Range(todo)'
      BY <3>1, <3>2 DEF Range
    <3> QED BY <2>1, <3>1, <3>3 DEF Ahead
  <2> QED BY <2>2, <2>3, <2>4
<1>7. /\ \A t \in Ahead' : ~DeleteTask(t)
      /\ \A t \in Ahead' : Direct(t)
  BY <1>5 DEF OrderInv, Ahead
<1>8. /\ \A j \in 1..Len(todo') : Rank(task') <= Rank(todo'[j])
      /\ \A j, m \in 1..Len(todo') : j < m => Rank(todo'[j]) <= Rank(todo'[m])
  <2>0. \A a, b \in 1..Len(todo) : a < b => Rank(todo[a]) <= Rank(todo[b])
    BY <1>0 DEF OrderInv
  <2>1. ASSUME NEW j \in 1..Len(todo') PROVE Rank(task') <= Rank(todo'[j])
    <3> DEFINE a == i + j
    <3>1. a \in 1..Len(todo) /\ todo'[j] = todo[a] /\ i < a
      BY <1>4
    <3> HIDE DEF a
    <3> QED BY <1>1, <2>0, <3>1
  <2>2. ASSUME NEW j \in 1..Len(todo'), NEW m \in 1..Len(todo'), j < m
        PROVE  Rank(todo'[j]) <= Rank(todo'[m])
    <3> DEFINE a == i + j
               b == i + m
    <3>1. a \in 1..Len(todo) /\ b \in 1..Len(todo) /\ a < b
          /\ todo'[j] = todo[a] /\ todo'[m] = todo[b]
      BY <1>4, <2>2
    <3> HIDE DEF a, b
    <3> QED BY <2>0, <3>1
  <2> QED BY <2>1, <2>2
<1>9. <<"end", "router">> \in Ahead'
  <2>1. <<"end", "router">> \in Ahead /\ <<"end", "router">> # task
    BY RankFacts DEF OrderInv, Ahead
  <2> QED BY <1>6, <2>1
<1>10. Rank(task') <= 2 => <<"end", "router">> \in Range(todo)'
  BY <1>9, RankFacts DEF Ahead
<1>11. DOMAIN todo' = 1..Len(todo')
  BY <1>1
<1>12. OrderInv'
  BY <1>7, <1>8, <1>9, <1>10, <1>11 DEF OrderInv, Ahead
<1> QED BY <1>3, <1>5, <1>6, <1>7, <1>12 DEF Ahead

(* The task of an interface owes that interface alone.                       *)
LEMMA InterfaceOwing ==
    ASSUME NEW k, NEW j, <<"interface", k>> \in Owing(j)
    PROVE  j = k
<1>1. \A i : <<"interface", k>> \notin Calls(i)
  BY DEF Calls
<1>2. CASE j[1] \in {"network", "subnet"}
  <2>1. Owing(j) = {<<"discover", NetworkKey(j[2])>>}
                   \cup Calls(NetworkKey(j[2])) \cup Calls(SubnetKey(j[2]))
    BY <1>2, Zenon DEF Owing
  <2> QED BY <1>1, <2>1
<1>3. CASE j[1] = "interface"
  <2>1. Owing(j) = {<<"interface", j>>, <<"adopt", RouterKey(j[2][1])>>}
                   \cup Calls(RouterKey(j[2][1]))
    BY <1>3 DEF Owing
  <2> QED BY <1>1, <2>1
<1>4. CASE j[1] \notin {"network", "subnet", "interface"}
  <2>1. Owing(j) = {<<"adopt", j>>, <<"adoptFIP", j>>} \cup Calls(j)
    BY <1>4, Zenon DEF Owing
  <2> QED BY <1>1, <2>1
<1> QED BY <1>2, <1>3, <1>4

(* An interface is recorded, or the reconcile waits or returns.              *)
LEMMA InterfaceNormal ==
    ASSUME ResourceInv, NormalInv, NEW r \in RouterNames, NEW n \in Range(Attach[r]),
           \/ adoptRouterInterface(r, n) \/ claimRouterInterface(r, n)
           \/ createRouterInterface(r, n) \/ createRouterInterfaceTimeout(r, n)
           \/ createRouterInterfaceFails(r, n)
    PROVE  NormalInv'
<1> DEFINE k == InterfaceKey(r, n)
<1>0. Handler
  BY InterfaceHandlers
<1>1. task \notin Closing /\ mem'.phase = mem.phase /\ Keyed(mem) /\ aux \in Locals
  BY <1>0, Before DEF Handler, Keeps
<1>2. task = <<"interface", k>>
  BY Zenon DEF adoptRouterInterface, claimRouterInterface, createRouterInterface,
               createRouterInterfaceTimeout, createRouterInterfaceFails
<1>3. Rank(task) = 2 /\ ~DeleteTask(task)
  BY <1>2 DEF Rank, Stage, DeleteTask, DeleteKinds
<1>4. Working
  BY Zenon, <1>1, <1>3, TaskModes
<1>5. k \in StatusKeys /\ k \in RouterKeys /\ k[1] = "interface" /\ k \in InterfaceKeys
  BY SMTT(30), KeyFacts DEF RouterKeys, InterfaceKey
<1>6. \A j \in StatusKeys : task \in Owing(j) => j = k
  BY Zenon, <1>2, InterfaceOwing
<1>7. ASSUME NEW u, mem' = Record(mem, k, u)
      PROVE  mem'.ids[k] = u /\ \A j \in StatusKeys \ {k} : mem'.ids[j] = mem.ids[j]
  <2> HIDE DEF k
  <2> QED BY <1>1, <1>5, <1>7, StatusRecord
<1> HIDE DEF k
<1>8. CASE \E b, o, res : ReturnFrom("router", b, o, res)
  BY Zenon, <1>8, ReturnFromNormal
<1>9. CASE \E u \in Uuids : mem' = Record(mem, k, u) /\ NextTask /\ aux' = aux
  <2>1. PICK u \in Uuids : mem' = Record(mem, k, u) /\ NextTask /\ aux' = aux
    BY Zenon, <1>9
  <2>2. \A j \in StatusKeys : mem.ids[j] \in Uuids \/ task \in Owing(j) =>
                mem'.ids[j] \in Uuids \/ (aux'.waiting /\ j \in RouterKeys)
    BY <1>6, <1>7, <2>1
  <2>3. task # <<"end", "router">> /\ task # <<"readLB", LBKey>>
    BY <1>2
  <2> QED BY <1>1, <1>4, <2>1, <2>2, <2>3, AdvanceNext
<1>10. CASE createRouterInterfaceTimeout(r, n)
  <2>1. /\ mem' = Record(mem, k, Unanswered) /\ aux' = [aux EXCEPT !.waiting = TRUE]
        /\ LeaveInterfaces
    BY <1>10, Zenon DEF createRouterInterfaceTimeout, k
  <2>2. aux'.waiting /\ aux'.vip = aux.vip
    BY <1>1, <2>1, Zenon DEF Locals
  <2>3. TaskInv /\ OrderInv /\ Progress
    BY DEF NormalInv
  <2>4. /\ TaskInv' /\ OrderInv' /\ Working'
        /\ \A t \in Ahead : t = task \/ t[1] = "interface" \/ t \in Ahead'
        /\ Direct(task')
    BY <1>1, <1>3, <1>4, <2>1, <2>3, LeaveOrder
  <2>5. ASSUME NEW j \in StatusKeys PROVE Owed(j)'
    <3>1. CASE j \in RouterKeys
      BY <2>2, <3>1 DEF Owed
    <3>2. CASE j \notin RouterKeys
      <4>1. j # k /\ j[1] # "interface"
        BY <1>5, <3>2, KeyKinds DEF RouterKeys
      <4>2. \A t \in Owing(j) : t[1] # "interface" /\ t # task
        <5>1. \A i : \A t \in Calls(i) : t[1] # "interface"
          BY DEF Calls
        <5>2. ASSUME j[1] \in {"network", "subnet"}
              PROVE  \A t \in Owing(j) : t[1] # "interface"
          <6>1. Owing(j) = {<<"discover", NetworkKey(j[2])>>}
                           \cup Calls(NetworkKey(j[2])) \cup Calls(SubnetKey(j[2]))
            BY <5>2, Zenon DEF Owing
          <6> QED BY <5>1, <6>1
        <5>3. ASSUME j[1] \notin {"network", "subnet"}
              PROVE  \A t \in Owing(j) : t[1] # "interface"
          <6>1. Owing(j) = {<<"adopt", j>>, <<"adoptFIP", j>>} \cup Calls(j)
            BY <4>1, <5>3, Zenon DEF Owing
          <6> QED BY <5>1, <6>1
        <5> QED BY <1>6, <4>1, <5>2, <5>3
      <4>3. mem.ids[j] \in Uuids \/ \E t \in Ahead : t \in Owing(j)
        BY <1>4, <2>3, <3>2 DEF Progress, Owed
      <4>4. mem'.ids[j] = mem.ids[j]
        BY Zenon, <1>7, <2>1, <4>1
      <4> QED BY Zenon, <2>4, <4>2, <4>3, <4>4 DEF Owed
    <3> QED BY Zenon, <3>1, <3>2
  <2>6. LBEnabled => aux'.vip \in Uuids \/ <<"readLB", LBKey>> \in Ahead'
    <3>1. <<"readLB", LBKey>> # task /\ <<"readLB", LBKey>>[1] # "interface"
      BY <1>2
    <3> QED BY <1>4, <2>2, <2>3, <2>4, <3>1 DEF Progress
  <2>7. \A m : task' \notin Calls(SubnetKey(m))
    BY <2>4 DEF Direct, Calls, SubnetKey
  <2> QED BY Zenon, <2>4, <2>5, <2>6, <2>7 DEF NormalInv, Progress
<1>11. <<k, 0>> \in Live(r, n) => <<k, 0>> \in Uuids
  BY Zenon, LiveFacts
<1>12. \A u \in Live(r, n) \cup Fresh(k) : u \in Uuids
  BY LiveFacts DEF Fresh
<1>13. CASE adoptRouterInterface(r, n)
  BY Zenon, <1>8, <1>9, <1>11, <1>13 DEF adoptRouterInterface, k
<1>14. CASE claimRouterInterface(r, n)
  BY Zenon, <1>8, <1>9, <1>12, <1>14 DEF claimRouterInterface, k
<1>15. CASE createRouterInterface(r, n)
  BY Zenon, <1>8, <1>9, <1>12, <1>15 DEF createRouterInterface, k
<1>16. CASE createRouterInterfaceFails(r, n)
  BY Zenon, <1>8, <1>16 DEF createRouterInterfaceFails
<1> QED BY <1>10, <1>13, <1>14, <1>15, <1>16

-----------------------------------------------------------------------------
(* The load balancer.                                                        *)

MemberTasks == ({"addMember"} \X MemberKeys) \cup ({"updateMember", "removeMember"} \X Members)

(* An order of a set is a sequence of its elements without repetition.       *)
LEMMA OrdersFacts ==
    ASSUME NEW S, NEW s \in Orders(S)
    PROVE  s \in Seq(S) /\ \A i, j \in 1..Len(s) : s[i] = s[j] => i = j
<1>1. PICK n \in Nat : s \in [1..n -> S] /\ \A i, j \in 1..n : s[i] = s[j] => i = j
  BY Zenon DEF Orders
<1>2. s \in Seq(S) /\ Len(s) = n
  BY <1>1
<1> QED BY <1>1, <1>2

(* What listMembers puts into the program.                                   *)
LEMMA UpsertFacts ==
    ASSUME LBEnabled, NEW pool, NEW current \in CurrentByName(MembersOf(pool))
    PROVE  Upserts(current) \subseteq MemberTasks /\ Removals(MembersOf(pool)) \subseteq MemberTasks
<1>1. MembersOf(pool) \subseteq Members
  BY DEF MembersOf, Members
<1>2. \A c \in CPMachines : current[c] # None => current[c] \in Members
  BY <1>1 DEF CurrentByName
<1>3. \A c \in CPMachines : MemberKey(c) \in MemberKeys
  BY DEF MemberKeys
<1> QED BY <1>1, <1>2, <1>3 DEF Upserts, Removals, MemberTasks

(* Member tasks are tasks of the load balancer.                              *)
LEMMA MemberTaskFacts ==
    ASSUME NEW t \in MemberTasks
    PROVE  /\ t \in Tasks \ Closing /\ Rank(t) = 4 /\ ~DeleteTask(t) /\ Direct(t)
           /\ \A n : t \notin Calls(SubnetKey(n))
           /\ \A k \in StatusKeys : t \notin Owing(k)
<1>1. t[1] \in {"addMember", "updateMember", "removeMember"} /\ t \in Tasks \ Closing
  BY UuidFacts DEF MemberTasks, Members, Tasks, Closing, Idle
<1>2. \A k \in StatusKeys : t \notin Owing(k)
  BY <1>1, OwingKinds
<1> QED BY <1>1, <1>2 DEF Rank, Stage, DeleteTask, DeleteKinds, Direct, Calls

(* Steps of the load balancer and its members.                               *)
LEMMA LoadBalancerNormal ==
    ASSUME ResourceInv, NormalInv, \/ LBEnabled /\ (readLB \/ listMembers)
                                   \/ loadBalancerReconciled
    PROVE  NormalInv'
<1>0. Handler
  BY LoadBalancerHandlers
<1>1. task \notin Closing /\ mem'.phase = mem.phase /\ Keyed(mem) /\ aux \in Locals
  BY <1>0, Before DEF Handler, Keeps
<1>2. task \in {<<"readLB", LBKey>>, <<"members", PoolKey>>, <<"end", "lb">>}
  BY Zenon DEF readLB, listMembers, loadBalancerReconciled
<1>3. /\ Rank(task) = 4 /\ ~DeleteTask(task) /\ task # <<"end", "router">>
      /\ task[1] \in {"readLB", "members", "end"}
  BY <1>2 DEF Rank, Stage, DeleteTask, DeleteKinds
<1>4. Working /\ \A k \in StatusKeys : task \notin Owing(k)
  BY <1>1, <1>3, TaskModes, OwingKinds
<1>5. ASSUME NEW res, ReturnFrom("lb", FALSE, mem, res) PROVE NormalInv'
  BY Zenon, <1>5, ReturnFromNormal
<1>6. CASE LBEnabled /\ readLB
  <2>1. ASSUME NEW b, Exists(mem.ids[LBKey]), NextTask, mem' = mem,
               aux' = [aux EXCEPT !.vip = mem.ids[LBKey], !.lbPending = b]
        PROVE  NormalInv'
    <3>1. aux'.vip = mem.ids[LBKey] /\ aux'.waiting = aux.waiting
      BY <1>1, <2>1, Zenon DEF Locals
    <3>2. aux'.vip \in Uuids
      BY <2>1, <3>1 DEF Exists
    <3>3. \A k \in StatusKeys : mem.ids[k] \in Uuids \/ task \in Owing(k) =>
                mem'.ids[k] \in Uuids \/ (aux'.waiting /\ k \in RouterKeys)
      BY <1>4, <2>1
    <3>4. /\ aux.waiting => aux'.waiting
          /\ aux'.waiting => /\ aux.waiting \/ Rank(task) <= 2
                             /\ task # <<"end", "router">>
      BY <1>3, <3>1
    <3> QED BY <1>1, <1>4, <2>1, <3>2, <3>3, <3>4, AdvanceNext
  <2> QED BY Zenon, <1>5, <1>6, <2>1 DEF readLB
<1>7. CASE LBEnabled /\ listMembers
  <2>1. CASE lbFails
    BY Zenon, <1>5, <2>1 DEF lbFails
  <2>2. CASE ~lbFails
    <3> DEFINE pool == mem.ids[PoolKey]
    <3>0. task = <<"members", PoolKey>>
      BY <1>7, Zenon DEF listMembers
    <3>1. /\ aux' = [aux EXCEPT !.desired = addr] /\ mem' = mem
          /\ \E current \in CurrentByName(MembersOf(pool)) :
                \E upserts \in Orders(Upserts(current)), removals \in Orders(Removals(MembersOf(pool))) :
                    Push(upserts \o removals)
      BY <1>7, <2>2, Zenon DEF listMembers
    <3> HIDE DEF pool
    <3>2. PICK current \in CurrentByName(MembersOf(pool)) :
                \E upserts \in Orders(Upserts(current)), removals \in Orders(Removals(MembersOf(pool))) :
                    Push(upserts \o removals)
      BY <3>1
    <3>3. PICK upserts \in Orders(Upserts(current)), removals \in Orders(Removals(MembersOf(pool))) :
                    Push(upserts \o removals)
      BY <3>2
    <3>4. Upserts(current) \subseteq MemberTasks /\ Removals(MembersOf(pool)) \subseteq MemberTasks
      BY <1>7, UpsertFacts
    <3> DEFINE ts == upserts \o removals
    <3>5. ts \in Seq(MemberTasks)
      <4>1. upserts \in Seq(Upserts(current)) /\ removals \in Seq(Removals(MembersOf(pool)))
        BY <3>4, OrdersFacts
      <4>2. upserts \in Seq(MemberTasks) /\ removals \in Seq(MemberTasks)
        BY <3>4, <4>1
      <4> QED BY <4>2
    <3>6. Push(ts)
      BY <3>3
    <3> HIDE DEF ts
    <3>7. \A i \in 1..Len(ts) : ts[i] \in MemberTasks
      BY SMTT(30), <3>5
    <3>8. /\ ts \in Seq(Tasks \ Closing)
          /\ \A i \in 1..Len(ts) : Rank(ts[i]) = Rank(task) /\ ~DeleteTask(ts[i])
          /\ \A i \in 2..Len(ts) : Direct(ts[i])
      BY <1>3, <3>5, <3>7, MemberTaskFacts
    <3>9. \A n \in NetworkNames :
            Len(ts) > 0 /\ ts[1] \in Calls(SubnetKey(n)) => aux'.net[n] \in Uuids
      BY <3>5, <3>7, MemberTaskFacts
    <3>10. aux'.waiting = aux.waiting /\ aux'.vip = aux.vip
      BY <1>1, <3>1, Zenon DEF Locals
    <3>11. \A k \in StatusKeys : mem.ids[k] \in Uuids \/ task \in Owing(k) =>
                \/ mem'.ids[k] \in Uuids
                \/ \E i \in 1..Len(ts) : ts[i] \in Owing(k)
                \/ aux'.waiting /\ k \in RouterKeys
      BY <1>4, <3>1
    <3>12. /\ aux.waiting => aux'.waiting
           /\ aux'.waiting => /\ aux.waiting \/ Rank(task) <= 2
                              /\ task # <<"end", "router">>
      BY <1>3, <3>10
    <3>13. task # <<"readLB", LBKey>>
      BY <3>0
    <3> QED BY Zenon, <1>1, <1>4, <3>6, <3>8, <3>9, <3>10, <3>11, <3>12, <3>13, Advance
  <2> QED BY <2>1, <2>2
<1>8. CASE loadBalancerReconciled
  <2>1. /\ task = <<"end", "lb">> /\ NextTask /\ aux' = aux
        /\ \E b : mem' = setCondition(mem, "lb", b)
    BY <1>8, Zenon DEF loadBalancerReconciled
  <2>2. mem'.ids = mem.ids
    BY <1>1, <2>1, Zenon DEF setCondition, Keyed, Clusters
  <2>3. task # <<"readLB", LBKey>>
    BY <2>1
  <2> QED BY <1>1, <1>3, <1>4, <2>1, <2>2, <2>3, AdvanceSame
<1> QED BY <1>6, <1>7, <1>8

LEMMA MemberNormal ==
    ASSUME ResourceInv, NormalInv, NEW c, NEW u,
           \/ createLoadBalancerMember(c) \/ createLoadBalancerMemberTimeout(c)
           \/ updateLoadBalancerMember(u) \/ deleteLoadBalancerMember(u)
    PROVE  NormalInv'
<1>0. Handler
  BY MemberHandlers
<1>1. task \notin Closing /\ mem'.phase = mem.phase /\ mem \in Clusters
  BY <1>0, Before DEF Handler, Keeps
<1>2. task \in {<<"addMember", MemberKey(c)>>, <<"updateMember", u>>, <<"removeMember", u>>}
  BY Zenon DEF createLoadBalancerMember, createLoadBalancerMemberTimeout,
               updateLoadBalancerMember, deleteLoadBalancerMember
<1>3. /\ ~DeleteTask(task) /\ task # <<"end", "router">> /\ task # <<"readLB", LBKey>>
      /\ task[1] \in {"addMember", "updateMember", "removeMember"}
  BY <1>2 DEF DeleteTask, DeleteKinds
<1>4. Working /\ \A k \in StatusKeys : task \notin Owing(k)
  BY <1>1, <1>3, TaskModes, OwingKinds
<1>5. \/ /\ NextTask /\ aux' = aux
         /\ mem' = mem \/ \E m : mem' = [mem EXCEPT !.members = m]
      \/ \E b, res : ReturnFrom("lb", b, mem, res)
  BY Zenon DEF createLoadBalancerMember, createLoadBalancerMemberTimeout,
               updateLoadBalancerMember, deleteLoadBalancerMember, lbFails
<1>6. CASE \E b, res : ReturnFrom("lb", b, mem, res)
  BY <1>6, ReturnFromNormal
<1>7. CASE /\ NextTask /\ aux' = aux
           /\ mem' = mem \/ \E m : mem' = [mem EXCEPT !.members = m]
  <2>1. mem'.ids = mem.ids
    BY <1>1, <1>7, Zenon DEF Clusters
  <2> QED BY <1>1, <1>3, <1>4, <1>7, <2>1, AdvanceSame
<1> QED BY <1>5, <1>6, <1>7

-----------------------------------------------------------------------------
(* The floating IP.                                                          *)

(* The tasks of the floating IP.                                             *)
LEMMA FIPTaskFacts ==
    ASSUME FIPWanted
    PROVE  /\ FIPKey \in StatusKeys /\ FIPKey \notin RouterKeys
           /\ <<"assign", FIPKey>> \in Tasks \ Closing
           /\ Rank(<<"assign", FIPKey>>) = 5 /\ ~DeleteTask(<<"assign", FIPKey>>)
           /\ \A n : <<"assign", FIPKey>> \notin Calls(SubnetKey(n))
           /\ \A t \in {<<"adoptFIP", FIPKey>>} \cup Calls(FIPKey) :
                /\ Rank(t) = 5 /\ ~DeleteTask(t) /\ t \notin Closing
                /\ t \notin {<<"end", "router">>, <<"readLB", LBKey>>}
                /\ \A k \in StatusKeys : t \in Owing(k) => k = FIPKey
<1>1. FIPKey \in StatusKeys /\ FIPKey \notin RouterKeys
  BY KeyFacts, InterfaceKeyFacts DEF RouterKeys, FIPKey, RouterKey
<1>2. /\ <<"assign", FIPKey>> \in Tasks \ Closing
      /\ Rank(<<"assign", FIPKey>>) = 5 /\ ~DeleteTask(<<"assign", FIPKey>>)
      /\ \A n : <<"assign", FIPKey>> \notin Calls(SubnetKey(n))
  BY <1>1, UuidFacts DEF Tasks, Closing, Idle, Rank, Stage, DeleteTask, DeleteKinds, Calls
<1>3. ASSUME NEW t \in {<<"adoptFIP", FIPKey>>} \cup Calls(FIPKey)
      PROVE  /\ Rank(t) = 5 /\ ~DeleteTask(t) /\ t \notin Closing
             /\ t \notin {<<"end", "router">>, <<"readLB", LBKey>>}
  BY DEF Calls, FIPKey, Rank, Stage, DeleteTask, DeleteKinds, Closing, Idle
<1>4. ASSUME NEW t \in {<<"adoptFIP", FIPKey>>} \cup Calls(FIPKey), NEW k \in StatusKeys,
             t \in Owing(k)
      PROVE  k = FIPKey
  BY <1>4 DEF Owing, Calls, FIPKey, NetworkKey, SubnetKey, RouterKey
<1> QED BY <1>1, <1>2, <1>3, <1>4

(* The floating IP is recorded, and assigned next or already assigned.       *)
LEMMA FIPResolvedNormal ==
    ASSUME ResourceInv, NormalInv, FIPWanted, mem'.phase = mem.phase,
           task \in {<<"adoptFIP", FIPKey>>} \cup Calls(FIPKey),
           NEW u \in Uuids, FIPResolved(u) \/ FIPCreated(u)
    PROVE  NormalInv'
<1>1. mem' = Record(mem, FIPKey, u) /\ aux' = aux
  BY Zenon DEF FIPResolved, FIPCreated
<1>2. /\ mem'.ids[FIPKey] = u
      /\ \A j \in StatusKeys \ {FIPKey} : mem'.ids[j] = mem.ids[j]
  BY <1>1, Before, FIPTaskFacts, StatusRecord
<1>3. /\ Rank(task) = 5 /\ ~DeleteTask(task) /\ task \notin Closing
      /\ task \notin {<<"end", "router">>, <<"readLB", LBKey>>}
      /\ \A k \in StatusKeys : task \in Owing(k) => k = FIPKey
  BY FIPTaskFacts
<1>4. Working
  BY <1>3, TaskModes
<1>5. \A k \in StatusKeys : mem.ids[k] \in Uuids \/ task \in Owing(k) => mem'.ids[k] \in Uuids
  BY SMTT(30), <1>2, <1>3
<1>6. CASE FIPResolved(u)
  <2>1. Goto(<<"assign", FIPKey>>)
    BY SMTT(30), <1>6 DEF FIPResolved
  <2>2. /\ <<"assign", FIPKey>> \in Tasks \ Closing
        /\ Rank(<<"assign", FIPKey>>) = 5 /\ ~DeleteTask(<<"assign", FIPKey>>)
        /\ \A n : <<"assign", FIPKey>> \notin Calls(SubnetKey(n))
    BY Zenon, FIPTaskFacts
  <2> QED BY Zenon, <1>1, <1>3, <1>4, <1>5, <2>1, <2>2, AdvanceTo
<1>7. CASE FIPCreated(u)
  <2>1. NextTask
    BY <1>7 DEF FIPCreated
  <2> QED BY <1>1, <1>3, <1>4, <1>5, <2>1, AdvanceNext
<1> QED BY <1>6, <1>7

LEMMA FloatingIPNormal ==
    ASSUME ResourceInv, NormalInv,
           \/ FIPWanted /\ (reconcilePreExistingFloatingIP \/ ensureFloatingIPAssignment)
           \/ floatingIPReconciled
    PROVE  NormalInv'
<1>0. Handler
  BY FloatingIPHandlers
<1>1. task \notin Closing /\ mem'.phase = mem.phase /\ mem \in Clusters
  BY <1>0, Before DEF Handler, Keeps
<1>2. CASE ReturnFrom("fip", FALSE, mem, "error")
  BY Zenon, <1>2, ReturnFromNormal
<1>3. CASE FIPWanted /\ reconcilePreExistingFloatingIP
  <2>1. task = <<"adoptFIP", FIPKey>>
    BY <1>3, Zenon DEF reconcilePreExistingFloatingIP
  <2>2. <<FIPKey, 0>> \in Uuids
    BY <1>3, KeyFacts, UuidFacts
  <2>3. FIPResolved(<<FIPKey, 0>>) \/ ReturnFrom("fip", FALSE, mem, "error")
    BY <1>3, Zenon DEF reconcilePreExistingFloatingIP
  <2> QED BY Zenon, <1>1, <1>2, <1>3, <2>1, <2>2, <2>3, FIPResolvedNormal
<1>4. CASE (FIPWanted /\ ensureFloatingIPAssignment) \/ floatingIPReconciled
  <2>1. task \in {<<"assign", FIPKey>>, <<"end", "fip">>}
    BY <1>4, Zenon DEF ensureFloatingIPAssignment, floatingIPReconciled
  <2>2. /\ ~DeleteTask(task) /\ task # <<"end", "router">> /\ task # <<"readLB", LBKey>>
        /\ task[1] \in {"assign", "end"}
    BY <2>1 DEF DeleteTask, DeleteKinds
  <2>3. Working /\ \A k \in StatusKeys : task \notin Owing(k)
    BY <1>1, <2>2, TaskModes, OwingKinds
  <2>4. \/ NextTask /\ aux' = aux /\ (mem' = mem \/ mem' = setCondition(mem, "fip", TRUE))
        \/ ReturnFrom("fip", FALSE, mem, "error")
    <3>1. CASE ensureFloatingIPAssignment
      <4> HIDE DEF getFloatingIPTarget
      <4> QED BY Zenon, <3>1 DEF ensureFloatingIPAssignment
    <3>2. CASE floatingIPReconciled
      BY <3>2, Zenon DEF floatingIPReconciled
    <3> QED BY Zenon, <1>4, <3>1, <3>2
  <2>5. CASE NextTask /\ aux' = aux /\ (mem' = mem \/ mem' = setCondition(mem, "fip", TRUE))
    <3>1. mem'.ids = mem.ids
      BY <1>1, <2>5, Zenon DEF setCondition, Clusters
    <3> QED BY <1>1, <2>2, <2>3, <2>5, <3>1, AdvanceSame
  <2> QED BY Zenon, <1>2, <2>4, <2>5
<1> QED BY <1>3, <1>4

-----------------------------------------------------------------------------
(* reconcileDelete.                                                          *)

(* A step of reconcileDelete goes on or returns.                             *)
LEMMA DeleteMoves ==
    ASSUME NormalInv, Handler, DeleteTask(task),
           \/ NextTask
           \/ \E t \in Tasks \ Closing : DeleteTask(t) /\ Goto(t)
           \/ \E o, res : Return(o, res)
    PROVE  NormalInv'
<1>1. task \notin Closing /\ mem'.phase = mem.phase
  BY DEF Handler, Keeps
<1> QED BY <1>1, DeleteNext, DeleteTo, ReturnNormal

LEMMA NetworkDeleteNormal ==
    ASSUME ResourceInv, NormalInv, NEW n, deleteNetwork(n) \/ deleteNetworkFails(n)
    PROVE  NormalInv'
<1>1. Handler
  BY NetworkHandlers
<1>0. task = <<"deleteNetwork", NetworkKey(n)>>
  BY Zenon DEF deleteNetwork, deleteNetworkFails
<1>2. DeleteTask(task)
  BY <1>0 DEF DeleteTask, DeleteKinds
<1>3. NextTask \/ \E o, res : Return(o, res)
  BY Zenon DEF deleteNetwork, deleteNetworkFails
<1> QED BY <1>1, <1>2, <1>3, DeleteMoves

LEMMA LoadBalancerDeleteNormal ==
    ASSUME ResourceInv, NormalInv,
           \/ deleteLoadBalancer \/ deleteLoadBalancerFails
           \/ deleteFloatingIP \/ deleteFloatingIPFails
    PROVE  NormalInv'
<1>1. Handler
  BY LoadBalancerHandlers, FloatingIPHandlers
<1>2. task \in {<<"deleteLB", LBKey>>, <<"deleteFIP", FIPKey>>}
  BY Zenon DEF deleteLoadBalancer, deleteLoadBalancerFails, deleteFloatingIP,
               deleteFloatingIPFails
<1>3. DeleteTask(task)
  BY <1>2 DEF DeleteTask, DeleteKinds
<1>4. NextTask \/ \E o, res : Return(o, res)
  BY Zenon DEF deleteLoadBalancer, deleteLoadBalancerFails, deleteFloatingIP,
               deleteFloatingIPFails
<1> QED BY <1>1, <1>3, <1>4, DeleteMoves

LEMMA RouterDeleteNormal ==
    ASSUME ResourceInv, NormalInv, NEW r \in RouterNames,
           readRouter(r) \/ deleteRouter(r) \/ deleteRouterFails(r)
    PROVE  NormalInv'
<1>1. Handler
  BY RouterHandlers
<1>2. task \in {<<"readRouter", RouterKey(r)>>, <<"deleteRouter", RouterKey(r)>>}
  BY Zenon DEF readRouter, deleteRouter, deleteRouterFails
<1>3. DeleteTask(task) /\ task \notin Closing /\ mem'.phase = mem.phase
  BY <1>1, <1>2 DEF DeleteTask, DeleteKinds, Handler, Keeps
<1> DEFINE t == <<"deleteRouter", RouterKey(r)>>
           ts == detachTasks(r) \o <<t>>
<1>4. t \in Tasks \ Closing /\ DeleteTask(t)
  BY SMTT(30), KeyFacts, UuidFacts DEF Tasks, Closing, Idle, DeleteTask, DeleteKinds
<1>5. CASE NextTask \/ Goto(t) \/ \E o, res : Return(o, res)
  BY SMTT(30), <1>1, <1>3, <1>4, <1>5, DeleteMoves
<1>6. CASE Push(ts)
  <2> DEFINE ds == detachTasks(r)
  <2>1. Attach[r] \in Seq(NetworkNames)
    BY SMTT(30), ClusterSpecAssumption
  <2>2. \A i \in 1..Len(Attach[r]) :
            ds[i] = <<"detach", InterfaceKey(r, Attach[r][i])>>
    BY <2>1 DEF detachTasks
  <2>3. \A i \in 1..Len(Attach[r]) : ds[i] \in Tasks \ Closing /\ DeleteTask(ds[i])
    <3> SUFFICES ASSUME NEW i \in 1..Len(Attach[r])
                 PROVE  ds[i] \in Tasks \ Closing /\ DeleteTask(ds[i])
      OBVIOUS
    <3>1. InterfaceKey(r, Attach[r][i]) \in Keys
      BY <2>1, KeyFacts, UuidFacts DEF Range
    <3>2. \A k \in Keys : <<"detach", k>> \in Tasks \ Closing /\ DeleteTask(<<"detach", k>>)
      BY DEF Tasks, Closing, Idle, DeleteTask, DeleteKinds
    <3>3. ds[i] = <<"detach", InterfaceKey(r, Attach[r][i])>>
      BY <2>2
    <3> HIDE DEF ds
    <3> QED BY <3>1, <3>2, <3>3
  <2>4. Len(Attach[r]) \in Nat /\ ds = [i \in 1..Len(Attach[r]) |-> ds[i]]
    BY <2>1 DEF detachTasks
  <2>5. ts = ds \o <<t>>
    OBVIOUS
  <2> HIDE DEF ds
  <2>6. ds \in Seq(Tasks \ Closing) /\ Len(ds) = Len(Attach[r])
    BY Zenon, <2>3, <2>4, LoopTasks
  <2> HIDE DEF t, ts
  <2>7. /\ ts \in Seq(Tasks \ Closing) /\ Len(ts) = Len(ds) + 1
        /\ \A i \in 1..Len(ts) : ts[i] = IF i <= Len(ds) THEN ds[i] ELSE t
    BY <1>4, <2>5, <2>6
  <2>8. \A i \in 1..Len(ts) : DeleteTask(ts[i])
    BY <1>4, <2>3, <2>6, <2>7
  <2> QED BY Zenon, <1>3, <1>6, <2>7, <2>8, DeleteAdvance
<1> HIDE DEF t, ts
<1>7. NextTask \/ Goto(t) \/ Push(ts) \/ \E o, res : Return(o, res)
  BY Zenon DEF readRouter, deleteRouter, deleteRouterFails, t, ts
<1> QED BY <1>5, <1>6, <1>7

LEMMA RoutersDeletedNormal ==
    ASSUME ResourceInv, NormalInv, routersDeleted
    PROVE  NormalInv'
<1>1. Handler
  BY RouterHandlers
<1>2. task = <<"end", "routers">>
  BY Zenon DEF routersDeleted
<1>3. NextTask \/ \E o, res : Return(o, res)
  BY Zenon DEF routersDeleted
<1>4. DeleteTask(task)
  BY <1>2 DEF DeleteTask
<1> QED BY <1>1, <1>3, <1>4, DeleteMoves

LEMMA DetachNormal ==
    ASSUME ResourceInv, NormalInv, NEW r, NEW n,
           detachInterface(r, n) \/ detachInterfaceFails(r, n)
    PROVE  NormalInv'
<1>1. Handler
  BY InterfaceHandlers
<1>2. DeleteTask(task) /\ NextTask
  BY DEF detachInterface, detachInterfaceFails, DeleteTask, DeleteKinds
<1> QED BY <1>1, <1>2, DeleteMoves

-----------------------------------------------------------------------------
(* The start of a reconcile.                                                 *)

(* A task of the program that a reconcile starts with.                       *)
Planned(t) == Direct(t) /\ t[1] # "addMember"

(* Tasks of reconcileNormal in the order of their parts, from a to b.        *)
Block(s, a, b) ==
    /\ s \in Seq(Tasks \ Closing)
    /\ \A i \in 1..Len(s) : /\ a <= Rank(s[i]) /\ Rank(s[i]) <= b
                            /\ ~DeleteTask(s[i]) /\ Planned(s[i])
    /\ \A i, j \in 1..Len(s) : i < j => Rank(s[i]) <= Rank(s[j])

LEMMA BlockConcat ==
    ASSUME NEW s, NEW t, NEW a \in Nat, NEW b \in Nat, NEW c \in Nat, a <= b, b <= c,
           Block(s, a, b), Block(t, b, c)
    PROVE  Block(s \o t, a, c) /\ Range(s \o t) = Range(s) \cup Range(t)
<1> DEFINE p == s \o t
<1>1. s \in Seq(Tasks \ Closing) /\ t \in Seq(Tasks \ Closing)
  BY DEF Block
<1>2. /\ p \in Seq(Tasks \ Closing) /\ Len(p) = Len(s) + Len(t)
      /\ \A i \in 1..Len(p) : p[i] = IF i <= Len(s) THEN s[i] ELSE t[i - Len(s)]
      /\ Len(s) \in Nat /\ Len(t) \in Nat
  BY <1>1
<1> HIDE DEF p
<1>3. ASSUME NEW i \in 1..Len(p)
      PROVE  \/ i <= Len(s) /\ i \in 1..Len(s) /\ p[i] = s[i]
             \/ i > Len(s) /\ i - Len(s) \in 1..Len(t) /\ p[i] = t[i - Len(s)]
  BY SMTT(30), <1>2
<1>4. ASSUME NEW i \in 1..Len(p)
      PROVE  /\ a <= Rank(p[i]) /\ Rank(p[i]) <= c /\ ~DeleteTask(p[i]) /\ Planned(p[i])
             /\ i <= Len(s) => Rank(p[i]) <= b
             /\ i > Len(s) => b <= Rank(p[i])
  <2> DEFINE d == i - Len(s)
  <2>1. \/ i <= Len(s) /\ i \in 1..Len(s) /\ p[i] = s[i]
        \/ i > Len(s) /\ d \in 1..Len(t) /\ p[i] = t[d]
    BY Zenon, <1>3
  <2> HIDE DEF d
  <2>2. \/ i <= Len(s) /\ a <= Rank(p[i]) /\ Rank(p[i]) <= b
        \/ i > Len(s) /\ b <= Rank(p[i]) /\ Rank(p[i]) <= c
    BY <2>1 DEF Block
  <2>3. Rank(p[i]) \in Int
    BY RankFacts
  <2> QED BY SMTT(30), <1>2, <2>1, <2>2, <2>3 DEF Block
<1>5. ASSUME NEW i \in 1..Len(p), NEW j \in 1..Len(p), i < j
      PROVE  Rank(p[i]) <= Rank(p[j])
  <2> DEFINE d == i - Len(s)
             e == j - Len(s)
  <2>0. Rank(p[i]) \in Int /\ Rank(p[j]) \in Int
    BY SMTT(30), RankFacts
  <2>1. CASE j <= Len(s)
    <3>1. i \in 1..Len(s) /\ j \in 1..Len(s) /\ p[i] = s[i] /\ p[j] = s[j]
      BY <1>2, <1>5, <2>1
    <3> QED BY <1>5, <3>1 DEF Block
  <2>2. CASE i <= Len(s) /\ j > Len(s)
    BY <1>4, <2>0, <2>2
  <2>3. CASE i > Len(s)
    <3>1. d \in 1..Len(t) /\ e \in 1..Len(t) /\ d < e /\ p[i] = t[d] /\ p[j] = t[e]
      BY SMTT(30), <1>2, <1>5, <2>3
    <3> HIDE DEF d, e
    <3> QED BY <3>1 DEF Block
  <2> QED BY <1>2, <2>1, <2>2, <2>3
<1>6. Block(p, a, c)
  BY <1>2, <1>4, <1>5 DEF Block
<1>7. Range(p) = Range(s) \cup Range(t)
  <2>1. /\ Range(p) = {p[i] : i \in 1..Len(p)} /\ Range(s) = {s[i] : i \in 1..Len(s)}
        /\ Range(t) = {t[i] : i \in 1..Len(t)}
    <3>1. DOMAIN p = 1..Len(p) /\ DOMAIN s = 1..Len(s) /\ DOMAIN t = 1..Len(t)
      BY <1>1, <1>2
    <3> QED BY <3>1, Zenon DEF Range
  <2>2. \A i \in 1..Len(s) : i \in 1..Len(p) /\ p[i] = s[i]
    BY <1>2
  <2>3. ASSUME NEW i \in 1..Len(t) PROVE t[i] \in Range(p)
    <3> DEFINE m == i + Len(s)
    <3>1. m \in 1..Len(p) /\ p[m] = t[i]
      BY <1>2
    <3> HIDE DEF m
    <3> QED BY <2>1, <3>1
  <2>4. \A i \in 1..Len(p) : p[i] \in Range(s) \cup Range(t)
    BY <1>3, <2>1
  <2> QED BY Zenon, <2>1, <2>2, <2>3, <2>4
<1> QED BY <1>6, <1>7 DEF p

(* The tasks of a loop are of one part.                                      *)
LEMMA BlockLoop ==
    ASSUME NEW n \in Nat, NEW s, s = [i \in 1..n |-> s[i]], NEW a \in Nat,
           \A i \in 1..n : /\ s[i] \in Tasks \ Closing /\ Rank(s[i]) = a
                           /\ ~DeleteTask(s[i]) /\ Planned(s[i])
    PROVE  Block(s, a, a) /\ Range(s) = {s[i] : i \in 1..n}
<1>1. s \in Seq(Tasks \ Closing) /\ Len(s) = n
  BY LoopTasks
<1> QED BY <1>1 DEF Block, Range

LEMMA BlockOne ==
    ASSUME NEW t \in Tasks \ Closing, ~DeleteTask(t), Planned(t)
    PROVE  Block(<<t>>, Rank(t), Rank(t)) /\ Range(<<t>>) = {t}
<1> DEFINE s == <<t>>
<1>1. s \in Seq(Tasks \ Closing) /\ Len(s) = 1 /\ s[1] = t /\ DOMAIN s = 1..1
  OBVIOUS
<1> HIDE DEF s
<1>2. Block(s, Rank(t), Rank(t))
  BY <1>1, RankFacts DEF Block
<1>3. Range(s) = {t}
  BY <1>1 DEF Range
<1> QED BY <1>2, <1>3 DEF s

LEMMA BlockNone == \A a, b : Block(<<>>, a, b) /\ Range(<<>>) = {}
BY DEF Block, Range

(* reconcileNetwork takes every network.                                     *)
LEMMA NetworkBlock ==
    /\ Block(reconcileNetwork, 1, 1)
    /\ \A n \in NetworkNames :
        \E t \in Range(reconcileNetwork) :
            t \in {<<"ensure", NetworkKey(n)>>, <<"discover", NetworkKey(n)>>}
<1> DEFINE s == [i \in 1..Len(Networks) |->
                    <<IF Managed(NetworkKey(Networks[i])) THEN "ensure" ELSE "discover",
                      NetworkKey(Networks[i])>>]
           e == <<"end", "network">>
           N == Len(Networks)
<1>1. /\ Networks \in Seq(NetworkNames) /\ N \in Nat /\ DOMAIN Networks = 1..N
      /\ \A i \in 1..N : Networks[i] \in NetworkNames
  BY ClusterSpecAssumption
<1>2. ASSUME NEW n \in NetworkNames,
             NEW t \in {<<"ensure", NetworkKey(n)>>, <<"discover", NetworkKey(n)>>}
      PROVE  t \in Tasks \ Closing /\ Rank(t) = 1 /\ ~DeleteTask(t) /\ Planned(t)
  <2>1. NetworkKey(n) \in EnsuredKeys /\ NetworkKey(n) \in Keys
    BY KeyFacts, UuidFacts, InterfaceKeyFacts DEF EnsuredKeys, NetworkKey
  <2>2. t \in Tasks \ Closing
    BY <2>1 DEF Tasks, Closing, Idle
  <2> QED BY <2>2 DEF Rank, Stage, NetworkKey, DeleteTask, DeleteKinds, Direct, Planned
<1>3. \A i \in 1..N : s[i] \in {<<"ensure", NetworkKey(Networks[i])>>,
                                <<"discover", NetworkKey(Networks[i])>>}
  BY <1>1
<1>4. s = [i \in 1..N |-> s[i]]
  OBVIOUS
<1>5. reconcileNetwork = s \o <<e>>
  BY DEF reconcileNetwork
<1> HIDE DEF s, N
<1>6. \A i \in 1..N : s[i] \in Tasks \ Closing /\ Rank(s[i]) = 1 /\ ~DeleteTask(s[i]) /\ Planned(s[i])
  BY Zenon, <1>1, <1>2, <1>3
<1>7. Block(s, 1, 1) /\ Range(s) = {s[i] : i \in 1..N}
  BY Zenon, <1>1, <1>4, <1>6, BlockLoop
<1>8. e \in Tasks \ Closing /\ Rank(e) = 1 /\ ~DeleteTask(e) /\ Planned(e)
  BY DEF Tasks, Parts, Closing, Idle, Rank, Stage, DeleteTask, DeleteKinds, Direct, Planned
<1> HIDE DEF e
<1>9. Block(<<e>>, 1, 1)
  BY <1>8, BlockOne
<1>10. Block(s \o <<e>>, 1, 1) /\ Range(s \o <<e>>) = Range(s) \cup Range(<<e>>)
  BY <1>7, <1>9, BlockConcat
<1>11. ASSUME NEW n \in NetworkNames
       PROVE  \E t \in Range(s) : t \in {<<"ensure", NetworkKey(n)>>, <<"discover", NetworkKey(n)>>}
  <2>1. PICK i \in 1..N : Networks[i] = n
    BY <1>1 DEF NetworkNames, Range
  <2> QED BY <1>3, <1>7, <2>1
<1> QED BY <1>5, <1>10, <1>11

(* reconcileRouters takes every router, and comes to its end.                *)
LEMMA RouterBlock ==
    /\ Block(reconcileRouters, 2, 3)
    /\ <<"end", "router">> \in Range(reconcileRouters)
    /\ \A r \in RouterNames :
        \E t \in Range(reconcileRouters) :
            t \in {<<"ensure", RouterKey(r)>>, <<"adopt", RouterKey(r)>>}
<1> DEFINE s == [i \in 1..Len(Routers) |->
                    <<IF Managed(RouterKey(Routers[i])) THEN "ensure" ELSE "adopt",
                      RouterKey(Routers[i])>>]
           e == <<"end", "router">>
           N == Len(Routers)
<1>1. /\ Routers \in Seq(RouterNames) /\ N \in Nat /\ DOMAIN Routers = 1..N
      /\ \A i \in 1..N : Routers[i] \in RouterNames
  BY ClusterSpecAssumption
<1>2. ASSUME NEW r \in RouterNames,
             NEW t \in {<<"ensure", RouterKey(r)>>, <<"adopt", RouterKey(r)>>}
      PROVE  t \in Tasks \ Closing /\ Rank(t) = 2 /\ ~DeleteTask(t) /\ Planned(t)
  <2>1. RouterKey(r) \in EnsuredKeys /\ RouterKey(r) \in Keys
    BY KeyFacts, UuidFacts, InterfaceKeyFacts DEF EnsuredKeys, RouterKey
  <2>2. t \in Tasks \ Closing
    BY <2>1 DEF Tasks, Closing, Idle
  <2> QED BY <2>2 DEF Rank, Stage, RouterKey, DeleteTask, DeleteKinds, Direct, Planned
<1>3. \A i \in 1..N : s[i] \in {<<"ensure", RouterKey(Routers[i])>>,
                                <<"adopt", RouterKey(Routers[i])>>}
  BY <1>1
<1>4. s = [i \in 1..N |-> s[i]]
  OBVIOUS
<1>5. reconcileRouters = s \o <<e>>
  BY DEF reconcileRouters
<1> HIDE DEF s, N
<1>6. \A i \in 1..N : s[i] \in Tasks \ Closing /\ Rank(s[i]) = 2 /\ ~DeleteTask(s[i]) /\ Planned(s[i])
  BY Zenon, <1>1, <1>2, <1>3
<1>7. Block(s, 2, 2) /\ Range(s) = {s[i] : i \in 1..N}
  <2> DEFINE a == 2
  <2>1. a \in Nat /\ \A i \in 1..N : /\ s[i] \in Tasks \ Closing /\ Rank(s[i]) = a
                                   /\ ~DeleteTask(s[i]) /\ Planned(s[i])
    BY <1>6
  <2> HIDE DEF a
  <2>2. Block(s, a, a) /\ Range(s) = {s[i] : i \in 1..N}
    BY Zenon, <1>1, <1>4, <2>1, BlockLoop
  <2> QED BY <2>2 DEF a
<1>8. e \in Tasks \ Closing /\ Rank(e) = 3 /\ ~DeleteTask(e) /\ Planned(e)
  BY DEF Tasks, Parts, Closing, Idle, Rank, Stage, DeleteTask, DeleteKinds, Direct, Planned
<1>9. ASSUME NEW r \in RouterNames
      PROVE  \E t \in Range(s) : t \in {<<"ensure", RouterKey(r)>>, <<"adopt", RouterKey(r)>>}
  <2>1. PICK i \in 1..N : Routers[i] = r
    BY <1>1 DEF RouterNames, Range
  <2> QED BY <1>3, <1>7, <2>1
<1> HIDE DEF e
<1>10. Block(<<e>>, 2, 3) /\ Range(<<e>>) = {e}
  BY <1>8, BlockOne DEF Block
<1>11. Block(s \o <<e>>, 2, 3) /\ Range(s \o <<e>>) = Range(s) \cup Range(<<e>>)
  BY <1>7, <1>10, BlockConcat
<1> QED BY <1>5, <1>9, <1>10, <1>11 DEF e

(* reconcileLoadBalancer takes the load balancer and what belongs to it.     *)
LEMMA LoadBalancerBlock ==
    /\ Block(reconcileLoadBalancer, 4, 4)
    /\ \A k \in LBKeys : <<"ensure", k>> \in Range(reconcileLoadBalancer)
    /\ LBEnabled => <<"readLB", LBKey>> \in Range(reconcileLoadBalancer)
<1> DEFINE s == << <<"ensure", LBKey>>, <<"readLB", LBKey>>, <<"ensure", PoolKey>>,
                   <<"ensure", ListenerKey>>, <<"ensure", MonitorKey>>, <<"members", PoolKey>> >>
           e == <<"end", "lb">>
<1>1. e \in Tasks \ Closing /\ Rank(e) = 4 /\ ~DeleteTask(e) /\ Planned(e)
  BY DEF Tasks, Parts, Closing, Idle, Rank, Stage, DeleteTask, DeleteKinds, Direct, Planned
<1>2. reconcileLoadBalancer = (IF LBEnabled THEN s ELSE <<>>) \o <<e>>
  BY DEF reconcileLoadBalancer
<1> HIDE DEF e
<1>3. Block(<<e>>, 4, 4)
  BY <1>1, BlockOne
<1>4. CASE LBEnabled
  <2>1. {LBKey, PoolKey, ListenerKey, MonitorKey} \subseteq EnsuredKeys /\ LBKey \in Keys /\ PoolKey \in Keys
    BY <1>4, KeyFacts, UuidFacts, InterfaceKeyFacts
       DEF EnsuredKeys, LBKey, PoolKey, ListenerKey, MonitorKey
  <2>2. \A t \in {<<"ensure", LBKey>>, <<"readLB", LBKey>>, <<"ensure", PoolKey>>,
                  <<"ensure", ListenerKey>>, <<"ensure", MonitorKey>>, <<"members", PoolKey>>} :
            t \in Tasks \ Closing
    BY <2>1 DEF Tasks, Closing, Idle
  <2>3. \A t \in {<<"ensure", LBKey>>, <<"readLB", LBKey>>, <<"ensure", PoolKey>>,
                  <<"ensure", ListenerKey>>, <<"ensure", MonitorKey>>, <<"members", PoolKey>>} :
            Rank(t) = 4 /\ ~DeleteTask(t) /\ Planned(t)
    BY DEF Rank, Stage, DeleteTask, DeleteKinds, Direct, Planned, LBKey, PoolKey, ListenerKey, MonitorKey
  <2>4. /\ s = [i \in 1..6 |-> s[i]]
        /\ s[1] = <<"ensure", LBKey>> /\ s[2] = <<"readLB", LBKey>> /\ s[3] = <<"ensure", PoolKey>>
        /\ s[4] = <<"ensure", ListenerKey>> /\ s[5] = <<"ensure", MonitorKey>>
        /\ s[6] = <<"members", PoolKey>>
    OBVIOUS
  <2> HIDE DEF s
  <2>5. \A i \in 1..6 : s[i] \in Tasks \ Closing /\ Rank(s[i]) = 4 /\ ~DeleteTask(s[i]) /\ Planned(s[i])
    <3>1. \A i \in 1..6 : i \in {1, 2, 3, 4, 5, 6}
      OBVIOUS
    <3> QED BY <2>2, <2>3, <2>4, <3>1, Zenon
  <2>6. Block(s, 4, 4) /\ Range(s) = {s[i] : i \in 1..6}
    <3> DEFINE a == 4
               n == 6
    <3>1. /\ a \in Nat /\ n \in Nat /\ s = [i \in 1..n |-> s[i]]
          /\ \A i \in 1..n : /\ s[i] \in Tasks \ Closing /\ Rank(s[i]) = a
                             /\ ~DeleteTask(s[i]) /\ Planned(s[i])
      BY <2>4, <2>5
    <3> HIDE DEF a, n
    <3>2. Block(s, a, a) /\ Range(s) = {s[i] : i \in 1..n}
      BY <3>1, BlockLoop
    <3> QED BY <3>2 DEF a, n
  <2>7. Block(s \o <<e>>, 4, 4) /\ Range(s \o <<e>>) = Range(s) \cup Range(<<e>>)
    BY <1>3, <2>6, BlockConcat
  <2>8. /\ s[1] \in Range(s) /\ s[2] \in Range(s) /\ s[3] \in Range(s)
        /\ s[4] \in Range(s) /\ s[5] \in Range(s)
    BY <2>6
  <2> QED BY <1>2, <1>4, <2>4, <2>7, <2>8 DEF LBKeys
<1>5. CASE ~LBEnabled
  <2>1. Block(<<>> \o <<e>>, 4, 4)
    BY <1>3, BlockNone, BlockConcat
  <2> QED BY <1>2, <1>5, <2>1 DEF LBKeys
<1> QED BY Zenon, <1>4, <1>5

(* reconcileFloatingIP takes the floating IP.                                *)
LEMMA FloatingIPBlock ==
    /\ Block(reconcileFloatingIP, 5, 5)
    /\ FIPWanted => \E t \in Range(reconcileFloatingIP) :
                        t \in {<<"ensure", FIPKey>>, <<"adoptFIP", FIPKey>>}
<1> DEFINE t == <<IF Managed(FIPKey) THEN "ensure" ELSE "adoptFIP", FIPKey>>
           e == <<"end", "fip">>
<1>1. e \in Tasks \ Closing /\ Rank(e) = 5 /\ ~DeleteTask(e) /\ Planned(e)
  BY DEF Tasks, Parts, Closing, Idle, Rank, Stage, DeleteTask, DeleteKinds, Direct, Planned
<1>2. reconcileFloatingIP = (IF ~FIPWanted THEN <<>> ELSE <<t>>) \o <<e>>
  BY DEF reconcileFloatingIP
<1> HIDE DEF e
<1>3. Block(<<e>>, 5, 5)
  BY <1>1, BlockOne
<1>4. CASE FIPWanted
  <2>1. FIPKey \in EnsuredKeys /\ FIPKey \in Keys
    BY <1>4, KeyFacts, UuidFacts, InterfaceKeyFacts DEF EnsuredKeys, FIPKey
  <2>2. t \in {<<"ensure", FIPKey>>, <<"adoptFIP", FIPKey>>}
    OBVIOUS
  <2> HIDE DEF t
  <2>3. t \in Tasks \ Closing
    BY <2>1, <2>2 DEF Tasks, Closing, Idle
  <2>4. Rank(t) = 5 /\ ~DeleteTask(t) /\ Planned(t)
    BY <2>2 DEF Rank, Stage, DeleteTask, DeleteKinds, Direct, Planned, FIPKey
  <2>5. Block(<<t>>, 5, 5) /\ Range(<<t>>) = {t}
    BY <2>3, <2>4, BlockOne
  <2>6. Block(<<t>> \o <<e>>, 5, 5) /\ Range(<<t>> \o <<e>>) = Range(<<t>>) \cup Range(<<e>>)
    BY <1>3, <2>5, BlockConcat
  <2> QED BY Zenon, <1>2, <1>4, <2>2, <2>5, <2>6
<1>5. CASE ~FIPWanted
  <2>1. Block(<<>> \o <<e>>, 5, 5)
    BY <1>3, BlockNone, BlockConcat
  <2> QED BY <1>2, <1>5, <2>1
<1> QED BY Zenon, <1>4, <1>5
=============================================================================
