----------------------------- MODULE ClusterRouter -----------------------------
(***************************************************************************)
(* The routers of a cluster and their interfaces:                          *)
(* internal/controller/cloudscalecluster_router.go.                        *)
(***************************************************************************)
EXTENDS ClusterState

InterfaceKeysOf(r) == {InterfaceKey(r, n) : n \in Range(Attach[r])}

reconcileRouters ==
    [i \in 1..Len(Routers) |->
        <<IF Managed(RouterKey(Routers[i])) THEN "ensure" ELSE "adopt",
          RouterKey(Routers[i])>>]
    \o << <<"end", "router">> >>

(* The router is known and recorded.  One that is not active makes the       *)
(* reconcile wait, but only after the other routers had their turn.  The     *)
(* interfaces are reconciled against those in the answer.                    *)
RouterResolved(r, u) ==
    /\ mem' = Record(mem, RouterKey(r), u)
    /\ IF cloud'[u].state = "up"
       THEN /\ aux' = [aux EXCEPT !.seen[r] = InterfacesOf(u)]
            /\ Push([i \in 1..Len(Attach[r]) |->
                        <<"interface", InterfaceKey(r, Attach[r][i])>>])
       ELSE /\ aux' = [aux EXCEPT !.waiting = TRUE]
            /\ NextTask

(* An answer about a router shows every interface that was created before.   *)
RouterSettled(r) == \A k \in InterfaceKeysOf(r) : Settled(k)

(* adoptRouter: a pre-existing router is read and never made.                *)
adoptRouter(r) ==
    LET u == <<RouterKey(r), 0>>
    IN  /\ task = <<"adopt", RouterKey(r)>>
        /\ RouterSettled(r)
        /\ UNCHANGED <<outside, cloud>>
        /\ IF Exists(u) THEN RouterResolved(r, u) /\ UNCHANGED <<base, outcome>>
           ELSE ReturnFrom("router", FALSE, mem, "error")

(* ensureManagedRouter: a timed-out create makes the reconcile wait.         *)
RouterTimeout ==
    /\ aux' = [aux EXCEPT !.waiting = TRUE]
    /\ UNCHANGED mem
    /\ NextTask

-----------------------------------------------------------------------------
(* reconcileRouterInterfaces: one interface.                                *)

Live(r, n) == {u \in aux.seen[r] : cloud[u].attr = mem.ids[NetworkKey(n)]}

(* The interface the spec names by UUID must be there, on this network.      *)
adoptRouterInterface(r, n) ==
    LET k == InterfaceKey(r, n)
    IN  /\ task = <<"interface", k>>
        /\ ~Managed(k)
        /\ IF <<k, 0>> \in Live(r, n)
           THEN /\ mem' = Record(mem, k, <<k, 0>>)
                /\ NextTask
                /\ UNCHANGED <<base, aux, outcome>>
           ELSE ReturnFrom("router", FALSE, mem, "error")
        /\ UNCHANGED <<outside, cloud>>

(* An interface that is already attached is taken for one CAPCS made if the  *)
(* router is managed or status has an entry for it.                          *)
MayClaim(r, k) == Managed(RouterKey(r)) \/ mem.ids[k] # None

(* Fault: an interface that is there already is not recorded.               *)
claimRouterInterface_unrecorded(r, n) ==
    LET k == InterfaceKey(r, n)
    IN  /\ task = <<"interface", k>>
        /\ Managed(k)
        /\ \E u \in Live(r, n) :
            IF MayClaim(r, k)
            THEN NextTask /\ UNCHANGED <<mem, base, aux, outcome>>
            ELSE ReturnFrom("router", FALSE, mem, "error")
        /\ UNCHANGED <<outside, cloud>>

claimRouterInterface(r, n) ==
    LET k == InterfaceKey(r, n)
    IN  /\ task = <<"interface", k>>
        /\ Managed(k)
        /\ \E u \in Live(r, n) :
            IF MayClaim(r, k)
            THEN /\ mem' = Record(mem, k, u)
                 /\ NextTask
                 /\ UNCHANGED <<base, aux, outcome>>
            ELSE ReturnFrom("router", FALSE, mem, "error")
        /\ UNCHANGED <<outside, cloud>>

(* The API attaches a router to a network at most once.                      *)
MayAttach(r, n) ==
    /\ Exists(mem.ids[RouterKey(r)]) /\ Exists(mem.ids[NetworkKey(n)])
    /\ \A u \in InterfacesOf(mem.ids[RouterKey(r)]) :
        cloud[u].attr # mem.ids[NetworkKey(n)]

Interface(r, n, state) == [state |-> state, parent |-> mem.ids[RouterKey(r)],
                           attr |-> mem.ids[NetworkKey(n)]]

createRouterInterface(r, n) ==
    LET k == InterfaceKey(r, n)
    IN  /\ task = <<"interface", k>>
        /\ Managed(k) /\ Live(r, n) = {} /\ MayAttach(r, n)
        /\ \E u \in Fresh(k) :
            /\ cloud' = [cloud EXCEPT ![u] = Interface(r, n, "up")]
            /\ mem' = Record(mem, k, u)
        /\ NextTask
        /\ UNCHANGED <<base, aux, outcome, outside>>

(* The loop over the interfaces ends; what comes after it is next.           *)
LeaveInterfaces ==
    \E i \in 1..Len(todo) :
        /\ todo[i][1] # "interface"
        /\ \A j \in 1..(i - 1) : todo[j][1] = "interface"
        /\ task' = todo[i]
        /\ todo' = SubSeq(todo, i + 1, Len(todo))

(* Fault: no entry is written before the call.                               *)
createRouterInterfaceTimeout_unrecorded(r, n) ==
    LET k == InterfaceKey(r, n)
    IN  /\ "timeout" \in Env
        /\ task = <<"interface", k>>
        /\ Managed(k) /\ Live(r, n) = {}
        /\ \/ UNCHANGED cloud
           \/ /\ MayAttach(r, n)
              /\ \E u \in Fresh(k) :
                  cloud' = [cloud EXCEPT ![u] = Interface(r, n, "pending")]
        /\ UNCHANGED mem
        /\ aux' = [aux EXCEPT !.waiting = TRUE]
        /\ LeaveInterfaces
        /\ UNCHANGED <<base, outcome, outside>>

(* The entry without an ID is written before the call.  A timeout leaves it, *)
(* skips the other interfaces of the router and makes the reconcile wait.    *)
createRouterInterfaceTimeout(r, n) ==
    LET k == InterfaceKey(r, n)
    IN  /\ "timeout" \in Env
        /\ task = <<"interface", k>>
        /\ Managed(k) /\ Live(r, n) = {}
        /\ \/ UNCHANGED cloud
           \/ /\ MayAttach(r, n)
              /\ \E u \in Fresh(k) :
                  cloud' = [cloud EXCEPT ![u] = Interface(r, n, "pending")]
        /\ mem' = Record(mem, k, Unanswered)
        /\ aux' = [aux EXCEPT !.waiting = TRUE]
        /\ LeaveInterfaces
        /\ UNCHANGED <<base, outcome, outside>>

(* Any other error; the entry without an ID stays as well.                   *)
createRouterInterfaceFails(r, n) ==
    LET k == InterfaceKey(r, n)
    IN  /\ task = <<"interface", k>>
        /\ Managed(k) /\ Live(r, n) = {}
        /\ "apiError" \in Env \/ ~MayAttach(r, n) \/ Fresh(k) = {}
        /\ ReturnFrom("router", FALSE, Record(mem, k, Unanswered), "error")
        /\ UNCHANGED <<outside, cloud>>

(* The end of reconcileRouters.                                              *)
routersReconciled ==
    /\ task = <<"end", "router">>
    /\ IF aux.waiting THEN ReturnFrom("router", FALSE, mem, "requeue")
       ELSE /\ mem' = setCondition(mem, "router", TRUE)
            /\ NextTask
            /\ UNCHANGED <<base, aux, outcome>>
    /\ UNCHANGED <<outside, cloud>>

-----------------------------------------------------------------------------
(* deleteRouters.                                                           *)

deleteRouterTasks ==
    [i \in 1..Len(Routers) |-> <<"readRouter", RouterKey(Routers[i])>>]
    \o << <<"end", "routers">> >>

(* Fault: an interface named by UUID in the spec counts as one of ours.      *)
ManagedEntries_all(r) == {k \in InterfaceKeysOf(r) : mem.ids[k] # None}

(* The interfaces that hasManagedInterface looks for; the loop of            *)
(* deleteRouterInterfaces passes over the others.                            *)
ManagedEntries(r) == {k \in InterfaceKeysOf(r) : Managed(k) /\ mem.ids[k] # None}

DropEntries(o, ks) ==
    [o EXCEPT !.ids = [k \in StatusKeys |-> IF k \in ks THEN None ELSE o.ids[k]]]

detachTasks(r) ==
    [i \in 1..Len(Attach[r]) |-> <<"detach", InterfaceKey(r, Attach[r][i])>>]

(* The router is read when there is an interface of ours to detach.          *)
readRouter(r) ==
    LET k == RouterKey(r)
        u == mem.ids[k]
    IN  /\ task = <<"readRouter", k>>
        /\ \/ u = None /\ NextTask /\ UNCHANGED <<mem, aux>>
           \/ /\ u # None /\ ManagedEntries(r) = {}
              /\ Goto(<<"deleteRouter", k>>) /\ UNCHANGED <<mem, aux>>
           \/ /\ u # None /\ ManagedEntries(r) # {} /\ ~Exists(u)
              /\ mem' = DropEntries(mem, InterfaceKeysOf(r))
              /\ Goto(<<"deleteRouter", k>>) /\ UNCHANGED aux
           \/ /\ u # None /\ ManagedEntries(r) # {} /\ Exists(u)
              /\ RouterSettled(r)
              /\ aux' = [aux EXCEPT !.seen[r] = InterfacesOf(u)]
              /\ Push(detachTasks(r) \o << <<"deleteRouter", k>> >>)
              /\ UNCHANGED mem
        /\ UNCHANGED <<base, outcome, outside, cloud>>

(* An entry without an ID stands for the interface on its network.           *)
EntryInterface(r, n, k) ==
    IF mem.ids[k] # Unanswered THEN {mem.ids[k]} \cap aux.seen[r] ELSE Live(r, n)

detachInterface(r, n) ==
    LET k == InterfaceKey(r, n)
    IN  /\ task = <<"detach", k>>
        /\ \/ k \notin ManagedEntries(r) /\ UNCHANGED <<mem, cloud>>
           \/ /\ k \in ManagedEntries(r)
              /\ \/ EntryInterface(r, n, k) = {} /\ UNCHANGED cloud
                 \/ \E u \in EntryInterface(r, n, k) : cloud' = Erase(u)
              /\ mem' = Record(mem, k, None)
        /\ NextTask
        /\ UNCHANGED <<base, aux, outcome, outside>>

(* The call fails: the entry keeps the UUID it stands for.                   *)
detachInterfaceFails(r, n) ==
    LET k == InterfaceKey(r, n)
    IN  /\ "apiError" \in Env
        /\ task = <<"detach", k>> /\ k \in ManagedEntries(r)
        /\ \E u \in EntryInterface(r, n, k) :
            /\ cloud' \in {cloud, Erase(u)}
            /\ mem' = Record(mem, k, u)
        /\ aux' = [aux EXCEPT !.detachFailed = TRUE]
        /\ NextTask
        /\ UNCHANGED <<base, outcome, outside>>

(* The router stays in status when an interface could not be detached, and   *)
(* when it is a pre-existing one.  A 404 counts as success.                  *)
deleteRouter(r) ==
    LET k == RouterKey(r)
        u == mem.ids[k]
    IN  /\ task = <<"deleteRouter", k>>
        /\ \/ /\ aux.detachFailed
              /\ aux' = [aux EXCEPT !.failed = TRUE, !.detachFailed = FALSE]
              /\ UNCHANGED <<mem, cloud>>
           \/ /\ ~aux.detachFailed /\ ~Managed(k)
              /\ UNCHANGED <<mem, aux, cloud>>
           \/ /\ ~aux.detachFailed /\ Managed(k)
              /\ Exists(u) => InterfacesOf(u) = {}
              /\ cloud' = Erase(u)
              /\ mem' = DropEntries(mem, {k} \cup InterfaceKeysOf(r))
              /\ UNCHANGED aux
        /\ NextTask
        /\ UNCHANGED <<base, outcome, outside>>

(* Reading or deleting the router fails: it stays in status, the others have *)
(* their turn.                                                               *)
deleteRouterFails(r) ==
    LET k == RouterKey(r)
        u == mem.ids[k]
    IN  /\ \/ /\ "apiError" \in Env /\ task = <<"readRouter", k>>
              /\ u # None /\ ManagedEntries(r) # {}
              /\ UNCHANGED cloud
           \/ /\ task = <<"deleteRouter", k>> /\ ~aux.detachFailed /\ Managed(k)
              /\ \/ "apiError" \in Env /\ cloud' = cloud
                 \/ "apiError" \in Env /\ InterfacesOf(u) = {} /\ cloud' = Erase(u)
                 \/ Exists(u) /\ InterfacesOf(u) # {} /\ cloud' = cloud
        /\ aux' = [aux EXCEPT !.failed = TRUE]
        /\ NextTask
        /\ UNCHANGED <<mem, base, outcome, outside>>

routersDeleted ==
    LET o == setCondition(mem, "router", FALSE)
    IN  /\ task = <<"end", "routers">>
        /\ IF aux.failed THEN Return(o, "error")
           ELSE mem' = o /\ NextTask /\ UNCHANGED <<base, aux, outcome>>
        /\ UNCHANGED <<outside, cloud>>
=============================================================================
