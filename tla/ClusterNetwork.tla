---------------------------- MODULE ClusterNetwork ----------------------------
(***************************************************************************)
(* The networks and subnets of a cluster:                                  *)
(* internal/controller/cloudscalecluster_network.go.                       *)
(***************************************************************************)
EXTENDS ClusterState

(* reconcileNetwork: a managed network goes through ensureResource, a        *)
(* pre-existing one is looked up.                                            *)
reconcileNetwork ==
    [i \in 1..Len(Networks) |->
        <<IF Managed(NetworkKey(Networks[i])) THEN "ensure" ELSE "discover",
          NetworkKey(Networks[i])>>]
    \o << <<"end", "network">> >>

(* The network is known: its UUID stays in a local variable until the subnet *)
(* is known too, which goes through ensureResource next, and only then are   *)
(* both recorded in status.                                                  *)
NetworkResolved(n, u) ==
    /\ aux' = [aux EXCEPT !.net[n] = u]
    /\ UNCHANGED mem
    /\ Goto(<<"ensure", SubnetKey(n)>>)

(* Fault: the two UUIDs are swapped.                                         *)
setNetworkStatus_swapped(o, n, network, subnet) ==
    Record(Record(o, NetworkKey(n), subnet), SubnetKey(n), network)

setNetworkStatus(o, n, network, subnet) ==
    Record(Record(o, NetworkKey(n), network), SubnetKey(n), subnet)

SubnetResolved(n, u) ==
    /\ mem' = setNetworkStatus(mem, n, aux.net[n], u)
    /\ aux' = [aux EXCEPT !.net[n] = None]
    /\ NextTask

(* reconcilePreExistingNetwork: looked up once, then taken from status.      *)
reconcilePreExistingNetwork(n) ==
    /\ task = <<"discover", NetworkKey(n)>>
    /\ LET u == <<NetworkKey(n), 0>>
           recorded == mem.ids[NetworkKey(n)] # None /\ mem.ids[SubnetKey(n)] # None
       IN  \/ /\ recorded \/ Exists(u)
              /\ mem' = IF recorded THEN mem
                        ELSE setNetworkStatus(mem, n, u, <<SubnetKey(n), 0>>)
              /\ NextTask
              /\ UNCHANGED <<base, aux, outcome>>
           \/ /\ ~recorded /\ ~Exists(u)
              /\ ReturnFrom("network", FALSE, mem, "error")
    /\ UNCHANGED <<outside, cloud>>

-----------------------------------------------------------------------------
(* deleteNetwork: one task for every entry, and the end of the loop.         *)
deleteNetworkTasks ==
    [i \in 1..Len(Networks) |-> <<"deleteNetwork", NetworkKey(Networks[i])>>]
    \o << <<"end", "networks">> >>

(* The API refuses a network that a router is attached to, and one in which  *)
(* pool members of a deleted load balancer are left.                         *)
PoolMembersLeft == \E u \in Uuids : u[1] = LBKey /\ cloud[u].state = "leaving"
NetworkInUse(u) == \E v \in Uuids : v[1] \in InterfaceKeys /\ cloud[v].attr = u /\ Exists(v)

(* A pre-existing network and one without an ID are passed over.  Success    *)
(* and a 404 count alike; the entry goes when the loop ends.                 *)
deleteNetwork(n) ==
    LET u == mem.ids[NetworkKey(n)]
    IN  /\ task = <<"deleteNetwork", NetworkKey(n)>>
        /\ \/ /\ ~Managed(NetworkKey(n)) \/ u = None
              /\ NextTask
              /\ UNCHANGED <<mem, aux, outcome, cloud>>
           \/ /\ Managed(NetworkKey(n)) /\ u # None
              /\ ~Exists(u) \/ (~PoolMembersLeft /\ ~NetworkInUse(u))
              /\ cloud' = Erase(u)
              /\ aux' = [aux EXCEPT !.gone = @ \cup {n}]
              /\ NextTask
              /\ UNCHANGED <<mem, outcome>>
        /\ UNCHANGED <<base, outside>>

(* errNetworkNotReady leaves the loop at once, status unchanged; other       *)
(* errors let the loop go on.                                                *)
deleteNetworkFails(n) ==
    LET u == mem.ids[NetworkKey(n)]
    IN  /\ task = <<"deleteNetwork", NetworkKey(n)>>
        /\ Managed(NetworkKey(n)) /\ u # None
        /\ \/ /\ Exists(u) /\ PoolMembersLeft
              /\ Return(setCondition(mem, "network", FALSE), "requeue")
              /\ UNCHANGED cloud
           \/ /\ "apiError" \in Env \/ (Exists(u) /\ NetworkInUse(u))
              /\ cloud' \in {cloud} \cup (IF "apiError" \in Env /\ Exists(u)
                                             /\ ~PoolMembersLeft /\ ~NetworkInUse(u)
                                          THEN {Erase(u)} ELSE {})
              /\ aux' = [aux EXCEPT !.failed = TRUE]
              /\ NextTask
              /\ UNCHANGED <<mem, base, outcome>>
        /\ UNCHANGED outside

(* The end of deleteNetwork and, without an error, of reconcileDelete, which  *)
(* runs only on a deleted object: Ready is False, the finalizer is removed.  *)
networksDeleted ==
    LET o == [setCondition(mem, "network", FALSE) EXCEPT
                 !.ids = [k \in StatusKeys |->
                            IF \E n \in aux.gone : k \in {NetworkKey(n), SubnetKey(n)}
                            THEN None ELSE mem.ids[k]]]
    IN  /\ task = <<"end", "networks">>
        /\ mem.phase = "deleting"
        /\ IF aux.failed THEN Return(o, "error")
           ELSE Return([o EXCEPT !.ready = FALSE, !.finalizer = FALSE], "done")
        /\ UNCHANGED <<outside, cloud>>
=============================================================================
