-------------------------- MODULE ClusterLoadBalancer --------------------------
(***************************************************************************)
(* The control plane load balancer and the members of its pool:            *)
(* internal/controller/cloudscalecluster_loadbalancer.go.                  *)
(***************************************************************************)
EXTENDS ClusterState

(* A disabled load balancer has only the condition to set.                   *)
reconcileLoadBalancer ==
    (IF LBEnabled
     THEN << <<"ensure", LBKey>>, <<"readLB", LBKey>>, <<"ensure", PoolKey>>,
             <<"ensure", ListenerKey>>, <<"ensure", MonitorKey>>, <<"members", PoolKey>> >>
     ELSE <<>>)
    \o << <<"end", "lb">> >>

LBResolved(k, u) ==
    /\ mem' = Record(mem, k, u)
    /\ NextTask
    /\ UNCHANGED aux

lbFails == ReturnFrom("lb", FALSE, mem, "error") /\ UNCHANGED cloud

(* Fault: a changing load balancer is not polled.                            *)
readLB_noPoll ==
    LET u == mem.ids[LBKey]
    IN  /\ task = <<"readLB", LBKey>>
        /\ \/ /\ Exists(u) /\ cloud[u].state # "changing"
              /\ aux' = [aux EXCEPT !.vip = u, !.lbPending = cloud[u].state = "degraded"]
              /\ NextTask
              /\ UNCHANGED <<mem, base, outcome>>
           \/ /\ Exists(u) /\ cloud[u].state = "changing"
              /\ ReturnFrom("lb", FALSE, mem, "done")
           \/ ~Exists(u) /\ ReturnFrom("lb", FALSE, mem, "error")
        /\ UNCHANGED <<outside, cloud>>

(* The load balancer is read again.  While it is changing nothing else is    *)
(* done; in any other state the members are still reconciled, because that   *)
(* is the way back to running.                                               *)
readLB ==
    LET u == mem.ids[LBKey]
        continue(pending) == /\ aux' = [aux EXCEPT !.vip = u, !.lbPending = pending]
                             /\ NextTask
                             /\ UNCHANGED <<mem, base, outcome>>
    IN  /\ task = <<"readLB", LBKey>>
        /\ \/ Exists(u) /\ cloud[u].state = "up" /\ continue(FALSE)
           \/ Exists(u) /\ cloud[u].state = "degraded" /\ continue(TRUE)
           \/ /\ Exists(u) /\ cloud[u].state = "changing"
              /\ ReturnFrom("lb", FALSE, mem, "requeue")
           \/ ~Exists(u) /\ ReturnFrom("lb", FALSE, mem, "error")
        /\ UNCHANGED <<outside, cloud>>

-----------------------------------------------------------------------------
(* reconcileLBMembers.                                                      *)

(* Fault: only the members that status records are known.                    *)
MembersOf_recorded(pool) == {u \in mem.members : Exists(u)}

MembersOf(pool) == {u \in Uuids : u[1] \in MemberKeys /\ cloud[u].parent = pool /\ Exists(u)}

MachineOf(u) == u[1][2]

(* currentByName: of several members with one name the last in the list wins.*)
CurrentByName(seen) ==
    {f \in [CPMachines -> seen \cup {None}] :
        \A c \in CPMachines :
            IF \E u \in seen : MachineOf(u) = c THEN f[c] # None /\ MachineOf(f[c]) = c
            ELSE f[c] = None}

(* Missing members are added and those with another address updated; then    *)
(* the members without a machine are removed.                                *)
Upserts(current) ==
    {<<"addMember", MemberKey(c)>> : c \in {d \in CPMachines : addr[d] # None /\ current[d] = None}}
    \cup {<<"updateMember", current[c]>> :
            c \in {d \in CPMachines : /\ addr[d] # None /\ current[d] # None
                                      /\ cloud[current[d]].attr # addr[d]}}

Removals(seen) == {<<"removeMember", u>> : u \in {v \in seen : addr[MachineOf(v)] = None}}

(* The orders in which a list may return the elements of a finite set S.     *)
Orders(S) ==
    UNION {{s \in [1..n -> S] : \A i, j \in 1..n : s[i] = s[j] => i = j} :
           n \in {Cardinality(S)} \cap Nat}

listMembers ==
    LET pool == mem.ids[PoolKey]
        seen == MembersOf(pool)
    IN  /\ task = <<"members", PoolKey>>
        /\ \A k \in MemberKeys : Settled(k)
        /\ \/ /\ Exists(pool)
              /\ \E current \in CurrentByName(seen) :
                    \E upserts \in Orders(Upserts(current)), removals \in Orders(Removals(seen)) :
                        Push(upserts \o removals)
              /\ aux' = [aux EXCEPT !.desired = addr]
              /\ UNCHANGED <<mem, base, outcome, cloud>>
           \/ ~Exists(pool) /\ lbFails
        /\ UNCHANGED outside

(* getPoolMemberSubnetID.                                                    *)
PoolMemberSubnet ==
    mem.ids[SubnetKey(IF PoolMemberNetwork # None THEN PoolMemberNetwork
                      ELSE IF LBNetwork # None THEN LBNetwork
                      ELSE Networks[1])]

MayAddMember == Exists(mem.ids[PoolKey]) /\ Exists(PoolMemberSubnet)

Member(c, state) == [state |-> state, parent |-> mem.ids[PoolKey], attr |-> aux.desired[c]]

createLoadBalancerMember(c) ==
    LET k == MemberKey(c)
    IN  /\ task = <<"addMember", k>>
        /\ \/ /\ MayAddMember
              /\ \E u \in Fresh(k) :
                  /\ cloud' = [cloud EXCEPT ![u] = Member(c, "up")]
                  /\ mem' = [mem EXCEPT !.members = @ \cup {u}]
              /\ NextTask
              /\ UNCHANGED <<base, aux, outcome>>
           \/ (~MayAddMember \/ Fresh(k) = {}) /\ lbFails
        /\ UNCHANGED outside

createLoadBalancerMemberTimeout(c) ==
    LET k == MemberKey(c)
    IN  /\ "timeout" \in Env
        /\ task = <<"addMember", k>>
        /\ \/ UNCHANGED cloud
           \/ /\ MayAddMember
              /\ \E u \in Fresh(k) : cloud' = [cloud EXCEPT ![u] = Member(c, "pending")]
        /\ ReturnFrom("lb", ~aux.lbPending, mem, "requeue")
        /\ UNCHANGED outside

updateLoadBalancerMember(u) ==
    /\ task = <<"updateMember", u>>
    /\ \/ /\ Exists(u)
          /\ cloud' = [cloud EXCEPT ![u].attr = aux.desired[MachineOf(u)]]
          /\ NextTask
          /\ UNCHANGED <<mem, base, aux, outcome>>
       \/ ~Exists(u) /\ lbFails
    /\ UNCHANGED outside

(* A 404 is an error here.                                                   *)
deleteLoadBalancerMember(u) ==
    /\ task = <<"removeMember", u>>
    /\ \/ /\ Exists(u)
          /\ cloud' = Erase(u)
          /\ mem' = [mem EXCEPT !.members = @ \ {u}]
          /\ NextTask
          /\ UNCHANGED <<base, aux, outcome>>
       \/ ~Exists(u) /\ lbFails
    /\ UNCHANGED outside

loadBalancerReconciled ==
    /\ task = <<"end", "lb">>
    /\ mem' = setCondition(mem, "lb", ~aux.lbPending)
    /\ NextTask
    /\ UNCHANGED <<base, aux, outcome, outside, cloud>>

-----------------------------------------------------------------------------
deleteLBTasks == IF LBEnabled THEN << <<"deleteLB", LBKey>> >> ELSE <<>>

(* Fault: a 404 is an error.                                                 *)
deleteLoadBalancer_strict ==
    /\ task = <<"deleteLB", LBKey>>
    /\ IF mem.ids[LBKey] = None \/ Exists(mem.ids[LBKey])
       THEN /\ cloud' = IF mem.ids[LBKey] # None THEN Erase(mem.ids[LBKey]) ELSE cloud
            /\ mem' = [setCondition(mem, "lb", FALSE) EXCEPT
                          !.ids = [k \in StatusKeys |-> IF k \in LBKeys THEN None ELSE mem.ids[k]],
                          !.members = {}]
            /\ NextTask
            /\ UNCHANGED <<base, aux, outcome>>
       ELSE Return(setCondition(mem, "lb", FALSE), "error") /\ UNCHANGED cloud
    /\ UNCHANGED outside

(* The API deletes everything below the load balancer.                       *)
deleteLoadBalancer ==
    /\ task = <<"deleteLB", LBKey>>
    /\ cloud' = IF mem.ids[LBKey] # None THEN Erase(mem.ids[LBKey]) ELSE cloud
    /\ mem' = [setCondition(mem, "lb", FALSE) EXCEPT
                  !.ids = [k \in StatusKeys |-> IF k \in LBKeys THEN None ELSE mem.ids[k]],
                  !.members = {}]
    /\ NextTask
    /\ UNCHANGED <<base, aux, outcome, outside>>

(* Fault: the error is not returned.                                         *)
deleteLoadBalancerFails_ignored ==
    /\ "apiError" \in Env
    /\ task = <<"deleteLB", LBKey>>
    /\ mem.ids[LBKey] # None
    /\ cloud' \in {cloud, Erase(mem.ids[LBKey])}
    /\ mem' = setCondition(mem, "lb", FALSE)
    /\ NextTask
    /\ UNCHANGED <<base, aux, outcome, outside>>

deleteLoadBalancerFails ==
    /\ "apiError" \in Env
    /\ task = <<"deleteLB", LBKey>>
    /\ mem.ids[LBKey] # None
    /\ cloud' \in {cloud, Erase(mem.ids[LBKey])}
    /\ Return(setCondition(mem, "lb", FALSE), "error")
    /\ UNCHANGED outside
=============================================================================
