--------------------------- MODULE ClusterFloatingIP ---------------------------
(***************************************************************************)
(* The floating IP of a cluster:                                           *)
(* internal/controller/cloudscalecluster_floatingip.go.                    *)
(***************************************************************************)
EXTENDS ClusterState

reconcileFloatingIP ==
    (IF ~FIPWanted THEN <<>>
     ELSE << <<IF Managed(FIPKey) THEN "ensure" ELSE "adoptFIP", FIPKey>> >>)
    \o << <<"end", "fip">> >>

(* A control plane server; it has an ID when its machine has an address.     *)
ServerOf(c) == <<<<"server", c>>, 0>>

(* getFloatingIPTarget: the load balancer, or a control plane server.        *)
getFloatingIPTarget(o) ==
    IF LBEnabled THEN {o.ids[LBKey]} \ {None}
    ELSE {ServerOf(c) : c \in {d \in CPMachines : addr[d] # None}}

TargetExists(t) == LBEnabled => Exists(t)

(* A floating IP that was found is assigned next, a new one has its target.  *)
FIPResolved(u) ==
    /\ mem' = Record(mem, FIPKey, u)
    /\ Goto(<<"assign", FIPKey>>)
    /\ UNCHANGED aux

FIPCreated(u) ==
    /\ mem' = Record(mem, FIPKey, u)
    /\ NextTask
    /\ UNCHANGED aux

reconcilePreExistingFloatingIP ==
    LET u == <<FIPKey, 0>>
    IN  /\ task = <<"adoptFIP", FIPKey>>
        /\ IF Exists(u) THEN FIPResolved(u) /\ UNCHANGED <<base, outcome>>
           ELSE ReturnFrom("fip", FALSE, mem, "error")
        /\ UNCHANGED <<outside, cloud>>

(* Fault: a floating IP that is assigned to something is left alone.          *)
ensureFloatingIPAssignment_once ==
    LET u == mem.ids[FIPKey]
        next == NextTask /\ UNCHANGED <<mem, base, aux, outcome>>
    IN  /\ task = <<"assign", FIPKey>>
        /\ \/ getFloatingIPTarget(mem) = {} /\ next /\ UNCHANGED cloud
           \/ \E t \in getFloatingIPTarget(mem) :
                \/ cloud[u].parent # None /\ next /\ UNCHANGED cloud
                \/ /\ cloud[u].parent = None /\ Exists(u) /\ TargetExists(t)
                   /\ cloud' = [cloud EXCEPT ![u].parent = t]
                   /\ next
                \/ /\ cloud[u].parent = None /\ ~(Exists(u) /\ TargetExists(t))
                   /\ ReturnFrom("fip", FALSE, mem, "error")
                   /\ UNCHANGED cloud
        /\ UNCHANGED outside

ensureFloatingIPAssignment ==
    LET u == mem.ids[FIPKey]
        next == NextTask /\ UNCHANGED <<mem, base, aux, outcome>>
    IN  /\ task = <<"assign", FIPKey>>
        /\ \/ getFloatingIPTarget(mem) = {} /\ next /\ UNCHANGED cloud
           \/ \E t \in getFloatingIPTarget(mem) :
                \/ cloud[u].parent = t /\ next /\ UNCHANGED cloud
                \/ /\ cloud[u].parent # t /\ Exists(u) /\ TargetExists(t)
                   /\ cloud' = [cloud EXCEPT ![u].parent = t]
                   /\ next
                \/ /\ cloud[u].parent # t /\ ~(Exists(u) /\ TargetExists(t))
                   /\ ReturnFrom("fip", FALSE, mem, "error")
                   /\ UNCHANGED cloud
        /\ UNCHANGED outside

floatingIPReconciled ==
    /\ task = <<"end", "fip">>
    /\ mem' = setCondition(mem, "fip", TRUE)
    /\ NextTask
    /\ UNCHANGED <<base, aux, outcome, outside, cloud>>

-----------------------------------------------------------------------------
deleteFIPTasks == IF FIPWanted THEN << <<"deleteFIP", FIPKey>> >> ELSE <<>>

(* A pre-existing floating IP is passed over.                                *)
deleteFloatingIP ==
    /\ task = <<"deleteFIP", FIPKey>>
    /\ IF Managed(FIPKey)
       THEN /\ cloud' = IF mem.ids[FIPKey] # None THEN Erase(mem.ids[FIPKey]) ELSE cloud
            /\ mem' = Record(setCondition(mem, "fip", FALSE), FIPKey, None)
       ELSE UNCHANGED <<cloud, mem>>
    /\ NextTask
    /\ UNCHANGED <<base, aux, outcome, outside>>

deleteFloatingIPFails ==
    /\ "apiError" \in Env
    /\ task = <<"deleteFIP", FIPKey>>
    /\ Managed(FIPKey) /\ mem.ids[FIPKey] # None
    /\ cloud' \in {cloud, Erase(mem.ids[FIPKey])}
    /\ Return(setCondition(mem, "fip", FALSE), "error")
    /\ UNCHANGED outside
=============================================================================
