------------------------------ MODULE MCCluster ------------------------------
EXTENDS ClusterController

(* Names of the spec's entries.                                              *)
OneNetwork == <<"n1">>
TwoNetworks == <<"n1", "n2">>
OneRouter == <<"r1">>
NoRouter == <<>>

NoAttachment == [r \in {} |-> <<>>]
AttachOne == [r \in {"r1"} |-> <<"n1">>]
AttachTwo == [r \in {"r1"} |-> <<"n1", "n2">>]

AllManaged == {}
GivenNetwork == {<<"network", "n1">>}
GivenRouter == {<<"router", "r1">>}
GivenNetworkAndRouter == GivenNetwork \cup GivenRouter
(* Router, first network and the interface between them are given.           *)
GivenInterface == GivenNetworkAndRouter \cup {<<"interface", <<"r1", "n1">>>>}
(* Everything that can be given, but for the second interface.               *)
AllGiven == GivenInterface \cup {<<"network", "n2">>, <<"fip", None>>}

NetworkOnly == {<<"network", "n1">>}
LBOnly == {<<"lb", None>>}

(* The owner reference is set.                                               *)
OpenInit ==
    /\ obj = [NewCluster EXCEPT !.owned = TRUE]
    /\ cache = obj
    /\ queued = TRUE
    /\ task = Idle /\ todo = <<>>
    /\ mem = NewCluster /\ base = NewCluster
    /\ aux = NoAux
    /\ outcome = "done"
    /\ cloud = InitialCloud
    /\ group = "none"
    /\ addr = [c \in CPMachines |-> None]
    /\ cpInitialized = FALSE
    /\ paused = FALSE

OpenSpec == OpenInit /\ [][Next]_vars
FairOpenSpec == OpenSpec /\ Fairness /\ <>[][~Disturbance]_vars
=============================================================================
