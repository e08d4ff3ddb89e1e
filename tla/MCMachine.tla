------------------------------ MODULE MCMachine ------------------------------
EXTENDS MachineController, TLC

CONSTANTS m1, m2, s1, s2, g1, g2

Ungrouped == [m \in Machines |-> None]
SameGroup == [m \in Machines |-> "workers"]

(* All machines may be reconciled and have their bootstrap data.             *)
OpenInit ==
    /\ obj = [m \in Machines |-> [NewObject EXCEPT !.owned = TRUE]]
    /\ cache = obj
    /\ queued = Machines
    /\ pc = [m \in Machines |-> "idle"]
    /\ mem = [m \in Machines |-> NewObject]
    /\ base = mem
    /\ outcome = [m \in Machines |-> "done"]
    /\ serverGroupMu = None
    /\ servers = [s \in Servers |-> UnusedServer]
    /\ groups = [g \in Groups |-> UnusedGroup]
    /\ bootstrapped = Machines
    /\ clusterProvisioned = TRUE
    /\ paused = FALSE

OpenSpec == OpenInit /\ [][Next]_vars
FairOpenSpec == OpenSpec /\ Fairness /\ <>[][~Fault]_vars

Symmetry == Permutations(Machines) \cup Permutations(Servers) \cup Permutations(Groups)
=============================================================================
