---------------------------- MODULE MachineServers ----------------------------
(***************************************************************************)
(* What the CloudscaleMachine controller promises about servers: a machine *)
(* has at most one at a time, and a server belongs to one machine for good.*)
(***************************************************************************)
CONSTANTS Machines, Servers, None

VARIABLES
    up,      \* the servers that exist
    owner    \* the machine a server was made for, None before it was made

Init ==
    /\ up = {}
    /\ owner = [s \in Servers |-> None]

Provision(m, s) ==
    /\ owner[s] = None
    /\ \A t \in up : owner[t] # m
    /\ up' = up \cup {s}
    /\ owner' = [owner EXCEPT ![s] = m]

Retire(s) ==
    /\ s \in up
    /\ up' = up \ {s}
    /\ UNCHANGED owner

Next ==
    \E s \in Servers : Retire(s) \/ \E m \in Machines : Provision(m, s)

Spec == Init /\ [][Next]_<<up, owner>>
=============================================================================
