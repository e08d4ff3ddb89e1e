------------------------------ MODULE MCProvider ------------------------------
EXTENDS Provider

CONSTANTS m1, s1, g1

SameGroup == [m \in Machines |-> "workers"]
OneNetwork == <<"n1">>
GivenNetwork == {<<"network", "n1">>}
=============================================================================
