SPECIFICATION Spec
CONSTANTS
    m1 = m1
    m2 = m2
    s1 = s1
    s2 = s2
    g1 = g1
    g2 = g2
    None = None
    Machines = {m1}
    Servers = {s1}
    Groups = {}
    GroupNames = {}
    GroupOf <- Ungrouped
    Env = {"timeout", "delete"}
INVARIANT NoOrphanServer
