SPECIFICATION OpenSpec
CONSTANTS
    m1 = m1
    m2 = m2
    s1 = s1
    s2 = s2
    g1 = g1
    g2 = g2
    None = None
    Machines = {m1, m2}
    Servers = {s1, s2}
    Groups = {g1, g2}
    GroupNames = {"workers"}
    GroupOf <- SameGroup
    Env = {"crash", "patchError"}
SYMMETRY Symmetry
INVARIANTS AtMostOneGroup AntiAffinity RecordedServerIsOwn
