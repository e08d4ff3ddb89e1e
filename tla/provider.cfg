SPECIFICATION FairSpec
CONSTANTS
    m1 = m1
    s1 = s1
    g1 = g1
    None = None
    Unanswered = Unanswered
    Machines = {m1}
    Servers = {s1}
    Groups = {g1}
    GroupNames = {"workers"}
    GroupOf <- SameGroup
    ControlPlane = {m1}
    Networks <- OneNetwork
    PreExisting <- GivenNetwork
    UserEndpoint = "user"
    MaxCreates = 1
    MachineEnv = {"delete", "earlyDelete", "pause"}
    ClusterEnv = {"delete", "earlyDelete", "pause", "apiError"}
INVARIANTS GateStaysOpen NothingIsLeft
PROPERTIES EverythingIsDeleted EveryMachineStarts
