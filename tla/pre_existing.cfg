SPECIFICATION FairOpenSpec
CONSTANTS
    Networks <- TwoNetworks
    Routers <- OneRouter
    Attach <- AttachTwo
    PreExisting <- AllGiven
    LBEnabled = FALSE
    LBNetwork = None
    PoolMemberNetwork = None
    FIPWanted = TRUE
    UserEndpoint = None
    CPMachines = {"c1", "c2"}
    Addresses = {"a1"}
    MaxCreates = 1
    Deletable = {}
    None = None
    Unanswered = Unanswered
    Env = {"timeout", "delete", "apiError", "attach", "machines"}
INVARIANTS PreExistingIsKept NoOrphanResource
PROPERTIES FloatingIPIsAssigned
