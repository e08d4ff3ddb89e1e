SPECIFICATION FairOpenSpec
CONSTANTS
    Networks <- OneNetwork
    Routers <- OneRouter
    Attach <- AttachOne
    PreExisting <- GivenNetwork
    LBEnabled = TRUE
    LBNetwork = None
    PoolMemberNetwork = None
    FIPWanted = TRUE
    UserEndpoint = None
    CPMachines = {}
    Addresses = {}
    MaxCreates = 1
    Deletable = {}
    None = None
    Unanswered = Unanswered
    Env = {"delete", "apiError", "groups"}
INVARIANTS TypeOK NoOrphanResource
PROPERTIES Converges DeletionCompletes
