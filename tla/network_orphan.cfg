SPECIFICATION OpenSpec
CONSTANTS
    Networks <- OneNetwork
    Routers <- NoRouter
    Attach <- NoAttachment
    PreExisting <- AllManaged
    LBEnabled = FALSE
    LBNetwork = None
    PoolMemberNetwork = None
    FIPWanted = FALSE
    UserEndpoint = user
    CPMachines = {}
    Addresses = {}
    MaxCreates = 2
    Deletable = {}
    None = None
    Unanswered = Unanswered
    Env = {"delete", "apiError"}
INVARIANTS NoOrphanResource
