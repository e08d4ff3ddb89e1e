SPECIFICATION FairOpenSpec
CONSTANTS
    Networks <- OneNetwork
    Routers <- NoRouter
    Attach <- NoAttachment
    PreExisting <- GivenNetwork
    LBEnabled = TRUE
    LBNetwork = None
    PoolMemberNetwork = None
    FIPWanted = FALSE
    UserEndpoint = None
    CPMachines = {"c1"}
    Addresses = {"a1", "a2"}
    MaxCreates = 2
    Deletable = {}
    None = None
    Unanswered = Unanswered
    Env = {"machines", "degraded", "timeout"}
INVARIANTS AtMostOneResource ProvisionedHasEndpoint
PROPERTIES ProvisionedIsFinal PoolFollowsMachines
