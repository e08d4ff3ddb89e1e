SPECIFICATION OpenSpec
CONSTANTS
    Networks <- OneNetwork
    Routers <- NoRouter
    Attach <- NoAttachment
    PreExisting <- GivenNetwork
    LBEnabled = TRUE
    LBNetwork = None
    PoolMemberNetwork = None
    FIPWanted = FALSE
    UserEndpoint = None
    CPMachines = {}
    Addresses = {}
    MaxCreates = 2
    Deletable <- LBOnly
    None = None
    Unanswered = Unanswered
    Env = {"stale", "external"}
INVARIANTS AtMostOneResource
PROPERTIES EndpointIsFinal
