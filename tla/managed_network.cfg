SPECIFICATION Spec
CONSTANTS
    Networks <- OneNetwork
    Routers <- OneRouter
    Attach <- AttachOne
    PreExisting <- AllManaged
    LBEnabled = FALSE
    LBNetwork = None
    PoolMemberNetwork = None
    FIPWanted = FALSE
    UserEndpoint = user
    CPMachines = {}
    Addresses = {}
    MaxCreates = 2
    Deletable <- NetworkOnly
    None = None
    Unanswered = Unanswered
    Env = {"crash", "timeout", "stale", "external", "delete", "pause"}
INVARIANTS AtMostOneResource RecordedIsProtected ProvisionedIsRecorded
PROPERTIES ProvisionedIsFinal
