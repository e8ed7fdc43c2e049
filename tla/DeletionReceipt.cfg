SPECIFICATION Spec
CONSTANTS
    k1 = k1
    k2 = k2
    Handlers = {h1, h2}
    Keys = {k1, k2}
    Conversations = {1}
    WebConversations = {}
    Requests <- DoubleConfirmation
    Proposals <- NoProposals
    AdminModes = {}
    NoKey = NoKey
    ByIdentity = ByIdentity
    None = None
    DeletionWindow = 1
    MaxRuns = 3
    MaxTime = 1
INVARIANT DeletionLeavesReceipt
