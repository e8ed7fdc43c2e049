SPECIFICATION Spec
CONSTANTS
    k1 = k1
    k2 = k2
    Handlers = {h1, h2}
    Keys = {k1}
    Conversations = {1}
    WebConversations = {1}
    Requests <- OwnershipRequests
    Proposals <- AllProposals
    AdminModes = {"PAUSED"}
    NoKey = NoKey
    ByIdentity = ByIdentity
    None = None
    DeletionWindow = 1
    MaxRuns = 2
    MaxTime = 1
SYMMETRY Symmetry
INVARIANTS Inv
PROPERTY TakeoverSurvivesOlderTurns
