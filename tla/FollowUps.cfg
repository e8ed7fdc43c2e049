SPECIFICATION Spec
CONSTANTS
    c1 = c1
    Conversations = {c1}
    Tasks = {t1}
    ConversationOf <- OneConversation
    Workers = {w1, w2}
    Turns = {u1}
    MaxAttempts = 3
    Lease = 1
    None = None
    MaxTime = 3
SYMMETRY Symmetry
INVARIANTS TypeOK
PROPERTIES FinalIsFinal TakeoverIsJustified DeletionStopsClaims
