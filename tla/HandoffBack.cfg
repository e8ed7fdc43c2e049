SPECIFICATION Spec
CONSTANTS
    c1 = c1
    c2 = c2
    w1 = w1
    w2 = w2
    w3 = w3
    s1 = s1
    Conversations = {c1, c2}
    Webs = {w1, w2}
    Senders = {s1}
    OwnerOf <- Owner2
    Tokens = {t1, t2, t3}
    Issues <- Handovers
    Requests = {r1}
    Unlimited = Unlimited
    None = None
    Lifetime = 1
    MaxTime = 0
    MaxRedemptions = 1
SYMMETRY Symmetry
INVARIANT HandoffContinues
