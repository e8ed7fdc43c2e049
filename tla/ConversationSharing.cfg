SPECIFICATION Spec
CONSTANTS
    c1 = c1
    c2 = c2
    w1 = w1
    w2 = w2
    w3 = w3
    s1 = s1
    Conversations = {c1}
    Webs = {w1, w2, w3}
    Senders = {s1}
    OwnerOf <- Owner1
    Tokens = {t1}
    Issues <- MixedShare
    Requests = {r1, r2}
    Unlimited = Unlimited
    None = None
    Lifetime = 1
    MaxTime = 1
    MaxRedemptions = 3
SYMMETRY Symmetry
INVARIANTS TypeOK BoundIsActive
PROPERTIES SpentIsFinal MemberLeavesQuietly
