SPECIFICATION Spec
CONSTANTS
    Nobody = Nobody
    Request = {r1, r2}
    Session = {s1, s2}
    Playbook = {d1}
    Revalidated = {d1}
    Target = {2, 3}
    InitialLimit = 1
    Ttl = 1
    MaxProposals = 2
    MaxTime = 0
    MaxTurn = 2
    MaxRevision = 1
    MaxResets = 0
    MaxCharges = 0
SYMMETRY Requests
PROPERTY LimitMovesByPinnedOffer
CHECK_DEADLOCK FALSE
