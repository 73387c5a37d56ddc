SPECIFICATION Spec
CONSTANTS
    Nobody = Nobody
    Request = {r1, r2}
    Session = {s1}
    Playbook = {d1}
    Revalidated = {d1}
    Target = {2}
    InitialLimit = 1
    Ttl = 1
    MaxProposals = 2
    MaxTime = 0
    MaxTurn = 2
    MaxRevision = 2
    MaxResets = 1
    MaxCharges = 0
SYMMETRY Requests
PROPERTIES FreshOffersPinThePublishedRevision ExecutedInItsOwnScope RefinesContract
CHECK_DEADLOCK FALSE
