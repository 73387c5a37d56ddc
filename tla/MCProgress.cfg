SPECIFICATION FairSpec
CONSTANTS
    Nobody = Nobody
    Request = {r1, r2}
    Session = {s1}
    Playbook = {d1}
    Revalidated = {d1}
    Target = {2}
    InitialLimit = 1
    Ttl = 1
    MaxProposals = 2
    MaxTime = 1
    MaxTurn = 2
    MaxRevision = 1
    MaxResets = 0
    MaxCharges = 1

PROPERTY RequestsFinish
CHECK_DEADLOCK FALSE
