SPECIFICATION Spec
CONSTANTS
    Nobody = Nobody
    Request = {r1, r2}
    Session = {s1}
    Playbook = {d1, d2}
    Revalidated = {d1}
    Target = {2}
    InitialLimit = 1
    Ttl = 1
    MaxProposals = 2
    MaxTime = 2
    MaxTurn = 2
    MaxRevision = 1
    MaxResets = 0
    MaxCharges = 0
SYMMETRY Requests
INVARIANTS TypeOK OneActiveProposal OneOfferPerKey ExecutedOnceIffCommitted
    OnlySettledStatusesAreDurable AuditTrailMatches CommittedOnLaterTurnInTime
PROPERTIES OffersAreImmutable RefinesContract
CHECK_DEADLOCK FALSE
