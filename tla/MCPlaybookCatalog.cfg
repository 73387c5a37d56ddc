SPECIFICATION Spec
CONSTANTS
    Caller = {a, b}
    Document = {good, bad}
    Valid = {good}
    Unsigned = unsigned
    MaxRevision = 3
    MaxInherited = 2
    MaxEdits = 2
SYMMETRY Interchangeable
INVARIANTS TypeOK LinearHistory DigestsMatch PublishedTogether
PROPERTIES ActsOnWhatWasSeen HeadMovesAsSeen FinalRequests SupersededWorkIsKept PreparedOnPublished
