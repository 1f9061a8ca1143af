SPECIFICATION Spec
CONSTANTS
    m1 = m1
    u1 = u1
    u2 = u2
    m2 = m2
    d1 = d1
    d2 = d2
    d3 = d3
    NoUser = NoUser
    NoSeq = NoSeq
    MessageIds = {m1, m2}
    Users = {u1, u2}
    Seqs = {d1, d2, d3}
    Sizes = {1, 2}
    MaxWaitingEntries = 3
    MaxWaitingPerRecipient = 2
    MaxWaitingBytes = 4
    MaxBytesPerRecipient = 3
    MaxAttemptSequences = 2
    MaxRecentConfirmed = 1
    MaxAttempts = 2
SYMMETRY Interchangeable
CONSTRAINT Within
INVARIANTS
    BooksExact
    WindowBounded
    AttemptEvidence
PROPERTIES
    EvidenceMonotonic

