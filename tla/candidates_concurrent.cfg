\* Two handlers interleave with no discipline at all, and one of them may die.
SPECIFICATION SpecWatched
CONSTANTS
    c1 = c1
    c2 = c2
    n1 = n1
    n2 = n2
    k1 = k1
    k2 = k2
    i1 = i1
    i2 = i2
    i3 = i3
    h1 = h1
    h2 = h2
    None = None
    Candidates <- MCCandidates
    Names <- MCNames
    Keys <- MCKeys
    KeyOf <- MCKeyOf
    CapabilityIds <- MCIds
    Payloads <- MCPayloads
    Edits <- MCEdits
    Handlers <- MCHandlers
    MaxFailures = 1
SYMMETRY MCSymmetry
INVARIANTS
    TypeOK
    UniqueKeys
    ClaimIsFaithful
    ClaimsAreExclusive
    GapsAskForReview
    OrphansNeedAFailure
PROPERTIES
    ImplementsLifecycle
