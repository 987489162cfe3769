\* Two imports at once of the same uploads, nothing fails.
SPECIFICATION Spec
CONSTANTS
    None = None
    NoNode = NoNode
    SourceIds = {s1, s2}
    Names = {n1}
    SourceTypes <- MCSourceTypes
    Uploads <- MCUploads
    TypeOf <- MCTypeOf
    CandidatesOf <- MCCandidatesOf
    AppOf <- MCAppOf
    Lower <- MCLower
    DefaultTitles <- MCDefaultTitles
    Handlers = {h1, h2}
    MaxDecided = 0
    MaxFailures = 0
SYMMETRY Symmetry
INVARIANTS
    EnsureAnswers
