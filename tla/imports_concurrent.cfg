\* Two imports at once, of two Dify apps and a manual document; one may end half way.
SPECIFICATION Spec
CONSTANTS
    None = None
    NoNode = NoNode
    SourceIds = {s1, s2}
    Names = {n1}
    SourceTypes <- MCSourceTypes
    Uploads <- MCUploads
    TypeOf <- MCTypeOf
    CandidatesOf <- MCCandidatesOf
    AppOf <- MCAppOf
    Lower <- MCLower
    DefaultTitles <- MCDefaultTitles
    Handlers = {h1, h2}
    MaxDecided = 1
    MaxFailures = 1
SYMMETRY Symmetry
INVARIANTS
    TypeOK
    ImportsShareASource
    ReferencesFollowTargets
    AnsweredIsStored
    LastImportShows
    StepsFollowTheFlow
