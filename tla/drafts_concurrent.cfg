\* Two edits of a draft at once; one request may die, before, between or after its writes.
SPECIFICATION Spec
CONSTANTS
    plan = plan
    None = None
    Ids = {d1}
    Handlers = {h1, h2}
    Fields <- MCFields
    Values <- MCValues
    Allowed <- MCAllowed
    Updates <- MCUpdates
    Plans <- MCPlans
    Generated <- MCGenerated
    MaxFailures = 1
INVARIANTS
    TypeOK
    DocumentMatchesAtRest
    EditsSurvive
PROPERTIES
    DocumentCatchesUp
