\* Two runs of the demo, with a failure and an endpoint that may hang.
SPECIFICATION Spec
CONSTANTS
    tool = tool
    flow = flow
    dataset = dataset
    twin = twin
    h1 = h1
    h2 = h2
    None = None
    Candidates <- MCCandidates
    Extracted <- MCExtracted
    AdapterStatus <- MCAdapterStatus
    Recognised <- MCRecognised
    ReadsItsDomain <- MCReadsItsDomain
    Documents <- MCDocuments
    TypeOf <- MCTypeOf
    Key <- MCKey
    Replies <- MCReplies
    LLMTimeout = 1
    Patience = 3
    Handlers <- MCHandlers
    MaxRuns = 2
    MaxFailures = 1
SYMMETRY HandlersAlike
INVARIANTS
    TypeOK
    EnrichmentIsContained
    SeedIsComplete
    SlowEndpointIsSurvived
CHECK_DEADLOCK FALSE
