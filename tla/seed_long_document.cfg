\* One run of the demo with a document of four candidates.
SPECIFICATION Spec
CONSTANTS
    tool = tool
    flow = flow
    dataset = dataset
    twin = twin
    h1 = h1
    h2 = h2
    None = None
    Candidates <- MCCandidates
    Extracted <- MCExtracted
    AdapterStatus <- MCAdapterStatus
    Recognised <- MCRecognised
    ReadsItsDomain <- MCReadsItsDomain
    Documents <- LongDocument
    TypeOf <- MCTypeOf
    Key <- MCKey
    Replies <- MCReplies
    LLMTimeout = 1
    Patience = 3
    Handlers <- MCHandlers
    MaxRuns = 1
    MaxFailures = 0
SYMMETRY HandlersAlike
INVARIANTS
    DemoNeverBreaks
CHECK_DEADLOCK FALSE
