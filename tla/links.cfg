\* Two requests, one after the other or overlapping, a put and a failure.
SPECIFICATION Spec
CONSTANTS
    app = app
    tool = tool
    skill = skill
    dataset = dataset
    e1 = e1
    e2 = e2
    e3 = e3
    dify = dify
    manual = manual
    h1 = h1
    h2 = h2
    None = None
    Capabilities <- MCCapabilities
    ExternalIds <- MCExternalIds
    Systems <- MCSystems
    Types <- MCTypes
    ExternalId <- MCExternalId
    System <- MCSystem
    TypeOf <- MCTypeOf
    DependsOn <- MCDependsOn
    Handlers <- MCHandlers
    Entrances = {"post", "register"}
    PageLimit = 3
    MaxMishaps = 1
INVARIANTS
    TypeOK
    EdgesAreDeclared
    ReferencesAreKept
    RelinkRepairs
    PutsAreKept
PROPERTIES
    PendingGetsLinked
CHECK_DEADLOCK FALSE
