\* Two candidates registered at the same time.
SPECIFICATION Spec
CONSTANTS
    app = app
    tool = tool
    skill = skill
    dataset = dataset
    e1 = e1
    e2 = e2
    e3 = e3
    dify = dify
    manual = manual
    h1 = h1
    h2 = h2
    None = None
    Capabilities <- MCCapabilities
    ExternalIds <- MCExternalIds
    Systems <- MCSystems
    Types <- MCTypes
    ExternalId <- MCExternalId
    System <- MCSystem
    TypeOf <- MCTypeOf
    DependsOn <- MCDependsOn
    Handlers <- MCHandlers
    Entrances = {"register"}
    PageLimit = 4
    MaxMishaps = 0
INVARIANTS
    LinkedOnceToolsArrive
CHECK_DEADLOCK FALSE
