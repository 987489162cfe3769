\* One change of the registry and one failed call, at any point of a session.
SPECIFICATION Spec
CONSTANTS
    agent = agent
    helper = helper
    tool = tool
    feed = feed
    insight = insight
    query = query
    whole = whole
    chatter = chatter
    crm = crm
    customer = customer
    report = report
    profile_query = profile_query
    customer_insight = customer_insight
    view = view
    approve = approve
    None = None
    Capabilities <- MCCapabilities
    Executable <- MCExecutable
    Roles <- MCRoles
    Catalog <- MCCatalog
    FulfillGoal = whole
    Nonsense = {chatter}
    Goals <- MCGoals
    Replies <- MCReplies
    Terms <- MCTerms
    Types <- MCTypes
    Asks <- MCAsks
    Offers <- MCOffers
    MaxLimit = 3
    Permissions <- MCPermissions
    Grants <- MCGrants
    DependencyTypes <- MCDependencyTypes
    ProvisionedTypes <- MCProvisioned
    Declared <- MCDeclared
    Registries <- MCRegistries
    MaxChanges = 1
    MaxFailures = 1
    MaxDrafts = 1
INVARIANTS
    TypeOK
    PlanIsClosed
    PlanHasNoStrangers
    RecommendationValidates
    ValidMeansSound
    GovernanceCovers
    MatchingIsSound
PROPERTIES
    RequestsEnd
CHECK_DEADLOCK FALSE
