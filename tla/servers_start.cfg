\* Two servers start, race, fail, serve and stop on a database that may come up late.
SPECIFICATION Spec
CONSTANTS
    r1 = r1
    r2 = r2
    Servers = {s1, s2}
    Migrating = {s1, s2}
    Last = 2
    Attempts = 2
    Requests = {r1, r2}
    CallsOf <- MCCallsOf
    MaxConns = 1
    MaxFailures = 1
    None = None
INVARIANTS
    TypeOK
    MigrationsAreExact
    StopsAreGraceful
PROPERTIES
    ImplementsDeployment
    StartsAndStopsEnd
CHECK_DEADLOCK FALSE
