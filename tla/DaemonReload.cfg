SPECIFICATION FairSpec
CONSTANTS
    Storages = {s1}
    Editions = {e1}
    Secrets = {x1}
    None = None
    Spawned = {c1}
    Requests = {r1}
INVARIANTS
    TypeOK
    NothingMissed
PROPERTIES
    ChangeServed
    AddedIsKnown
    HealthSettles
    DrainedAtExit
