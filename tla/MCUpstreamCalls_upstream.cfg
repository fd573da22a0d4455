SPECIFICATION Spec
CONSTANTS
    Narrative = Narrative
    Influencer = Influencer
    A = A
    B = B
    C = C
    Jobs <- SomeJobs
    Fetches <- SomeFetches
    Permits = 1
    Delay = 1
    Backoff = 2
    Requests = 1
    MaxAge = 370
    batch_size = 2
    MaxRows = 5
INVARIANTS
    RequestsAreGuarded
    ValuesAreSound
    RetentionIsExact
PROPERTIES
    EveryRunEnds
CHECK_DEADLOCK FALSE
