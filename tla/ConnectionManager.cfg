SPECIFICATION LiveSpec
CONSTANTS
    t1 = t1
    t2 = t2
    None = None
    MaxClients = 3
    Topics <- MCTopics
    Filters <- MCFilters
    MaxEvents = 2
    MaxRequests = 1
CHECK_DEADLOCK FALSE
INVARIANTS
    ReceivedInOrder
    MissedForADepartureOnly
    RegistryFollowsHandlers
PROPERTY
    QueueDrains
