SPECIFICATION Spec
CONSTANTS
    c1 = c1
    c2 = c2
    Clients = {c1, c2}
    Commands <- OneEach
    MaxLosses = 1
    MaxOpens = 2
    None = None
INVARIANTS
    TypeOK
    QueuedOnce
    AnsweredOnce
    StrayOnlyAbandoned
PROPERTY
    CommandsAnswered
CHECK_DEADLOCK FALSE
