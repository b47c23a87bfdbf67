SPECIFICATION Spec
CONSTANTS
    c1 = c1
    c2 = c2
    Clients = {c1, c2}
    Commands <- OneEach
    MaxLosses = 0
    MaxOpens = 1
    None = None
INVARIANT
    RoutedToSender
CHECK_DEADLOCK FALSE
