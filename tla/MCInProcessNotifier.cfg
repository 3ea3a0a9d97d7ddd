\* The registry under concurrent Subscribe, unsubscribe and Notify. Subscriptions are used up: the model may stop.
CONSTANTS
    c1 = c1
    c2 = c2
    c3 = c3
    n1 = n1
    n2 = n2
    Nil = Nil
    Chans = {c1, c2, c3}
    Notifiers = {n1}
SPECIFICATION FairSpec
INVARIANTS RegistryExact UndisturbedNotifyReachesAll
PROPERTIES CancelledChannelCloses
CHECK_DEADLOCK FALSE
