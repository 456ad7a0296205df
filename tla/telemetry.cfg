SPECIFICATION Spec
CONSTANTS
    b1 = b1
    c1 = c1
    Robots = {b1}
    Clients = {c1}
    Txs = {1, 2}
    Topics <- FleetTopics
    Consumers <- MCConsumers
    Subscription <- MCSubscription
    QueueSize = 1
    NoValue = NoValue
    Bounds <- MCHandlersOnly
INVARIANT OnlineRobotIsHeard
