SPECIFICATION Spec
CONSTANTS
    Queues = {"a", "b"}
    KeyedQueues = {"a"}
    WorkerQueue = "a"
    ItemKeys = {"k1", "k2"}
    MaxCalls = 3
    MaxTime = 1
INVARIANTS ItemsAreDeliveredOnceInOrder
PROPERTIES AlarmsAreKept NoWakeupIsLost
CHECK_DEADLOCK FALSE
