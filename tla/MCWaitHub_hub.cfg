SPECIFICATION HubSpec
CONSTANTS
    Instances = {i1, i2}
    Handlers = {h1, h2}
    Senders = {q1}
    ConcurrentHolds = 1
    Batch = 1
    MaxWork = 2
INVARIANTS HubSound NoLostWakeup
PROPERTY WaitsAreAnswered
