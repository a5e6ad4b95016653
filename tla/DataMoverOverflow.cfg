CONSTANTS
    Clients = {c1, c2}
    QueueSize = 2
    DmaDepth = 1
    MaxTasks = 3
    Ops = {"memcpy", "start"}
SPECIFICATION Spec
INVARIANT QueueBound
CHECK_DEADLOCK FALSE
