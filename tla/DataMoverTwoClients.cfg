CONSTANTS
    Clients = {c1, c2}
    QueueSize = 2
    DmaDepth = 1
    MaxTasks = 2
    Ops = {"memcpy", "start", "wait"}
SPECIFICATION Spec
INVARIANTS FifoExactlyOnce WaitMeansDone
CHECK_DEADLOCK FALSE
