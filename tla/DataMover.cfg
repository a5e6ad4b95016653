CONSTANTS
    Clients = {c1}
    QueueSize = 2
    DmaDepth = 1
    MaxTasks = 3
    Ops = {"memcpy", "memcpy2d", "start", "wait", "ready", "exit"}
SPECIFICATION FairSpec
INVARIANTS FifoExactlyOnce FillIsOccupancy WaitMeansDone
PROPERTIES CallsReturn StartedTasksComplete CleanExit
CHECK_DEADLOCK FALSE
