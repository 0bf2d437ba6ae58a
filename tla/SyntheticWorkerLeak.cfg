SPECIFICATION SafeSpec
CONSTANTS
    Tasks = {t1, t2}
    Threads = {th1}
    MaxPending = 1
    NoTask = NoTask
    t1 = t1
    t2 = t2
    th1 = th1
INVARIANT CountIsZeroAtRest
