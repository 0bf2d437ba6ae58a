SPECIFICATION SafeSpec
CONSTANTS
    Tasks = {t1, t2, t3, t4}
    Threads = {th1, th2}
    MaxPending = 2
    NoTask = NoTask
    t1 = t1
    t2 = t2
    t3 = t3
    t4 = t4
    th1 = th1
    th2 = th2
SYMMETRY Symmetry
INVARIANT TypeOK
INVARIANT SlotAccounting
INVARIANT Backpressure
INVARIANT NoLostWakeup
INVARIANT ReleasedOnlyWhenOver
INVARIANT NoFutureAbandoned
