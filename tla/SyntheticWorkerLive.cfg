SPECIFICATION Spec
CONSTANTS
    Tasks = {t1, t2, t3}
    Threads = {th1}
    MaxPending = 1
    NoTask = NoTask
    t1 = t1
    t2 = t2
    t3 = t3
    th1 = th1
PROPERTY SubmitReturns
PROPERTY CapacityRecovers
PROPERTY ShutdownReturns
PROPERTY ImplementsSlots
PROPERTY SlotsComeBack
