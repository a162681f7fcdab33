CONSTANTS
    Workers = {w1, w2}
    Callers = {c1, c2}
    Tasks = {t1, t2, t3}
    NoTask = NoTask
SPECIFICATION FairSpec
INVARIANTS
    TypeOK
    ActiveCounts
    NoLostWakeup
    DestructorDrains
PROPERTIES
    WaitAllWaits
    ImplementsTaskQueue
    EveryTaskRuns
    WaitAllReturns
    DestructorReturns
