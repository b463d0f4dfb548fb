SPECIFICATION FairSpec
CONSTANTS
    t1 = t1
    t2 = t2
    t3 = t3
    App = App
    Tasks <- MCTasks
INVARIANTS
    CleanIsFinal
    NoLostWakeup
PROPERTIES
    ShutdownEnds
CHECK_DEADLOCK FALSE
