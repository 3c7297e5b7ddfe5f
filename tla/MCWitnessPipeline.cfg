SPECIFICATION Spec
CONSTANTS
    i1 = i1
    i2 = i2
    i3 = i3
    t1 = t1
    w1 = w1
    w2 = w2
    Instances <- MCInstances
    Tables <- MCTables
    NBuffers = 2
    Workers <- MCWorkers
    MaxThreads = 2
    ThreadsPerWitness = 1
    CollectThreads = 1
    Modes <- MCModes
    SkipChoices <- MCSkipChoices
    Faults <- MCFaults
INVARIANTS TypeOK TraceAtUse ResourcesConserved NeverStuck
PROPERTIES CallReturns AlwaysOnward
