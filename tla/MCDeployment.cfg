SPECIFICATION FairSpec
CONSTANTS
    t1 = t1
    t2 = t2
    t3 = t3
    Tasks <- MCTasks
    Images <- MCImages
    Desired = 2
    MaxOps = 2
INVARIANTS
    TypeOK
    SchemaMatchesVersion
    IndexMeansUnique
PROPERTIES
    NewImageServes
CHECK_DEADLOCK FALSE
