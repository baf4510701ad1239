SPECIFICATION Spec
CONSTANTS
    Threads = {"t1", "t2"}
    Tree <- MCTree
    Top = "top"
    Outside <- MCOutside
    Scenarios <- MCScenarios
    Trees <- MCTrees
    Inodes <- MCInodes
    Limit = 3
    CacheSize = 2
    Chunk = 1
    MaxMade = 5
INVARIANTS CountIsExact NeverLeavesRoot AnswersAreExact DumpIsWellFramed ListedIsEntered
