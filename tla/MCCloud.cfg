CONSTANT MaxJobs = 3
SPECIFICATION Spec
INVARIANTS NoOrphanClient NeverAnOlderScene
PROPERTY NothingStartsAfterClose
CHECK_DEADLOCK FALSE
