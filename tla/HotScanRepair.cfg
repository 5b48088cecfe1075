SPECIFICATION HotSpec
CONSTANTS
    SourceCount = 2
    FalselyDead = {1}
    MaxToggles = 1
    MaxHotCrashes = 1
INVARIANT
    RepairSurvives
CHECK_DEADLOCK FALSE
