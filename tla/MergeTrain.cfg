SPECIFICATION FairSpec
CONSTANTS
    Runs = {r1}
    NumPRs = 1
    MaxHeads = 3
    MaxOthers = 1
    MaxKills = 1
    MaxLifts = 1
INVARIANTS
    OnlyReviewedWork
    RecordsTrue
PROPERTIES
    EveryMergeRecorded
CHECK_DEADLOCK FALSE
