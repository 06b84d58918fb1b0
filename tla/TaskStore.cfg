SPECIFICATION FairSpec
CONSTANTS
    Tasks = {"t1"}
    Outcomes = {"Succeeded", "Cancelled"}
    Retention = 1
    MaxTime = 3
    MaxCrashes = 3
    Tears = {"nothing", "prefix", "character", "newline"}
INVARIANTS
    TypeOK
    RetainedUntilDue
    FinalSurvives
    PhantomsAreInterrupted
PROPERTIES
    FinalOnlyLost
    Settles
