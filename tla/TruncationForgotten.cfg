SPECIFICATION Spec
CONSTANTS
    Tasks = {"t1"}
    Outcomes = {"Succeeded"}
    Retention = 1
    MaxTime = 0
    MaxCrashes = 1
    Tears = {"nothing"}
INVARIANTS
    TruncationRemembered
