SPECIFICATION Spec
CONSTANTS
    q1 = q1  q2 = q2  q3 = q3
    RawConfigs <- Files
    Served <- FollowedFiles
    Requests <- ThreeRequests
    Addresses <- Peers
    Presented <- Carried
    ArgLists <- Lists
    MaxTime = 3
SYMMETRY RequestSymmetry
INVARIANTS TypeOK RoutesRegister AdmittedArgsAllowed TableBounded
PROPERTIES OnlyTheToken CooldownHolds OnlyOverflowForgets
