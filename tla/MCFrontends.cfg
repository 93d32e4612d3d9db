CONSTANTS
    db = db
    web = web
    Name = {db, web}
    PortMin = 1
    PortMax = 2
    Preferred = {0, 2, 7}
    Hash <- MCHash
SPECIFICATION Spec
INVARIANTS AssignmentIsDurable ExhaustedMeansFull
PROPERTIES ImplementsStableFrontends FrontendSurvivesRestart
