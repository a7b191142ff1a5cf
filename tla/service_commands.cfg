SPECIFICATION FairSpec
CONSTANT MaxCommands = 3
INVARIANTS TypeOK StateFollowsLibrary
PROPERTIES ImplementsLibraryCalls CommandsRun PollingWaits ResumeHonoured
CHECK_DEADLOCK FALSE
