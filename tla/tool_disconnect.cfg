SPECIFICATION FairSpec
CONSTANT VideoThreads <- FirstDrone
CONSTANT AcademyThreads <- Downloads
PROPERTY DisconnectAnswered
CHECK_DEADLOCK FALSE
