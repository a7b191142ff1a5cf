SPECIFICATION FairSpec
CONSTANT VideoThreads <- FirstDrone
CONSTANT AcademyThreads <- Downloads
INVARIANTS TypeOK CodecOutlivesThreads DisconnectedLast
PROPERTIES  VideoPauses
CHECK_DEADLOCK FALSE
