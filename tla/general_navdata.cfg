SPECIFICATION FairSpec
CONSTANTS
    RingCapacity = 10
    MaxOthers = 1
    MaxDisturbances = 1
    NewUsers = {"other"}
INVARIANTS TypeOK WaitsServed ConfiguredMeansAgreed
PROPERTIES AnswersMatch Configures StreamResumes AgreesUnlessInterrupted UserSwitched
