SPECIFICATION Spec
CONSTANTS
    Buttons = {"takeoff", "record", "photo"}
    Emergencies = FALSE
    CodecRefused = TRUE
    MaxEvents = 1
INVARIANTS TypeOK WaitersServed NeverStopping
CHECK_DEADLOCK FALSE
