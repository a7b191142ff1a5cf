SPECIFICATION Spec
CONSTANTS
    Buttons = {"takeoff", "emergency"}
    Emergencies = TRUE
    CodecRefused = FALSE
    MaxEvents = 2
INVARIANTS UserboxAgrees
PROPERTIES CancelledStaysOnGround TakeOffAnswered
CHECK_DEADLOCK FALSE
