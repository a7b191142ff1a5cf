SPECIFICATION Spec
CONSTANTS
    Buttons = {"takeoff", "emergency"}
    Emergencies = FALSE
    CodecRefused = FALSE
    MaxEvents = 1
PROPERTY EmergencyHonoured
CHECK_DEADLOCK FALSE
