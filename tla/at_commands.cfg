SPECIFICATION Spec
CONSTANTS
    Threads = {app, control, ui}
    App = app
    Kinds <- MCKinds
    Size <- MCSize
    BufferSize = 6
    MaxSequence = 8
INVARIANTS TypeOK SequenceOrder ConfigIdentified
CHECK_DEADLOCK FALSE
