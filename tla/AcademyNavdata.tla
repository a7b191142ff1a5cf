--------------------------- MODULE AcademyNavdata ---------------------------
(***************************************************************************)
(* The take-off, emergency, record and photo buttons of an AR.Drone 2      *)
(* (ardrone_academy_navdata.c).  A button only sets a state in nd; the     *)
(* navdata thread, which runs ardrone_academy_navdata_process on every     *)
(* packet, turns it into pad bits for the drone and into configuration     *)
(* events, and the control thread, when the drone has acknowledged an      *)
(* event, runs the callback that lets the waiting button go on.  A         *)
(* take-off waits until the drone's "userbox" (its flight recorder) has    *)
(* been started, and a landing until it has been stopped.                  *)
(*                                                                         *)
(* Two mutexes.  aan_mutex protects nd: the navdata thread holds it from   *)
(* Receive to Screenshot, that is while pc # "idle"; the buttons and the   *)
(* callbacks take it for one step.  The mutex of the configuration ring is *)
(* held by the control thread from EndBegins to EndReturns, that is while  *)
(* ending holds, callback included; adding an event takes it for a step.   *)
(*                                                                         *)
(* Left out: AR.Drone 1, recording on the USB key, the refusal of a press  *)
(* on low battery (a step that changes nothing), the files of the recorder.*)
(* A callback with result FALSE changes nothing and the event is repeated  *)
(* (ControlSystem), so only successful ends appear.                        *)
(***************************************************************************)
EXTENDS Naturals, SequencesExt

CONSTANTS
    Buttons,        \* the buttons the user presses
    Emergencies,    \* may the drone report the state of emergency?
    CodecRefused,   \* may other requests fill the ring as the codec is set?
    MaxEvents       \* bound: nothing is pressed while more events wait

ASSUME ButtonsAssumption == Buttons \subseteq {"takeoff", "emergency", "record", "photo"}
ASSUME BoundsAssumption ==
    Emergencies \in BOOLEAN /\ CodecRefused \in BOOLEAN /\ MaxEvents \in Nat

VARIABLES
    nd,         \* navdata_state: the states of the buttons and of the userbox
    late,       \* more than TAKEOFF_TIMEOUT_SEC since takeoff_time
    pad,        \* the START and SELECT bits of the pad, sent with each AT*REF
    recorder,   \* startRec of the recorder of the encoded video
    pc,         \* the phase of the navdata thread in process
    packet,     \* what it has read: bits of the packet, state of the recorder
    ui,         \* the button being pressed, after its test, or "none"
    queue,      \* the events in the configuration ring
    ending,     \* the control thread is ending the first event
    drone,      \* is the userbox of the drone started?
    asked       \* history: was the last take-off cancelled, what the last
                \* press of record asked for

vars == <<nd, late, pad, recorder, pc, packet, ui, queue, ending, drone, asked>>

UserboxEvents == {"START", "STOP", "CANCEL"}
Phases == <<"timeout", "takeoff", "emergency", "record", "switch", "screenshot">>
Switching(u) == u \in {"STARTING", "STOPPING"}

TypeOK ==
    /\ nd \in [takeoff : {"IDLE", "NEEDED", "WAIT", "CANCELLING"},
               record : {"IDLE", "NEEDED", "WAIT"},
               userbox : {"STARTING", "STARTED", "STOPPING", "STOPPED"},
               screenshot : {"IDLE", "NEEDED", "INPROGRESS"},
               emergency : BOOLEAN, wasEmergency : BOOLEAN,
               isTakeOff : BOOLEAN, internal : BOOLEAN, camera : BOOLEAN]
    /\ late \in BOOLEAN
    /\ pad \in [start : BOOLEAN, select : BOOLEAN]
    /\ recorder \in {"STOPPED", "START_RECORD", "RECORDING", "WAITING_END"}
    /\ pc \in {"idle"} \union ToSet(Phases)
    /\ packet \in [emergency : BOOLEAN, feedback : BOOLEAN, camera : BOOLEAN,
                   ready : BOOLEAN, inProgress : BOOLEAN]
    /\ ui \in {"none", "stop"} \union Buttons
    /\ queue \in Seq(UserboxEvents \union {"SCREENSHOT", "CODEC"})
    /\ ending \in BOOLEAN
    /\ drone \in BOOLEAN
    /\ asked \in [cancelled : BOOLEAN, record : {"start", "stop"}]

Init ==
    /\ nd = [takeoff |-> "IDLE", record |-> "IDLE", userbox |-> "STOPPED",
             screenshot |-> "IDLE", emergency |-> FALSE, wasEmergency |-> FALSE,
             isTakeOff |-> FALSE, internal |-> FALSE, camera |-> FALSE]
    /\ late = FALSE
    /\ pad = [start |-> FALSE, select |-> FALSE]
    /\ recorder = "STOPPED"
    /\ pc = "idle"
    /\ packet = [emergency |-> FALSE, feedback |-> FALSE, camera |-> FALSE,
                 ready |-> TRUE, inProgress |-> FALSE]
    /\ ui = "none"
    /\ queue = <<>>
    /\ ending = FALSE
    /\ drone = FALSE
    /\ asked = [cancelled |-> FALSE, record |-> "stop"]

-----------------------------------------------------------------------------
(* The recorder and the userbox                                            *)

\* PIPELINE_MSG_START and PIPELINE_MSG_STOP of the recorder
Started(r) == IF r = "STOPPED" THEN "START_RECORD" ELSE r
Stopped(r) == CASE r = "START_RECORD" -> "STOPPED"
                [] r = "RECORDING" -> "WAITING_END"
                [] OTHER -> r

\* The video thread: the first frame opens the file, the last frame of the
\* stream, an error or a timeout closes it.
Video ==
    /\ recorder # "STOPPED"
    /\ recorder' \in {"STOPPED"} \union {x \in {"RECORDING"} : recorder = "START_RECORD"}
    /\ UNCHANGED <<nd, late, pad, pc, packet, ui, queue, ending, drone, asked>>

\* ardrone_academy_navdata_userbox_switch: the new state and the event added
Switched(u) == CASE u = "STOPPED" -> "STARTING"
                 [] u = "STARTED" -> "STOPPING"
                 [] OTHER -> u
\* Mutant: only the start of the userbox is sent.
SwitchEventsOnlyStart(u) == IF u = "STOPPED" THEN <<"START">> ELSE <<>>

SwitchEvents(u) == CASE u = "STOPPED" -> <<"START">>
                     [] u = "STARTED" -> <<"STOP">>
                     [] OTHER -> <<>>

\* ardrone_tool_configuration_addevent_*: blocks while the control thread
\* holds the mutex of the ring.  Switching adds nothing when the userbox is
\* already on its way, and then takes no mutex.
Add(events) ==
    /\ events # <<>> => ~ending
    /\ queue' = queue \o events

-----------------------------------------------------------------------------
(* The buttons (one thread of the user interface)                          *)

\* The test each button makes before it takes aan_mutex
MayPress(b) ==
    CASE b = "takeoff"   -> nd.takeoff = "IDLE"
      [] b = "emergency" -> TRUE
      [] b = "record"    -> nd.record = "IDLE"
      [] b = "photo"     -> nd.camera /\ nd.screenshot = "IDLE"

\* The record button reads the recorder before record() is called.
Press(b) ==
    /\ ui = "none" /\ Len(queue) <= MaxEvents
    /\ MayPress(b)
    /\ ui' = b
    /\ asked' = [asked EXCEPT !.record =
                     IF b = "record"
                     THEN IF recorder = "STOPPED" THEN "start" ELSE "stop"
                     ELSE @]
    /\ UNCHANGED <<nd, late, pad, recorder, pc, packet, queue, ending, drone>>

\* LOCK_ND_MUTEX, the new state, UNLOCK_ND_MUTEX
SetNeeded ==
    /\ ui \in Buttons /\ pc = "idle"
    /\ nd' = CASE ui = "takeoff"   -> [nd EXCEPT !.takeoff = "NEEDED"]
               [] ui = "emergency" -> [nd EXCEPT !.emergency = TRUE]
               [] ui = "record"    -> [nd EXCEPT !.record = "NEEDED"]
               [] ui = "photo"     -> [nd EXCEPT !.screenshot = "NEEDED"]
    /\ late' = (late /\ ui # "takeoff")
    /\ asked' = [asked EXCEPT !.cancelled = @ /\ ui # "takeoff"]
    /\ ui' = IF ui = "record" /\ asked.record = "stop" THEN "stop" ELSE "none"
    /\ UNCHANGED <<pad, recorder, pc, packet, queue, ending, drone>>

\* The record button ends a recording itself, out of the navdata thread.
StopRecorder ==
    /\ ui = "stop"
    /\ recorder' = Stopped(recorder)
    /\ ui' = "none"
    /\ UNCHANGED <<nd, late, pad, pc, packet, queue, ending, drone, asked>>

TimePasses ==
    /\ nd.takeoff # "IDLE" /\ ~late
    /\ late' = TRUE
    /\ UNCHANGED <<nd, pad, recorder, pc, packet, ui, queue, ending, drone, asked>>

-----------------------------------------------------------------------------
(* The navdata thread: ardrone_academy_navdata_process, phase by phase     *)

\* A packet arrives and the trylock of aan_mutex succeeds (a packet for which
\* it fails is skipped).
Receive ==
    /\ pc = "idle"
    /\ \E emergency \in {FALSE, Emergencies}, feedback, camera \in BOOLEAN :
         packet' = [emergency |-> emergency, feedback |-> feedback, camera |-> camera,
                    ready |-> recorder = "STOPPED",
                    inProgress |-> recorder \notin {"STOPPED", "WAITING_END"}]
    /\ pc' = "timeout"
    /\ UNCHANGED <<nd, late, pad, recorder, ui, queue, ending, drone, asked>>

\* Mutants of CheckTimeout: a cancel that leaves the userbox on its way to be
\* started, one that only reports, one that writes to the wrong field.
CheckTimeoutKeepsUserbox ==
    /\ pc = "timeout"
    /\ LET cancel == late /\ nd.takeoff = "WAIT"
       IN  /\ nd' = [nd EXCEPT !.takeoff = IF cancel THEN "CANCELLING" ELSE @]
           /\ Add(IF cancel THEN <<"CANCEL">> ELSE <<>>)
    /\ pc' = "takeoff"
    /\ UNCHANGED <<late, pad, recorder, packet, ui, ending, drone, asked>>

CheckTimeoutOnlyReports ==
    /\ pc = "timeout"
    /\ asked' = [asked EXCEPT !.cancelled = @ \/ (late /\ nd.takeoff = "WAIT")]
    /\ pc' = "takeoff"
    /\ UNCHANGED <<nd, late, pad, recorder, packet, ui, queue, ending, drone>>

CheckTimeoutWrongField ==
    /\ pc = "timeout"
    /\ nd' = [nd EXCEPT !.record = IF late /\ nd.takeoff = "WAIT"
                                   THEN "CANCELLING" ELSE @]
    /\ pc' = "takeoff"
    /\ UNCHANGED <<late, pad, recorder, packet, ui, queue, ending, drone, asked>>

\* ardrone_academy_check_take_off_timeout.  takeoff_time is 0 before the
\* first press and is not reset, but late matters only out of IDLE.
CheckTimeout ==
    /\ pc = "timeout"
    /\ LET cancel == late /\ nd.takeoff = "WAIT"
           forget == late /\ nd.takeoff = "NEEDED"
       IN  /\ nd' = [nd EXCEPT !.takeoff = CASE cancel -> "CANCELLING"
                                             [] forget -> "IDLE"
                                             [] OTHER -> @,
                               !.userbox = IF cancel THEN "STOPPING" ELSE @]
           /\ Add(IF cancel THEN <<"CANCEL">> ELSE <<>>)
           /\ asked' = [asked EXCEPT !.cancelled = @ \/ cancel \/ forget]
    /\ pc' = "takeoff"
    /\ UNCHANGED <<late, pad, recorder, packet, ui, ending, drone>>

\* A needed take-off in an emergency asks to end the emergency and stays
\* needed.  While a video is recorded the userbox is already started, and the
\* pad bit follows what the drone reports of it; otherwise the userbox is
\* switched and the callback sets the bit.
TakeOff ==
    /\ pc = "takeoff"
    /\ LET needed == nd.takeoff = "NEEDED"
           direct == needed /\ ~packet.emergency /\ packet.inProgress
           switch == needed /\ ~packet.emergency /\ ~packet.inProgress
       IN  /\ nd' = [nd EXCEPT !.emergency = @ \/ (needed /\ packet.emergency),
                               !.takeoff = CASE direct -> "IDLE"
                                             [] switch -> "WAIT"
                                             [] OTHER -> @,
                               !.userbox = IF switch THEN Switched(@) ELSE @]
           /\ pad' = [pad EXCEPT !.start = IF direct THEN ~packet.feedback ELSE @]
           /\ Add(IF switch THEN SwitchEvents(nd.userbox) ELSE <<>>)
    /\ pc' = "emergency"
    /\ UNCHANGED <<late, recorder, packet, ui, ending, drone, asked>>

\* The SELECT bit is set once and cleared when the emergency bit of the drone
\* has changed; an emergency stops a userbox that no recording needs.
Emergency ==
    /\ pc = "emergency"
    /\ LET changed == packet.emergency # nd.wasEmergency
           switch == packet.emergency /\ ~nd.internal /\ nd.userbox = "STARTED"
       IN  /\ pad' = [start |-> pad.start /\ ~packet.emergency,
                      select |-> (pad.select \/ nd.emergency) /\ ~changed]
           /\ nd' = [nd EXCEPT !.emergency = FALSE,
                               !.wasEmergency = packet.emergency,
                               !.isTakeOff = /\ ~packet.emergency
                                             /\ pad.start
                                             /\ packet.feedback,
                               !.userbox = IF switch THEN Switched(@) ELSE @]
           /\ Add(IF switch THEN SwitchEvents(nd.userbox) ELSE <<>>)
    /\ pc' = "record"
    /\ UNCHANGED <<late, recorder, packet, ui, ending, drone, asked>>

\* Mutant: a recording is due also while a take-off or landing is under way.
RecordAnyTime ==
    /\ pc = "record"
    /\ LET due == nd.record = "NEEDED"
       IN  /\ Add(IF due THEN <<"CODEC">> ELSE <<>>)
           /\ pc' = IF due THEN "switch" ELSE "screenshot"
    /\ UNCHANGED <<nd, late, pad, recorder, packet, ui, ending, drone, asked>>

\* A needed recording first has the codec of the video changed; when the ring
\* refuses that event the button is tried again with the next packet.
Record ==
    /\ pc = "record"
    /\ LET due == nd.record = "NEEDED" /\ nd.takeoff = "IDLE"
       IN  \E refused \in {FALSE, CodecRefused} :
             /\ Add(IF due /\ ~refused THEN <<"CODEC">> ELSE <<>>)
             /\ due => ~ending
             /\ nd' = [nd EXCEPT !.internal = IF due /\ ~refused
                                              THEN packet.ready /\ ~@
                                              ELSE @]
             /\ pc' = IF due /\ ~refused THEN "switch" ELSE "screenshot"
    /\ UNCHANGED <<late, pad, recorder, packet, ui, ending, drone, asked>>

\* The switch on the state of the userbox.  In STOPPING the assertion of the
\* debug build fails; in the other builds nothing happens and the button stays
\* needed.  Disabling the recorder here is left to the button.
SwitchRecord ==
    /\ pc = "switch"
    /\ LET flying == nd.userbox = "STARTED" /\ nd.isTakeOff
           switch == nd.userbox \in {"STARTED", "STOPPED"} /\ ~flying
       IN  /\ nd' = [nd EXCEPT !.record = CASE flying -> "IDLE"
                                            [] nd.userbox = "STOPPING" -> @
                                            [] OTHER -> "WAIT",
                               !.userbox = IF switch THEN Switched(@) ELSE @]
           /\ Add(IF switch THEN SwitchEvents(nd.userbox) ELSE <<>>)
           /\ recorder' = IF flying /\ packet.ready THEN Started(recorder) ELSE recorder
    /\ pc' = "screenshot"
    /\ UNCHANGED <<late, pad, packet, ui, ending, drone, asked>>

\* The photo, and the release of aan_mutex.
Screenshot ==
    /\ pc = "screenshot"
    /\ LET take == nd.screenshot = "NEEDED" /\ packet.camera
       IN  /\ nd' = [nd EXCEPT !.camera = packet.camera,
                               !.screenshot = IF take THEN "INPROGRESS" ELSE @]
           /\ Add(IF take THEN <<"SCREENSHOT">> ELSE <<>>)
    /\ pc' = "idle"
    /\ UNCHANGED <<late, pad, recorder, packet, ui, ending, drone, asked>>

-----------------------------------------------------------------------------
(* The control thread ends the event in front, and its callback            *)

\* The event has succeeded: the drone has obeyed, and the control thread takes
\* the mutex of the ring.
EndBegins ==
    /\ queue # <<>> /\ ~ending
    /\ ending' = TRUE
    /\ drone' = CASE Head(queue) = "START" -> TRUE
                  [] Head(queue) \in {"STOP", "CANCEL"} -> FALSE
                  [] OTHER -> drone
    /\ UNCHANGED <<nd, late, pad, recorder, pc, packet, ui, queue, asked>>

\* Mutant: the callback does not release a take-off that is being cancelled.
UserboxCallbackOnlyWait ==
    LET started == nd.userbox = "STARTING"
        stopped == nd.userbox = "STOPPING"
    IN  /\ nd' = IF ~started /\ ~stopped THEN nd ELSE
                 [nd EXCEPT !.userbox = IF started THEN "STARTED" ELSE "STOPPED",
                            !.takeoff = IF @ = "WAIT" THEN "IDLE" ELSE @]
        /\ UNCHANGED <<pad, recorder>>

\* ardrone_academy_navdata_userbox_cb(TRUE), by the state of the userbox
UserboxCallback ==
    LET started == nd.userbox = "STARTING"
        stopped == nd.userbox = "STOPPING"
        waits   == nd.takeoff \in {"WAIT", "CANCELLING"}
    IN  /\ nd' = IF ~started /\ ~stopped THEN nd ELSE
                 [nd EXCEPT !.userbox = IF started THEN "STARTED" ELSE "STOPPED",
                            !.takeoff = IF waits THEN "IDLE" ELSE @,
                            !.record = IF @ = "WAIT" THEN "IDLE" ELSE @]
        /\ pad' = [pad EXCEPT !.start = IF (started \/ stopped) /\ waits
                                        THEN started /\ nd.takeoff = "WAIT"
                                        ELSE @]
        /\ recorder' = IF started /\ nd.record = "WAIT"
                       THEN Started(recorder)
                       ELSE recorder

\* ardrone_academy_navdata_screenshot_cb(TRUE)
ScreenshotCallback ==
    /\ nd' = [nd EXCEPT !.screenshot = IF @ = "INPROGRESS" THEN "IDLE" ELSE @]
    /\ UNCHANGED <<pad, recorder>>

\* The callback takes aan_mutex with the mutex of the ring held; the event of
\* the codec has none.
EndReturns ==
    /\ ending
    /\ \/ Head(queue) = "CODEC" /\ UNCHANGED <<nd, pad, recorder>>
       \/ Head(queue) = "SCREENSHOT" /\ pc = "idle" /\ ScreenshotCallback
       \/ Head(queue) \in UserboxEvents /\ pc = "idle" /\ UserboxCallback
    /\ queue' = Tail(queue)
    /\ ending' = FALSE
    /\ UNCHANGED <<late, pc, packet, ui, drone, asked>>

-----------------------------------------------------------------------------
Process == CheckTimeout \/ TakeOff \/ Emergency \/ Record \/ SwitchRecord \/ Screenshot
Control == EndBegins \/ EndReturns
UI == SetNeeded \/ StopRecorder

Next ==
    \/ \E b \in Buttons : Press(b)
    \/ UI \/ TimePasses \/ Video
    \/ Receive \/ Process \/ Control

\* Packets keep coming, threads that can go on do, time passes, and the user
\* interface finishes what it has begun.  Nobody has to press anything.  The
\* fairness of the control thread and of the user interface is strong: they
\* need aan_mutex, which the navdata thread frees between any two packets.
Fairness ==
    /\ WF_vars(Receive) /\ WF_vars(Process) /\ WF_vars(TimePasses)
    /\ SF_vars(Control) /\ SF_vars(UI)

Spec == Init /\ [][Next]_vars /\ Fairness

-----------------------------------------------------------------------------
(* Properties                                                              *)

\* Whatever waits is waited for: a button that waits for the userbox has the
\* userbox on its way and an event in the ring whose callback lets it go on,
\* also when a cancel has overtaken the start it cancels; and a photo in
\* progress has its event.
WaitersServed ==
    /\ (nd.takeoff \in {"WAIT", "CANCELLING"} \/ nd.record = "WAIT") => Switching(nd.userbox)
    /\ Switching(nd.userbox) => \E i \in DOMAIN queue : queue[i] \in UserboxEvents
    /\ nd.screenshot = "INPROGRESS" => Contains(queue, "SCREENSHOT")

\* The callbacks do not know which event they end: the first one ends whatever
\* switch the application believes to be under way.  Still, when no event is
\* left, the application and the drone agree on whether the userbox is started.
UserboxAgrees ==
    ~(\E i \in DOMAIN queue : queue[i] \in UserboxEvents) =>
        nd.userbox = IF drone THEN "STARTED" ELSE "STOPPED"

\* A take-off that was reported as cancelled (takeOffWasCancelled) does not
\* start the motors later, when the start of the userbox is acknowledged.
CancelledStaysOnGround ==
    [][asked.cancelled /\ pad'.start => pad.start]_vars

\* The navdata thread, which holds aan_mutex, waits for the mutex of the ring,
\* and the control thread, which holds that one, waits in a callback for
\* aan_mutex.
Stuck == pc # "idle" /\ ending /\ Head(queue) # "CODEC"

\* A press of the take-off button is answered: the button becomes free again,
\* after the acknowledgement or the timeout, unless the two threads wait for
\* each other for ever.
TakeOffAnswered == (nd.takeoff # "IDLE") ~> (nd.takeoff = "IDLE" \/ []Stuck)

\* The emergency button reaches the pad.
EmergencyHonoured == nd.emergency ~> ~nd.emergency

\* A recording is never due while the userbox is stopping (the assertion of
\* process).
NeverStopping == pc = "switch" => nd.userbox # "STOPPING"

\* After a press that found the recorder running, no recording starts before
\* the next press.
RecordToggles ==
    [][asked.record = "stop" /\ recorder = "STOPPED" => recorder' = "STOPPED"]_vars
=============================================================================
