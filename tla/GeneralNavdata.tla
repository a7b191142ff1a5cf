--------------------------- MODULE GeneralNavdata ---------------------------
(***************************************************************************)
(* The general navdata handler (Navdata/ardrone_general_navdata.c): two    *)
(* automata that the navdata thread advances on each packet and the        *)
(* control thread on the end of a request.  The first makes the drone use  *)
(* the identifiers of this session, application and user (its             *)
(* "multiconfiguration") and asks for the navdata stream; the second asks  *)
(* for the stream again after the drone has restarted.                     *)
(*                                                                         *)
(* The configuration ring is the queue of ConfigQueue.  Its oldest request *)
(* is acknowledged by one navdata packet and ends with a later one, as     *)
(* the dialogues of ArdroneControl do.  Navdata are delivered at once.     *)
(***************************************************************************)
EXTENDS Integers, Sequences, FiniteSets

CONSTANTS RingCapacity,   \* ARDRONE_TOOL_CONFIGURATION_MAX_EVENT - 1 (127)
          MaxOthers,      \* bound: requests of the application in the ring
          MaxDisturbances,\* bound: restarts of the drone and calls of the user functions
          NewUsers        \* identifiers the user functions may ask for

ASSUME GeneralAssumption == /\ RingCapacity \in Nat \ {0}
                            /\ {MaxOthers, MaxDisturbances} \subseteq Nat
                            /\ NewUsers \cap {"default", "own"} = {}

\* Categories of identifiers; a profile belongs to a user.
Kinds == {"session", "application", "profile"}
Custom == Kinds \ {"session"}
Ids == {"default", "own"} \cup NewUsers
AllDefault == [k \in Kinds |-> "default"]

InProgress == {"IN_PROGRESS_VERSION", "IN_PROGRESS_LIST", "IN_PROGRESS_IDS", "IN_PROGRESS_NAVDATA"}
ConfigStates == InProgress \cup {"IDLE", "NEEDED", "GOT_DRONE_VERSION", "GOT_IDS_LIST",
                                 "GOT_CURRENT_IDS", "REQUEST_NAVDATA", "GOT_NAVDATA"}
NavdataStates == {"IDLE", "NEEDED", "IN_PROGRESS", "DONE"}

VARIABLES
    \* the handler, in the navdata thread
    pc,                 \* where the thread is in ardrone_general_navdata_process
    configState, navdataState,
    switches,           \* the kinds whose appSwitch, usrSwitch, sesSwitch is 1
    navdataNeeded, droneSupportsMulticonfig, configWasDone,
    ids,                \* ses_id, app_id, usr_id
    \* what the control thread writes
    copy,               \* the identifiers in ardrone_control_config
    available,          \* available_configurations, as <<kind, identifier>>
    \* the configuration ring
    ring,               \* requests, oldest first
    acked,              \* whether the drone has acknowledged the oldest one
    fresh,              \* a packet the control thread has not yet looked at
    \* the drone
    supports,           \* its version is 1.6.0 or later
    session,            \* the session in use
    custom,             \* application and profile that each session uses
    known,              \* the configurations it has stored, as <<kind, identifier>>
    initialised,        \* those that hold the values of this application
    bootstrap,          \* whether it emits bootstrap navdata
    \* history
    refused,            \* whether a full ring has refused a request
    restarts, calls,
    interrupted,        \* the last restart came between our identifiers and the stream
    untimely            \* a user function was called during a dialogue, or set no switch

handlerVars == <<configState, navdataState, switches, navdataNeeded,
                 droneSupportsMulticonfig, configWasDone, ids>>
controlVars == <<copy, available, acked, fresh>>
droneVars == <<supports, session, custom, known, initialised, bootstrap>>
historyVars == <<restarts, calls, interrupted, untimely>>
vars == <<pc, handlerVars, controlVars, ring, refused, droneVars, historyVars>>

-----------------------------------------------------------------------------
(* Requests.                                                               *)

\* "id" sets an identifier, "desc" the description of a configuration and
\* "values" the values of this application for it; "demo" and "options" ask
\* for the navdata stream; "file" and "list" fetch the configuration and the
\* stored configurations; "other" is a setting of the application.
Set(what, kind, value, callback) == [what |-> what, kind |-> kind, value |-> value, callback |-> callback]
Plain(what, callback) == Set(what, "none", "none", callback)

Callbacks == {"none", "configuration", "navdata"}
Request == [what : {"id", "desc", "values"}, kind : Kinds, value : Ids \cup {"-all"}, callback : {"none"}]
             \cup [what : {"demo", "options", "file", "list", "other"}, kind : {"none"},
                   value : {"none"}, callback : Callbacks]

\* Mutant: the ring is not compared with its capacity.
AddUnbounded(requests) == ring' = ring \o requests /\ UNCHANGED refused

\* ARDRONE_TOOL_CONFIGURATION_ADDEVENT, _GET and CUSTOM_..._GET, one after the
\* other: a full ring refuses what does not fit, which no caller notices.
Add(requests) ==
    LET room == RingCapacity - Len(ring)
    IN  /\ ring' = ring \o SubSeq(requests, 1, IF Len(requests) <= room THEN Len(requests) ELSE room)
        /\ refused' = (refused \/ Len(requests) > room)

Others == {Plain("other", "none"), Plain("file", "none")}

\* switchToSession, switchToApplication, switchToUser.
SwitchTo(k) == <<Set("id", k, ids[k], "none")>>

AskForStream(callback) == <<Plain("demo", "none"), Plain("options", callback)>>

-----------------------------------------------------------------------------
(* The handler, once for each navdata packet.                              *)

\* Mutants: bootstrap navdata start a dialogue while another is under way;
\* they never make the thread ask for the stream again.
PacketInAnyState ==
    /\ pc = "idle"
    /\ pc' = "config"
    /\ fresh' = TRUE
    /\ IF bootstrap /\ copy # ids
       THEN configState' = "NEEDED" /\ UNCHANGED navdataState
       ELSE UNCHANGED <<configState, navdataState>>
    /\ UNCHANGED <<switches, navdataNeeded, droneSupportsMulticonfig, configWasDone, ids,
                   copy, available, acked, ring, refused>>
    /\ UNCHANGED droneVars /\ UNCHANGED historyVars

PacketOnlyReconfigures ==
    /\ pc = "idle"
    /\ pc' = "config"
    /\ fresh' = TRUE
    /\ configState' = (IF bootstrap /\ configState = "IDLE" /\ copy # ids THEN "NEEDED" ELSE configState)
    /\ UNCHANGED <<navdataState, switches, navdataNeeded, droneSupportsMulticonfig,
                   configWasDone, ids, copy, available, acked, ring, refused>>
    /\ UNCHANGED droneVars /\ UNCHANGED historyVars

\* Entry: the control thread's handler has been given the packet already.
\* Bootstrap navdata while both automata are idle mean a new drone.
Packet ==
    /\ pc = "idle"
    /\ pc' = "config"
    /\ fresh' = TRUE
    /\ IF bootstrap /\ configState = "IDLE" /\ navdataState = "IDLE"
       THEN IF copy # ids
            THEN configState' = "NEEDED" /\ UNCHANGED navdataState
            ELSE navdataState' = "NEEDED" /\ UNCHANGED configState
       ELSE UNCHANGED <<configState, navdataState>>
    /\ UNCHANGED <<switches, navdataNeeded, droneSupportsMulticonfig, configWasDone, ids,
                   copy, available, acked, ring, refused>>
    /\ UNCHANGED droneVars /\ UNCHANGED historyVars

\* A step of the automaton of configState in state s.
ConfigStep(s, next) == /\ pc = "config" /\ configState = s
                       /\ pc' = next
                       /\ UNCHANGED <<navdataState, switches, navdataNeeded, ids>>
                       /\ UNCHANGED controlVars /\ UNCHANGED droneVars /\ UNCHANGED historyVars

CheckVersion ==
    /\ ConfigStep("GOT_DRONE_VERSION", "navdata")
    /\ IF supports
       THEN /\ configState' = "IN_PROGRESS_LIST"
            /\ droneSupportsMulticonfig' = TRUE
            /\ Add(<<Plain("list", "configuration")>>)
       ELSE /\ configState' = "REQUEST_NAVDATA"
            /\ UNCHANGED <<droneSupportsMulticonfig, ring, refused>>
    /\ UNCHANGED configWasDone

\* Custom configurations that are switched to, and those the drone lacks.
Switched == {k \in Custom \cap switches : ids[k] # "default"}
\* Mutant: those the drone has.
NeedInitInverted == {k \in Switched : <<k, ids[k]>> \in available}
NeedInit == {k \in Switched : <<k, ids[k]>> \notin available}

\* The values and the description that an unknown configuration is given.
Initialise(k) == IF k \in NeedInit
                 THEN <<Set("values", k, ids[k], "none"), Set("desc", k, ids[k], "none")>>
                 ELSE <<>>
SwitchCustom(k) == IF k \in Switched THEN SwitchTo(k) ELSE <<>>

SendIds ==
    /\ ConfigStep("GOT_IDS_LIST", "ids")
    /\ Add((IF "session" \in switches THEN SwitchTo("session") ELSE <<>>)
           \o SwitchCustom("application") \o SwitchCustom("profile")
           \o Initialise("application") \o Initialise("profile")
           \o (IF "session" \in switches /\ ids["session"] # "default"
               THEN <<Set("desc", "session", ids["session"], "none"),
                      Set("values", "session", ids["session"], "none")>>
               ELSE <<>>))
    /\ UNCHANGED <<configState, droneSupportsMulticonfig, configWasDone>>

RequestIds ==
    /\ pc = "ids"
    /\ pc' = "navdata"
    /\ configState' = "IN_PROGRESS_IDS"
    /\ Add(<<Plain("file", "configuration")>>)
    /\ UNCHANGED <<navdataState, switches, navdataNeeded, ids,
                   droneSupportsMulticonfig, configWasDone>>
    /\ UNCHANGED controlVars /\ UNCHANGED droneVars /\ UNCHANGED historyVars

\* The dialogue starts over, without a limit, until the drone uses our identifiers.
CheckIds ==
    /\ ConfigStep("GOT_CURRENT_IDS", "navdata")
    /\ configState' = (IF copy # ids THEN "GOT_DRONE_VERSION"
                       ELSE IF navdataNeeded THEN "REQUEST_NAVDATA" ELSE "IDLE")
    /\ UNCHANGED <<droneSupportsMulticonfig, configWasDone, ring, refused>>

RequestConfig ==
    /\ ConfigStep("NEEDED", "navdata")
    /\ configState' = "IN_PROGRESS_VERSION"
    /\ Add(<<Plain("file", "configuration")>>)
    /\ UNCHANGED <<droneSupportsMulticonfig, configWasDone>>

\* The state in which the answer is awaited is set after the requests.
SendNavdata ==
    /\ ConfigStep("REQUEST_NAVDATA", "sent")
    /\ Add(AskForStream("configuration"))
    /\ UNCHANGED <<configState, droneSupportsMulticonfig, configWasDone>>

AwaitNavdata ==
    /\ pc = "sent"
    /\ pc' = "navdata"
    /\ configState' = "IN_PROGRESS_NAVDATA"
    /\ UNCHANGED <<navdataState, switches, navdataNeeded, ids, droneSupportsMulticonfig,
                   configWasDone, ring, refused>>
    /\ UNCHANGED controlVars /\ UNCHANGED droneVars /\ UNCHANGED historyVars

Refresh ==
    /\ ConfigStep("GOT_NAVDATA", "navdata")
    /\ configState' = "IDLE"
    /\ configWasDone' = TRUE
    /\ Add(<<Plain("file", "none")>>)
    /\ UNCHANGED droneSupportsMulticonfig

ConfigRests ==
    /\ \E s \in InProgress \cup {"IDLE"} : ConfigStep(s, "navdata")
    /\ UNCHANGED <<configState, droneSupportsMulticonfig, configWasDone, ring, refused>>

\* A step of the automaton of navdataState, which ends the handler.
NavdataStep(s) == /\ pc = "navdata" /\ navdataState = s
                  /\ pc' = "idle"
                  /\ UNCHANGED <<configState, switches, navdataNeeded,
                                 droneSupportsMulticonfig, configWasDone, ids>>
                  /\ UNCHANGED controlVars /\ UNCHANGED droneVars /\ UNCHANGED historyVars

\* Mutant: the stream is asked for in whatever session the drone is in.
ResumeWithoutSession ==
    /\ NavdataStep("NEEDED")
    /\ navdataState' = "IN_PROGRESS"
    /\ Add(AskForStream("navdata"))

ResumeNavdata ==
    /\ NavdataStep("NEEDED")
    /\ navdataState' = "IN_PROGRESS"
    /\ Add(SwitchTo("session") \o AskForStream("navdata"))

EndResume ==
    /\ NavdataStep("DONE")
    /\ navdataState' = "IDLE"
    /\ Add(<<Plain("file", "none")>>)

NavdataRests ==
    /\ \E s \in {"IDLE", "IN_PROGRESS"} : NavdataStep(s)
    /\ UNCHANGED <<navdataState, ring, refused>>

-----------------------------------------------------------------------------
(* User functions, called by a thread of the application.                  *)

\* What they have in common.  One step, where the code makes these writes one
\* after the other without a mutex.
StartDialogue(switched) ==
    /\ droneSupportsMulticonfig
    /\ restarts + calls < MaxDisturbances
    /\ calls' = calls + 1
    /\ switches' = switched
    /\ navdataNeeded' = FALSE
    /\ configState' = "GOT_DRONE_VERSION"
    /\ UNCHANGED <<pc, navdataState, droneSupportsMulticonfig, configWasDone, ring, refused,
                   restarts, interrupted>>
    /\ UNCHANGED controlVars /\ UNCHANGED droneVars

ardrone_refresh_user_list ==
    StartDialogue({}) /\ untimely' = (untimely \/ configState # "IDLE") /\ UNCHANGED ids

\* Mutant: no switch is set.
SwitchToUserUnset(new_user) ==
    /\ StartDialogue({}) /\ untimely' = (untimely \/ configState # "IDLE")
    /\ ids' = [ids EXCEPT !["profile"] = new_user]

ardrone_switch_to_user(new_user) ==
    /\ StartDialogue({"profile"}) /\ untimely' = (untimely \/ configState # "IDLE")
    /\ ids' = [ids EXCEPT !["profile"] = new_user]

\* The identifier changes but no switch is set.
ardrone_switch_to_user_id(new_user_id) ==
    /\ <<"profile", new_user_id>> \in available
    /\ StartDialogue({}) /\ untimely' = TRUE
    /\ ids' = [ids EXCEPT !["profile"] = new_user_id]

-----------------------------------------------------------------------------
(* The control thread and the drone.                                       *)

\* Identifiers the drone uses.
Current == [k \in Kinds |-> IF k = "session" THEN session ELSE custom[session][k]]

\* What request r does on the drone.  The identifiers of application and
\* profile belong to the session (config_keys.h: CAT_SESSION); a session that
\* is new starts with the default ones.
HandleId(r) ==
    IF r.value = "-all"
    THEN /\ session' = "default"
         /\ custom' = [custom EXCEPT !["own"] = [k \in Custom |-> "default"]]
         /\ UNCHANGED known
    ELSE IF r.kind = "session"
    THEN session' = r.value /\ UNCHANGED <<custom, known>>
    ELSE /\ custom' = [custom EXCEPT ![session][r.kind] = r.value]
         /\ known' = known \cup {<<r.kind, r.value>>}
         /\ UNCHANGED session

HandleRequest(r) ==
    /\ IF r.what = "id" THEN HandleId(r) ELSE UNCHANGED <<session, custom, known>>
    /\ initialised' = (IF r.what = "values" /\ r.kind \in Custom
                       THEN initialised \cup {<<r.kind, Current[r.kind]>>} ELSE initialised)
    /\ bootstrap' = (bootstrap /\ r.what # "demo")
    /\ copy' = (IF r.what = "file" THEN Current ELSE copy)
    /\ available' = (IF r.what = "list" THEN known ELSE available)
    /\ UNCHANGED supports

\* The first stage of the oldest request ends: the drone has it, and the
\* file has been read.
Acknowledge ==
    /\ fresh /\ ring # <<>> /\ ~acked
    /\ fresh' = FALSE
    /\ acked' = TRUE
    /\ HandleRequest(Head(ring))
    /\ UNCHANGED <<pc, ring, refused>> /\ UNCHANGED handlerVars /\ UNCHANGED historyVars

\* Mutant: the callback does not know one of the states.
AfterConfigurationNoList ==
    CASE configState = "IN_PROGRESS_VERSION" -> "GOT_DRONE_VERSION"
      [] configState = "IN_PROGRESS_IDS"     -> "GOT_CURRENT_IDS"
      [] configState = "IN_PROGRESS_NAVDATA" -> "GOT_NAVDATA"
      [] OTHER                               -> configState

\* configurationCallback(1) in each state.
AfterConfiguration ==
    CASE configState = "IN_PROGRESS_VERSION" -> "GOT_DRONE_VERSION"
      [] configState = "IN_PROGRESS_LIST"    -> "GOT_IDS_LIST"
      [] configState = "IN_PROGRESS_IDS"     -> "GOT_CURRENT_IDS"
      [] configState = "IN_PROGRESS_NAVDATA" -> "GOT_NAVDATA"
      [] OTHER                               -> configState

\* navdataCallback(1).
AfterNavdata == IF navdataState = "IN_PROGRESS" THEN "DONE" ELSE navdataState

\* The oldest request succeeds: its callback runs and the next one is sent.
Complete ==
    /\ fresh /\ ring # <<>> /\ acked
    /\ fresh' = FALSE
    /\ acked' = FALSE
    /\ ring' = Tail(ring)
    /\ configState' = (IF Head(ring).callback = "configuration" THEN AfterConfiguration ELSE configState)
    /\ navdataState' = (IF Head(ring).callback = "navdata" THEN AfterNavdata ELSE navdataState)
    /\ UNCHANGED <<pc, switches, navdataNeeded, droneSupportsMulticonfig, configWasDone, ids,
                   copy, available, refused>>
    /\ UNCHANGED droneVars /\ UNCHANGED historyVars

\* Mutant: a request that failed is given up.
FailDrops ==
    /\ fresh /\ ring # <<>>
    /\ fresh' = FALSE
    /\ acked' = FALSE
    /\ ring' = Tail(ring)
    /\ UNCHANGED <<pc, copy, available, refused>>
    /\ UNCHANGED handlerVars /\ UNCHANGED droneVars /\ UNCHANGED historyVars

\* The oldest request fails and is tried again; the callbacks ignore failures.
Fail ==
    /\ fresh /\ ring # <<>>
    /\ fresh' = FALSE
    /\ acked' = FALSE
    /\ UNCHANGED <<pc, copy, available, ring, refused>>
    /\ UNCHANGED handlerVars /\ UNCHANGED droneVars /\ UNCHANGED historyVars

\* The application changes a setting or fetches the configuration.
OtherRequest ==
    /\ Cardinality({i \in DOMAIN ring : ring[i] \in Others}) < MaxOthers
    /\ \E r \in Others : Add(<<r>>)
    /\ UNCHANGED pc /\ UNCHANGED handlerVars /\ UNCHANGED controlVars
    /\ UNCHANGED droneVars /\ UNCHANGED historyVars

\* The drone restarts, with a new battery: it uses the default session and
\* emits bootstrap navdata until it is asked for the stream again.
Restart ==
    /\ restarts + calls < MaxDisturbances
    /\ restarts' = restarts + 1
    /\ session' = "default"
    /\ bootstrap' = TRUE
    /\ interrupted' = \/ configState \in {"IN_PROGRESS_IDS", "GOT_CURRENT_IDS",
                                          "REQUEST_NAVDATA", "IN_PROGRESS_NAVDATA"}
                      \/ navdataState = "IN_PROGRESS"
    /\ UNCHANGED <<pc, ring, refused, supports, custom, known, initialised, calls, untimely>>
    /\ UNCHANGED handlerVars /\ UNCHANGED controlVars

-----------------------------------------------------------------------------
Init ==
    /\ pc = "idle"
    /\ configState = "NEEDED" /\ navdataState = "IDLE"
    /\ switches = Kinds
    /\ navdataNeeded = TRUE
    /\ droneSupportsMulticonfig = FALSE
    /\ configWasDone = FALSE
    /\ ids = [k \in Kinds |-> "own"]
    /\ copy = AllDefault
    /\ available = {}
    /\ ring = <<Set("id", "session", "-all", "none")>>
    /\ acked = FALSE
    /\ fresh = FALSE
    /\ supports \in BOOLEAN
    /\ session = "default"
    /\ custom = [s \in {"default", "own"} |-> [k \in Custom |-> "default"]]
    /\ known \in SUBSET ((Custom \X {"own"}) \cup ({"profile"} \X NewUsers))   \* from earlier flights
    /\ initialised = known
    /\ bootstrap = TRUE
    /\ refused = FALSE
    /\ restarts = 0
    /\ calls = 0
    /\ interrupted = FALSE
    /\ untimely = FALSE

ConfigAutomaton == \/ CheckVersion \/ SendIds \/ RequestIds \/ CheckIds \/ RequestConfig
                   \/ SendNavdata \/ AwaitNavdata \/ Refresh \/ ConfigRests
NavdataAutomaton == ResumeNavdata \/ EndResume \/ NavdataRests
Process == Packet \/ ConfigAutomaton \/ NavdataAutomaton

UserFunction == \/ ardrone_refresh_user_list
                \/ \E u \in NewUsers : ardrone_switch_to_user(u) \/ ardrone_switch_to_user_id(u)

Next == Process \/ Acknowledge \/ Complete \/ Fail \/ UserFunction \/ OtherRequest \/ Restart
Spec == Init /\ [][Next]_vars
FairSpec == Spec /\ WF_vars(Process) /\ WF_vars(Acknowledge \/ Complete)

-----------------------------------------------------------------------------
(* Properties.                                                             *)

TypeOK ==
    /\ pc \in {"idle", "config", "ids", "sent", "navdata"}
    /\ configState \in ConfigStates /\ navdataState \in NavdataStates
    /\ switches \subseteq Kinds
    /\ ids \in [Kinds -> Ids] /\ copy \in [Kinds -> Ids]
    /\ ring \in Seq(Request) /\ Len(ring) <= RingCapacity
    /\ {navdataNeeded, droneSupportsMulticonfig, configWasDone, acked, fresh,
        supports, bootstrap, refused, interrupted, untimely} \subseteq BOOLEAN
    /\ session \in {"default", "own"}
    /\ custom \in [{"default", "own"} -> [Custom -> Ids]]
    /\ {known, available, initialised} \subseteq SUBSET (Custom \X Ids)
    /\ restarts \in Nat /\ calls \in Nat

Awaits(callback) == \E i \in DOMAIN ring : ring[i].callback = callback

\* An automaton that waits has a request in the ring whose callback releases
\* it, as long as the ring has refused none: no answer comes before the state
\* that awaits it is set (line 305 sets it after the request), and none is
\* used up in another state.
WaitsServed ==
    ~refused => /\ configState \in InProgress => Awaits("configuration")
                /\ navdataState = "IN_PROGRESS" => Awaits("navdata")

\* What each wait is for.
Awaited(state) == CASE state = "IN_PROGRESS_LIST"    -> "list"
                    [] state = "IN_PROGRESS_NAVDATA" -> "options"
                    [] OTHER                         -> "file"

\* A wait ends with the answer it is for: the callback does not say which
\* request it ends, and the handler uses what the request has fetched.
AnswersMatch ==
    [][configState' # configState /\ configState \in InProgress /\ calls' = 0
         => Head(ring).what = Awaited(configState)]_vars

\* Once the application is told that the configuration is done, a drone that
\* has not restarted uses our identifiers, and the configurations it did not
\* know hold the values of this application.
ConfiguredMeansAgreed ==
    configWasDone /\ supports /\ ~refused /\ restarts = 0 /\ calls = 0
        => Current = ids /\ \A k \in Custom : <<k, ids[k]>> \in initialised

\* From some point on requests succeed and the drone keeps running; no
\* request was refused and no user function called.
Settles == /\ <>[][~(Fail \/ Restart)]_vars
           /\ [](~refused /\ calls = 0)

\* The configuration gets done.
Configures == Settles => <>configWasDone

\* Line 144: "Makes sure the navdata stream will be resumed if the drone is
\* disconnected and reconnected."
StreamResumes == Settles => <>[]~bootstrap

\* In the end the drone uses our identifiers, unless its last restart came
\* between the moment they were sent and the start of the stream: then the
\* stream starts in the default session, and nothing looks at it again.
AgreesUnlessInterrupted ==
    Settles => <>[](supports /\ ~interrupted => Current = ids)

\* The same without the exception.
Agrees == Settles => <>[](supports => Current = ids)

\* A user function called between two dialogues makes the drone use the new
\* user, if it does not restart.  An identifier given to
\* ardrone_switch_to_user_id is not covered: it sets no switch, so that the
\* dialogue asks for ever for what nobody has sent.
Undisturbed == /\ <>[][~Fail]_vars
               /\ [](~refused /\ restarts = 0)
UserSwitched == Undisturbed /\ []~untimely => <>[](supports => Current = ids)

\* The same for every call: ardrone_api.h:808 of ardrone_switch_to_user_id,
\* "Must be used only with existing users", and this one is known to exist.
AnyUserSwitched == Undisturbed => <>[](supports => Current = ids)
=============================================================================
