--------------------------- MODULE ControlSystem ---------------------------
(***************************************************************************)
(* The client of ArdroneControl together with the drone and the links      *)
(* between them.  AT commands and navdata travel over UDP: they may be     *)
(* lost.  Navdata that arrive out of order are discarded by the navdata    *)
(* thread, which is the same as a loss as long as two packets are in       *)
(* flight at most (InOrder of NavdataClient).  The drone is not part of    *)
(* the repository; it is modelled from how the client uses it: a parameter *)
(* or a file request sets the acknowledge bit of the navdata               *)
(* (ARDRONE_COMMAND_MASK), and the ACK control mode clears it.             *)
(***************************************************************************)
EXTENDS ArdroneControl

CONSTANTS NavCapacity,   \* bound: navdata packets on their way to the client
          TcpCapacity,   \* bound: bytes waiting on the control socket
          InitialMask,   \* the acknowledge bits the drone may start with
          MayExit,       \* whether the program may end
          PromptAt       \* AT commands reach the drone, or are lost, before
                         \* it emits its next navdata packet

ASSUME SystemAssumption == /\ NavCapacity \in Nat \ {0}
                           /\ TcpCapacity \in Nat
                           /\ InitialMask \in SUBSET BOOLEAN
                           /\ MayExit \in BOOLEAN
                           /\ PromptAt \in BOOLEAN

VARIABLES nav,           \* acknowledge bits of the navdata in flight, oldest first
          commandMask,   \* the drone's acknowledge bit
          config         \* the value of the parameter on the drone

droneVars == <<nav, commandMask, config>>
vars == <<controlVars, droneVars>>

Init == /\ ControlInit
        /\ nav = <<>>
        /\ commandMask \in InitialMask
        /\ config = NoConfig

-----------------------------------------------------------------------------
(* The drone.                                                              *)

\* A file takes one read or more.
Files == {<<"end">>, <<"more", "end">>}

\* The drone answers a file request on the control socket, if it is open.
Answers(m) == /\ m \in {Ctrl(mode) : mode \in GetModes}
              /\ ~is_disable
              /\ Len(tcp) + 2 <= TcpCapacity

\* The drone receives its next command, m.
HandleAt(m) ==
    /\ at # <<>> /\ Head(at) = m
    /\ at' = Tail(at)
    /\ commandMask' = (m # Ctrl("ACK"))
    /\ config' = (IF m.cmd = "CONFIG" THEN m.config ELSE config)
    /\ tcp' \in (IF Answers(m) THEN {tcp \o file : file \in Files} ELSE {tcp})
    /\ UNCHANGED <<nav, queue, is_disable>>
    /\ UNCHANGED managerVars /\ UNCHANGED threadVars
    /\ UNCHANGED waitVars /\ UNCHANGED exitVars

\* A command is lost.
LoseAt ==
    /\ at # <<>>
    /\ at' = Tail(at)
    /\ UNCHANGED <<queue, is_disable, tcp>> /\ UNCHANGED droneVars
    /\ UNCHANGED managerVars /\ UNCHANGED threadVars
    /\ UNCHANGED waitVars /\ UNCHANGED exitVars

EmitNavdata ==
    /\ Len(nav) < NavCapacity
    /\ PromptAt => at = <<>>
    /\ nav' = Append(nav, commandMask)
    /\ UNCHANGED <<commandMask, config>> /\ UNCHANGED controlVars

LoseNavdata ==
    /\ nav # <<>>
    /\ nav' = Tail(nav)
    /\ UNCHANGED <<commandMask, config>> /\ UNCHANGED controlVars

\* The navdata thread hands a packet over (ardrone_navdata_control_process).
DeliverNavdata ==
    /\ nav # <<>>
    /\ nav' = Tail(nav)
    /\ Resume(Head(nav))
    /\ UNCHANGED <<commandMask, config, queue, current_event, retry, mask,
                   is_disable, at, tcp>>
    /\ UNCHANGED managerVars /\ UNCHANGED exitVars

-----------------------------------------------------------------------------
Handle == \E m \in AtMessage : HandleAt(m)

\* The control thread while it is not blocked.
ControlThread == ThreadStep \/ ReceiveNothing \/ (\E ok \in BOOLEAN : Connect(ok))

Exit == MayExit /\ (RequestExit \/ ShutdownResume \/ ShutdownStop)

Client == \/ ControlThread \/ Timeout \/ SpuriousWakeup
          \/ (\E r \in Requests : AddEvent(r))
          \/ Exit

Next == \/ Client /\ UNCHANGED droneVars
        \/ Handle \/ LoseAt
        \/ EmitNavdata \/ LoseNavdata \/ DeliverNavdata

Spec == Init /\ [][Next]_vars

\* The threads and the drone keep running and the timed wait ends: by
\* navdata or after a second.  Nothing is assumed of losses.
FairSpec == /\ Spec
            /\ WF_vars(ControlThread /\ UNCHANGED droneVars)
            /\ WF_vars(Timeout /\ UNCHANGED droneVars)
            /\ WF_vars(ShutdownStop /\ UNCHANGED droneVars)
            /\ WF_vars(EmitNavdata)
            /\ WF_vars(Handle)

-----------------------------------------------------------------------------
(* Properties.                                                             *)

TypeOK ==
    /\ data \in [Slots -> [mode : Modes \cup {"NULL"}, config : Configs \cup {NoConfig}]]
    /\ event \in [Slots -> Event \cup {NoEvent}]
    /\ current_index \in Slots
    /\ nb_event \in Slots
    /\ report \in [request : Request \cup {NoRequest}, ok : BOOLEAN]
    /\ queue \in Seq(Slots)
    /\ pc \in {"loop", "waiting", "woken", "take", "run", "end", "stopped"}
    /\ current_event \in Slots \cup {NoSlot}
    /\ retry \in 0 .. NumRetries + 1
    /\ {mask, control_waited, ardrone_state, is_disable, bContinue, tool_exit} \subseteq BOOLEAN
    /\ shutdown \in {"no", "resumed", "done"}
    /\ at \in Seq(AtMessage)
    /\ tcp \in Seq(Chunk)
    /\ nav \in Seq(BOOLEAN)
    /\ commandMask \in BOOLEAN
    /\ config \in Configs \cup {NoConfig}

\* At most one control event is outstanding, queued or being run: the event of
\* the oldest request, as long as there is a request.  So the queue that
\* ardrone_control_send_event fills is never full (event_configure ignores its
\* result), the pointer the thread holds is never one that
\* event_configure_end freed, and no request is left without an event, which
\* would stop the ring for good.
OneOutstanding ==
    /\ \/ RingEmpty /\ queue = <<>> /\ current_event = NoSlot
       \/ ~RingEmpty /\ queue = <<current_index>> /\ current_event = NoSlot
       \/ ~RingEmpty /\ queue = <<>> /\ current_event = current_index
    /\ \A s \in Slots : event[s] # NoEvent <=> ~RingEmpty /\ s = current_index

\* The requests accepted and not yet successful, oldest first.
Pending == [k \in 1 .. ((nb_event - current_index) % RingSize) |->
                data[(current_index + k - 1) % RingSize]]

\* The configuration manager is a first-in first-out queue whose result
\* callbacks report on the oldest request only (ConfigQueue).
Manager == INSTANCE ConfigQueue WITH pending <- Pending, Capacity <- RingSize - 1
ImplementsConfigQueue == Manager!Spec

\* A success reported for a parameter means that the drone received it:
\* ardrone_tool.h:251, "to know when some commands sent over UDP (...) are
\* received by setting a flag in navdata's ardrone_state
\* (ARDRONE_COMMAND_MASK)".  At the end of the program the made-up state that
\* ardrone_control_shutdown hands over ends events too, hence the condition.
SuccessMeansReceived ==
    [][current_index' # current_index /\ shutdown = "no" /\ data[current_index].mode = "ACK"
         => config = data[current_index].config]_vars

\* A file request ends only once the drone has reset its acknowledge bit:
\* ardrone_control_configuration.c:356, "We finished reading the
\* configuration, we wait for the drone to reset the ACK bit".
FileEndsAfterReset ==
    [][current_index' # current_index /\ shutdown = "no" /\ data[current_index].mode \in GetModes
         => ~commandMask]_vars

\* From some point on the navdata reach the client and the socket can be opened.
NavdataFault == LoseNavdata \/ Timeout \/ Connect(FALSE)
NavdataFlow == <>[][~NavdataFault]_vars

\* From some point on nothing at all is lost.
Fault == NavdataFault \/ LoseAt \/ (ReceiveNothing /\ tcp # <<>>)
Reliable == <>[][~Fault]_vars

Ending == tool_exit \/ ~bContinue

\* Once navdata flow, the event of a request in one of these modes ends, with
\* success or failure, however many AT commands are lost.
EventEnds(modes) ==
    \A s \in Slots :
        (current_index = s /\ ~RingEmpty /\ data[s].mode \in modes)
            ~> (pc = "end" \/ Ending)

\* The application that sets a parameter gets an answer.
ParameterAnswered == NavdataFlow => EventEnds({"ACK"})

\* ardrone_control.h:25 of num_retries: "number of times we'll try to execute
\* this event"; so the control thread gives up on every event.
GivesUp == NavdataFlow => EventEnds(Modes)

\* Once the links are reliable, every request is carried out in its turn.
RequestsComplete ==
    Reliable => \A s \in Slots : (current_index = s /\ ~RingEmpty)
                                    ~> (current_index # s \/ Ending)

\* ardrone_tool_shutdown joins the control thread, so it must stop once the
\* end is asked for, even if the navdata have stopped.
ThreadStops == Ending ~> (pc = "stopped")
=============================================================================
