--------------------------- MODULE ArdroneControl ---------------------------
(***************************************************************************)
(* The client side of the configuration dialogue with the drone:           *)
(*   - the configuration manager (ardrone_tool_configuration.c), a ring of *)
(*     requests of which the one at current_index is being negotiated;     *)
(*   - the control thread (Control/ardrone_control.c), which takes events  *)
(*     from a bounded queue and runs one step of the current event for     *)
(*     each navdata packet;                                                *)
(*   - the acknowledge and configuration-file dialogues it runs            *)
(*     (ardrone_control_ack.c, ardrone_control_configuration.c).           *)
(*                                                                         *)
(* A request sets a parameter (mode ACK) or fetches a file from the drone  *)
(* (CFG_GET, CUSTOM_CFG_GET).  An event is allocated in the slot of its    *)
(* request, so a pointer to it is modelled by the index of that slot.      *)
(***************************************************************************)
EXTENDS Integers, Sequences

CONSTANTS Requests,     \* the requests the application may queue
          Configs,      \* the values requests of mode ACK may set
          NoConfig,     \* a slot without a value
          RingSize,     \* ARDRONE_TOOL_CONFIGURATION_MAX_EVENT (128)
          QueueSize,    \* ARDRONE_CONTROL_MAX_NUM_EVENTS_IN_QUEUE (32)
          NumRetries,   \* num_retries of an event (10)
          NoSlot,       \* the NULL event pointer
          AtCapacity,   \* bound: AT commands on their way to the drone
          Spurious      \* whether the timed wait may return without a signal

GetModes == {"CFG_GET", "CUSTOM_CFG_GET"}
Modes == {"ACK"} \cup GetModes
Request == [mode : {"ACK"}, config : Configs] \cup [mode : GetModes, config : {NoConfig}]

ASSUME ControlAssumption ==
    /\ Requests \subseteq Request
    /\ NoConfig \notin Configs
    /\ RingSize \in Nat \ {0, 1}
    /\ QueueSize \in Nat \ {0, 1, 2}
    /\ NumRetries \in Nat
    /\ AtCapacity \in Nat \ {0}
    /\ Spurious \in BOOLEAN
    /\ NoSlot \notin Int

Slots == 0 .. RingSize - 1

\* Stages of the two dialogues: ack_state and config_state.
AckStages == {"MASK_TRUE", "MASK_FALSE"}
GetStages == {"REQUEST", "RECEIVE", "RECEIVED"}
Statuses == {"WAITING", "FINISH_SUCCESS", "FINISH_FAILURE"}
Event == [stage : AckStages \cup GetStages, status : Statuses]
NoEvent == [stage |-> "NULL", status |-> "NULL"]
NoRequest == [mode |-> "NULL", config |-> NoConfig]
NoReport == [request |-> NoRequest, ok |-> FALSE]

\* AT commands of the dialogue: AT*CONFIG (with its identifiers) and AT*CTRL.
AtMessage == [cmd : {"CONFIG"}, config : Configs]
                \cup [cmd : {"CTRL"}, mode : Modes]

\* What a read on the control socket returns: some bytes, or bytes with the
\* final zero of the file.
Chunk == {"more", "end"}

VARIABLES
    \* configuration manager
    data,            \* request held by each slot of the ring
    event,           \* control event allocated for each slot
    current_index,   \* slot of the request being negotiated
    nb_event,        \* first free slot
    report,          \* the last call of a result callback
    \* control thread
    queue,           \* events sent to the control thread, oldest first
    pc,              \* where the thread is
    current_event,   \* event being run
    retry,           \* consecutive failed steps of the current event
    mask,            \* the acknowledge bit in current_ardrone_state
    control_waited,
    ardrone_state,   \* the acknowledge bit in the last navdata handed over
    is_disable,      \* the control socket is closed
    bContinue,
    tool_exit,       \* what ardrone_tool_exit() returns
    shutdown,        \* progress of ardrone_control_shutdown
    \* links with the drone
    at,              \* AT commands sent, oldest first
    tcp              \* bytes waiting on the control socket

managerVars == <<data, event, current_index, nb_event, report>>
threadVars == <<pc, current_event, retry, mask>>
waitVars == <<control_waited, ardrone_state>>
exitVars == <<bContinue, tool_exit, shutdown>>
controlVars == <<data, event, current_index, nb_event, report, queue, pc,
                 current_event, retry, mask, control_waited, ardrone_state,
                 is_disable, bContinue, tool_exit, shutdown, at, tcp>>

ControlInit ==
    /\ data = [s \in Slots |-> NoRequest]
    /\ event = [s \in Slots |-> NoEvent]
    /\ current_index = 0
    /\ nb_event = 0
    /\ report = NoReport
    /\ queue = <<>>
    /\ pc = "loop"
    /\ current_event = NoSlot
    /\ retry = 0
    /\ mask = FALSE
    /\ control_waited = FALSE
    /\ ardrone_state = FALSE
    /\ is_disable \in BOOLEAN      \* the first connection may fail
    /\ bContinue = TRUE
    /\ tool_exit = FALSE
    /\ shutdown = "no"
    /\ at = <<>>
    /\ tcp = <<>>

-----------------------------------------------------------------------------
(* The configuration manager.  Its functions hold the configuration mutex, *)
(* so each of them is one step.                                            *)

NextSlot(s) == (s + 1) % RingSize
RingEmpty == current_index = nb_event
RingFull == current_index = NextSlot(nb_event)

FirstStage(mode) == IF mode = "ACK" THEN "MASK_TRUE" ELSE "REQUEST"
Ctrl(mode) == [cmd |-> "CTRL", mode |-> mode]

\* Bound: the thread that sends waits until the link has room.
Send(msgs) == /\ Len(at) + Len(msgs) <= AtCapacity
              /\ at' = at \o msgs

\* ardrone_control_send_event: a full queue refuses the event.
CanQueue == Len(queue) < QueueSize - 2
QueueEvent(s) == IF CanQueue THEN Append(queue, s) ELSE queue

\* ardrone_tool_configuration_event_configure for slot s holding request r:
\* a parameter is sent at once, then a control event is prepared and queued.
Configure(s, r, ev) ==
    /\ Send(IF r.mode = "ACK" THEN <<[cmd |-> "CONFIG", config |-> r.config]>> ELSE <<>>)
    /\ event' = [ev EXCEPT ![s] = [stage |-> FirstStage(r.mode), status |-> "WAITING"]]
    /\ queue' = QueueEvent(s)

\* Mutant: every new request starts the current one again.
AddEventAlwaysStarts(r) ==
    /\ ~RingFull
    /\ data' = [data EXCEPT ![nb_event] = r]
    /\ nb_event' = NextSlot(nb_event)
    /\ Configure(current_index, data'[current_index], event)
    /\ UNCHANGED <<current_index, report, is_disable, tcp>>
    /\ UNCHANGED threadVars /\ UNCHANGED waitVars /\ UNCHANGED exitVars

\* ardrone_tool_configuration_addevent_NAME, _get and _custom_configuration_get.
AddEvent(r) ==
    /\ ~RingFull
    /\ data' = [data EXCEPT ![nb_event] = r]
    /\ nb_event' = NextSlot(nb_event)
    /\ IF nb_event' = NextSlot(current_index)
       THEN Configure(current_index, r, event)
       ELSE UNCHANGED <<event, queue, at>>
    /\ UNCHANGED <<current_index, report, is_disable, tcp>>
    /\ UNCHANGED threadVars /\ UNCHANGED waitVars /\ UNCHANGED exitVars

-----------------------------------------------------------------------------
(* The control thread.                                                     *)

\* Top of the loop: announce the wait and block on the condition.
Wait ==
    /\ pc = "loop"
    /\ bContinue /\ ~tool_exit
    /\ control_waited' = TRUE
    /\ pc' = "waiting"
    /\ UNCHANGED <<queue, current_event, retry, mask, ardrone_state, is_disable, at, tcp>>
    /\ UNCHANGED managerVars /\ UNCHANGED exitVars

\* Top of the loop after the end was asked for: the socket is closed.
Leave ==
    /\ pc = "loop"
    /\ ~bContinue \/ tool_exit
    /\ pc' = "stopped"
    /\ is_disable' = TRUE
    /\ tcp' = <<>>
    /\ UNCHANGED <<queue, current_event, retry, mask, at>>
    /\ UNCHANGED managerVars /\ UNCHANGED waitVars /\ UNCHANGED exitVars

\* ardrone_control_resume_on_navdata_received, called with the acknowledge bit
\* m of a navdata packet: ignored unless the thread announced a wait; the
\* signal is lost unless the thread is blocked.
Resume(m) ==
    /\ ardrone_state' = (IF control_waited THEN m ELSE ardrone_state)
    /\ pc' = (IF control_waited /\ pc = "waiting" THEN "woken" ELSE pc)
    /\ UNCHANGED control_waited

\* Mutant: the thread goes on waiting for navdata after a second without any.
TimeoutKeepsWaiting ==
    /\ pc = "waiting"
    /\ is_disable' = TRUE
    /\ tcp' = <<>>
    /\ UNCHANGED <<pc, queue, current_event, retry, mask, at>>
    /\ UNCHANGED managerVars /\ UNCHANGED waitVars /\ UNCHANGED exitVars

\* No navdata for a second: the control socket is closed, and opened again
\* after the next navdata.
Timeout ==
    /\ pc = "waiting"
    /\ pc' = "loop"
    /\ is_disable' = TRUE
    /\ tcp' = <<>>
    /\ UNCHANGED <<queue, current_event, retry, mask, at>>
    /\ UNCHANGED managerVars /\ UNCHANGED waitVars /\ UNCHANGED exitVars

\* vp_os_cond_timed_wait reports success for everything but ETIMEDOUT.
SpuriousWakeup ==
    /\ Spurious
    /\ pc = "waiting"
    /\ pc' = "woken"
    /\ UNCHANGED <<queue, current_event, retry, mask, is_disable, at, tcp>>
    /\ UNCHANGED managerVars /\ UNCHANGED waitVars /\ UNCHANGED exitVars

\* ardrone_control_connect_to_drone after a timeout.
Connect(succeeds) ==
    /\ pc = "woken"
    /\ is_disable
    /\ is_disable' = ~succeeds
    /\ pc' = (IF succeeds THEN "woken" ELSE "loop")
    /\ UNCHANGED <<queue, current_event, retry, mask, at, tcp>>
    /\ UNCHANGED managerVars /\ UNCHANGED waitVars /\ UNCHANGED exitVars

\* Take the state left by the navdata thread; leave at once on exit.
Snapshot ==
    /\ pc = "woken"
    /\ ~is_disable
    /\ mask' = ardrone_state
    /\ control_waited' = FALSE
    /\ pc' = (IF tool_exit THEN "stopped" ELSE "take")
    /\ UNCHANGED <<queue, current_event, retry, ardrone_state, is_disable, at, tcp>>
    /\ UNCHANGED managerVars /\ UNCHANGED exitVars

\* Keep the current event, or take the oldest one from the queue.
TakeEvent ==
    /\ pc = "take"
    /\ IF current_event = NoSlot /\ queue # <<>>
       THEN /\ current_event' = Head(queue)
            /\ queue' = Tail(queue)
            /\ retry' = 0
       ELSE UNCHANGED <<current_event, queue, retry>>
    /\ pc' = (IF current_event' = NoSlot THEN "loop" ELSE "run")
    /\ UNCHANGED <<mask, is_disable, at, tcp>>
    /\ UNCHANGED managerVars /\ UNCHANGED waitVars /\ UNCHANGED exitVars

\* Mutants: the number of retries is not compared with its limit; every step
\* resets it.
EndStepWithoutLimit(stage, status, ok) ==
    /\ retry' = (IF ok THEN 0 ELSE retry + 1)
    /\ event' = [event EXCEPT ![current_event] = [stage |-> stage, status |-> status]]
    /\ pc' = (IF status = "WAITING" THEN "loop" ELSE "end")
    /\ UNCHANGED <<data, current_index, nb_event, report, queue,
                   current_event, mask, is_disable>>
    /\ UNCHANGED waitVars /\ UNCHANGED exitVars

EndStepForgetsFailures(stage, status, ok) ==
    /\ retry' = 0
    /\ event' = [event EXCEPT ![current_event] = [stage |-> stage, status |-> status]]
    /\ pc' = (IF status = "WAITING" THEN "loop" ELSE "end")
    /\ UNCHANGED <<data, current_index, nb_event, report, queue,
                   current_event, mask, is_disable>>
    /\ UNCHANGED waitVars /\ UNCHANGED exitVars

\* Bookkeeping after one step of the current event that leaves it at a stage
\* with a status and a result: failed steps are counted, and one more than
\* num_retries in a row ends the event.
EndStep(stage, status, ok) ==
    LET failed == ~ok /\ retry + 1 > NumRetries
        final  == IF failed THEN "FINISH_FAILURE" ELSE status
    IN  /\ retry' = (IF ok THEN 0 ELSE retry + 1)
        /\ event' = [event EXCEPT ![current_event] = [stage |-> stage, status |-> final]]
        /\ pc' = (IF final = "WAITING" THEN "loop" ELSE "end")
        /\ UNCHANGED <<data, current_index, nb_event, report, queue,
                       current_event, mask, is_disable>>
        /\ UNCHANGED waitVars /\ UNCHANGED exitVars

Running(stage) == /\ pc = "run"
                  /\ event[current_event].stage = stage

\* Mutant: the acknowledge bit is not awaited before it is cleared.
AwaitMaskSkipped ==
    /\ Running("MASK_TRUE")
    /\ Send(<<Ctrl("ACK")>>)
    /\ EndStep("MASK_FALSE", "WAITING", TRUE)
    /\ UNCHANGED tcp

\* ardrone_control_ack_run, ACK_COMMAND_MASK_TRUE.
AwaitMask ==
    /\ Running("MASK_TRUE")
    /\ IF mask
       THEN Send(<<Ctrl("ACK")>>) /\ EndStep("MASK_FALSE", "WAITING", TRUE)
       ELSE UNCHANGED at /\ EndStep("MASK_TRUE", "WAITING", FALSE)
    /\ UNCHANGED tcp

\* ardrone_control_ack_run, ACK_COMMAND_MASK_FALSE.
AwaitReset ==
    /\ Running("MASK_FALSE")
    /\ Send(<<Ctrl("ACK")>>)
    /\ EndStep("MASK_FALSE", IF mask THEN "WAITING" ELSE "FINISH_SUCCESS", ~mask)
    /\ UNCHANGED tcp

\* ardrone_control_configuration_run, CONFIG_REQUEST_INI and
\* CUSTOM_CONFIG_REQUEST: clear the acknowledge bit, then ask for the file.
RequestFile ==
    /\ Running("REQUEST")
    /\ IF mask
       THEN Send(<<Ctrl("ACK")>>) /\ EndStep("REQUEST", "WAITING", TRUE)
       ELSE /\ Send(<<Ctrl(data[current_event].mode)>>)
            /\ EndStep("RECEIVE", "WAITING", TRUE)
    /\ UNCHANGED tcp

\* CONFIG_RECEIVE_INI and CUSTOM_CONFIG_RECEIVE when the socket has data.
ReceiveChunk ==
    /\ Running("RECEIVE")
    /\ tcp # <<>>
    /\ tcp' = Tail(tcp)
    /\ IF Head(tcp) = "end"
       THEN Send(<<Ctrl("ACK")>>) /\ EndStep("RECEIVED", "WAITING", TRUE)
       ELSE UNCHANGED at /\ EndStep("RECEIVE", "WAITING", TRUE)

\* The same stages when the read fails or nothing comes for a second.
ReceiveNothing ==
    /\ Running("RECEIVE")
    /\ EndStep(IF mask THEN "RECEIVE" ELSE "REQUEST", "WAITING", FALSE)
    /\ UNCHANGED <<at, tcp>>

\* Mutant: the request ends with the last byte of the file.
AwaitFileResetSkipped ==
    /\ Running("RECEIVED")
    /\ UNCHANGED <<at, tcp>>
    /\ EndStep("RECEIVED", "FINISH_SUCCESS", TRUE)

\* CONFIG_RECEIVED and CUSTOM_CONFIG_RECEIVED.
AwaitFileReset ==
    /\ Running("RECEIVED")
    /\ IF mask
       THEN Send(<<Ctrl("ACK")>>) /\ EndStep("RECEIVED", "WAITING", TRUE)
       ELSE UNCHANGED at /\ EndStep("RECEIVED", "FINISH_SUCCESS", TRUE)
    /\ UNCHANGED tcp

-----------------------------------------------------------------------------
(* ardrone_tool_configuration_event_configure_end, called by the control   *)
(* thread: report to the application, then start the next request, or the *)
(* same one again after a failure.  The thread then forgets the event.     *)

EventSucceeds ==
    LET cur == current_index
    IN  /\ pc = "end"
        /\ event[current_event].status = "FINISH_SUCCESS"
        /\ report' = [request |-> data[cur], ok |-> TRUE]
        /\ data' = [data EXCEPT ![cur].config = NoConfig]
        /\ current_index' = NextSlot(cur)
        /\ IF current_index' # nb_event
           THEN Configure(current_index', data[current_index'], [event EXCEPT ![cur] = NoEvent])
           ELSE event' = [event EXCEPT ![cur] = NoEvent] /\ UNCHANGED <<queue, at>>
        /\ current_event' = NoSlot
        /\ pc' = "loop"
        /\ UNCHANGED <<nb_event, retry, mask, is_disable, tcp>>
        /\ UNCHANGED waitVars /\ UNCHANGED exitVars

\* Mutants: a failed request is dropped; it is kept but never started again.
EventFailsDrops ==
    /\ pc = "end"
    /\ event[current_event].status = "FINISH_FAILURE"
    /\ report' = [request |-> data[current_index], ok |-> FALSE]
    /\ current_index' = NextSlot(current_index)
    /\ event' = [event EXCEPT ![current_index] = NoEvent]
    /\ current_event' = NoSlot
    /\ pc' = "loop"
    /\ UNCHANGED <<data, nb_event, queue, at, retry, mask, is_disable, tcp>>
    /\ UNCHANGED waitVars /\ UNCHANGED exitVars

EventFailsForGood ==
    /\ pc = "end"
    /\ event[current_event].status = "FINISH_FAILURE"
    /\ report' = [request |-> data[current_index], ok |-> FALSE]
    /\ current_event' = NoSlot
    /\ pc' = "loop"
    /\ UNCHANGED <<data, event, current_index, nb_event, queue, at, retry, mask, is_disable, tcp>>
    /\ UNCHANGED waitVars /\ UNCHANGED exitVars

EventFails ==
    /\ pc = "end"
    /\ event[current_event].status = "FINISH_FAILURE"
    /\ report' = [request |-> data[current_index], ok |-> FALSE]
    /\ Configure(current_index, data[current_index], event)
    /\ current_event' = NoSlot
    /\ pc' = "loop"
    /\ UNCHANGED <<data, current_index, nb_event, retry, mask, is_disable, tcp>>
    /\ UNCHANGED waitVars /\ UNCHANGED exitVars

-----------------------------------------------------------------------------
(* The end of the program: the application's exit flag, then               *)
(* ardrone_control_shutdown, which wakes the thread before it clears       *)
(* bContinue.                                                              *)

RequestExit ==
    /\ ~tool_exit
    /\ tool_exit' = TRUE
    /\ UNCHANGED <<queue, is_disable, bContinue, shutdown, at, tcp>>
    /\ UNCHANGED managerVars /\ UNCHANGED threadVars /\ UNCHANGED waitVars

ShutdownResume ==
    /\ shutdown = "no"
    /\ shutdown' = "resumed"
    /\ Resume(FALSE)
    /\ UNCHANGED <<queue, current_event, retry, mask, is_disable, bContinue, tool_exit, at, tcp>>
    /\ UNCHANGED managerVars

ShutdownStop ==
    /\ shutdown = "resumed"
    /\ shutdown' = "done"
    /\ bContinue' = FALSE
    /\ UNCHANGED <<queue, is_disable, tool_exit, at, tcp>>
    /\ UNCHANGED managerVars /\ UNCHANGED threadVars /\ UNCHANGED waitVars

ThreadStep == \/ Wait \/ Leave \/ Snapshot \/ TakeEvent
              \/ AwaitMask \/ AwaitReset
              \/ RequestFile \/ ReceiveChunk \/ AwaitFileReset
              \/ EventSucceeds \/ EventFails
=============================================================================
