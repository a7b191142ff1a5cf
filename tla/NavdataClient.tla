--------------------------- MODULE NavdataClient ---------------------------
(***************************************************************************)
(* The navdata client (Navdata/ardrone_navdata_client.c): a thread reads   *)
(* the drone's navdata packets, discards those that are not newer than the *)
(* last one, and hands the others to the handlers; after a second without  *)
(* any it asks the drone to send them again.  The application suspends,    *)
(* resumes and ends it, and its own loop (ardrone_tool_update) acknowledges*)
(* the communication watchdog that the packets report.                     *)
(*                                                                         *)
(* The drone is not part of the repository: it numbers its packets from 1, *)
(* sends them to the client that asked last, and after a loss of contact   *)
(* reports the watchdog until it is acknowledged, numbering from 1 again.  *)
(***************************************************************************)
EXTENDS Integers, FiniteSets

CONSTANTS MaxRetries,   \* NAVDATA_MAX_RETRIES (5)
          InFlight,     \* bound: packets the network may reorder
          MaxSequence,  \* bound: packets the drone numbers before it loses contact
          MaySuspend    \* whether the application suspends the client

ASSUME NavdataAssumption == /\ MaxRetries \in Nat
                            /\ InFlight \in Nat \ {0}
                            /\ MaxSequence \in Nat \ {0}
                            /\ MaySuspend \in BOOLEAN

Packet == [sequence : 1 .. MaxSequence, watchdog : BOOLEAN, bootstrap : BOOLEAN]
NoPacket == [sequence |-> 0, watchdog |-> FALSE, bootstrap |-> FALSE]

VARIABLES
    \* navdata thread
    pc,                 \* where the thread is
    in_pause,           \* navdata_thread_in_pause
    sequence,           \* sequence number a packet has to exceed
    num_retries,        \* reads without a packet since the last one
    processed,          \* history: the last packet handed to the handlers
                        \* since the drone lost contact
    \* application
    exiting,            \* the end was asked for
    send_com_watchdog,  \* the watchdog has to be acknowledged
    acknowledging,      \* ardrone_tool_update is between its test and its reset
    \* drone and network
    drone,              \* next sequence number, watchdog, bootstrap
    streaming,          \* the drone knows where to send navdata
    net,                \* packets on their way
    commands            \* what is on its way to the drone: requests for
                        \* navdata and acknowledges of the watchdog

threadVars == <<pc, in_pause, sequence, num_retries, processed>>
appVars == <<exiting, send_com_watchdog, acknowledging>>
droneVars == <<drone, streaming, net, commands>>
vars == <<threadVars, appVars, droneVars>>

Init == /\ pc = "start"
        /\ in_pause = TRUE
        /\ sequence = 0
        /\ num_retries = 0
        /\ processed = NoPacket
        /\ exiting = FALSE
        /\ send_com_watchdog = FALSE
        /\ acknowledging = FALSE
        /\ drone \in [next : {1}, watchdog : {FALSE}, bootstrap : BOOLEAN]
        /\ streaming = FALSE
        /\ net = {}
        /\ commands = {}

-----------------------------------------------------------------------------
(* The navdata thread.                                                     *)

\* The socket is open and the handlers are initialised; a suspension asked for
\* before is forgotten.
Start == /\ pc = "start"
         /\ pc' = "top"
         /\ in_pause' = FALSE
         /\ UNCHANGED <<sequence, num_retries, processed>>
         /\ UNCHANGED appVars /\ UNCHANGED droneVars

\* The socket cannot be opened, or a read fails for another reason than the
\* lack of a packet.
SocketFails == /\ pc \in {"start", "read"}
               /\ pc' = "done"
               /\ UNCHANGED <<in_pause, sequence, num_retries, processed>>
               /\ UNCHANGED appVars /\ UNCHANGED droneVars

\* The head of the loop tests the end, then the pause, without the mutex.
Top == /\ pc = "top"
       /\ pc' = (IF exiting THEN "done" ELSE IF in_pause THEN "pausing" ELSE "read")
       /\ UNCHANGED <<in_pause, sequence, num_retries, processed>>
       /\ UNCHANGED appVars /\ UNCHANGED droneVars

\* Mutant: the retries already counted are kept.
BlockAddsRetries ==
         /\ pc = "pausing"
         /\ pc' = "blocked"
         /\ num_retries' = num_retries + MaxRetries + 1
         /\ UNCHANGED <<in_pause, sequence, processed>>
         /\ UNCHANGED appVars /\ UNCHANGED droneVars

\* The thread waits for the condition, with no further look at the pause.
Block == /\ pc = "pausing"
         /\ pc' = "blocked"
         /\ num_retries' = MaxRetries + 1
         /\ UNCHANGED <<in_pause, sequence, processed>>
         /\ UNCHANGED appVars /\ UNCHANGED droneVars

\* A condition variable may wake its thread without a signal.
SpuriousWakeup == /\ pc = "blocked"
                  /\ pc' = "read"
                  /\ UNCHANGED <<in_pause, sequence, num_retries, processed>>
                  /\ UNCHANGED appVars /\ UNCHANGED droneVars

\* Mutant: the drone is not asked again.
ReadNothingSilent ==
    /\ pc = "read"
    /\ net = {}
    /\ pc' = "top"
    /\ sequence' = 0
    /\ num_retries' = (IF num_retries > MaxRetries THEN num_retries ELSE num_retries + 1)
    /\ UNCHANGED <<in_pause, processed>>
    /\ UNCHANGED appVars /\ UNCHANGED droneVars

\* No packet for a second: the drone is asked to send navdata.
\* Bound: num_retries stops at MaxRetries + 1.
ReadNothing ==
    /\ pc = "read"
    /\ net = {}
    /\ pc' = "top"
    /\ sequence' = 0
    /\ num_retries' = (IF num_retries > MaxRetries THEN num_retries ELSE num_retries + 1)
    /\ commands' = commands \cup {"request"}
    /\ UNCHANGED <<in_pause, processed, drone, streaming, net>>
    /\ UNCHANGED appVars

\* The drone starts its numbers again after a loss of contact, which the
\* client may not have noticed otherwise: the watchdog resets the number.
Newer(p) == p.sequence > (IF p.watchdog THEN 0 ELSE sequence)

\* Mutants: packets are not compared with the last one; the watchdog is
\* acknowledged only if reported by the first packet after a quiet second.
ReadAnyPacket(p, sound) ==
    /\ pc = "read"
    /\ p \in net
    /\ net' = net \ {p}
    /\ pc' = "top"
    /\ num_retries' = 0
    /\ send_com_watchdog' = (send_com_watchdog \/ (p.watchdog /\ ~p.bootstrap))
    /\ processed' = (IF sound THEN p ELSE processed)
    /\ sequence' = p.sequence
    /\ UNCHANGED <<in_pause, exiting, acknowledging, drone, streaming, commands>>

ReadOnlyFirstReport(p, sound) ==
    /\ pc = "read"
    /\ p \in net
    /\ net' = net \ {p}
    /\ pc' = "top"
    /\ num_retries' = 0
    /\ send_com_watchdog' = (send_com_watchdog
                             \/ (p.watchdog /\ ~p.bootstrap /\ sequence = 0))
    /\ processed' = (IF Newer(p) /\ sound THEN p ELSE processed)
    /\ sequence' = p.sequence
    /\ UNCHANGED <<in_pause, exiting, acknowledging, drone, streaming, commands>>

\* A packet arrives: one that reports the watchdog has it acknowledged (unless
\* the drone is still in bootstrap mode) and resets the sequence number; the
\* handlers get it if it is newer and its checksum is right.  In any case its
\* number is the one the next packet has to exceed.
Read(p, sound) ==
    /\ pc = "read"
    /\ p \in net
    /\ net' = net \ {p}
    /\ pc' = "top"
    /\ num_retries' = 0
    /\ send_com_watchdog' = (send_com_watchdog \/ (p.watchdog /\ ~p.bootstrap))
    /\ processed' = (IF Newer(p) /\ sound THEN p ELSE processed)
    /\ sequence' = p.sequence
    /\ UNCHANGED <<in_pause, exiting, acknowledging, drone, streaming, commands>>

-----------------------------------------------------------------------------
(* The application.                                                        *)

\* ardrone_navdata_client_suspend
Suspend == /\ MaySuspend
           /\ in_pause' = TRUE
           /\ UNCHANGED <<pc, sequence, num_retries, processed>>
           /\ UNCHANGED appVars /\ UNCHANGED droneVars

\* The condition is signalled: only a thread that waits notices.
Signal == pc' = (IF pc = "blocked" THEN "read" ELSE pc)

\* ardrone_navdata_client_resume
Resume == /\ MaySuspend
          /\ Signal
          /\ in_pause' = FALSE
          /\ UNCHANGED <<sequence, num_retries, processed>>
          /\ UNCHANGED appVars /\ UNCHANGED droneVars

\* The loop condition turns false: ardrone_tool_exit() or the first line of
\* ardrone_navdata_client_shutdown.
RequestExit == /\ ~exiting
               /\ exiting' = TRUE
               /\ UNCHANGED <<send_com_watchdog, acknowledging>>
               /\ UNCHANGED threadVars /\ UNCHANGED droneVars

\* The rest of ardrone_navdata_client_shutdown.
ShutdownSignal == /\ exiting
                  /\ Signal
                  /\ UNCHANGED <<in_pause, sequence, num_retries, processed>>
                  /\ UNCHANGED appVars /\ UNCHANGED droneVars

\* ardrone_tool_update: the acknowledge is sent, then the flag is reset.
Acknowledge == /\ ~acknowledging /\ send_com_watchdog
               /\ acknowledging' = TRUE
               /\ commands' = commands \cup {"comwdg"}
               /\ UNCHANGED <<exiting, send_com_watchdog, drone, streaming, net>>
               /\ UNCHANGED threadVars

ResetFlag == /\ acknowledging
             /\ acknowledging' = FALSE
             /\ send_com_watchdog' = FALSE
             /\ UNCHANGED exiting
             /\ UNCHANGED threadVars /\ UNCHANGED droneVars

-----------------------------------------------------------------------------
(* The drone and the network.                                              *)

Emit == /\ streaming
        /\ Cardinality(net) < InFlight
        /\ drone.next <= MaxSequence
        /\ net' = net \cup {[sequence |-> drone.next, watchdog |-> drone.watchdog,
                             bootstrap |-> drone.bootstrap]}
        /\ drone' = [drone EXCEPT !.next = @ + 1]
        /\ UNCHANGED <<streaming, commands>>
        /\ UNCHANGED threadVars /\ UNCHANGED appVars

Lose == \E p \in net : /\ net' = net \ {p}
                       /\ UNCHANGED <<drone, streaming, commands>>
                       /\ UNCHANGED threadVars /\ UNCHANGED appVars

\* The drone loses contact for longer than a packet travels.  It starts its
\* numbers again, and may forget the client.
LoseContact ==
    /\ net = {}
    /\ drone' = [drone EXCEPT !.next = 1, !.watchdog = TRUE]
    /\ streaming' \in {streaming, FALSE}
    /\ processed' = NoPacket
    /\ UNCHANGED <<pc, in_pause, sequence, num_retries, net, commands>>
    /\ UNCHANGED appVars

\* The drone receives the client's configuration (ardrone_general_navdata.c).
LeaveBootstrap == /\ drone.bootstrap
                  /\ drone' = [drone EXCEPT !.bootstrap = FALSE]
                  /\ UNCHANGED <<streaming, net, commands>>
                  /\ UNCHANGED threadVars /\ UNCHANGED appVars

ReceiveCommand(c) ==
    /\ c \in commands
    /\ commands' = commands \ {c}
    /\ IF c = "request"
       THEN streaming' = TRUE /\ UNCHANGED drone
       ELSE drone' = [drone EXCEPT !.watchdog = FALSE] /\ UNCHANGED streaming
    /\ UNCHANGED net
    /\ UNCHANGED threadVars /\ UNCHANGED appVars

LoseCommand == \E c \in commands : /\ commands' = commands \ {c}
                                   /\ UNCHANGED <<drone, streaming, net>>
                                   /\ UNCHANGED threadVars /\ UNCHANGED appVars

-----------------------------------------------------------------------------
Receive == ReadNothing \/ (\E p \in Packet, sound \in BOOLEAN : Read(p, sound))

Next == \/ Start \/ SocketFails \/ Top \/ Block \/ SpuriousWakeup \/ Receive
        \/ Suspend \/ Resume \/ RequestExit \/ ShutdownSignal
        \/ Acknowledge \/ ResetFlag
        \/ Emit \/ Lose \/ LoseContact \/ LeaveBootstrap
        \/ (\E c \in commands : ReceiveCommand(c)) \/ LoseCommand

Spec == Init /\ [][Next]_vars

\* The thread, the application's loop and the drone keep running; a signal
\* that the shutdown has to send is sent.  Where MaxSequence stops the drone
\* it goes on as a new contact.
FairSpec == /\ Spec
            /\ WF_vars(Start \/ Top \/ Block \/ Receive)
            /\ WF_vars(Acknowledge \/ ResetFlag)
            /\ WF_vars(ShutdownSignal)
            /\ WF_vars(Emit)
            /\ WF_vars(LoseContact /\ drone.next > MaxSequence)
            /\ WF_vars(ReceiveCommand("request"))
            /\ WF_vars(ReceiveCommand("comwdg"))

-----------------------------------------------------------------------------
(* Properties.                                                             *)

TypeOK ==
    /\ pc \in {"start", "top", "pausing", "blocked", "read", "done"}
    /\ {in_pause, exiting, send_com_watchdog, acknowledging, streaming} \subseteq BOOLEAN
    /\ sequence \in 0 .. MaxSequence
    /\ num_retries \in 0 .. MaxRetries + 1
    /\ processed \in Packet \cup {NoPacket}
    /\ drone \in [next : 1 .. MaxSequence + 1, watchdog : BOOLEAN, bootstrap : BOOLEAN]
    /\ net \subseteq Packet
    /\ commands \subseteq {"request", "comwdg"}

\* The handlers (the control thread's acknowledge bit among them) never go back
\* to an older packet, except to one that itself reports the watchdog: the test
\* of the sequence number drops what the network delivers out of order.
InOrder ==
    [][processed' \notin {processed, NoPacket} =>
          processed'.sequence > processed.sequence \/ processed'.watchdog]_vars

\* From some point on no packet or command is lost or damaged, and a contact
\* lasts MaxSequence packets.
LinkFault == \/ Lose \/ LoseCommand
             \/ (\E p \in Packet : Read(p, FALSE))
             \/ (LoseContact /\ drone.next <= MaxSequence)
Reliable == <>[][~LinkFault]_vars

\* A thread asleep for good is a matter of the suspension (ResumeRestores).
Awake == []<>(pc # "blocked")

\* ardrone_tool.h:214, "(it handles timeout and reconnections)": however often
\* the drone loses contact, forgets the client or starts its numbers again,
\* the handlers go on receiving packets, until the thread is ended or its
\* socket fails.
Delivery == \E p \in Packet : Newer(p) /\ Read(p, TRUE)
Reconnects == Reliable /\ Awake => ([]<><<Delivery>>_vars \/ <>(pc = "done"))

\* A drone that reports the watchdog has it acknowledged, although
\* ardrone_tool_update may reset the flag that the navdata thread has just set
\* again, and a command may be lost.
WatchdogAcknowledged ==
    Reliable /\ Awake => ((drone.watchdog /\ ~drone.bootstrap) ~> (~drone.watchdog \/ pc = "done"))

\* DroneControlService.java:251 of the resume: "Restores data exchange between
\* ArDrone and the service."
ResumeRestores ==
    (pc = "blocked" /\ ~in_pause) ~> (pc # "blocked" \/ in_pause \/ exiting)
=============================================================================
