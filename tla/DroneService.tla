---------------------------- MODULE DroneService ----------------------------
(***************************************************************************)
(* The Android service that drives the native library                      *)
(* (DroneControlService.java and its states and commands).                 *)
(*   - The main thread calls connect, pause, resume and onDestroy; the     *)
(*     current state turns a call into a command or skips it.              *)
(*   - The worker thread takes the commands from a queue, calls the native *)
(*     library, and changes the state when a pause or a resume is done.    *)
(*   - The polling thread (navdataUpdateRunnable) copies the navdata to    *)
(*     the listeners and waits while the service is paused.                *)
(*   - The library reports the end of a connection by a broadcast, which   *)
(*     the main thread receives later.                                     *)
(***************************************************************************)
EXTENDS Integers, Sequences

CONSTANT MaxCommands    \* bound: commands waiting for the worker

ASSUME ServiceAssumption == MaxCommands \in Nat \ {0}

Commands == {"Connect", "Pause", "Resume", "Disconnect"}
Idle == "none"          \* the worker executes no command

VARIABLES
    currState,      \* Disconnected, Connected or Paused
    commandQueue,
    main,           \* what the main thread is doing
    worker,         \* where the worker thread is
    executing,      \* the command it executes
    polling,        \* where the polling thread is
    stopThreads,
    broadcast,      \* a broadcast the main thread has not received yet
    library,        \* what the native library is doing
    requested       \* the last of pause and resume that was called while
                    \* there was a connection

workerVars == <<worker, executing>>
vars == <<currState, commandQueue, main, worker, executing, polling,
          stopThreads, broadcast, library, requested>>

\* onCreate has queued the first command.
Init == /\ currState = "Disconnected"
        /\ commandQueue = <<"Connect">>
        /\ main = "free"
        /\ worker = "loop"
        /\ executing = Idle
        /\ polling = "off"
        /\ stopThreads = FALSE
        /\ broadcast = "none"
        /\ library = "off"
        /\ requested = "Resume"

NotifyPolling == polling' = (IF polling = "waiting" THEN "update" ELSE polling)

-----------------------------------------------------------------------------
(* The main thread.                                                        *)

\* Mutant: a resume while connected is skipped.
AcceptsOnlyChanges(call) ==
    \/ call = "Pause" /\ currState = "Connected"
    \/ call = "Resume" /\ currState = "Paused"
    \/ call = "Disconnect" /\ currState # "Disconnected"

\* Mutant: a pause or a resume is accepted before the connection.
AcceptsUnconnected(call) ==
    \/ call = "Pause" /\ currState # "Paused"
    \/ call = "Resume"
    \/ call = "Disconnect" /\ currState # "Disconnected"

\* The calls for which a state starts a command; it skips the others.
Accepts(call) ==
    \/ call = "Pause" /\ currState = "Connected"
    \/ call = "Resume" /\ currState # "Disconnected"
    \/ call = "Disconnect" /\ currState # "Disconnected"

\* startCommand: the command is added under the lock of the queue; the worker
\* is notified by NotifyWorker, under another lock.
Start(call) == /\ Accepts(call)
               /\ Len(commandQueue) < MaxCommands
               /\ commandQueue' = Append(commandQueue, call)

\* The application pauses or resumes the service.
Call(call) ==
    /\ main = "free"
    /\ requested' = (IF currState = "Disconnected" THEN requested ELSE call)
    /\ \/ Start(call) /\ main' = "notify"
       \/ ~Accepts(call) /\ UNCHANGED <<commandQueue, main>>
    /\ UNCHANGED <<currState, polling, stopThreads, broadcast, library>>
    /\ UNCHANGED workerVars

\* onDestroy disconnects first.
Destroy ==
    /\ main = "free"
    /\ \/ Start("Disconnect") /\ main' = "destroy_notify"
       \/ ~Accepts("Disconnect") /\ main' = "stop" /\ UNCHANGED commandQueue
    /\ UNCHANGED <<currState, polling, stopThreads, broadcast, library, requested>>
    /\ UNCHANGED workerVars

\* The second half of startCommand, and the last notification of
\* stopWorkerThreads.
NotifyWorker ==
    /\ main \in {"notify", "destroy_notify", "joined"}
    /\ main' = (CASE main = "notify" -> "free"
                  [] main = "destroy_notify" -> "stop"
                  [] main = "joined" -> "kill")
    /\ worker' = (IF worker = "waiting" THEN "woken" ELSE worker)
    /\ UNCHANGED <<currState, commandQueue, executing, polling, stopThreads,
                   broadcast, library, requested>>

\* stopWorkerThreads: the polling thread is joined for three seconds at most.
StopThreads ==
    /\ main = "stop"
    /\ main' = "join"
    /\ stopThreads' = TRUE
    /\ NotifyPolling
    /\ UNCHANGED <<currState, commandQueue, broadcast, library, requested>>
    /\ UNCHANGED workerVars

JoinPolling ==
    /\ main = "join"
    /\ main' = "joined"
    /\ UNCHANGED <<currState, commandQueue, polling, stopThreads, broadcast,
                   library, requested>>
    /\ UNCHANGED workerVars

\* The process is killed; nothing runs any more.
Kill ==
    /\ main = "kill"
    /\ main' = "killed"
    /\ UNCHANGED <<currState, commandQueue, polling, stopThreads, broadcast,
                   library, requested>>
    /\ UNCHANGED workerVars

\* The main thread receives the broadcast that ends the connection: the
\* connect command tells the state, which is Disconnected.
Receive ==
    /\ main = "free"
    /\ broadcast # "none"
    /\ broadcast' = "none"
    /\ IF broadcast = "connected"
       THEN /\ currState' = "Connected"
            /\ polling' = (IF polling = "off" THEN "update" ELSE polling)
       ELSE NotifyPolling /\ UNCHANGED currState
    /\ UNCHANGED <<commandQueue, main, stopThreads, library, requested>>
    /\ UNCHANGED workerVars

-----------------------------------------------------------------------------
(* The worker thread.                                                      *)

\* Mutant: the worker does not look at the queue before it waits.
WorkerLoopWaits ==
    /\ main # "killed" /\ worker = "loop"
    /\ worker' = (IF stopThreads THEN "ended" ELSE "waiting")
    /\ UNCHANGED <<currState, commandQueue, main, executing, polling,
                   stopThreads, broadcast, library, requested>>

\* Under commandQueueLock: wait if there is no command.
WorkerLoop ==
    /\ main # "killed" /\ worker = "loop"
    /\ worker' = (IF stopThreads THEN "ended"
                   ELSE IF commandQueue = <<>> THEN "waiting" ELSE "poll")
    /\ UNCHANGED <<currState, commandQueue, main, executing, polling,
                   stopThreads, broadcast, library, requested>>

WorkerWoken ==
    /\ main # "killed" /\ worker = "woken"
    /\ worker' = (IF stopThreads THEN "ended" ELSE "poll")
    /\ UNCHANGED <<currState, commandQueue, main, executing, polling,
                   stopThreads, broadcast, library, requested>>

Poll ==
    /\ main # "killed" /\ worker = "poll"
    /\ IF commandQueue = <<>>
       THEN worker' = "loop" /\ UNCHANGED <<commandQueue, executing>>
       ELSE /\ executing' = Head(commandQueue)
            /\ commandQueue' = Tail(commandQueue)
            /\ worker' = "execute"
    /\ UNCHANGED <<currState, main, polling, stopThreads, broadcast, library, requested>>

\* Mutant: the command is forgotten only after its call back.
ExecuteKeepsCommand ==
    /\ main # "killed" /\ worker = "execute"
    /\ library' = [Connect |-> "connecting", Pause |-> "paused",
                   Resume |-> "running", Disconnect |-> "exited"][executing]
    /\ worker' = (IF executing \in {"Pause", "Resume"} THEN "finish" ELSE "loop")
    /\ UNCHANGED <<currState, commandQueue, main, executing, polling, stopThreads,
                   broadcast, requested>>

\* The native call of a command.  The library ignores no pause or resume.
Execute ==
    /\ main # "killed" /\ worker = "execute"
    /\ library' = [Connect |-> "connecting", Pause |-> "paused",
                   Resume |-> "running", Disconnect |-> "exited"][executing]
    /\ worker' = (IF executing \in {"Pause", "Resume"} THEN "finish" ELSE "loop")
    /\ executing' = (IF executing \in {"Pause", "Resume"} THEN executing ELSE Idle)
    /\ UNCHANGED <<currState, commandQueue, main, polling, stopThreads,
                   broadcast, requested>>

\* Mutant: a pause leaves the service connected.
FinishKeepsState ==
    /\ main # "killed" /\ worker = "finish"
    /\ currState' = (IF executing = "Resume" /\ currState = "Paused" THEN "Connected"
                     ELSE currState)
    /\ worker' = (IF executing = "Resume" THEN "resumed" ELSE "loop")
    /\ executing' = Idle
    /\ UNCHANGED <<commandQueue, main, polling, stopThreads, broadcast,
                   library, requested>>

\* onCommandFinished of the current state, up to the change of the state.
Finish ==
    /\ main # "killed" /\ worker = "finish"
    /\ currState' = (CASE executing = "Pause" /\ currState = "Connected" -> "Paused"
                       [] executing = "Resume" /\ currState = "Paused" -> "Connected"
                       [] OTHER -> currState)
    /\ worker' = (IF executing = "Resume" THEN "resumed" ELSE "loop")
    /\ executing' = Idle
    /\ UNCHANGED <<commandQueue, main, polling, stopThreads, broadcast,
                   library, requested>>

\* onResumed
Resumed ==
    /\ main # "killed" /\ worker = "resumed"
    /\ worker' = "loop"
    /\ NotifyPolling
    /\ UNCHANGED <<currState, commandQueue, main, executing, stopThreads,
                   broadcast, library, requested>>

-----------------------------------------------------------------------------
(* The polling thread and the library.                                     *)

\* Mutant: the polling thread does not look at the state.
PollNavdataAlways ==
    /\ main # "killed" /\ polling = "update"
    /\ polling' = (IF stopThreads THEN "ended" ELSE "update")
    /\ UNCHANGED <<currState, commandQueue, main, stopThreads, broadcast,
                   library, requested>>
    /\ UNCHANGED workerVars

\* One turn of the loop, up to the test of the state, which is made without the lock.
PollNavdata ==
    /\ main # "killed" /\ polling = "update"
    /\ polling' = (IF stopThreads THEN "ended"
                    ELSE IF currState = "Paused" THEN "suspending" ELSE "update")
    /\ UNCHANGED <<currState, commandQueue, main, stopThreads, broadcast,
                   library, requested>>
    /\ UNCHANGED workerVars

\* The thread waits, with no further look at the state.
SuspendPolling ==
    /\ main # "killed" /\ polling = "suspending"
    /\ polling' = "waiting"
    /\ UNCHANGED <<currState, commandQueue, main, stopThreads, broadcast,
                   library, requested>>
    /\ UNCHANGED workerVars

\* The library reports a connection, or that there is none.
Report(outcome) ==
    /\ main # "killed" /\ library = "connecting"
    /\ library' = (IF outcome = "connected" THEN "running" ELSE "exited")
    /\ broadcast' = outcome
    /\ UNCHANGED <<currState, commandQueue, main, polling, stopThreads, requested>>
    /\ UNCHANGED workerVars

-----------------------------------------------------------------------------
Main == Destroy \/ NotifyWorker \/ StopThreads \/ JoinPolling \/ Kill \/ Receive
Worker == WorkerLoop \/ WorkerWoken \/ Poll \/ Execute \/ Finish \/ Resumed
Polling == PollNavdata \/ SuspendPolling
Library == \E outcome \in {"connected", "failed"} : Report(outcome)

Next == (\E call \in {"Pause", "Resume"} : Call(call)) \/ Main \/ Worker \/ Polling \/ Library

Spec == Init /\ [][Next]_vars

\* The threads run, the library ends its attempt to connect, and what the main
\* thread has begun it completes.  The application need not call anything.
FairSpec == /\ Spec
            /\ WF_vars(NotifyWorker \/ StopThreads \/ JoinPolling \/ Kill)
            /\ SF_vars(Receive)
            /\ WF_vars(Worker) /\ WF_vars(Polling) /\ WF_vars(Library)

-----------------------------------------------------------------------------
(* Properties.                                                             *)

TypeOK ==
    /\ currState \in {"Disconnected", "Connected", "Paused"}
    /\ commandQueue \in Seq(Commands) /\ Len(commandQueue) <= MaxCommands
    /\ main \in {"free", "notify", "destroy_notify", "stop", "join", "joined", "kill", "killed"}
    /\ worker \in {"loop", "waiting", "woken", "poll", "execute", "finish", "resumed", "ended"}
    /\ executing \in (IF worker \in {"execute", "finish"} THEN Commands ELSE {Idle})
    /\ polling \in {"off", "update", "suspending", "waiting", "ended"}
    /\ stopThreads \in BOOLEAN
    /\ broadcast \in {"none", "connected", "failed"}
    /\ library \in {"off", "connecting", "running", "paused", "exited"}
    /\ requested \in {"Pause", "Resume"}

Alive == main \in {"free", "notify"}

\* Whenever the worker has nothing to do, the state of the service is that of
\* the library: two threads change the state, and the library only by commands.
StateFollowsLibrary ==
    (commandQueue = <<>> /\ executing = Idle /\ broadcast = "none" /\ Alive) =>
        /\ currState = "Paused" <=> library = "paused"
        /\ currState = "Connected" <=> library = "running"

\* The service uses the library as it is to be used (LibraryCalls), until the
\* process is killed: a command may wait in the queue while the state it was
\* accepted in changes, and still none reaches the library before it is
\* connected or after its end.
Use == INSTANCE LibraryCalls
ImplementsLibraryCalls == Use!Spec

\* No notification is lost, although a command is added under one lock and the
\* queue is tested under another: when the worker waits and there is a command,
\* the main thread has still to notify it.
NotificationUnderWay ==
    (worker = "waiting" /\ commandQueue # <<>>) => main \in {"notify", "destroy_notify"}

\* A command is executed, unless the service is destroyed.
CommandsRun == (commandQueue # <<>>) ~> (executing # Idle \/ ~Alive)

\* While the service stays paused the polling thread waits.
PollingWaits == (currState = "Paused") ~> (polling = "waiting" \/ currState # "Paused" \/ ~Alive)

\* The last call decides.  DroneControlService.java:251, resume: "Restores data
\* exchange between ArDrone and the service."
ResumeHonoured ==
    (currState # "Disconnected" /\ requested = "Resume")
        ~> (library = "running" \/ requested # "Resume" \/ ~Alive)

\* DroneControlService.java:244, pause: "Pauses data exchange between ArDrone and
\* the service."
PauseHonoured ==
    (currState # "Disconnected" /\ requested = "Pause")
        ~> (library = "paused" \/ requested # "Pause" \/ ~Alive)

\* DroneControlService.java:251 again, of the listeners: once the service is
\* resumed, the polling thread does not go on waiting.
PollingRestored ==
    (currState = "Connected" /\ polling = "waiting")
        ~> (polling # "waiting" \/ currState # "Connected" \/ ~Alive)

\* DroneControlService.java:237, of the disconnect() that onDestroy calls:
\* "Disconnects from the ArDrone".
DisconnectedWhenKilled ==
    (main = "killed" /\ currState # "Disconnected") => library = "exited"
=============================================================================
