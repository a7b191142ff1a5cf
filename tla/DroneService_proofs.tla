------------------------- MODULE DroneService_proofs -------------------------
(***************************************************************************)
(* The state of the Android service is that of the native library whenever *)
(* the worker is idle, however many commands wait for it, and the commands *)
(* use the library in the order it is to be used in.                       *)
(***************************************************************************)
EXTENDS DroneService, SequenceTheorems, TLAPS

Calls == {"Pause", "Resume"}

\* The parts of TypeOK: the queue, and what has a few values.
QueueType == commandQueue \in Seq(Commands) /\ Len(commandQueue) <= MaxCommands
Types ==
    /\ currState \in {"Disconnected", "Connected", "Paused"}
    /\ main \in {"free", "notify", "destroy_notify", "stop", "join", "joined", "kill", "killed"}
    /\ worker \in {"loop", "waiting", "woken", "poll", "execute", "finish", "resumed", "ended"}
    /\ polling \in {"off", "update", "suspending", "waiting", "ended"}
    /\ broadcast \in {"none", "connected", "failed"}
    /\ library \in {"off", "connecting", "running", "paused", "exited"}
    /\ requested \in {"Pause", "Resume"}

\* The worker has a command only between the queue and the end of its call, and
\* finishes nothing but a pause or a resume.
Executing ==
    /\ worker = "execute" => executing \in Commands
    /\ worker = "finish" => executing \in Calls
    /\ worker \notin {"execute", "finish"} => executing = Idle

\* Before the connection: the one command is on its way from the queue to the
\* library, then its outcome from the library to the main thread.
Connecting ==
    /\ currState = "Disconnected"
    /\ \/ /\ library = "off" /\ broadcast = "none"
          /\ \/ commandQueue = <<"Connect">> /\ executing = Idle
             \/ commandQueue = <<>> /\ executing = "Connect"
       \/ /\ commandQueue = <<>> /\ executing = Idle
          /\ <<library, broadcast>> \in {<<"connecting", "none">>, <<"running", "connected">>,
                                         <<"exited", "failed">>, <<"exited", "none">>}

\* With a connection: the library is in the state of the service, except between
\* the native call of a command and the change of the state.
InConnection ==
    /\ currState \in {"Connected", "Paused"}
    /\ broadcast = "none"
    /\ commandQueue \in Seq(Calls)
    /\ executing \in Calls \cup {Idle}
    /\ library = (IF \/ worker = "finish" /\ executing = "Pause"
                     \/ worker # "finish" /\ currState = "Paused"
                  THEN "paused" ELSE "running")

\* The inductive invariant.
Phase == Alive => Connecting \/ InConnection
IInv == QueueType /\ Types /\ stopThreads \in BOOLEAN /\ Executing /\ Phase

-----------------------------------------------------------------------------
\* What is left of a queue, and a queue with one more command.
LEMMA TailType ==
    ASSUME NEW S, NEW s \in Seq(S), s # <<>>
    PROVE  Head(s) \in S /\ Tail(s) \in Seq(S) /\ Len(Tail(s)) = Len(s) - 1 /\ Len(s) \in Nat
  BY HeadTailProperties

LEMMA AppendType ==
    ASSUME NEW S, NEW s \in Seq(S), NEW e \in S
    PROVE  Append(s, e) \in Seq(S) /\ Len(Append(s, e)) = Len(s) + 1 /\ Len(s) \in Nat
  BY AppendProperties

LEMMA IsTyped == IInv => TypeOK
<1>1. IInv => executing \in (IF worker \in {"execute", "finish"} THEN Commands ELSE {Idle})
  BY DEF IInv, Executing, Calls, Commands
<1> QED
  BY <1>1 DEF IInv, QueueType, Types, TypeOK

LEMMA InitIInv == Init => IInv
<1> SUFFICES ASSUME Init PROVE IInv
  OBVIOUS
<1>1. commandQueue = <<"Connect">> /\ executing = Idle /\ worker = "loop" /\ currState = "Disconnected"
      /\ library = "off" /\ broadcast = "none"
  BY DEF Init
<1>2. commandQueue \in Seq(Commands) /\ Len(commandQueue) = 1
  BY <1>1 DEF Commands
<1>3. QueueType
  BY <1>2, ServiceAssumption DEF QueueType
<1>4. Types
  BY DEF Init, Types
<1>5. stopThreads \in BOOLEAN
  BY DEF Init
<1>6. Executing /\ Phase
  BY <1>1 DEF Executing, Phase, Connecting
<1> QED
  BY <1>3, <1>4, <1>5, <1>6 DEF IInv

-----------------------------------------------------------------------------
(* The main thread.                                                        *)

\* A call is accepted only with a connection, and an accepted one fits.
LEMMA StartType ==
    ASSUME IInv, NEW call \in Commands, Start(call)
    PROVE  /\ QueueType'
           /\ call \in Calls /\ Alive => InConnection /\ commandQueue' \in Seq(Calls)
<1>1. /\ commandQueue \in Seq(Commands) /\ Len(commandQueue) < MaxCommands
      /\ commandQueue' = Append(commandQueue, call) /\ Accepts(call)
  BY DEF IInv, QueueType, Start
<1>2. /\ commandQueue' \in Seq(Commands) /\ Len(commandQueue') = Len(commandQueue) + 1
      /\ Len(commandQueue) \in Nat
  BY <1>1, AppendType
<1>3. QueueType'
  BY <1>1, <1>2, ServiceAssumption DEF QueueType
<1>4. ASSUME call \in Calls, Alive
      PROVE  InConnection /\ commandQueue' \in Seq(Calls)
  <2>1. currState # "Disconnected"
    BY <1>1, <1>4 DEF Accepts, Calls
  <2>2. InConnection
    BY <1>4, <2>1 DEF IInv, Phase, Connecting
  <2> QED
    BY <1>1, <1>4, <2>2, AppendType DEF InConnection
<1> QED
  BY <1>3, <1>4

\* A step that changes neither the service nor the library.
LEMMA AsideIInv ==
    ASSUME IInv, Types', stopThreads' \in BOOLEAN, Alive' => Alive,
           UNCHANGED <<currState, commandQueue, executing, broadcast, library>>,
           worker' = worker \/ {worker, worker'} \cap {"execute", "finish"} = {}
    PROVE  IInv'
<1>1. QueueType'
  BY DEF IInv, QueueType
<1>2. Executing'
  BY DEF IInv, Executing
<1>3. Phase'
  BY DEF IInv, Phase, Connecting, InConnection
<1> QED
  BY <1>1, <1>2, <1>3 DEF IInv

LEMMA CallIInv == ASSUME IInv, NEW call \in Calls, Call(call) PROVE IInv'
<1>1. /\ main = "free" /\ requested' \in {requested, call}
      /\ UNCHANGED <<currState, polling, broadcast, library, worker, executing>>
  BY DEF Call, workerVars
<1>2. call \in Commands
  BY DEF Calls, Commands
<1>3. stopThreads' \in BOOLEAN
  BY DEF Call, IInv
<1>4. CASE Start(call) /\ main' = "notify"
  <2>1. QueueType' /\ InConnection /\ commandQueue' \in Seq(Calls)
    BY <1>1, <1>2, <1>4, StartType DEF Alive
  <2>2. Types'
    BY <1>1, <1>4 DEF IInv, Types, Calls
  <2>3. Executing'
    BY <1>1 DEF IInv, Executing
  <2>4. Phase'
    BY <1>1, <2>1 DEF Phase, InConnection
  <2> QED
    BY <1>3, <2>1, <2>2, <2>3, <2>4 DEF IInv
<1>5. CASE UNCHANGED <<commandQueue, main>>
  <2>1. Types'
    BY <1>1, <1>5 DEF IInv, Types, Calls
  <2> QED
    BY <1>1, <1>3, <1>5, <2>1, AsideIInv DEF Alive
<1> QED
  BY <1>4, <1>5 DEF Call

LEMMA DestroyIInv == IInv /\ Destroy => IInv'
<1> SUFFICES ASSUME IInv, Destroy PROVE IInv'
  OBVIOUS
<1>1. /\ main' \in {"destroy_notify", "stop"}
      /\ UNCHANGED <<currState, polling, broadcast, library, requested, worker, executing>>
      /\ Start("Disconnect") \/ UNCHANGED commandQueue
  BY DEF Destroy, workerVars
<1>2. QueueType'
  <2>1. "Disconnect" \in Commands
    BY DEF Commands
  <2>2. CASE UNCHANGED commandQueue
    BY <2>2 DEF IInv, QueueType
  <2> QED
    BY <1>1, <2>1, <2>2, StartType
<1>3. Types'
  BY <1>1 DEF IInv, Types
<1>4. stopThreads' \in BOOLEAN
  BY DEF Destroy, IInv
<1>5. Executing' /\ Phase'
  BY <1>1 DEF IInv, Executing, Phase, Alive
<1> QED
  BY <1>2, <1>3, <1>4, <1>5 DEF IInv

LEMMA NotifyWorkerIInv == IInv /\ NotifyWorker => IInv'
<1> SUFFICES ASSUME IInv, NotifyWorker PROVE IInv'
  OBVIOUS
<1>1. /\ main' \in {"free", "stop", "kill"} /\ (main' = "free" => main = "notify")
      /\ \/ worker = "waiting" /\ worker' = "woken"
         \/ worker' = worker
      /\ UNCHANGED <<currState, commandQueue, executing, polling, broadcast, library, requested>>
  BY DEF NotifyWorker
<1>2. Types'
  BY <1>1 DEF IInv, Types
<1>3. stopThreads' \in BOOLEAN
  BY DEF NotifyWorker, IInv
<1> QED
  BY <1>1, <1>2, <1>3, AsideIInv DEF Alive

LEMMA EndIInv == IInv /\ (StopThreads \/ JoinPolling \/ Kill) => IInv'
<1> SUFFICES ASSUME IInv, StopThreads \/ JoinPolling \/ Kill PROVE IInv'
  OBVIOUS
<1>1. /\ main' \in {"join", "joined", "killed"} /\ polling' \in {polling, "update"}
      /\ UNCHANGED <<currState, commandQueue, worker, executing, broadcast, library, requested>>
  BY DEF StopThreads, JoinPolling, Kill, NotifyPolling, workerVars
<1>2. Types'
  BY <1>1 DEF IInv, Types
<1>3. stopThreads' \in BOOLEAN
  BY DEF StopThreads, JoinPolling, Kill, IInv
<1> QED
  BY <1>1, <1>2, <1>3, AsideIInv DEF Alive

LEMMA ReceiveIInv == IInv /\ Receive => IInv'
<1> SUFFICES ASSUME IInv, Receive PROVE IInv'
  OBVIOUS
<1>1. /\ main = "free" /\ broadcast # "none" /\ broadcast' = "none"
      /\ UNCHANGED <<commandQueue, main, library, requested, worker, executing>>
      /\ polling' \in {polling, "update"}
      /\ \/ broadcast = "connected" /\ currState' = "Connected"
         \/ broadcast # "connected" /\ UNCHANGED currState
  BY DEF Receive, NotifyPolling, workerVars
<1>2. Connecting
  BY <1>1 DEF IInv, Phase, Alive, InConnection
<1>3. Types'
  BY <1>1 DEF IInv, Types
<1>4. commandQueue = <<>> /\ executing = Idle /\ worker # "finish" /\ currState = "Disconnected"
  BY <1>1, <1>2 DEF IInv, Connecting, Executing, Calls, Idle
<1>5. ASSUME broadcast = "connected"
      PROVE  InConnection'
  <2>1. library = "running"
    BY <1>1, <1>2, <1>5 DEF Connecting
  <2>2. commandQueue' \in Seq(Calls)
    BY <1>1, <1>4
  <2> QED
    BY <1>1, <1>4, <1>5, <2>1, <2>2 DEF InConnection
<1>6. ASSUME broadcast # "connected"
      PROVE  Connecting'
  <2>1. library = "exited"
    BY <1>1, <1>2, <1>6 DEF Connecting
  <2> QED
    BY <1>1, <1>4, <1>6, <2>1 DEF Connecting
<1>7. QueueType' /\ Executing'
  BY <1>1 DEF IInv, QueueType, Executing
<1>8. stopThreads' \in BOOLEAN
  BY DEF Receive, IInv
<1>9. Phase'
  BY <1>5, <1>6 DEF Phase
<1> QED
  BY <1>3, <1>7, <1>8, <1>9 DEF IInv

-----------------------------------------------------------------------------
(* The worker.                                                             *)

LEMMA LoopIInv == IInv /\ (WorkerLoop \/ WorkerWoken \/ Resumed) => IInv'
<1> SUFFICES ASSUME IInv, WorkerLoop \/ WorkerWoken \/ Resumed PROVE IInv'
  OBVIOUS
<1>1. /\ worker \in {"loop", "woken", "resumed"} /\ worker' \in {"ended", "waiting", "poll", "loop"}
      /\ polling' \in {polling, "update"}
      /\ UNCHANGED <<currState, commandQueue, main, executing, broadcast, library, requested>>
  BY DEF WorkerLoop, WorkerWoken, Resumed, NotifyPolling
<1>2. Types'
  BY <1>1 DEF IInv, Types
<1>3. stopThreads' \in BOOLEAN
  BY DEF WorkerLoop, WorkerWoken, Resumed, IInv
<1> QED
  BY <1>1, <1>2, <1>3, AsideIInv DEF Alive

LEMMA PollIInv == IInv /\ Poll => IInv'
<1> SUFFICES ASSUME IInv, Poll PROVE IInv'
  OBVIOUS
<1>1. /\ worker = "poll" /\ executing = Idle
      /\ UNCHANGED <<currState, main, polling, broadcast, library, requested>>
  BY DEF IInv, Executing, Poll
<1>2. stopThreads' \in BOOLEAN
  BY DEF Poll, IInv
<1>3. CASE commandQueue = <<>>
  <2>1. worker' = "loop" /\ UNCHANGED <<commandQueue, executing>>
    BY <1>3 DEF Poll
  <2>2. Types'
    BY <1>1, <2>1 DEF IInv, Types
  <2> QED
    BY <1>1, <1>2, <2>1, <2>2, AsideIInv DEF Alive
<1>4. CASE commandQueue # <<>>
  <2>1. worker' = "execute" /\ executing' = Head(commandQueue) /\ commandQueue' = Tail(commandQueue)
    BY <1>4 DEF Poll
  <2>2. commandQueue \in Seq(Commands) /\ Len(commandQueue) <= MaxCommands
    BY DEF IInv, QueueType
  <2>3. executing' \in Commands /\ QueueType'
    BY <1>4, <2>1, <2>2, TailType, ServiceAssumption DEF QueueType
  <2>4. Types'
    BY <1>1, <2>1 DEF IInv, Types
  <2>5. Executing'
    BY <2>1, <2>3 DEF Executing
  <2>6. Phase'
    <3>1. CASE Alive /\ Connecting
      BY <1>1, <1>4, <2>1, <3>1 DEF Phase, Connecting
    <3>2. CASE Alive /\ InConnection
      <4>1. executing' \in Calls /\ commandQueue' \in Seq(Calls)
        BY <1>4, <2>1, <3>2, TailType DEF InConnection
      <4> QED
        BY <1>1, <2>1, <3>2, <4>1 DEF Phase, InConnection
    <3>3. CASE ~Alive
      BY <1>1, <3>3 DEF Phase, Alive
    <3> QED
      BY <3>1, <3>2, <3>3 DEF IInv, Phase
  <2> QED
    BY <1>2, <2>3, <2>4, <2>5, <2>6 DEF IInv
<1> QED
  BY <1>3, <1>4

LEMMA ExecuteIInv == IInv /\ Execute => IInv'
<1> SUFFICES ASSUME IInv, Execute PROVE IInv'
  OBVIOUS
<1>1. /\ worker = "execute" /\ executing \in Commands
      /\ UNCHANGED <<currState, commandQueue, main, polling, broadcast, requested>>
  BY DEF IInv, Executing, Execute
<1>2. /\ worker' = (IF executing \in Calls THEN "finish" ELSE "loop")
      /\ executing' = (IF executing \in Calls THEN executing ELSE Idle)
  BY DEF Execute, Calls
<1>3. /\ executing = "Connect" => library' = "connecting"
      /\ executing = "Pause" => library' = "paused"
      /\ executing = "Resume" => library' = "running"
      /\ executing = "Disconnect" => library' = "exited"
  BY DEF Execute
<1>4. QueueType'
  BY <1>1 DEF IInv, QueueType
<1>5. Types'
  BY <1>1, <1>2, <1>3 DEF IInv, Types, Commands
<1>6. stopThreads' \in BOOLEAN
  BY DEF Execute, IInv
<1>7. Executing'
  BY <1>2 DEF Executing
<1>8. Phase'
  <2>1. CASE Alive /\ Connecting
    BY <1>1, <1>2, <1>3, <2>1 DEF Phase, Connecting, Calls, Idle, Commands
  <2>2. CASE Alive /\ InConnection
    BY <1>1, <1>2, <1>3, <2>2 DEF Phase, InConnection, Calls, Idle, Commands
  <2>3. CASE ~Alive
    BY <1>1, <2>3 DEF Phase, Alive
  <2> QED
    BY <2>1, <2>2, <2>3 DEF IInv, Phase
<1> QED
  BY <1>4, <1>5, <1>6, <1>7, <1>8 DEF IInv

LEMMA FinishIInv == IInv /\ Finish => IInv'
<1> SUFFICES ASSUME IInv, Finish PROVE IInv'
  OBVIOUS
<1>1. /\ worker = "finish" /\ executing \in Calls /\ executing' = Idle
      /\ worker' \in {"resumed", "loop"}
      /\ UNCHANGED <<commandQueue, main, polling, broadcast, library, requested>>
  BY DEF IInv, Executing, Finish
<1>2. currState' = (IF executing = "Pause" /\ currState = "Connected" THEN "Paused"
                    ELSE IF executing = "Resume" /\ currState = "Paused" THEN "Connected"
                    ELSE currState)
  BY DEF Finish
<1>3. Types'
  BY <1>1, <1>2 DEF IInv, Types
<1>4. stopThreads' \in BOOLEAN
  BY DEF Finish, IInv
<1>5. QueueType' /\ Executing'
  BY <1>1 DEF IInv, QueueType, Executing
<1>6. Phase'
  <2>1. CASE Alive /\ Connecting
    BY <1>1, <2>1 DEF Connecting, Calls, Idle
  <2>2. CASE Alive /\ InConnection
    BY <1>1, <1>2, <2>2 DEF Phase, InConnection, Calls, Idle
  <2>3. CASE ~Alive
    BY <1>1, <2>3 DEF Phase, Alive
  <2> QED
    BY <2>1, <2>2, <2>3 DEF IInv, Phase
<1> QED
  BY <1>3, <1>4, <1>5, <1>6 DEF IInv

-----------------------------------------------------------------------------
(* The polling thread and the library.                                     *)

LEMMA PollingIInv == IInv /\ Polling => IInv'
<1> SUFFICES ASSUME IInv, Polling PROVE IInv'
  OBVIOUS
<1>1. /\ polling' \in {"ended", "suspending", "update", "waiting"}
      /\ UNCHANGED <<currState, commandQueue, main, broadcast, library, requested, worker, executing>>
  BY DEF Polling, PollNavdata, SuspendPolling, workerVars
<1>2. Types'
  <2>1. polling' \in {"off", "update", "suspending", "waiting", "ended"}
    BY <1>1
  <2> QED
    BY <1>1, <2>1 DEF IInv, Types
<1>3. stopThreads' \in BOOLEAN
  BY DEF Polling, PollNavdata, SuspendPolling, IInv
<1> QED
  BY <1>1, <1>2, <1>3, AsideIInv DEF Alive

LEMMA ReportIInv == ASSUME IInv, NEW outcome \in {"connected", "failed"}, Report(outcome) PROVE IInv'
<1>1. /\ library = "connecting" /\ broadcast' = outcome
      /\ library' = (IF outcome = "connected" THEN "running" ELSE "exited")
      /\ UNCHANGED <<currState, commandQueue, main, polling, requested, worker, executing>>
  BY DEF Report, workerVars
<1>2. Types'
  BY <1>1 DEF IInv, Types
<1>3. stopThreads' \in BOOLEAN
  BY DEF Report, IInv
<1>4. QueueType' /\ Executing'
  BY <1>1 DEF IInv, QueueType, Executing
<1>5. Alive => Connecting
  BY <1>1 DEF IInv, Phase, InConnection
<1>6. Phase'
  BY <1>1, <1>5 DEF Phase, Alive, Connecting
<1> QED
  BY <1>2, <1>3, <1>4, <1>6 DEF IInv

-----------------------------------------------------------------------------
LEMMA NextIInv == IInv /\ [Next]_vars => IInv'
<1> SUFFICES ASSUME IInv, [Next]_vars PROVE IInv'
  OBVIOUS
<1>1. CASE UNCHANGED vars
  <2>1. /\ UNCHANGED <<currState, commandQueue, main, worker, executing, polling, broadcast,
                       library, requested>>
        /\ UNCHANGED stopThreads
    BY <1>1 DEF vars
  <2>2. Types'
    <3>1. polling' \in {"off", "update", "suspending", "waiting", "ended"}
      BY <2>1 DEF IInv, Types
    <3> QED
      BY <2>1, <3>1 DEF IInv, Types
  <2>3. stopThreads' \in BOOLEAN
    BY <2>1 DEF IInv
  <2> QED
    BY <2>1, <2>2, <2>3, AsideIInv DEF Alive
<1>2. CASE \E call \in {"Pause", "Resume"} : Call(call)
  BY <1>2, CallIInv DEF Calls
<1>3. CASE Main
  BY <1>3, DestroyIInv, NotifyWorkerIInv, EndIInv, ReceiveIInv DEF Main
<1>4. CASE Worker
  BY <1>4, LoopIInv, PollIInv, ExecuteIInv, FinishIInv DEF Worker
<1>5. CASE Library
  BY <1>5, ReportIInv DEF Library
<1> QED
  BY <1>1, <1>2, <1>3, <1>4, <1>5, PollingIInv DEF Next

LEMMA Safety == Spec => []IInv
  BY InitIInv, NextIInv, PTL DEF Spec

\* The threads of DroneControlService, its state and its queue keep their types.
THEOREM TypeCorrect == Spec => []TypeOK
  BY IsTyped, Safety, PTL

\* Whenever the worker of DroneControlService has nothing to do, the state of
\* the service is that of the library, for every length of the queue.
THEOREM ServiceFollowsLibrary == Spec => []StateFollowsLibrary
<1>1. IInv => StateFollowsLibrary
  <2> SUFFICES ASSUME IInv, executing = Idle, broadcast = "none", Alive, commandQueue = <<>>
               PROVE  /\ currState = "Paused" <=> library = "paused"
                      /\ currState = "Connected" <=> library = "running"
    BY DEF StateFollowsLibrary
  <2>1. CASE Connecting
    BY <2>1 DEF Connecting, Idle
  <2>2. CASE InConnection
    <3>1. worker # "finish"
      BY DEF IInv, Executing, Calls, Idle
    <3> QED
      BY <2>2, <3>1 DEF InConnection
  <2> QED
    BY <2>1, <2>2 DEF IInv, Phase
<1> QED
  BY <1>1, Safety, PTL

-----------------------------------------------------------------------------
(* The use of the library.  The queue may hold commands when the service is *)
(* destroyed, so that IInv, which speaks of the living service, is not      *)
(* enough: what is left to do must be in order until the process is killed. *)

\* A disconnection is the last command there is.
EndsLast ==
    \A i \in DOMAIN commandQueue :
        \/ commandQueue[i] \in Calls
        \/ commandQueue[i] = "Disconnect" /\ i = Len(commandQueue)

Connected ==
    /\ currState \in {"Connected", "Paused"}
    /\ broadcast = "none"
    /\ EndsLast
    /\ \/ executing \in Calls \cup {Idle}
       \/ executing = "Disconnect" /\ commandQueue = <<>>
    /\ \/ library \in {"running", "paused"}
       \/ library = "exited" /\ commandQueue = <<>> /\ executing = Idle

\* The second inductive invariant, on top of the first.
Orderly == Connecting \/ Connected

LEMMA InitOrderly == Init => Orderly
  BY DEF Init, Orderly, Connecting

\* The rest of a queue that ends with a disconnection, and its first command.
LEMMA TailEndsLast ==
    ASSUME commandQueue \in Seq(Commands), commandQueue # <<>>, EndsLast,
           commandQueue' = Tail(commandQueue)
    PROVE  /\ EndsLast'
           /\ \/ Head(commandQueue) \in Calls
              \/ Head(commandQueue) = "Disconnect" /\ commandQueue' = <<>>
<1>1. /\ Len(commandQueue) \in Nat /\ Len(commandQueue') = Len(commandQueue) - 1
      /\ commandQueue' \in Seq(Commands)
  BY TailType
<1>2. Len(commandQueue) >= 1 /\ Head(commandQueue) = commandQueue[1]
  BY <1>1
<1>3. \A i \in 1..Len(commandQueue') : commandQueue'[i] = commandQueue[i + 1]
  BY <1>1
<1>4. DOMAIN commandQueue = 1..Len(commandQueue) /\ DOMAIN commandQueue' = 1..Len(commandQueue')
  BY <1>1
<1>5. EndsLast'
  <2> SUFFICES ASSUME NEW i \in 1..Len(commandQueue')
               PROVE  \/ commandQueue'[i] \in Calls
                      \/ commandQueue'[i] = "Disconnect" /\ i = Len(commandQueue')
    BY <1>4 DEF EndsLast
  <2>1. i + 1 \in DOMAIN commandQueue /\ commandQueue'[i] = commandQueue[i + 1]
    BY <1>1, <1>3, <1>4
  <2>2. PICK n \in Nat : n = Len(commandQueue)
    BY <1>1
  <2>3. Len(commandQueue') = n - 1 /\ i \in Nat
    BY <1>1, <2>2
  <2>4. i + 1 = n => i = n - 1
    BY <2>3
  <2> QED
    BY <2>1, <2>2, <2>3, <2>4 DEF EndsLast
<1>6. \/ Head(commandQueue) \in Calls
      \/ Head(commandQueue) = "Disconnect" /\ Len(commandQueue) = 1
  BY <1>1, <1>2, <1>4 DEF EndsLast
<1>7. Len(commandQueue) = 1 => commandQueue' = <<>>
  BY <1>1
<1> QED
  BY <1>5, <1>6, <1>7

\* A command accepted while all those before it are pauses and resumes.
LEMMA StartEndsLast ==
    ASSUME commandQueue \in Seq(Calls), NEW call \in Calls \cup {"Disconnect"},
           commandQueue' = Append(commandQueue, call)
    PROVE  EndsLast'
<1>1. /\ Len(commandQueue) \in Nat /\ Len(commandQueue') = Len(commandQueue) + 1
      /\ commandQueue' \in Seq(Calls \cup {"Disconnect"})
      /\ \A i \in 1..Len(commandQueue) : commandQueue'[i] = commandQueue[i]
      /\ commandQueue'[Len(commandQueue) + 1] = call
  BY AppendProperties
<1>2. \A i \in 1..Len(commandQueue) : commandQueue[i] \in Calls
  OBVIOUS
<1> SUFFICES ASSUME NEW i \in 1..Len(commandQueue')
             PROVE  \/ commandQueue'[i] \in Calls
                    \/ commandQueue'[i] = "Disconnect" /\ i = Len(commandQueue')
  BY <1>1 DEF EndsLast
<1>3. CASE i \in 1..Len(commandQueue)
  BY <1>1, <1>2, <1>3
<1>4. CASE i = Len(commandQueue) + 1
  BY <1>1, <1>4
<1> QED
  BY <1>1, <1>3, <1>4

\* A step that leaves the commands, the library and the broadcast alone.
LEMMA AsideOrderly ==
    ASSUME Orderly, UNCHANGED <<commandQueue, executing, broadcast, library>>,
           \/ UNCHANGED currState
           \/ {currState, currState'} \subseteq {"Connected", "Paused"}
    PROVE  Orderly'
  BY DEF Orderly, Connecting, Connected, EndsLast

\* A command is accepted only with a connection, by the living service.
LEMMA StartOrderly ==
    ASSUME IInv, Orderly, NEW call \in Calls \cup {"Disconnect"}, Start(call), main = "free",
           UNCHANGED <<currState, executing, broadcast, library>>
    PROVE  Orderly'
<1>1. currState # "Disconnected" /\ commandQueue' = Append(commandQueue, call)
  BY DEF Start, Accepts, Calls
<1>2. InConnection
  BY <1>1 DEF IInv, Phase, Alive, Connecting
<1>3. /\ currState \in {"Connected", "Paused"} /\ broadcast = "none"
      /\ commandQueue \in Seq(Calls) /\ executing \in Calls \cup {Idle}
      /\ library \in {"running", "paused"}
  BY <1>2 DEF InConnection
<1>4. EndsLast'
  BY <1>1, <1>3, StartEndsLast
<1> QED
  BY <1>3, <1>4 DEF Orderly, Connected

LEMMA MainOrderly ==
    ASSUME IInv, Orderly, Main \/ \E call \in Calls : Call(call)
    PROVE  Orderly'
<1>1. ASSUME NEW call \in Calls, Call(call) PROVE Orderly'
  <2>1. main = "free" /\ UNCHANGED <<currState, executing, broadcast, library>>
    BY <1>1 DEF Call, workerVars
  <2>2. Start(call) \/ UNCHANGED commandQueue
    BY <1>1 DEF Call
  <2> QED
    BY <2>1, <2>2, AsideOrderly, StartOrderly
<1>2. CASE Destroy
  <2>1. main = "free" /\ UNCHANGED <<currState, executing, broadcast, library>>
    BY <1>2 DEF Destroy, workerVars
  <2>2. Start("Disconnect") \/ UNCHANGED commandQueue
    BY <1>2 DEF Destroy
  <2> QED
    BY <2>1, <2>2, AsideOrderly, StartOrderly
<1>3. CASE NotifyWorker \/ StopThreads \/ JoinPolling \/ Kill
  <2>1. UNCHANGED <<currState, commandQueue, executing, broadcast, library>>
    BY <1>3 DEF NotifyWorker, StopThreads, JoinPolling, Kill, workerVars
  <2> QED
    BY <2>1, AsideOrderly
<1>4. CASE Receive
  <2>1. /\ broadcast # "none" /\ broadcast' = "none"
        /\ UNCHANGED <<commandQueue, executing, library>>
        /\ \/ broadcast = "connected" /\ currState' = "Connected"
           \/ broadcast # "connected" /\ UNCHANGED currState
    BY <1>4 DEF Receive, workerVars
  <2>2. /\ commandQueue = <<>> /\ executing = Idle
        /\ <<library, broadcast>> \in {<<"running", "connected">>, <<"exited", "failed">>}
        /\ currState = "Disconnected"
    BY <2>1 DEF Orderly, Connecting, Connected
  <2>3. CASE broadcast = "connected"
    <3>1. library' = "running" /\ currState' = "Connected"
      BY <2>1, <2>2, <2>3
    <3>2. EndsLast'
      BY <2>1, <2>2 DEF EndsLast
    <3> QED
      BY <2>1, <2>2, <3>1, <3>2 DEF Orderly, Connected
  <2>4. CASE broadcast # "connected"
    BY <2>1, <2>2, <2>4 DEF Orderly, Connecting
  <2> QED
    BY <2>3, <2>4
<1> QED
  BY <1>1, <1>2, <1>3, <1>4 DEF Main

LEMMA PollOrderly == ASSUME IInv, Orderly, Poll PROVE Orderly'
<1>1. executing = Idle /\ UNCHANGED <<currState, broadcast, library>>
  BY DEF IInv, Executing, Poll
<1>2. CASE commandQueue = <<>>
  BY <1>1, <1>2, AsideOrderly DEF Poll
<1>3. CASE commandQueue # <<>>
  <2>1. executing' = Head(commandQueue) /\ commandQueue' = Tail(commandQueue)
    BY <1>3 DEF Poll
  <2>2. CASE Connecting
    <3>1. commandQueue = <<"Connect">> /\ library = "off" /\ broadcast = "none"
      BY <1>3, <2>2 DEF Connecting
    <3>2. executing' = "Connect" /\ commandQueue' = <<>>
      BY <2>1, <3>1
    <3> QED
      BY <1>1, <2>2, <3>1, <3>2 DEF Orderly, Connecting
  <2>3. CASE Connected
    <3>1. /\ EndsLast'
          /\ executing' \in Calls \/ (executing' = "Disconnect" /\ commandQueue' = <<>>)
      BY <1>3, <2>1, <2>3, TailEndsLast DEF IInv, QueueType, Connected
    <3>2. library \in {"running", "paused"}
      BY <1>3, <2>3 DEF Connected
    <3> QED
      BY <1>1, <2>3, <3>1, <3>2 DEF Orderly, Connected
  <2> QED
    BY <2>2, <2>3 DEF Orderly
<1> QED
  BY <1>2, <1>3

\* What a command does to the library.
LEMMA Executed ==
    ASSUME IInv, Execute
    PROVE  /\ worker = "execute" /\ executing \in Commands
           /\ executing' = (IF executing \in Calls THEN executing ELSE Idle)
           /\ executing = "Connect" => library' = "connecting"
           /\ executing = "Pause" => library' = "paused"
           /\ executing = "Resume" => library' = "running"
           /\ executing = "Disconnect" => library' = "exited"
           /\ UNCHANGED <<currState, commandQueue, broadcast>>
  BY DEF IInv, Executing, Execute, Calls

LEMMA ExecuteOrderly == ASSUME IInv, Orderly, Execute PROVE Orderly'
<1>1. CASE Connecting
  BY <1>1, Executed DEF Orderly, Connecting, Calls, Idle, Commands
<1>2. CASE Connected
  <2>1. EndsLast'
    BY <1>2, Executed DEF Connected, EndsLast
  <2>2. CASE executing \in Calls
    BY <1>2, <2>1, <2>2, Executed DEF Orderly, Connected, Calls
  <2>3. CASE executing = "Disconnect"
    BY <1>2, <2>1, <2>3, Executed DEF Orderly, Connected, Calls, Idle
  <2> QED
    BY <1>2, <2>2, <2>3, Executed DEF Connected, Idle, Commands
<1> QED
  BY <1>1, <1>2 DEF Orderly

LEMMA FinishOrderly == ASSUME IInv, Orderly, Finish PROVE Orderly'
<1>1. /\ executing \in Calls /\ executing' = Idle
      /\ UNCHANGED <<commandQueue, broadcast, library>>
      /\ currState' \in {currState, "Paused", "Connected"}
  BY DEF IInv, Executing, Finish
<1>2. Connected
  BY <1>1 DEF Orderly, Connecting, Calls, Idle
<1>3. EndsLast' /\ currState' \in {"Connected", "Paused"}
  BY <1>1, <1>2 DEF Connected, EndsLast
<1>4. library \in {"running", "paused"}
  BY <1>1, <1>2 DEF Connected, Calls, Idle
<1> QED
  BY <1>1, <1>2, <1>3, <1>4 DEF Orderly, Connected

LEMMA ReportOrderly ==
    ASSUME Orderly, NEW outcome \in {"connected", "failed"}, Report(outcome)
    PROVE  Orderly'
<1>1. /\ library = "connecting" /\ broadcast' = outcome
      /\ library' = (IF outcome = "connected" THEN "running" ELSE "exited")
      /\ UNCHANGED <<currState, commandQueue, executing>>
  BY DEF Report, workerVars
<1> QED
  BY <1>1 DEF Orderly, Connecting, Connected

LEMMA NextOrderly == IInv /\ Orderly /\ [Next]_vars => Orderly'
<1> SUFFICES ASSUME IInv, Orderly, [Next]_vars PROVE Orderly'
  OBVIOUS
<1>1. CASE UNCHANGED vars
  BY <1>1, AsideOrderly DEF vars
<1>2. CASE Main \/ \E call \in {"Pause", "Resume"} : Call(call)
  BY <1>2, MainOrderly DEF Calls
<1>3. CASE WorkerLoop \/ WorkerWoken \/ Resumed \/ Polling
  <2>1. UNCHANGED <<currState, commandQueue, executing, broadcast, library>>
    BY <1>3 DEF WorkerLoop, WorkerWoken, Resumed, Polling, PollNavdata, SuspendPolling, workerVars
  <2> QED
    BY <2>1, AsideOrderly
<1>4. CASE Poll \/ Execute \/ Finish
  BY <1>4, PollOrderly, ExecuteOrderly, FinishOrderly
<1>5. CASE Library
  BY <1>5, ReportOrderly DEF Library
<1> QED
  BY <1>1, <1>2, <1>3, <1>4, <1>5 DEF Next, Worker

LEMMA OrderKept == Spec => []Orderly
  BY InitOrderly, NextOrderly, Safety, PTL DEF Spec

\* The calls that reach the library: a command is executed only when the order
\* of use allows it.
LEMMA ExecuteIsAUse ==
    ASSUME IInv, Orderly, Execute
    PROVE  Use!Connect \/ Use!Pause \/ Use!Resume \/ Use!Exit
<1>1. CASE Connecting
  <2>1. executing = "Connect" /\ library = "off"
    BY <1>1, Executed DEF Connecting, Commands, Idle
  <2> QED
    BY <2>1, Executed DEF Use!Connect
<1>2. CASE Connected
  <2>1. executing \in {"Pause", "Resume", "Disconnect"} /\ library \in {"running", "paused"}
        /\ broadcast = "none"
    BY <1>2, Executed DEF Connected, Calls, Idle, Commands
  <2> QED
    BY <2>1, Executed DEF Use!InUse, Use!Pause, Use!Resume, Use!Exit
<1> QED
  BY <1>1, <1>2 DEF Orderly

LEMMA StepIsAUse == IInv /\ Orderly /\ [Next]_vars => [Use!Next]_(Use!callVars)
<1> SUFFICES ASSUME IInv, Orderly, [Next]_vars PROVE Use!Next \/ UNCHANGED <<library, broadcast>>
  BY DEF Use!callVars
<1>1. CASE Execute
  BY <1>1, ExecuteIsAUse DEF Use!Next
<1>2. CASE Library
  <2>1. PICK outcome \in {"connected", "failed"} : Report(outcome)
    BY <1>2 DEF Library
  <2>2. Use!Outcome
    BY <2>1 DEF Report, Use!Outcome
  <2> QED
    BY <2>2 DEF Use!Next
<1>3. CASE Receive
  <2>1. Use!Notice
    BY <1>3 DEF Receive, Use!Notice
  <2> QED
    BY <2>1 DEF Use!Next
<1>4. CASE UNCHANGED vars \/ \E call \in {"Pause", "Resume"} : Call(call)
  BY <1>4 DEF vars, Call
<1>5. CASE Destroy \/ NotifyWorker \/ StopThreads \/ JoinPolling \/ Kill
  BY <1>5 DEF Destroy, NotifyWorker, StopThreads, JoinPolling, Kill
<1>6. CASE WorkerLoop \/ WorkerWoken \/ Poll \/ Finish \/ Resumed
  BY <1>6 DEF WorkerLoop, WorkerWoken, Poll, Finish, Resumed
<1>7. CASE Polling
  BY <1>7 DEF Polling, PollNavdata, SuspendPolling
<1> QED
  BY <1>1, <1>2, <1>3, <1>4, <1>5, <1>6, <1>7 DEF Next, Main, Worker

\* DroneControlService implements the order in which app.c is to be used, up to
\* the kill of the process: no command accepted in an earlier state, however
\* long it waits, pauses, resumes or ends a library that is not in use.
THEOREM LibraryUsedInOrder == Spec => ImplementsLibraryCalls
<1>1. Init => Use!Init
  BY DEF Init, Use!Init
<1> QED
  BY <1>1, StepIsAUse, Safety, OrderKept, PTL DEF Spec, ImplementsLibraryCalls, Use!Spec

-----------------------------------------------------------------------------
\* A worker of DroneControlService that waits while there is a command has
\* still to be notified: the command is added first, and the queue is tested
\* and the wait begun under the lock of the notification.
THEOREM NoNotificationLost == Spec => []NotificationUnderWay
<1>1. Init => NotificationUnderWay
  BY DEF Init, NotificationUnderWay
<1>2. NotificationUnderWay /\ [Next]_vars => NotificationUnderWay'
  <2> SUFFICES ASSUME NotificationUnderWay, [Next]_vars PROVE NotificationUnderWay'
    OBVIOUS
  <2>1. ASSUME NEW call \in {"Pause", "Resume"}, Call(call) PROVE NotificationUnderWay'
    BY <2>1 DEF NotificationUnderWay, Call, Start, workerVars
  <2>2. CASE Destroy
    BY <2>2 DEF NotificationUnderWay, Destroy, Start, workerVars
  <2>3. CASE NotifyWorker
    BY <2>3 DEF NotificationUnderWay, NotifyWorker
  <2>4. CASE StopThreads \/ JoinPolling \/ Kill \/ Receive
    BY <2>4 DEF NotificationUnderWay, StopThreads, JoinPolling, Kill, Receive, workerVars
  <2>5. CASE WorkerLoop \/ WorkerWoken \/ Poll \/ Execute \/ Finish \/ Resumed
    BY <2>5 DEF NotificationUnderWay, WorkerLoop, WorkerWoken, Poll, Execute, Finish, Resumed
  <2>6. CASE Polling \/ Library \/ UNCHANGED vars
    BY <2>6 DEF NotificationUnderWay, Polling, PollNavdata, SuspendPolling, Library, Report,
                workerVars, vars
  <2> QED
    BY <2>1, <2>2, <2>3, <2>4, <2>5, <2>6 DEF Next, Main, Worker
<1> QED
  BY <1>1, <1>2, PTL DEF Spec
=============================================================================
