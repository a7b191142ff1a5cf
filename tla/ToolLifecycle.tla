--------------------------- MODULE ToolLifecycle ---------------------------
(***************************************************************************)
(* Start, pause, resume and end of the native library: app.c, the start    *)
(* and shutdown of ardrone_tool.c, the loops of the video, navdata and     *)
(* Academy threads as far as they wait, and the table of threads of        *)
(* vp_os_thread.c.                                                         *)
(*                                                                         *)
(* Two threads run these procedures: app_main, which starts the others and *)
(* shuts the library down when its loop ends, and the worker thread of the *)
(* Android service, which pauses, resumes and ends the library (see        *)
(* DroneService).  A procedure is a sequence of steps.                     *)
(***************************************************************************)
EXTENDS Integers, Sequences

CONSTANT VideoThreads   \* the threads app_main starts for video, in order:
                        \* video_stage, and video_recorder with a second drone

CONSTANT AcademyThreads \* the threads ardrone_tool_init starts for the Academy, in
                        \* order: all three in the program, the first alone to
                        \* bound an instance

ASSUME VideoAssumption ==
    VideoThreads \in {<<"video_stage">>, <<"video_stage", "video_recorder">>}
ASSUME AcademyAssumption ==
    AcademyThreads \in {<<"academy_download">>,
                        <<"academy_download", "academy", "academy_upload">>}

Video == {VideoThreads[i] : i \in DOMAIN VideoThreads}
Academy == {AcademyThreads[i] : i \in DOMAIN AcademyThreads}
Pausable == Video \cup {"navdata_update"}       \* threads the application pauses
Sleepers == Pausable \cup Academy               \* threads that wait for a condition
Threads == Sleepers \cup {"ardrone_control"}
Callers == {"app_main", "worker"}

Step(op, thread) == [op |-> op, thread |-> thread]
For(op, threads) == [i \in DOMAIN threads |-> Step(op, threads[i])]

\* ardrone_tool_shutdown, called by both.
Shutdown == <<Step("stop", "navdata_update"), Step("signal", "navdata_update"),
              Step("stop", "ardrone_control"),
              Step("join", "ardrone_control"), Step("join", "navdata_update"),
              Step("close", "none")>>
               \o For("shutdown", AcademyThreads)

\* Mutant: the thread is not awaited.
EndingUnawaited(t) == <<Step("stop", t), Step("signal", t)>>

\* What academy_download_shutdown, academy_shutdown and academy_upload_shutdown
\* do for a thread that has not been told to end yet.
Ending(t) == <<Step("stop", t),
               Step(IF t = "academy_download" THEN "resume" ELSE "signal", t),
               Step("join", t)>>

\* app_main: up to the loop, and after it.
StartUp == For("start", VideoThreads)
               \o <<Step("start", "navdata_update"), Step("start", "ardrone_control")>>
               \o For("start", AcademyThreads) \o <<Step("connected", "none")>>
TearDown == For("join", VideoThreads) \o Shutdown \o <<Step("disconnected", "none")>>

\* Mutant: the video goes on.
PauseOnlyNavdata == <<Step("suspend", "navdata_update")>>

\* parrot_ardrone_notify_pause, _resume and _exit.
Pause == For("suspend", VideoThreads) \o <<Step("suspend", "navdata_update")>>
Resume == For("resume", VideoThreads) \o <<Step("resume", "navdata_update")>>
Exit == Pause \o <<Step("exit", "none")>> \o Shutdown

VARIABLES
    program,       \* the steps each caller has to do
    updating,      \* app_main is in its loop
    connection,    \* the last message to the application
    requested,     \* the last call the worker began
    thread,        \* where each thread is
    in_pause,      \* the thread is to wait: its pause flag; for academy, memory
                   \* is not to be checked; for academy_upload, not connected
    lost,          \* who waits for a mutex that has been destroyed
    bContinue,     \* of app.c; ardrone_tool_exit() is its negation
    stopped,       \* threads whose own bContinue, or academy_started, is FALSE
    table,         \* threads started and not joined yet
    thread_mutex,  \* who holds the mutex of the table
    codec          \* the AT codec library can be used

appVars == <<program, updating, connection, requested>>
threadVars == <<thread, in_pause, lost>>
tableVars == <<table, thread_mutex>>
endVars == <<bContinue, stopped, codec>>
vars == <<appVars, threadVars, tableVars, endVars>>

Init == /\ program = [c \in Callers |-> IF c = "app_main" THEN StartUp ELSE <<>>]
        /\ updating = FALSE
        /\ connection = "none"
        /\ requested = "none"
        /\ thread = [t \in Threads |-> "none"]
        /\ in_pause = [t \in Threads |-> t \in Pausable \cup {"academy_upload"}]
        /\ lost = {}
        /\ bContinue = TRUE
        /\ stopped = {}
        /\ table = {}
        /\ thread_mutex = "free"
        /\ codec = TRUE

-----------------------------------------------------------------------------
(* The procedures.                                                         *)

\* Caller c does the step op for thread t.
Do(c, op, t) == /\ program[c] # <<>> /\ c \notin lost
                /\ Head(program[c]) = Step(op, t)
                /\ program' = [program EXCEPT ![c] = Tail(@)]

\* vp_os_thread_create
Start(c, t) == /\ thread_mutex = "free"
               /\ Do(c, "start", t)
               /\ thread' = [thread EXCEPT ![t] = "start"]
               /\ table' = table \cup {t}
               /\ UNCHANGED <<updating, connection, requested, in_pause, lost, thread_mutex>>
               /\ UNCHANGED endVars

\* The application learns that it is connected, and app_main begins its loop.
Connected == /\ Do("app_main", "connected", "none")
             /\ connection' = "connected"
             /\ updating' = TRUE
             /\ UNCHANGED requested
             /\ UNCHANGED threadVars /\ UNCHANGED tableVars /\ UNCHANGED endVars

\* The loop of app_main ends when bContinue is FALSE.
EndLoop == /\ updating /\ ~bContinue
           /\ updating' = FALSE
           /\ program' = [program EXCEPT !["app_main"] = TearDown]
           /\ UNCHANGED <<connection, requested>>
           /\ UNCHANGED threadVars /\ UNCHANGED tableVars /\ UNCHANGED endVars

Disconnected == /\ Do("app_main", "disconnected", "none")
                /\ connection' = "disconnected"
                /\ UNCHANGED <<updating, requested>>
                /\ UNCHANGED threadVars /\ UNCHANGED tableVars /\ UNCHANGED endVars

\* video_stage_suspend_thread and the like
Suspend(c, t) == /\ Do(c, "suspend", t)
                 /\ in_pause' = [in_pause EXCEPT ![t] = TRUE]
                 /\ UNCHANGED <<updating, connection, requested, thread, lost>>
                 /\ UNCHANGED tableVars /\ UNCHANGED endVars

\* The condition of thread t is signalled: only a thread that waits notices.
Signalled(t) == thread' = [thread EXCEPT ![t] = IF @ = "blocked" THEN "body" ELSE @]

\* video_stage_resume_thread, academy_download_resume and the like
ResumeThread(c, t) == /\ Do(c, "resume", t)
                      /\ Signalled(t)
                      /\ in_pause' = [in_pause EXCEPT ![t] = FALSE]
                      /\ UNCHANGED <<updating, connection, requested, lost>>
                      /\ UNCHANGED tableVars /\ UNCHANGED endVars

\* academy_download destroys its mutex when it ends.  What a later lock of it
\* does is undefined: the caller goes on (ResumeThread), or waits for ever.
Destroyed(t) == t = "academy_download" /\ thread[t] = "ended"
LockDestroyed(c, t) == /\ program[c] # <<>> /\ Head(program[c]) = Step("resume", t)
                       /\ Destroyed(t)
                       /\ lost' = lost \cup {c}
                       /\ UNCHANGED <<thread, in_pause>>
                       /\ UNCHANGED appVars /\ UNCHANGED tableVars /\ UNCHANGED endVars

\* bContinue = FALSE in parrot_ardrone_notify_exit
ExitFlag(c) == /\ Do(c, "exit", "none")
               /\ bContinue' = FALSE
               /\ UNCHANGED <<updating, connection, requested, stopped, codec>>
               /\ UNCHANGED threadVars /\ UNCHANGED tableVars

\* ardrone_navdata_client_shutdown and ardrone_control_shutdown: the flag, and
\* the signal to the navdata thread.  The control thread ends once its flag is
\* set (ThreadStops of ControlSystem).
Stop(c, t) == /\ Do(c, "stop", t)
              /\ stopped' = stopped \cup {t}
              /\ UNCHANGED <<updating, connection, requested, bContinue, codec>>
              /\ UNCHANGED threadVars /\ UNCHANGED tableVars

Signal(c, t) == /\ Do(c, "signal", t)
                /\ Signalled(t)
                /\ UNCHANGED <<updating, connection, requested, in_pause, lost>>
                /\ UNCHANGED tableVars /\ UNCHANGED endVars

\* academy_download_shutdown and the like: a thread that has been told to end is
\* left to the caller that told it.
ShutdownAcademy(c, t) ==
    /\ program[c] # <<>> /\ Head(program[c]) = Step("shutdown", t)
    /\ program' = [program EXCEPT ![c] =
                     (IF t \in stopped THEN <<>> ELSE Ending(t)) \o Tail(@)]
    /\ UNCHANGED <<updating, connection, requested>>
    /\ UNCHANGED threadVars /\ UNCHANGED tableVars /\ UNCHANGED endVars

\* Mutants of vp_os_thread_join: the mutex is not held while the thread is
\* awaited; it is not given back.
JoinBeginsUnlocked(c, t) ==
    /\ thread_mutex = "free"
    /\ IF t \in table
       THEN /\ program[c] # <<>> /\ Head(program[c]) = Step("join", t)
            /\ table' = table \ {t}
            /\ UNCHANGED <<program, thread_mutex>>
       ELSE Do(c, "join", t) /\ UNCHANGED tableVars
    /\ UNCHANGED <<updating, connection, requested>>
    /\ UNCHANGED threadVars /\ UNCHANGED endVars

JoinEndsKeepsMutex(c, t) ==
    /\ thread_mutex = c
    /\ Do(c, "join", t)
    /\ thread[t] = "ended"
    /\ UNCHANGED <<updating, connection, requested>>
    /\ UNCHANGED threadVars /\ UNCHANGED tableVars /\ UNCHANGED endVars

\* vp_os_thread_join: with the mutex the thread is taken out of the table; a
\* thread that is not in the table is not awaited.
JoinBegins(c, t) ==
    /\ thread_mutex = "free"
    /\ IF t \in table
       THEN /\ program[c] # <<>> /\ Head(program[c]) = Step("join", t)
            /\ table' = table \ {t}
            /\ thread_mutex' = c
            /\ UNCHANGED program
       ELSE Do(c, "join", t) /\ UNCHANGED tableVars
    /\ UNCHANGED <<updating, connection, requested>>
    /\ UNCHANGED threadVars /\ UNCHANGED endVars

\* The thread has ended, and the mutex is given back.
JoinEnds(c, t) == /\ thread_mutex = c
                  /\ Do(c, "join", t)
                  /\ thread[t] = "ended"
                  /\ thread_mutex' = "free"
                  /\ UNCHANGED <<updating, connection, requested, table>>
                  /\ UNCHANGED threadVars /\ UNCHANGED endVars

\* ATcodec_Shutdown_Library
CloseCodec(c) == /\ Do(c, "close", "none")
                 /\ codec' = FALSE
                 /\ UNCHANGED <<updating, connection, requested, bContinue, stopped>>
                 /\ UNCHANGED threadVars /\ UNCHANGED tableVars

\* The worker begins a call once the application is connected; an exit comes
\* after a resume (DisconnectCommand), and is the last call.
Call(name) ==
    /\ connection = "connected"
    /\ program["worker"] = <<>>
    /\ requested # "exit"
    /\ requested' = name
    /\ program' = [program EXCEPT !["worker"] =
                     CASE name = "pause" -> Pause
                       [] name = "resume" -> Resume
                       [] name = "exit" -> Resume \o Exit]
    /\ UNCHANGED <<updating, connection>>
    /\ UNCHANGED threadVars /\ UNCHANGED tableVars /\ UNCHANGED endVars

-----------------------------------------------------------------------------
(* The loops of the threads.                                               *)

Told(t) == ~bContinue \/ t \in stopped

\* What a thread does next, when opening its pipeline or its socket, or
\* running it, may fail and end the thread.
Succeeds(t, next) == \E end \in {next} \cup (IF t \in Pausable THEN {"ended"} ELSE {}) :
                        thread' = [thread EXCEPT ![t] = end]

\* A thread begins; the navdata thread forgets a suspension asked for before.
\* academy_download tests the end only after its first round (do ... while),
\* for which it is not paused.
Begin(t) == /\ thread[t] = "start"
            /\ Succeeds(t, IF t = "academy_download" THEN "body" ELSE "top")
            /\ in_pause' = IF t = "navdata_update" /\ thread'[t] = "top"
                           THEN [in_pause EXCEPT ![t] = FALSE]
                           ELSE in_pause
            /\ UNCHANGED lost
            /\ UNCHANGED appVars /\ UNCHANGED tableVars /\ UNCHANGED endVars

\* The head of the loop tests the end, then the pause, without the mutex.
Top(t) == /\ thread[t] = "top"
          /\ thread' = [thread EXCEPT ![t] = IF Told(t) THEN "ended"
                                             ELSE IF in_pause[t] THEN "pausing" ELSE "body"]
          /\ UNCHANGED <<in_pause, lost>>
          /\ UNCHANGED appVars /\ UNCHANGED tableVars /\ UNCHANGED endVars

\* The thread waits for its condition once, with no further look at the pause or the end.
Block(t) == /\ thread[t] = "pausing"
            /\ thread' = [thread EXCEPT ![t] = "blocked"]
            /\ UNCHANGED <<in_pause, lost>>
            /\ UNCHANGED appVars /\ UNCHANGED tableVars /\ UNCHANGED endVars

\* A condition variable may wake its thread without a signal.  This is also
\* the signal of academy_check_memory to the thread academy.
SpuriousWakeup(t) == /\ thread[t] = "blocked"
                     /\ thread' = [thread EXCEPT ![t] = "body"]
                     /\ UNCHANGED <<in_pause, lost>>
                     /\ UNCHANGED appVars /\ UNCHANGED tableVars /\ UNCHANGED endVars

\* The pipeline runs, or a packet is read.
Body(t) == /\ thread[t] = "body" /\ t \notin Academy /\ t \notin lost
           /\ Succeeds(t, "top")
           /\ UNCHANGED <<in_pause, lost>>
           /\ UNCHANGED appVars /\ UNCHANGED tableVars /\ UNCHANGED endVars

\* The handler of a packet asks for a download: ardrone_academy_navdata.c, when
\* a recording has ended or the camera is ready.
ResumeDownload == /\ thread["navdata_update"] = "body" /\ "navdata_update" \notin lost
                  /\ \/ /\ Signalled("academy_download")
                        /\ in_pause' = [in_pause EXCEPT !["academy_download"] = FALSE]
                        /\ UNCHANGED lost
                     \/ /\ Destroyed("academy_download")
                        /\ lost' = lost \cup {"navdata_update"}
                        /\ UNCHANGED <<thread, in_pause>>
                  /\ UNCHANGED appVars /\ UNCHANGED tableVars /\ UNCHANGED endVars

\* A thread of the Academy begins a round, after which it is to wait.  The pause
\* flag of academy_download is set before it looks for files, so that a resume
\* meanwhile asks for another round.  The work of the round, a transfer or a
\* search of the memory, lies between this step and Top.
AcademyBody(t) == /\ thread[t] = "body" /\ t \in Academy
                  /\ thread' = [thread EXCEPT ![t] = "top"]
                  /\ in_pause' = [in_pause EXCEPT ![t] = TRUE]
                  /\ UNCHANGED lost
                  /\ UNCHANGED appVars /\ UNCHANGED tableVars /\ UNCHANGED endVars

-----------------------------------------------------------------------------
Run(c) == \/ \E t \in Threads : \/ Start(c, t) \/ Suspend(c, t) \/ ResumeThread(c, t)
                                \/ LockDestroyed(c, t)
                                \/ Stop(c, t) \/ Signal(c, t)
                                \/ JoinBegins(c, t) \/ JoinEnds(c, t)
          \/ \E t \in Academy : ShutdownAcademy(c, t)
          \/ ExitFlag(c) \/ CloseCodec(c)

AppMain == Run("app_main") \/ Connected \/ EndLoop \/ Disconnected
ThreadRuns(t) == Begin(t) \/ Top(t) \/ Block(t) \/ Body(t) \/ AcademyBody(t)

Next == \/ AppMain \/ Run("worker")
        \/ (\E name \in {"pause", "resume", "exit"} : Call(name))
        \/ (\E t \in Threads : ThreadRuns(t) \/ SpuriousWakeup(t))
        \/ ResumeDownload

Spec == Init /\ [][Next]_vars

\* Every thread runs while it is not blocked, a transfer of files and a search of
\* the memory come to an end, and a mutex that is free again and again is obtained.
FairSpec == /\ Spec
            /\ SF_vars(AppMain) /\ SF_vars(Run("worker"))
            /\ \A t \in Threads : WF_vars(ThreadRuns(t))

-----------------------------------------------------------------------------
(* Properties.                                                             *)

TypeOK ==
    /\ \A c \in Callers : \A i \in DOMAIN program[c] : program[c][i].thread \in Threads \cup {"none"}
    /\ updating \in BOOLEAN /\ bContinue \in BOOLEAN /\ codec \in BOOLEAN
    /\ connection \in {"none", "connected", "disconnected"}
    /\ requested \in {"none", "pause", "resume", "exit"}
    /\ thread \in [Threads -> {"none", "start", "top", "pausing", "blocked", "body", "ended"}]
    /\ lost \subseteq Callers \cup {"navdata_update"}
    /\ in_pause \in [Threads -> BOOLEAN]
    /\ stopped \subseteq Threads /\ table \subseteq Threads
    /\ thread_mutex \in Callers \cup {"free"}
    /\ thread_mutex # "free" =>       \* the mutex of the table is held at a join
          /\ program[thread_mutex] # <<>>
          /\ Head(program[thread_mutex]).op = "join"

\* Both threads shut the library down, and only one of them awaits a thread:
\* still the AT codec is closed only after the threads that queue commands
\* have ended.
CodecOutlivesThreads ==
    ~codec => \A t \in {"ardrone_control", "navdata_update"} : thread[t] = "ended"

Awaits(p, t) == \E i \in 1 .. Len(p) : p[i] = Step("join", t)

\* When the application hears that it is disconnected, every thread has ended,
\* also those that app_main does not await because the worker does; except one
\* of the Academy that the worker has told to end, which app_main passes over
\* (academy_download_started is cleared before the thread is awaited): it may
\* still run, and the worker has still to await it.
DisconnectedLast ==
    connection = "disconnected" =>
        \A t \in Threads : \/ thread[t] = "ended"
                           \/ t \in Academy /\ Told(t) /\ Awaits(program["worker"], t)

\* A caller awaits, with the mutex of the table, a thread that waits for a signal.
AwaitsSleeper == \E c \in Callers, t \in Sleepers :
    /\ thread_mutex = c /\ program[c] # <<>>
    /\ Head(program[c]) = Step("join", t) /\ thread[t] = "blocked"


\* A pause stops the video.
Paused(threads) ==
    \A t \in threads :
        (requested = "pause" /\ program["worker"] = <<>>)
            ~> (requested # "pause" \/ thread[t] \in {"blocked", "ended"})
VideoPauses == Paused(Video)

\* DroneControlService.java:244, pause: "Pauses data exchange between ArDrone and
\* the service."
ExchangePauses == Paused(Pausable)

\* DroneProxy.java:54, of DRONE_PROXY_DISCONNECTED_ACTION: "Will be sent in response
\* to {@link doDisconnect()} when drone proxy is disconnected and ARDroneLib is
\* released."
DisconnectAnswered == requested = "exit" ~> connection = "disconnected"
=============================================================================
