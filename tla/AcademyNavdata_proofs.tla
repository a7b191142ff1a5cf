------------------------ MODULE AcademyNavdata_proofs ------------------------
(***************************************************************************)
(* Whatever waits in the navdata of the AR.Drone 2 is served, and the      *)
(* application ends up agreeing with the drone on the userbox, for any     *)
(* number of events in the ring, any buttons, with emergencies or without. *)
(***************************************************************************)
EXTENDS AcademyNavdata, SequenceTheorems, TLAPS

Events == UserboxEvents \cup {"SCREENSHOT", "CODEC"}

\* The parts of TypeOK.
NdType ==
    nd \in [takeoff : {"IDLE", "NEEDED", "WAIT", "CANCELLING"},
            record : {"IDLE", "NEEDED", "WAIT"},
            userbox : {"STARTING", "STARTED", "STOPPING", "STOPPED"},
            screenshot : {"IDLE", "NEEDED", "INPROGRESS"},
            emergency : BOOLEAN, wasEmergency : BOOLEAN,
            isTakeOff : BOOLEAN, internal : BOOLEAN, camera : BOOLEAN]
PadType == pad \in [start : BOOLEAN, select : BOOLEAN]
PacketType == packet \in [emergency : BOOLEAN, feedback : BOOLEAN, camera : BOOLEAN,
                          ready : BOOLEAN, inProgress : BOOLEAN]
AskedType == asked \in [cancelled : BOOLEAN, record : {"start", "stop"}]
PlaceType ==
    /\ recorder \in {"STOPPED", "START_RECORD", "RECORDING", "WAITING_END"}
    /\ pc \in {"idle", "timeout", "takeoff", "emergency", "record", "switch", "screenshot"}
    /\ ui \in {"none", "stop"} \cup Buttons
FlagType == late \in BOOLEAN /\ ending \in BOOLEAN /\ drone \in BOOLEAN

\* The event the control thread is ending is there, and the drone has obeyed it.
EndingObeyed ==
    ending => /\ queue # <<>>
              /\ Head(queue) = "START" => drone
              /\ Head(queue) \in {"STOP", "CANCEL"} => ~drone

\* The last userbox event in the ring decides where the userbox will be, also
\* when a callback has taken an earlier event for it.
LastDecides ==
    \A i \in DOMAIN queue :
        (\A j \in DOMAIN queue : j > i => queue[j] \notin UserboxEvents) =>
            /\ queue[i] = "START" => nd.userbox \in {"STARTING", "STARTED"}
            /\ queue[i] \in {"STOP", "CANCEL"} => nd.userbox \in {"STOPPING", "STOPPED"}

\* The ring and what it promises.
Ring == queue \in Seq(Events) /\ EndingObeyed /\ LastDecides /\ UserboxAgrees

\* The inductive invariant.
IInv == /\ NdType /\ PadType /\ PacketType /\ AskedType /\ PlaceType /\ FlagType
        /\ Ring /\ WaitersServed

-----------------------------------------------------------------------------
(* The ring.                                                               *)

\* A ring with one event more.
LEMMA Extended ==
    ASSUME NEW q \in Seq(Events), NEW e \in Events
    PROVE  /\ q \o <<e>> \in Seq(Events) /\ Len(q \o <<e>>) = Len(q) + 1 /\ Len(q) \in Nat
           /\ \A i \in 1 .. Len(q) : (q \o <<e>>)[i] = q[i]
           /\ (q \o <<e>>)[Len(q) + 1] = e
<1>1. <<e>> \in Seq(Events) /\ Len(<<e>>) = 1 /\ <<e>>[1] = e
  OBVIOUS
<1>2. /\ q \o <<e>> \in Seq(Events) /\ Len(q \o <<e>>) = Len(q) + 1 /\ Len(q) \in Nat
      /\ \A i \in 1 .. Len(q) + 1 : (q \o <<e>>)[i] = IF i <= Len(q) THEN q[i] ELSE <<e>>[i - Len(q)]
  BY <1>1, ConcatProperties
<1> QED
  BY <1>1, <1>2

\* Adding nothing.
LEMMA AddNothing ==
    ASSUME Ring, Add(<<>>)
    PROVE  UNCHANGED queue
  BY ConcatEmptySeq DEF Ring, Add

LEMMA SameRing ==
    ASSUME Ring, UNCHANGED <<queue, ending, drone>>, nd'.userbox = nd.userbox
    PROVE  Ring'
  BY DEF Ring, EndingObeyed, LastDecides, UserboxAgrees

\* A photo or the codec is added: the userbox stays where it is.
LEMMA OtherEvent ==
    ASSUME Ring, NEW e \in {"SCREENSHOT", "CODEC"}, Add(<<e>>), UNCHANGED <<ending, drone>>,
           nd'.userbox = nd.userbox
    PROVE  /\ Ring'
           /\ \A i \in DOMAIN queue : i \in DOMAIN queue' /\ queue'[i] = queue[i]
           /\ \E i \in DOMAIN queue' : queue'[i] = e
<1>1. queue \in Seq(Events) /\ e \in Events /\ e \notin UserboxEvents
  BY DEF Ring, Events, UserboxEvents
<1>2. ~ending /\ queue' = queue \o <<e>>
  BY DEF Add
<1>3. /\ queue' \in Seq(Events) /\ Len(queue') = Len(queue) + 1 /\ Len(queue) \in Nat
      /\ \A i \in 1 .. Len(queue) : queue'[i] = queue[i]
      /\ queue'[Len(queue) + 1] = e
  BY <1>1, <1>2, Extended
<1>4. /\ \A i \in DOMAIN queue : i \in DOMAIN queue' /\ queue'[i] = queue[i]
      /\ \A i \in DOMAIN queue' : i \in DOMAIN queue \/ queue'[i] = e
  BY <1>1, <1>3
<1>5. EndingObeyed'
  BY <1>2 DEF EndingObeyed
<1>6. LastDecides'
  <2> SUFFICES ASSUME NEW i \in DOMAIN queue', queue'[i] \in UserboxEvents,
                      \A j \in DOMAIN queue' : j > i => queue'[j] \notin UserboxEvents
               PROVE  /\ queue'[i] = "START" => nd'.userbox \in {"STARTING", "STARTED"}
                      /\ queue'[i] \in {"STOP", "CANCEL"} => nd'.userbox \in {"STOPPING", "STOPPED"}
    BY DEF LastDecides, UserboxEvents
  <2>1. i \in DOMAIN queue /\ queue'[i] = queue[i]
    BY <1>1, <1>4
  <2>2. \A j \in DOMAIN queue : j > i => queue[j] \notin UserboxEvents
    BY <1>4
  <2> QED
    BY <2>1, <2>2 DEF Ring, LastDecides
<1>7. UserboxAgrees'
  BY <1>4 DEF Ring, UserboxAgrees
<1>8. \E i \in DOMAIN queue' : queue'[i] = e
  BY <1>3
<1> QED
  BY <1>3, <1>4, <1>5, <1>6, <1>7, <1>8 DEF Ring

\* A userbox event is added, and the userbox is on its way.
LEMMA UserboxEvent ==
    ASSUME Ring, NEW e \in UserboxEvents, Add(<<e>>), UNCHANGED <<ending, drone>>,
           nd'.userbox = (IF e = "START" THEN "STARTING" ELSE "STOPPING")
    PROVE  /\ Ring'
           /\ \A i \in DOMAIN queue : i \in DOMAIN queue' /\ queue'[i] = queue[i]
           /\ \E i \in DOMAIN queue' : queue'[i] = e
<1>1. queue \in Seq(Events) /\ e \in Events
  BY DEF Ring, Events
<1>2. ~ending /\ queue' = queue \o <<e>>
  BY DEF Add
<1>3. /\ queue' \in Seq(Events) /\ Len(queue') = Len(queue) + 1 /\ Len(queue) \in Nat
      /\ \A i \in 1 .. Len(queue) : queue'[i] = queue[i]
      /\ queue'[Len(queue) + 1] = e
  BY <1>1, <1>2, Extended
<1>4. \A i \in DOMAIN queue : i \in DOMAIN queue' /\ queue'[i] = queue[i]
  BY <1>1, <1>3
<1>5. EndingObeyed'
  BY <1>2 DEF EndingObeyed
<1>6. Len(queue) + 1 \in DOMAIN queue' /\ \A i \in DOMAIN queue' : i = Len(queue) + 1 \/ Len(queue) + 1 > i
  BY <1>3
<1>7. LastDecides'
  <2> SUFFICES ASSUME NEW i \in DOMAIN queue',
                      \A j \in DOMAIN queue' : j > i => queue'[j] \notin UserboxEvents
               PROVE  /\ queue'[i] = "START" => nd'.userbox \in {"STARTING", "STARTED"}
                      /\ queue'[i] \in {"STOP", "CANCEL"} => nd'.userbox \in {"STOPPING", "STOPPED"}
    BY DEF LastDecides
  <2>1. queue'[i] = e
    BY <1>3, <1>6
  <2> QED
    BY <2>1
<1>8. UserboxAgrees'
  BY <1>3, <1>6 DEF UserboxAgrees
<1>9. \E i \in DOMAIN queue' : queue'[i] = e
  BY <1>3, <1>6
<1> QED
  BY <1>3, <1>4, <1>5, <1>7, <1>8, <1>9 DEF Ring

\* What is waited for stays served by a longer ring.
LEMMA WaitersKept ==
    ASSUME IInv, Ring',
           \A i \in DOMAIN queue : i \in DOMAIN queue' /\ queue'[i] = queue[i],
           nd'.takeoff \in {"WAIT", "CANCELLING"} \/ nd'.record = "WAIT" => Switching(nd'.userbox),
           Switching(nd'.userbox) =>
               Switching(nd.userbox) \/ \E i \in DOMAIN queue' : queue'[i] \in UserboxEvents,
           nd'.screenshot = "INPROGRESS" =>
               nd.screenshot = "INPROGRESS" \/ \E i \in DOMAIN queue' : queue'[i] = "SCREENSHOT"
    PROVE  WaitersServed'
<1>1. queue \in Seq(Events) /\ queue' \in Seq(Events)
  BY DEF IInv, Ring
<1>2. Switching(nd'.userbox) => \E i \in DOMAIN queue' : queue'[i] \in UserboxEvents
  BY DEF IInv, WaitersServed
<1>3. nd'.screenshot = "INPROGRESS" => \E i \in DOMAIN queue' : queue'[i] = "SCREENSHOT"
  BY <1>1 DEF IInv, WaitersServed, Contains
<1>4. nd'.screenshot = "INPROGRESS" => Contains(queue', "SCREENSHOT")
  BY <1>1, <1>3 DEF Contains
<1> QED
  BY <1>2, <1>4 DEF WaitersServed

\* A step that keeps the ring and the userbox, and makes nobody wait.
LEMMA Quiet ==
    ASSUME IInv, UNCHANGED <<queue, ending, drone>>, nd'.userbox = nd.userbox,
           nd'.takeoff \in {"WAIT", "CANCELLING"} => nd'.takeoff = nd.takeoff,
           nd'.record = "WAIT" => nd.record = "WAIT",
           nd'.screenshot = "INPROGRESS" => nd.screenshot = "INPROGRESS"
    PROVE  Ring' /\ WaitersServed'
<1>1. Ring'
  BY SameRing DEF IInv
<1>2. nd'.takeoff \in {"WAIT", "CANCELLING"} \/ nd'.record = "WAIT" => Switching(nd'.userbox)
  BY DEF IInv, WaitersServed, Switching
<1> QED
  BY <1>1, <1>2, WaitersKept

-----------------------------------------------------------------------------
(* The initial states, the buttons and the video thread.                   *)

LEMMA InitIInv == Init => IInv
<1> SUFFICES ASSUME Init PROVE IInv
  OBVIOUS
<1>1. NdType /\ PadType /\ PacketType /\ AskedType /\ PlaceType /\ FlagType
  BY DEF Init, NdType, PadType, PacketType, AskedType, PlaceType, FlagType
<1>2. Ring
  BY DEF Init, Ring, EndingObeyed, LastDecides, UserboxAgrees
<1>3. WaitersServed
  BY DEF Init, WaitersServed, Switching
<1> QED
  BY <1>1, <1>2, <1>3 DEF IInv

LEMMA PressIInv == ASSUME IInv, NEW b \in Buttons, Press(b) PROVE IInv'
<1>1. /\ ui' = b /\ asked' = [asked EXCEPT !.record = IF b = "record"
                                                     THEN IF recorder = "STOPPED" THEN "start" ELSE "stop"
                                                     ELSE @]
      /\ UNCHANGED <<nd, late, pad, recorder, pc, packet, queue, ending, drone>>
  BY DEF Press
<1>2. AskedType'
  BY <1>1 DEF IInv, AskedType
<1>3. PlaceType'
  BY <1>1 DEF IInv, PlaceType
<1>4. NdType' /\ PadType' /\ PacketType' /\ FlagType'
  BY <1>1 DEF IInv, NdType, PadType, PacketType, FlagType
<1>5. Ring' /\ WaitersServed'
  BY <1>1, Quiet
<1> QED
  BY <1>2, <1>3, <1>4, <1>5 DEF IInv

LEMMA SetNeededIInv == IInv /\ SetNeeded => IInv'
<1> SUFFICES ASSUME IInv, SetNeeded PROVE IInv'
  OBVIOUS
<1>1. /\ ui \in Buttons /\ ui \in {"takeoff", "emergency", "record", "photo"}
      /\ ui' \in {"none", "stop"}
      /\ UNCHANGED <<pad, recorder, pc, packet, queue, ending, drone>>
  BY ButtonsAssumption DEF SetNeeded
<1>2. /\ ui = "takeoff"   => nd' = [nd EXCEPT !.takeoff = "NEEDED"]
      /\ ui = "emergency" => nd' = [nd EXCEPT !.emergency = TRUE]
      /\ ui = "record"    => nd' = [nd EXCEPT !.record = "NEEDED"]
      /\ ui = "photo"     => nd' = [nd EXCEPT !.screenshot = "NEEDED"]
  BY DEF SetNeeded
<1>3. NdType'
  BY <1>1, <1>2 DEF IInv, NdType
<1>4. /\ nd'.userbox = nd.userbox
      /\ nd'.takeoff \in {nd.takeoff, "NEEDED"}
      /\ nd'.record \in {nd.record, "NEEDED"}
      /\ nd'.screenshot \in {nd.screenshot, "NEEDED"}
  BY <1>1, <1>2 DEF IInv, NdType
<1>5. Ring' /\ WaitersServed'
  BY <1>1, <1>4, Quiet
<1>6. AskedType'
  <2>1. asked' = [asked EXCEPT !.cancelled = asked.cancelled /\ ui # "takeoff"]
    BY DEF SetNeeded
  <2> QED
    BY <2>1 DEF IInv, AskedType
<1>7. late' \in BOOLEAN
  <2>1. late' = (late /\ ui # "takeoff")
    BY DEF SetNeeded
  <2> QED
    BY <2>1, Zenon
<1>8. PadType' /\ PacketType' /\ PlaceType' /\ FlagType'
  BY <1>1, <1>7 DEF IInv, PadType, PacketType, PlaceType, FlagType
<1> QED
  BY <1>3, <1>5, <1>6, <1>8 DEF IInv

\* The steps of the user interface, of the clock and of the video thread that
\* leave the buttons' states alone.
LEMMA RecorderIInv == IInv /\ (StopRecorder \/ Video \/ TimePasses) => IInv'
<1> SUFFICES ASSUME IInv, StopRecorder \/ Video \/ TimePasses PROVE IInv'
  OBVIOUS
<1>1. /\ recorder' \in {"STOPPED", "START_RECORD", "RECORDING", "WAITING_END"}
      /\ ui' \in {ui, "none"} /\ late' \in {late, TRUE}
      /\ UNCHANGED <<nd, pad, pc, packet, queue, ending, drone, asked>>
  BY DEF IInv, PlaceType, StopRecorder, Video, TimePasses, Stopped
<1>2. NdType' /\ PadType' /\ PacketType' /\ AskedType'
  BY <1>1 DEF IInv, NdType, PadType, PacketType, AskedType
<1>3. PlaceType'
  BY <1>1 DEF IInv, PlaceType
<1>4. FlagType'
  BY <1>1 DEF IInv, FlagType
<1>5. Ring' /\ WaitersServed'
  BY <1>1, Quiet
<1> QED
  BY <1>2, <1>3, <1>4, <1>5 DEF IInv

-----------------------------------------------------------------------------
(* The navdata thread.                                                     *)

LEMMA ReceiveIInv == IInv /\ Receive => IInv'
<1> SUFFICES ASSUME IInv, Receive PROVE IInv'
  OBVIOUS
<1>1. pc' = "timeout" /\ UNCHANGED <<nd, late, pad, recorder, ui, queue, ending, drone, asked>>
  BY DEF Receive
<1>2. PacketType'
  <2>1. PICK emergency \in {FALSE, Emergencies}, feedback \in BOOLEAN, camera \in BOOLEAN :
          packet' = [emergency |-> emergency, feedback |-> feedback, camera |-> camera,
                     ready |-> recorder = "STOPPED",
                     inProgress |-> recorder \notin {"STOPPED", "WAITING_END"}]
    BY DEF Receive
  <2>2. emergency \in BOOLEAN
    BY BoundsAssumption
  <2>3. (recorder = "STOPPED") \in BOOLEAN /\ (recorder \notin {"STOPPED", "WAITING_END"}) \in BOOLEAN
    BY Zenon
  <2> QED
    BY <2>1, <2>2, <2>3 DEF PacketType
<1>3. NdType' /\ PadType' /\ AskedType' /\ PlaceType' /\ FlagType'
  BY <1>1 DEF IInv, NdType, PadType, AskedType, PlaceType, FlagType
<1>4. Ring' /\ WaitersServed'
  BY <1>1, Quiet
<1> QED
  BY <1>2, <1>3, <1>4 DEF IInv

\* A phase of the thread keeps its place, the flags and what it has read.
LEMMA PhaseIInv ==
    ASSUME IInv, NdType', PadType', AskedType', Ring', WaitersServed',
           pc' \in {"idle", "takeoff", "emergency", "record", "switch", "screenshot"},
           recorder' \in {"STOPPED", "START_RECORD", "RECORDING", "WAITING_END"},
           UNCHANGED <<late, packet, ui, ending, drone>>
    PROVE  IInv'
  BY DEF IInv, PacketType, PlaceType, FlagType

\* A cancel makes a take-off that waits for the start wait for the stop.
LEMMA CheckTimeoutIInv == IInv /\ CheckTimeout => IInv'
<1> SUFFICES ASSUME IInv, CheckTimeout PROVE IInv'
  OBVIOUS
<1> DEFINE cancel == late /\ nd.takeoff = "WAIT"
           forget == late /\ nd.takeoff = "NEEDED"
<1>1. /\ nd' = [nd EXCEPT !.takeoff = IF cancel THEN "CANCELLING" ELSE IF forget THEN "IDLE" ELSE @,
                          !.userbox = IF cancel THEN "STOPPING" ELSE @]
      /\ Add(IF cancel THEN <<"CANCEL">> ELSE <<>>)
      /\ asked' = [asked EXCEPT !.cancelled = @ \/ cancel \/ forget]
      /\ pc' = "takeoff"
      /\ UNCHANGED <<late, pad, recorder, packet, ui, ending, drone>>
  BY DEF CheckTimeout
<1>2. NdType'
  BY <1>1 DEF IInv, NdType
<1>3. /\ nd'.takeoff = (IF cancel THEN "CANCELLING" ELSE IF forget THEN "IDLE" ELSE nd.takeoff)
      /\ nd'.userbox = (IF cancel THEN "STOPPING" ELSE nd.userbox)
      /\ nd'.record = nd.record /\ nd'.screenshot = nd.screenshot
  BY <1>1 DEF IInv, NdType
<1>4. AskedType'
  BY <1>1 DEF IInv, AskedType
<1>5. PadType'
  BY <1>1 DEF IInv, PadType
<1>6. Ring' /\ WaitersServed'
  <2>1. CASE cancel
    <3>1. Add(<<"CANCEL">>) /\ "CANCEL" \in UserboxEvents /\ nd'.userbox = "STOPPING"
      BY <1>1, <1>3, <2>1 DEF UserboxEvents
    <3>2. /\ Ring'
          /\ \A i \in DOMAIN queue : i \in DOMAIN queue' /\ queue'[i] = queue[i]
          /\ \E i \in DOMAIN queue' : queue'[i] = "CANCEL"
      BY <1>1, <3>1, UserboxEvent DEF IInv
    <3> QED
      BY <1>3, <3>1, <3>2, WaitersKept DEF Switching
  <2>2. CASE ~cancel
    <3>1. UNCHANGED queue
      BY <1>1, <2>2, AddNothing DEF IInv
    <3> QED
      BY <1>1, <1>3, <2>2, <3>1, Quiet
  <2> QED
    BY <2>1, <2>2
<1>7. recorder' \in {"STOPPED", "START_RECORD", "RECORDING", "WAITING_END"}
  BY <1>1 DEF IInv, PlaceType
<1> QED
  BY <1>1, <1>2, <1>4, <1>5, <1>6, <1>7, PhaseIInv

\* Switching the userbox: whoever waits afterwards is served.
LEMMA SwitchServes ==
    ASSUME IInv, nd'.userbox = Switched(nd.userbox), Add(SwitchEvents(nd.userbox)),
           UNCHANGED <<ending, drone>>, nd'.screenshot = nd.screenshot
    PROVE  Ring' /\ WaitersServed'
<1>1. nd.userbox \in {"STARTING", "STARTED", "STOPPING", "STOPPED"}
  BY DEF IInv, NdType
<1>2. CASE nd.userbox = "STOPPED"
  <2>1. Add(<<"START">>) /\ "START" \in UserboxEvents /\ nd'.userbox = "STARTING"
    BY <1>2 DEF SwitchEvents, Switched, UserboxEvents
  <2>2. /\ Ring'
        /\ \A i \in DOMAIN queue : i \in DOMAIN queue' /\ queue'[i] = queue[i]
        /\ \E i \in DOMAIN queue' : queue'[i] = "START"
    BY <2>1, UserboxEvent DEF IInv
  <2> QED
    BY <2>1, <2>2, WaitersKept DEF Switching
<1>3. CASE nd.userbox = "STARTED"
  <2>1. Add(<<"STOP">>) /\ "STOP" \in UserboxEvents /\ nd'.userbox = "STOPPING"
    BY <1>3 DEF SwitchEvents, Switched, UserboxEvents
  <2>2. /\ Ring'
        /\ \A i \in DOMAIN queue : i \in DOMAIN queue' /\ queue'[i] = queue[i]
        /\ \E i \in DOMAIN queue' : queue'[i] = "STOP"
    BY <2>1, UserboxEvent DEF IInv
  <2> QED
    BY <2>1, <2>2, WaitersKept DEF Switching
<1>4. CASE nd.userbox \in {"STARTING", "STOPPING"}
  <2>1. Add(<<>>) /\ nd'.userbox = nd.userbox
    BY <1>4 DEF SwitchEvents, Switched
  <2>2. UNCHANGED queue
    BY <2>1, AddNothing DEF IInv
  <2>3. Ring'
    BY <2>1, <2>2, SameRing DEF IInv
  <2> QED
    BY <1>4, <2>1, <2>2, <2>3, WaitersKept DEF Switching
<1> QED
  BY <1>1, <1>2, <1>3, <1>4

LEMMA SwitchedType ==
    \A u \in {"STARTING", "STARTED", "STOPPING", "STOPPED"} :
        Switched(u) \in {"STARTING", "STARTED", "STOPPING", "STOPPED"}
  BY DEF Switched

LEMMA TakeOffIInv == IInv /\ TakeOff => IInv'
<1> SUFFICES ASSUME IInv, TakeOff PROVE IInv'
  OBVIOUS
<1> DEFINE needed == nd.takeoff = "NEEDED"
           direct == needed /\ ~packet.emergency /\ packet.inProgress
           switch == needed /\ ~packet.emergency /\ ~packet.inProgress
<1>1. /\ nd' = [nd EXCEPT !.emergency = @ \/ (needed /\ packet.emergency),
                          !.takeoff = IF direct THEN "IDLE" ELSE IF switch THEN "WAIT" ELSE @,
                          !.userbox = IF switch THEN Switched(@) ELSE @]
      /\ pad' = [pad EXCEPT !.start = IF direct THEN ~packet.feedback ELSE @]
      /\ Add(IF switch THEN SwitchEvents(nd.userbox) ELSE <<>>)
      /\ pc' = "emergency"
      /\ UNCHANGED <<late, recorder, packet, ui, ending, drone, asked>>
  BY DEF TakeOff
<1>2. /\ nd.userbox \in {"STARTING", "STARTED", "STOPPING", "STOPPED"}
      /\ Switched(nd.userbox) \in {"STARTING", "STARTED", "STOPPING", "STOPPED"}
  BY SwitchedType DEF IInv, NdType
<1>3. NdType'
  BY <1>1, <1>2 DEF IInv, NdType
<1>4. /\ nd'.takeoff = (IF direct THEN "IDLE" ELSE IF switch THEN "WAIT" ELSE nd.takeoff)
      /\ nd'.userbox = (IF switch THEN Switched(nd.userbox) ELSE nd.userbox)
      /\ nd'.record = nd.record /\ nd'.screenshot = nd.screenshot
  BY <1>1 DEF IInv, NdType
<1>5. PadType'
  BY <1>1 DEF IInv, PadType
<1>6. AskedType'
  BY <1>1 DEF IInv, AskedType
<1>7. Ring' /\ WaitersServed'
  <2>1. CASE switch
    <3>1. nd'.userbox = Switched(nd.userbox) /\ Add(SwitchEvents(nd.userbox))
      BY <1>1, <1>4, <2>1
    <3> QED
      BY <1>1, <1>4, <3>1, SwitchServes
  <2>2. CASE ~switch
    <3>1. UNCHANGED queue
      BY <1>1, <2>2, AddNothing DEF IInv
    <3> QED
      BY <1>1, <1>4, <2>2, <3>1, Quiet
  <2> QED
    BY <2>1, <2>2
<1>8. recorder' \in {"STOPPED", "START_RECORD", "RECORDING", "WAITING_END"}
  BY <1>1 DEF IInv, PlaceType
<1> QED
  BY <1>1, <1>3, <1>5, <1>6, <1>7, <1>8, PhaseIInv

LEMMA EmergencyIInv == IInv /\ Emergency => IInv'
<1> SUFFICES ASSUME IInv, Emergency PROVE IInv'
  OBVIOUS
<1> DEFINE changed == packet.emergency # nd.wasEmergency
           switch == packet.emergency /\ ~nd.internal /\ nd.userbox = "STARTED"
           takeOff == ~packet.emergency /\ pad.start /\ packet.feedback
<1>1. /\ pad' = [start |-> pad.start /\ ~packet.emergency,
                 select |-> (pad.select \/ nd.emergency) /\ ~changed]
      /\ nd' = [nd EXCEPT !.emergency = FALSE, !.wasEmergency = packet.emergency,
                          !.isTakeOff = takeOff,
                          !.userbox = IF switch THEN Switched(@) ELSE @]
      /\ Add(IF switch THEN SwitchEvents(nd.userbox) ELSE <<>>)
      /\ pc' = "record"
      /\ UNCHANGED <<late, recorder, packet, ui, ending, drone, asked>>
  BY DEF Emergency
<1>2. /\ nd.userbox \in {"STARTING", "STARTED", "STOPPING", "STOPPED"}
      /\ Switched(nd.userbox) \in {"STARTING", "STARTED", "STOPPING", "STOPPED"}
  BY SwitchedType DEF IInv, NdType
<1>3. takeOff \in BOOLEAN /\ packet.emergency \in BOOLEAN
  BY DEF IInv, PacketType
<1>4. NdType'
  <2> HIDE DEF switch, takeOff
  <2> QED
    BY <1>1, <1>2, <1>3 DEF IInv, NdType
<1>5. /\ nd'.userbox = (IF switch THEN Switched(nd.userbox) ELSE nd.userbox)
      /\ nd'.takeoff = nd.takeoff /\ nd'.record = nd.record /\ nd'.screenshot = nd.screenshot
  <2> HIDE DEF switch, takeOff
  <2> QED
    BY <1>1 DEF IInv, NdType
<1>6. PadType'
  <2>1. (pad.start /\ ~packet.emergency) \in BOOLEAN
        /\ ((pad.select \/ nd.emergency) /\ ~changed) \in BOOLEAN
    BY Zenon
  <2> QED
    BY <1>1, <2>1 DEF PadType
<1>7. AskedType'
  BY <1>1 DEF IInv, AskedType
<1>8. Ring' /\ WaitersServed'
  <2>1. CASE switch
    <3>1. nd'.userbox = Switched(nd.userbox) /\ Add(SwitchEvents(nd.userbox))
      BY <1>1, <1>5, <2>1
    <3> QED
      BY <1>1, <1>5, <3>1, SwitchServes
  <2>2. CASE ~switch
    <3>1. UNCHANGED queue
      BY <1>1, <2>2, AddNothing DEF IInv
    <3> QED
      BY <1>1, <1>5, <2>2, <3>1, Quiet
  <2> QED
    BY <2>1, <2>2
<1>9. recorder' \in {"STOPPED", "START_RECORD", "RECORDING", "WAITING_END"}
  BY <1>1 DEF IInv, PlaceType
<1> QED
  BY <1>1, <1>4, <1>6, <1>7, <1>8, <1>9, PhaseIInv

LEMMA RecordIInv == IInv /\ Record => IInv'
<1> SUFFICES ASSUME IInv, Record PROVE IInv'
  OBVIOUS
<1> DEFINE due == nd.record = "NEEDED" /\ nd.takeoff = "IDLE"
<1>1. PICK refused \in {FALSE, CodecRefused} :
        /\ Add(IF due /\ ~refused THEN <<"CODEC">> ELSE <<>>)
        /\ nd' = [nd EXCEPT !.internal = IF due /\ ~refused THEN packet.ready /\ ~@ ELSE @]
        /\ pc' = IF due /\ ~refused THEN "switch" ELSE "screenshot"
  BY DEF Record
<1>2. UNCHANGED <<late, pad, recorder, packet, ui, ending, drone, asked>>
  BY DEF Record
<1>3. NdType'
  <2>1. (packet.ready /\ ~nd.internal) \in BOOLEAN
    BY Zenon
  <2> HIDE DEF due
  <2> QED
    BY <1>1, <2>1 DEF IInv, NdType
<1>4. /\ nd'.userbox = nd.userbox /\ nd'.takeoff = nd.takeoff
      /\ nd'.record = nd.record /\ nd'.screenshot = nd.screenshot
  BY <1>1 DEF IInv, NdType
<1>5. PadType' /\ AskedType'
  BY <1>2 DEF IInv, PadType, AskedType
<1>6. Ring' /\ WaitersServed'
  <2>1. CASE due /\ ~refused
    <3>1. Add(<<"CODEC">>)
      BY <1>1, <2>1
    <3>2. /\ Ring'
          /\ \A i \in DOMAIN queue : i \in DOMAIN queue' /\ queue'[i] = queue[i]
      BY <1>2, <1>4, <3>1, OtherEvent DEF IInv
    <3> QED
      BY <1>4, <3>2, WaitersKept DEF IInv, WaitersServed
  <2>2. CASE ~(due /\ ~refused)
    <3>1. UNCHANGED queue
      BY <1>1, <2>2, AddNothing DEF IInv
    <3> QED
      BY <1>2, <1>4, <3>1, Quiet
  <2> QED
    BY <2>1, <2>2
<1>7. recorder' \in {"STOPPED", "START_RECORD", "RECORDING", "WAITING_END"}
  BY <1>2 DEF IInv, PlaceType
<1>8. pc' \in {"switch", "screenshot"}
  BY <1>1
<1> QED
  BY <1>2, <1>3, <1>5, <1>6, <1>7, <1>8, PhaseIInv

LEMMA SwitchRecordIInv == IInv /\ SwitchRecord => IInv'
<1> SUFFICES ASSUME IInv, SwitchRecord PROVE IInv'
  OBVIOUS
<1> DEFINE flying == nd.userbox = "STARTED" /\ nd.isTakeOff
           switch == nd.userbox \in {"STARTED", "STOPPED"} /\ ~flying
<1>1. /\ nd' = [nd EXCEPT !.record = IF flying THEN "IDLE" ELSE IF nd.userbox = "STOPPING" THEN @
                                     ELSE "WAIT",
                          !.userbox = IF switch THEN Switched(@) ELSE @]
      /\ Add(IF switch THEN SwitchEvents(nd.userbox) ELSE <<>>)
      /\ recorder' = IF flying /\ packet.ready THEN Started(recorder) ELSE recorder
      /\ pc' = "screenshot"
      /\ UNCHANGED <<late, pad, packet, ui, ending, drone, asked>>
  BY DEF SwitchRecord
<1>2. /\ nd.userbox \in {"STARTING", "STARTED", "STOPPING", "STOPPED"}
      /\ Switched(nd.userbox) \in {"STARTING", "STARTED", "STOPPING", "STOPPED"}
  BY SwitchedType DEF IInv, NdType
<1>3. NdType'
  BY <1>1, <1>2 DEF IInv, NdType
<1>4. /\ nd'.record = (IF flying THEN "IDLE" ELSE IF nd.userbox = "STOPPING" THEN nd.record ELSE "WAIT")
      /\ nd'.userbox = (IF switch THEN Switched(nd.userbox) ELSE nd.userbox)
      /\ nd'.takeoff = nd.takeoff /\ nd'.screenshot = nd.screenshot
  BY <1>1 DEF IInv, NdType
<1>5. PadType' /\ AskedType'
  BY <1>1 DEF IInv, PadType, AskedType
<1>6. Ring' /\ WaitersServed'
  <2>1. CASE switch
    <3>1. nd'.userbox = Switched(nd.userbox) /\ Add(SwitchEvents(nd.userbox))
      BY <1>1, <1>4, <2>1
    <3> QED
      BY <1>1, <1>4, <3>1, SwitchServes
  <2>2. CASE ~switch
    <3>1. UNCHANGED queue /\ nd'.userbox = nd.userbox
      BY <1>1, <1>4, <2>2, AddNothing DEF IInv
    <3>2. Ring'
      BY <1>1, <3>1, SameRing DEF IInv
    <3>3. nd'.takeoff \in {"WAIT", "CANCELLING"} \/ nd'.record = "WAIT" => Switching(nd'.userbox)
      BY <1>2, <1>4, <2>2 DEF IInv, WaitersServed, Switching
    <3> QED
      BY <1>4, <3>1, <3>2, <3>3, WaitersKept
  <2> QED
    BY <2>1, <2>2
<1>7. recorder' \in {"STOPPED", "START_RECORD", "RECORDING", "WAITING_END"}
  BY <1>1 DEF IInv, PlaceType, Started
<1> QED
  BY <1>1, <1>3, <1>5, <1>6, <1>7, PhaseIInv

LEMMA ScreenshotIInv == IInv /\ Screenshot => IInv'
<1> SUFFICES ASSUME IInv, Screenshot PROVE IInv'
  OBVIOUS
<1> DEFINE take == nd.screenshot = "NEEDED" /\ packet.camera
<1>1. /\ nd' = [nd EXCEPT !.camera = packet.camera, !.screenshot = IF take THEN "INPROGRESS" ELSE @]
      /\ Add(IF take THEN <<"SCREENSHOT">> ELSE <<>>)
      /\ pc' = "idle"
      /\ UNCHANGED <<late, pad, recorder, packet, ui, ending, drone, asked>>
  BY DEF Screenshot
<1>2. NdType'
  BY <1>1 DEF IInv, NdType, PacketType
<1>3. /\ nd'.userbox = nd.userbox /\ nd'.takeoff = nd.takeoff /\ nd'.record = nd.record
      /\ nd'.screenshot = (IF take THEN "INPROGRESS" ELSE nd.screenshot)
  BY <1>1 DEF IInv, NdType
<1>4. PadType' /\ AskedType'
  BY <1>1 DEF IInv, PadType, AskedType
<1>5. Ring' /\ WaitersServed'
  <2>1. CASE take
    <3>1. Add(<<"SCREENSHOT">>)
      BY <1>1, <2>1
    <3>2. /\ Ring'
          /\ \A i \in DOMAIN queue : i \in DOMAIN queue' /\ queue'[i] = queue[i]
          /\ \E i \in DOMAIN queue' : queue'[i] = "SCREENSHOT"
      BY <1>1, <1>3, <3>1, OtherEvent DEF IInv
    <3> QED
      BY <1>3, <3>2, WaitersKept DEF IInv, WaitersServed
  <2>2. CASE ~take
    <3>1. UNCHANGED queue
      BY <1>1, <2>2, AddNothing DEF IInv
    <3> QED
      BY <1>1, <1>3, <2>2, <3>1, Quiet
  <2> QED
    BY <2>1, <2>2
<1>6. recorder' \in {"STOPPED", "START_RECORD", "RECORDING", "WAITING_END"}
  BY <1>1 DEF IInv, PlaceType
<1> QED
  BY <1>1, <1>2, <1>4, <1>5, <1>6, PhaseIInv

-----------------------------------------------------------------------------
(* The control thread.                                                     *)

LEMMA EndBeginsIInv == IInv /\ EndBegins => IInv'
<1> SUFFICES ASSUME IInv, EndBegins PROVE IInv'
  OBVIOUS
<1>1. /\ queue # <<>> /\ ending' = TRUE
      /\ UNCHANGED <<nd, late, pad, recorder, pc, packet, ui, queue, asked>>
  BY DEF EndBegins
<1>2. /\ Head(queue) = "START" => drone' = TRUE
      /\ Head(queue) \in {"STOP", "CANCEL"} => drone' = FALSE
      /\ Head(queue) \notin UserboxEvents => drone' = drone
  BY DEF EndBegins, UserboxEvents
<1>3. Head(queue) \in Events /\ Head(queue) = queue[1] /\ 1 \in DOMAIN queue
  BY <1>1 DEF IInv, Ring
<1>4. drone' \in BOOLEAN
  BY <1>2, <1>3 DEF IInv, FlagType, Events, UserboxEvents
<1>5. NdType' /\ PadType' /\ PacketType' /\ AskedType' /\ PlaceType'
  BY <1>1 DEF IInv, NdType, PadType, PacketType, AskedType, PlaceType
<1>6. FlagType'
  BY <1>1, <1>4 DEF IInv, FlagType
<1>7. EndingObeyed' /\ LastDecides' /\ queue' \in Seq(Events)
  BY <1>1, <1>2 DEF IInv, Ring, EndingObeyed, LastDecides
<1>8. UserboxAgrees'
  <2>1. CASE Head(queue) \in UserboxEvents
    BY <1>1, <1>3, <2>1 DEF UserboxAgrees
  <2>2. CASE Head(queue) \notin UserboxEvents
    BY <1>1, <1>2, <2>2 DEF IInv, Ring, UserboxAgrees
  <2> QED
    BY <2>1, <2>2
<1>9. WaitersServed'
  BY <1>1 DEF IInv, WaitersServed
<1> QED
  BY <1>5, <1>6, <1>7, <1>8, <1>9 DEF IInv, Ring

\* The events but the first one.
LEMMA TailOfRing ==
    ASSUME NEW q \in Seq(Events), q # <<>>
    PROVE  /\ Tail(q) \in Seq(Events) /\ Head(q) = q[1] /\ 1 \in DOMAIN q
           /\ \A i \in DOMAIN Tail(q) : i + 1 \in DOMAIN q /\ Tail(q)[i] = q[i + 1] /\ i \in Nat
           /\ \A i \in DOMAIN q : i # 1 => i - 1 \in DOMAIN Tail(q) /\ Tail(q)[i - 1] = q[i]
           /\ \A i \in DOMAIN q : i \in Nat
<1>1. /\ Tail(q) \in Seq(Events) /\ Len(Tail(q)) = Len(q) - 1
      /\ \A j \in 1 .. Len(Tail(q)) : Tail(q)[j] = q[j + 1]
      /\ Len(q) \in Nat /\ Len(q) >= 1
  BY HeadTailProperties
<1>2. ASSUME NEW i \in DOMAIN Tail(q)
      PROVE  i + 1 \in DOMAIN q /\ Tail(q)[i] = q[i + 1] /\ i \in Nat
  BY <1>1, <1>2
<1>3. ASSUME NEW i \in DOMAIN q, i # 1
      PROVE  i - 1 \in DOMAIN Tail(q) /\ Tail(q)[i - 1] = q[i]
  <2>1. i - 1 \in 1 .. Len(Tail(q)) /\ (i - 1) + 1 = i
    BY <1>1, <1>3
  <2> QED
    BY <1>1, <2>1
<1>4. 1 \in DOMAIN q /\ \A i \in DOMAIN q : i \in Nat
  BY <1>1
<1> QED
  BY <1>1, <1>2, <1>3, <1>4

\* What the first callback leaves: where the userbox will be is still decided by
\* the last event, and after the last event it is there.
LEMMA RingAfter ==
    ASSUME IInv, ending, queue' = Tail(queue), ending' = FALSE, UNCHANGED drone,
           nd'.userbox = (IF Head(queue) \notin UserboxEvents THEN nd.userbox
                          ELSE IF nd.userbox = "STARTING" THEN "STARTED"
                          ELSE IF nd.userbox = "STOPPING" THEN "STOPPED" ELSE nd.userbox)
    PROVE  /\ Ring'
           /\ \A i \in DOMAIN queue : i # 1 => i - 1 \in DOMAIN queue' /\ queue'[i - 1] = queue[i]
<1>1. queue \in Seq(Events) /\ queue # <<>>
  BY DEF IInv, Ring, EndingObeyed
<1>2. /\ queue' \in Seq(Events) /\ Head(queue) = queue[1] /\ 1 \in DOMAIN queue
      /\ \A i \in DOMAIN queue' : i + 1 \in DOMAIN queue /\ queue'[i] = queue[i + 1] /\ i \in Nat
      /\ \A i \in DOMAIN queue : i # 1 => i - 1 \in DOMAIN queue' /\ queue'[i - 1] = queue[i]
      /\ \A i \in DOMAIN queue : i \in Nat
  BY <1>1, TailOfRing
<1>3. /\ nd.userbox \in {"STARTING", "STARTED", "STOPPING", "STOPPED"}
      /\ nd.userbox \in {"STARTING", "STARTED"} => nd'.userbox \in {"STARTING", "STARTED"}
      /\ nd.userbox \in {"STOPPING", "STOPPED"} => nd'.userbox \in {"STOPPING", "STOPPED"}
  BY DEF IInv, NdType
<1>4. EndingObeyed'
  BY DEF EndingObeyed
<1>5. LastDecides'
  <2> SUFFICES ASSUME NEW i \in DOMAIN queue',
                      \A j \in DOMAIN queue' : j > i => queue'[j] \notin UserboxEvents
               PROVE  /\ queue'[i] = "START" => nd'.userbox \in {"STARTING", "STARTED"}
                      /\ queue'[i] \in {"STOP", "CANCEL"} => nd'.userbox \in {"STOPPING", "STOPPED"}
    BY DEF LastDecides
  <2>1. i + 1 \in DOMAIN queue /\ queue'[i] = queue[i + 1] /\ i \in Nat
    BY <1>2
  <2>2. ASSUME NEW j \in DOMAIN queue, j > i + 1
        PROVE  queue[j] \notin UserboxEvents
    <3>1. j \in Nat /\ j # 1 /\ j - 1 > i
      BY <1>2, <2>1, <2>2
    <3> QED
      BY <1>2, <3>1
  <2> QED
    BY <1>3, <2>1, <2>2 DEF IInv, Ring, LastDecides
<1>6. UserboxAgrees'
  <2> SUFFICES ASSUME \A i \in DOMAIN queue' : queue'[i] \notin UserboxEvents
               PROVE  nd'.userbox = IF drone THEN "STARTED" ELSE "STOPPED"
    BY DEF UserboxAgrees
  <2>1. ASSUME NEW j \in DOMAIN queue, j # 1
        PROVE  queue[j] \notin UserboxEvents
    BY <1>2, <2>1
  <2>2. CASE Head(queue) \in UserboxEvents
    <3>1. \A j \in DOMAIN queue : j > 1 => queue[j] \notin UserboxEvents
      BY <1>2, <2>1
    <3>2. /\ Head(queue) = "START" => nd.userbox \in {"STARTING", "STARTED"} /\ drone
          /\ Head(queue) \in {"STOP", "CANCEL"} => nd.userbox \in {"STOPPING", "STOPPED"} /\ ~drone
      BY <1>2, <3>1 DEF IInv, Ring, LastDecides, EndingObeyed
    <3> QED
      BY <2>2, <3>2 DEF UserboxEvents
  <2>3. CASE Head(queue) \notin UserboxEvents
    <3>1. \A j \in DOMAIN queue : queue[j] \notin UserboxEvents
      BY <1>2, <2>1, <2>3
    <3> QED
      BY <2>3, <3>1 DEF IInv, Ring, UserboxAgrees
  <2> QED
    BY <2>2, <2>3
<1> QED
  BY <1>2, <1>4, <1>5, <1>6 DEF Ring

LEMMA EndReturnsIInv == IInv /\ EndReturns => IInv'
<1> SUFFICES ASSUME IInv, EndReturns PROVE IInv'
  OBVIOUS
<1>1. /\ ending /\ queue' = Tail(queue) /\ ending' = FALSE
      /\ UNCHANGED <<late, pc, packet, ui, drone, asked>>
  BY DEF EndReturns
<1>2. PacketType' /\ AskedType' /\ FlagType'
  BY <1>1 DEF IInv, PacketType, AskedType, FlagType
<1>3. /\ queue \in Seq(Events) /\ queue # <<>> /\ Head(queue) = queue[1]
      /\ recorder \in {"STOPPED", "START_RECORD", "RECORDING", "WAITING_END"}
      /\ nd.userbox \in {"STARTING", "STARTED", "STOPPING", "STOPPED"}
  BY <1>1, TailOfRing DEF IInv, Ring, EndingObeyed, PlaceType, NdType
\* What the callback may do.
<1>4. /\ NdType' /\ PadType' /\ recorder' \in {"STOPPED", "START_RECORD", "RECORDING", "WAITING_END"}
      /\ nd'.userbox = (IF Head(queue) \notin UserboxEvents THEN nd.userbox
                        ELSE IF nd.userbox = "STARTING" THEN "STARTED"
                        ELSE IF nd.userbox = "STOPPING" THEN "STOPPED" ELSE nd.userbox)
      /\ nd'.takeoff \in {nd.takeoff, "IDLE"} /\ nd'.record \in {nd.record, "IDLE"}
      /\ ~Switching(nd'.userbox) =>
           (nd'.takeoff \in {"WAIT", "CANCELLING"} \/ nd'.record = "WAIT"
              => ~Switching(nd.userbox))
      /\ nd'.screenshot \in {nd.screenshot, "IDLE"}
      /\ Head(queue) = "SCREENSHOT" => nd'.screenshot # "INPROGRESS"
  <2>1. CASE Head(queue) = "CODEC" /\ UNCHANGED <<nd, pad, recorder>>
    BY <1>3, <2>1 DEF IInv, NdType, PadType, UserboxEvents
  <2>2. CASE Head(queue) = "SCREENSHOT" /\ ScreenshotCallback
    <3>1. /\ nd' = [nd EXCEPT !.screenshot = IF @ = "INPROGRESS" THEN "IDLE" ELSE @]
          /\ UNCHANGED <<pad, recorder>>
      BY <2>2 DEF ScreenshotCallback
    <3>2. NdType' /\ PadType'
      BY <3>1 DEF IInv, NdType, PadType
    <3>3. /\ nd'.userbox = nd.userbox /\ nd'.takeoff = nd.takeoff /\ nd'.record = nd.record
          /\ nd'.screenshot = (IF nd.screenshot = "INPROGRESS" THEN "IDLE" ELSE nd.screenshot)
      BY <3>1 DEF IInv, NdType
    <3> QED
      BY <1>3, <2>2, <3>1, <3>2, <3>3 DEF UserboxEvents
  <2>3. CASE Head(queue) \in UserboxEvents /\ UserboxCallback
    <3> DEFINE started == nd.userbox = "STARTING"
               stopped == nd.userbox = "STOPPING"
               waits   == nd.takeoff \in {"WAIT", "CANCELLING"}
               on      == started /\ nd.takeoff = "WAIT"
    <3>1. /\ nd' = IF ~started /\ ~stopped THEN nd ELSE
                   [nd EXCEPT !.userbox = IF started THEN "STARTED" ELSE "STOPPED",
                              !.takeoff = IF waits THEN "IDLE" ELSE @,
                              !.record = IF @ = "WAIT" THEN "IDLE" ELSE @]
          /\ pad' = [pad EXCEPT !.start = IF (started \/ stopped) /\ waits THEN on ELSE @]
          /\ recorder' = IF started /\ nd.record = "WAIT" THEN Started(recorder) ELSE recorder
      BY <2>3 DEF UserboxCallback
    <3>2. NdType'
      BY <3>1 DEF IInv, NdType
    <3>3. PadType'
      <4>1. on \in BOOLEAN
        OBVIOUS
      <4> HIDE DEF on, started, stopped, waits
      <4> QED
        BY <3>1, <4>1 DEF IInv, PadType
    <3>4. /\ nd'.userbox = (IF started THEN "STARTED" ELSE IF stopped THEN "STOPPED" ELSE nd.userbox)
          /\ nd'.takeoff = (IF (started \/ stopped) /\ waits THEN "IDLE" ELSE nd.takeoff)
          /\ nd'.record = (IF (started \/ stopped) /\ nd.record = "WAIT" THEN "IDLE" ELSE nd.record)
          /\ nd'.screenshot = nd.screenshot
      BY <3>1 DEF IInv, NdType
    <3>5. recorder' \in {"STOPPED", "START_RECORD", "RECORDING", "WAITING_END"}
      BY <1>3, <3>1 DEF Started
    <3> QED
      BY <1>3, <2>3, <3>2, <3>3, <3>4, <3>5 DEF UserboxEvents, Switching
  <2> QED
    BY <2>1, <2>2, <2>3 DEF EndReturns
<1>5. /\ Ring'
      /\ \A i \in DOMAIN queue : i # 1 => i - 1 \in DOMAIN queue' /\ queue'[i - 1] = queue[i]
  BY <1>1, <1>4, RingAfter
<1>6. PlaceType'
  BY <1>1, <1>4 DEF IInv, PlaceType
<1>7. WaitersServed'
  <2>1. nd'.takeoff \in {"WAIT", "CANCELLING"} \/ nd'.record = "WAIT" => Switching(nd'.userbox)
    BY <1>3, <1>4 DEF IInv, WaitersServed, Switching
  <2>2. ASSUME Switching(nd'.userbox)
        PROVE  \E i \in DOMAIN queue' : queue'[i] \in UserboxEvents
    <3>1. Head(queue) \notin UserboxEvents /\ Switching(nd.userbox)
      BY <1>3, <1>4, <2>2 DEF Switching
    <3>2. PICK i \in DOMAIN queue : queue[i] \in UserboxEvents
      BY <3>1 DEF IInv, WaitersServed
    <3> QED
      BY <1>3, <1>5, <3>1, <3>2
  <2>3. ASSUME nd'.screenshot = "INPROGRESS"
        PROVE  Contains(queue', "SCREENSHOT")
    <3>1. Head(queue) # "SCREENSHOT" /\ nd.screenshot = "INPROGRESS"
      BY <1>4, <2>3
    <3>2. PICK i \in DOMAIN queue : queue[i] = "SCREENSHOT"
      BY <1>3, <3>1 DEF IInv, WaitersServed, Contains
    <3>3. i - 1 \in DOMAIN queue' /\ queue'[i - 1] = "SCREENSHOT"
      BY <1>3, <1>5, <3>1, <3>2
    <3>4. queue' \in Seq(Events)
      BY <1>5 DEF Ring
    <3> QED
      BY <3>3, <3>4 DEF Contains
  <2> QED
    BY <2>1, <2>2, <2>3 DEF WaitersServed
<1> QED
  BY <1>2, <1>4, <1>5, <1>6, <1>7 DEF IInv

-----------------------------------------------------------------------------
(* The theorems.                                                           *)

LEMMA StutterIInv == IInv /\ UNCHANGED vars => IInv'
<1> SUFFICES ASSUME IInv, UNCHANGED vars PROVE IInv'
  OBVIOUS
<1>1. UNCHANGED <<nd, late, pad, recorder, pc, packet, ui, queue, ending, drone, asked>>
  BY DEF vars
<1>2. NdType' /\ PadType' /\ PacketType' /\ AskedType' /\ PlaceType' /\ FlagType'
  BY <1>1 DEF IInv, NdType, PadType, PacketType, AskedType, PlaceType, FlagType
<1>3. Ring' /\ WaitersServed'
  BY <1>1, Quiet
<1> QED
  BY <1>2, <1>3 DEF IInv

LEMMA NextIInv == IInv /\ [Next]_vars => IInv'
  BY PressIInv, SetNeededIInv, RecorderIInv, ReceiveIInv, CheckTimeoutIInv, TakeOffIInv, EmergencyIInv,
     RecordIInv, SwitchRecordIInv, ScreenshotIInv, EndBeginsIInv, EndReturnsIInv, StutterIInv
  DEF Next, UI, Process, Control

LEMMA Safety == Spec => []IInv
  BY InitIInv, NextIInv, PTL DEF Spec

\* The states of the buttons, the pad and the ring keep their types.
THEOREM TypeCorrect == Spec => []TypeOK
<1>1. IInv => TypeOK
  <2> SUFFICES ASSUME IInv PROVE TypeOK
    OBVIOUS
  <2>1. ToSet(Phases) = {"timeout", "takeoff", "emergency", "record", "switch", "screenshot"}
    <3>1. DOMAIN Phases = 1 .. 6
      BY DEF Phases
    <3>2. ToSet(Phases) = {Phases[1], Phases[2], Phases[3], Phases[4], Phases[5], Phases[6]}
      BY <3>1 DEF ToSet
    <3> QED
      BY <3>2 DEF Phases
  <2>2. pc \in {"idle"} \union ToSet(Phases)
    BY <2>1 DEF IInv, PlaceType
  <2>3. queue \in Seq(UserboxEvents \union {"SCREENSHOT", "CODEC"})
    BY DEF IInv, Ring, Events
  <2> QED
    BY <2>2, <2>3 DEF IInv, NdType, PadType, PacketType, AskedType, PlaceType, FlagType, TypeOK
<1> QED
  BY <1>1, Safety, PTL

\* A button that waits for the userbox has it on its way and its event in the
\* ring, and a photo in progress has its event, however long the ring is.
THEOREM EveryWaiterServed == Spec => []WaitersServed
<1>1. IInv => WaitersServed
  BY DEF IInv
<1> QED
  BY <1>1, Safety, PTL

\* When no userbox event is left, the application and the drone agree on the
\* userbox, although a callback may have taken one event for another.
THEOREM UserboxConverges == Spec => []UserboxAgrees
<1>1. IInv => UserboxAgrees
  BY DEF IInv, Ring
<1> QED
  BY <1>1, Safety, PTL

-----------------------------------------------------------------------------
(* The assertion, as long as there is no emergency.                        *)

\* Without emergencies the userbox stops only for a button that waits, and a
\* button is set to needed only from idle, although its test is made before the
\* mutex is taken; so nothing waits where a recording is due.
Calm ==
    /\ ~packet.emergency
    /\ nd.userbox = "STOPPING" => nd.takeoff \in {"WAIT", "CANCELLING"} \/ nd.record = "WAIT"
    /\ ui = "takeoff" => nd.takeoff = "IDLE"
    /\ ui = "record" => nd.record = "IDLE"
    /\ pc = "switch" => nd.record = "NEEDED" /\ nd.takeoff = "IDLE"

LEMMA InitCalm == Init => Calm
<1>1. "none" # "takeoff" /\ "none" # "record"
  OBVIOUS
<1> QED
  BY <1>1 DEF Init, Calm

\* The steps of the threads but the navdata thread.
LEMMA OthersCalm ==
    ASSUME IInv, Calm,
           \/ \E b \in Buttons : Press(b)
           \/ SetNeeded \/ StopRecorder \/ Video \/ TimePasses \/ EndBegins \/ EndReturns
    PROVE  Calm'
<1>1. CASE \E b \in Buttons : Press(b)
  <2>1. PICK b \in Buttons : Press(b)
    BY <1>1
  <2>2. /\ ui' = b /\ (b = "takeoff" => nd.takeoff = "IDLE") /\ (b = "record" => nd.record = "IDLE")
        /\ UNCHANGED <<nd, pc, packet>>
    BY <2>1 DEF Press, MayPress
  <2> QED
    BY <2>2 DEF Calm
<1>2. CASE SetNeeded
  <2>1. /\ ui \in {"takeoff", "emergency", "record", "photo"} /\ pc = "idle"
        /\ ui' \in {"none", "stop"} /\ UNCHANGED <<pc, packet>>
    BY <1>2, ButtonsAssumption DEF SetNeeded
  <2>2. /\ ui = "takeoff"   => nd' = [nd EXCEPT !.takeoff = "NEEDED"]
        /\ ui = "emergency" => nd' = [nd EXCEPT !.emergency = TRUE]
        /\ ui = "record"    => nd' = [nd EXCEPT !.record = "NEEDED"]
        /\ ui = "photo"     => nd' = [nd EXCEPT !.screenshot = "NEEDED"]
    BY <1>2 DEF SetNeeded
  <2>3. /\ nd'.userbox = nd.userbox
        /\ nd'.takeoff = nd.takeoff \/ nd.takeoff = "IDLE"
        /\ nd'.record = nd.record \/ nd.record = "IDLE"
    BY <2>1, <2>2 DEF IInv, NdType, Calm
  <2> QED
    BY <2>1, <2>3 DEF Calm
<1>3. CASE StopRecorder \/ Video \/ TimePasses \/ EndBegins
  <2>1. ui' \in {ui, "none"} /\ UNCHANGED <<nd, pc, packet>>
    BY <1>3 DEF StopRecorder, Video, TimePasses, EndBegins
  <2> QED
    BY <2>1 DEF Calm
<1>4. CASE EndReturns
  <2>1. UNCHANGED <<pc, packet, ui>>
    BY <1>4 DEF EndReturns
  <2>2. CASE UNCHANGED nd
    BY <2>1, <2>2 DEF Calm
  <2>3. CASE pc = "idle" /\ ScreenshotCallback
    <3>1. nd'.userbox = nd.userbox /\ nd'.takeoff = nd.takeoff /\ nd'.record = nd.record
      BY <2>3 DEF ScreenshotCallback, IInv, NdType
    <3> QED
      BY <2>1, <3>1 DEF Calm
  <2>4. CASE pc = "idle" /\ UserboxCallback /\ nd' # nd
    <3>1. /\ nd'.userbox \in {"STARTED", "STOPPED"}
          /\ nd'.takeoff \in {nd.takeoff, "IDLE"} /\ nd'.record \in {nd.record, "IDLE"}
      BY <2>4 DEF UserboxCallback, IInv, NdType
    <3> QED
      BY <2>1, <2>4, <3>1 DEF Calm
  <2> QED
    BY <1>4, <2>2, <2>3, <2>4 DEF EndReturns
<1> QED
  BY <1>1, <1>2, <1>3, <1>4

\* The steps of the navdata thread.
LEMMA ProcessCalm ==
    ASSUME Emergencies = FALSE, IInv, Calm, Receive \/ Process
    PROVE  Calm'
<1>0. UNCHANGED ui
  BY DEF Receive, Process, CheckTimeout, TakeOff, Emergency, Record, SwitchRecord, Screenshot
<1>1. CASE Receive
  <2>1. pc' = "timeout" /\ UNCHANGED nd
    BY <1>1 DEF Receive
  <2>2. packet'.emergency = FALSE
    <3>1. PICK emergency \in {FALSE, Emergencies}, feedback \in BOOLEAN, camera \in BOOLEAN :
            packet' = [emergency |-> emergency, feedback |-> feedback, camera |-> camera,
                       ready |-> recorder = "STOPPED",
                       inProgress |-> recorder \notin {"STOPPED", "WAITING_END"}]
      BY <1>1 DEF Receive
    <3>2. packet'.emergency = emergency
      BY <3>1, Zenon
    <3> QED
      BY <3>2
  <2> QED
    BY <1>0, <2>1, <2>2 DEF Calm
<1>2. CASE CheckTimeout
  <2>1. /\ pc' = "takeoff" /\ UNCHANGED packet
        /\ nd' = [nd EXCEPT !.takeoff = CASE late /\ nd.takeoff = "WAIT"   -> "CANCELLING"
                                          [] late /\ nd.takeoff = "NEEDED" -> "IDLE"
                                          [] OTHER -> @,
                            !.userbox = IF late /\ nd.takeoff = "WAIT" THEN "STOPPING" ELSE @]
    BY <1>2 DEF CheckTimeout
  <2>2. /\ nd'.record = nd.record
        /\ \/ nd'.takeoff = "CANCELLING" /\ nd.takeoff = "WAIT"
           \/ nd'.takeoff = "IDLE" /\ nd.takeoff = "NEEDED" /\ nd'.userbox = nd.userbox
           \/ nd'.takeoff = nd.takeoff /\ nd'.userbox = nd.userbox
    BY <2>1 DEF IInv, NdType
  <2> QED
    BY <1>0, <2>1, <2>2 DEF Calm
<1>3. CASE TakeOff
  <2>1. /\ pc' = "emergency" /\ UNCHANGED packet
        /\ nd'.record = nd.record
        /\ \/ nd'.takeoff = "IDLE" /\ nd.takeoff = "NEEDED" /\ nd'.userbox = nd.userbox
           \/ nd'.takeoff = "WAIT" /\ nd.takeoff = "NEEDED"
           \/ nd'.takeoff = nd.takeoff /\ nd'.userbox = nd.userbox
    BY <1>3 DEF TakeOff, IInv, NdType
  <2> QED
    BY <1>0, <2>1 DEF Calm
<1>4. CASE Emergency
  <2>1. /\ pc' = "record" /\ UNCHANGED packet
        /\ nd'.takeoff = nd.takeoff /\ nd'.record = nd.record /\ nd'.userbox = nd.userbox
    BY <1>4 DEF Emergency, IInv, NdType, Calm
  <2> QED
    BY <1>0, <2>1 DEF Calm
<1>5. CASE Record
  <2>1. /\ UNCHANGED packet
        /\ nd'.takeoff = nd.takeoff /\ nd'.record = nd.record /\ nd'.userbox = nd.userbox
        /\ pc' = "switch" => nd.record = "NEEDED" /\ nd.takeoff = "IDLE"
    BY <1>5 DEF Record, IInv, NdType
  <2> QED
    BY <1>0, <2>1 DEF Calm
<1>6. CASE SwitchRecord
  <2>1. pc = "switch" /\ pc' = "screenshot" /\ UNCHANGED packet
    BY <1>6 DEF SwitchRecord
  <2>2. nd.record = "NEEDED" /\ nd.takeoff = "IDLE" /\ nd.userbox # "STOPPING"
    BY <2>1 DEF Calm
  <2>3. /\ nd'.takeoff = nd.takeoff
        /\ nd'.userbox = "STOPPING" => nd'.record = "WAIT"
    BY <1>6, <2>2 DEF SwitchRecord, Switched, IInv, NdType
  <2> QED
    BY <1>0, <2>1, <2>2, <2>3 DEF Calm
<1>7. CASE Screenshot
  <2>1. /\ pc' = "idle" /\ UNCHANGED packet
        /\ nd'.takeoff = nd.takeoff /\ nd'.record = nd.record /\ nd'.userbox = nd.userbox
    BY <1>7 DEF Screenshot, IInv, NdType
  <2> QED
    BY <1>0, <2>1 DEF Calm
<1> QED
  BY <1>1, <1>2, <1>3, <1>4, <1>5, <1>6, <1>7 DEF Process

\* The assertion of ardrone_academy_navdata_process, that no recording is due
\* while the userbox is stopping, can fail only after an emergency.
THEOREM AssertionHoldsWithoutEmergencies ==
    ASSUME Emergencies = FALSE
    PROVE  Spec => []NeverStopping
<1>1. IInv /\ Calm /\ [Next]_vars => Calm'
  <2> SUFFICES ASSUME IInv, Calm, [Next]_vars PROVE Calm'
    OBVIOUS
  <2>1. CASE UNCHANGED vars
    BY <2>1 DEF vars, Calm
  <2> QED
    BY <2>1, OthersCalm, ProcessCalm DEF Next, UI, Control
<1>2. Calm => NeverStopping
  BY DEF Calm, NeverStopping
<1> QED
  BY InitCalm, Safety, <1>1, <1>2, PTL DEF Spec

-----------------------------------------------------------------------------
(* Cancelled take-offs.                                                    *)

\* After a take-off was cancelled, and until the next press, no take-off is
\* needed and no callback takes the userbox for the start of one.
Cancelled == asked.cancelled => nd.takeoff \in {"IDLE", "CANCELLING"}

LEMMA NextCancelled == IInv /\ Cancelled /\ [Next]_vars => Cancelled'
<1> SUFFICES ASSUME IInv, Cancelled, [Next]_vars PROVE Cancelled'
  OBVIOUS
<1>1. CASE SetNeeded
  <2>1. /\ asked' = [asked EXCEPT !.cancelled = @ /\ ui # "takeoff"]
        /\ ui \in {"takeoff", "emergency", "record", "photo"}
    BY <1>1, ButtonsAssumption DEF SetNeeded
  <2>2. asked'.cancelled => asked.cancelled /\ ui # "takeoff"
    BY <2>1 DEF IInv, AskedType
  <2>3. ui # "takeoff" => nd'.takeoff = nd.takeoff
    BY <1>1, <2>1 DEF SetNeeded, IInv, NdType
  <2> QED
    BY <2>2, <2>3 DEF Cancelled
<1>2. CASE CheckTimeout
  <2> DEFINE cancel == late /\ nd.takeoff = "WAIT"
             forget == late /\ nd.takeoff = "NEEDED"
  <2>1. /\ asked'.cancelled => asked.cancelled \/ cancel \/ forget
        /\ cancel => nd'.takeoff = "CANCELLING"
        /\ forget => nd'.takeoff = "IDLE"
        /\ ~cancel /\ ~forget => nd'.takeoff = nd.takeoff
    BY <1>2 DEF CheckTimeout, IInv, NdType, AskedType
  <2> QED
    BY <2>1 DEF Cancelled
<1>3. CASE TakeOff
  <2>1. nd.takeoff # "NEEDED" => nd'.takeoff = nd.takeoff
    BY <1>3 DEF TakeOff, IInv, NdType
  <2> QED
    BY <1>3, <2>1 DEF TakeOff, Cancelled
<1>4. CASE EndReturns
  <2>1. nd'.takeoff \in {nd.takeoff, "IDLE"}
    BY <1>4 DEF EndReturns, UserboxCallback, ScreenshotCallback, IInv, NdType
  <2> QED
    BY <1>4, <2>1 DEF EndReturns, Cancelled
<1>5. CASE Emergency \/ Record \/ SwitchRecord \/ Screenshot
  <2>1. nd'.takeoff = nd.takeoff /\ UNCHANGED asked
    BY <1>5 DEF Emergency, Record, SwitchRecord, Screenshot, IInv, NdType
  <2> QED
    BY <2>1 DEF Cancelled
<1>6. CASE \E b \in Buttons : Press(b)
  <2>1. asked'.cancelled = asked.cancelled /\ UNCHANGED nd
    BY <1>6 DEF Press, IInv, AskedType
  <2> QED
    BY <2>1 DEF Cancelled
<1>7. CASE StopRecorder \/ TimePasses \/ Video \/ Receive \/ EndBegins \/ UNCHANGED vars
  <2>1. UNCHANGED <<nd, asked>>
    BY <1>7 DEF StopRecorder, TimePasses, Video, Receive, EndBegins, vars
  <2> QED
    BY <2>1 DEF Cancelled
<1> QED
  BY <1>1, <1>2, <1>3, <1>4, <1>5, <1>6, <1>7 DEF Next, Process, Control, UI

\* The start bit of the pad is set by a needed take-off or by a callback on
\* which one waits (ardrone_academy_navdata.c, process and userbox_cb), so that
\* a take-off reported as cancelled does not start the motors later.
THEOREM CancelledNeverStarts == Spec => CancelledStaysOnGround
<1>1. Init => Cancelled
  BY DEF Init, Cancelled
<1>2. IInv /\ Cancelled /\ [Next]_vars => [asked.cancelled /\ pad'.start => pad.start]_vars
  <2> SUFFICES ASSUME IInv, Cancelled, Next, asked.cancelled, pad'.start PROVE pad.start
    OBVIOUS
  <2>1. nd.takeoff \in {"IDLE", "CANCELLING"}
    BY DEF Cancelled
  <2>2. CASE TakeOff
    <3>1. pad' = pad
      BY <2>1, <2>2 DEF TakeOff, IInv, PadType
    <3> QED
      BY <3>1
  <2>3. CASE Emergency
    <3>1. pad'.start = (pad.start /\ ~packet.emergency)
      BY <2>3, Zenon DEF Emergency
    <3> QED
      BY <3>1
  <2>4. CASE EndReturns /\ UserboxCallback
    <3>1. pad'.start = (IF nd.userbox \in {"STARTING", "STOPPING"} /\ nd.takeoff \in {"WAIT", "CANCELLING"}
                        THEN nd.userbox = "STARTING" /\ nd.takeoff = "WAIT"
                        ELSE pad.start)
      BY <2>4 DEF UserboxCallback, IInv, PadType
    <3> QED
      BY <2>1, <3>1
  <2>5. CASE UNCHANGED pad
    BY <2>5
  <2>6. TakeOff \/ Emergency \/ (EndReturns /\ UserboxCallback) \/ UNCHANGED pad
    BY DEF Next, Process, Control, UI, Press, SetNeeded, StopRecorder, TimePasses, Video, Receive,
           CheckTimeout, Record, SwitchRecord, Screenshot, EndBegins, EndReturns, ScreenshotCallback
  <2> QED
    BY <2>2, <2>3, <2>4, <2>5, <2>6
<1> QED
  BY <1>1, <1>2, NextCancelled, Safety, PTL DEF Spec, CancelledStaysOnGround
=============================================================================
