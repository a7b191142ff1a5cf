------------------------ MODULE ControlSystem_proofs ------------------------
(***************************************************************************)
(* Safety of the configuration dialogue for every size of the rings, every *)
(* number of retries and every capacity of the links.                      *)
(***************************************************************************)
EXTENDS ControlSystem, SequenceTheorems, TLAPS

\* Slot s holds a request that is pending.
InRing(s) == IF current_index <= nb_event
             THEN current_index <= s /\ s < nb_event
             ELSE current_index <= s \/ s < nb_event

\* Every pending slot holds a request: what is sent and reported is what was
\* queued, never a slot already given back.
RingHolds == \A s \in Slots : InRing(s) => data[s] \in Requests

\* The thread runs or ends only an event it holds.
RunsAnEvent == pc \in {"run", "end"} => current_event # NoSlot

\* An event that is still being tried has not used up its retries.
RetriesLeft == current_event # NoSlot /\ pc # "end" => retry <= NumRetries

\* The inductive invariant.
IInv == TypeOK /\ OneOutstanding /\ RingHolds /\ RunsAnEvent /\ RetriesLeft

-----------------------------------------------------------------------------
\* The index arithmetic of the ring.
LEMMA NextSlotValue ==
    \A s \in Slots : /\ NextSlot(s) \in Slots
                     /\ NextSlot(s) = IF s = RingSize - 1 THEN 0 ELSE s + 1
  BY ControlAssumption DEF NextSlot, Slots

LEMMA NextSlotInjective ==
    \A s, t \in Slots : NextSlot(s) = NextSlot(t) => s = t
<1> SUFFICES ASSUME NEW s \in Slots, NEW t \in Slots, NextSlot(s) = NextSlot(t)
             PROVE  s = t
  OBVIOUS
<1>1. (IF s = RingSize - 1 THEN 0 ELSE s + 1) = (IF t = RingSize - 1 THEN 0 ELSE t + 1)
  BY NextSlotValue
<1> QED
  BY <1>1, ControlAssumption DEF Slots

\* An empty or a one-event queue accepts one more event.
LEMMA QueueTakesFirst ==
    ASSUME NEW s \in Slots, queue = <<>>
    PROVE  QueueEvent(s) = <<s>>
  BY ControlAssumption DEF QueueEvent, CanQueue

\* What is sent stays a sequence of AT commands.
LEMMA SendType ==
    ASSUME at \in Seq(AtMessage), NEW msgs \in Seq(AtMessage), Send(msgs)
    PROVE  at' \in Seq(AtMessage)
  BY ConcatProperties DEF Send

LEMMA CtrlType == \A m \in Modes : <<Ctrl(m)>> \in Seq(AtMessage)
  BY DEF Ctrl, AtMessage

\* Configuring a pending request sends well-formed commands and leaves exactly
\* its own event, allocated and queued.
LEMMA ConfigureType ==
    ASSUME NEW s \in Slots, NEW r \in Requests,
           NEW ev \in [Slots -> Event \cup {NoEvent}],
           at \in Seq(AtMessage), queue = <<>>,
           Configure(s, r, ev)
    PROVE  /\ at' \in Seq(AtMessage)
           /\ event' \in [Slots -> Event \cup {NoEvent}]
           /\ event'[s] # NoEvent
           /\ \A t \in Slots \ {s} : event'[t] = ev[t]
           /\ queue' = <<s>>
<1>1. r \in Request
  BY ControlAssumption
<1>2. at' \in Seq(AtMessage)
  <2> DEFINE msgs == IF r.mode = "ACK" THEN <<[cmd |-> "CONFIG", config |-> r.config]>> ELSE <<>>
  <2>1. msgs \in Seq(AtMessage)
    <3>1. CASE r.mode = "ACK"
      <4>1. r.config \in Configs
        BY <1>1, <3>1 DEF Request, GetModes
      <4>2. [cmd |-> "CONFIG", config |-> r.config] \in AtMessage
        BY <4>1 DEF AtMessage
      <4> QED
        BY <3>1, <4>2
    <3>2. CASE r.mode # "ACK"
      BY <3>2
    <3> QED
      BY <3>1, <3>2
  <2>2. Send(msgs)
    BY DEF Configure
  <2> QED
    BY <2>1, <2>2, SendType
<1>3. [stage |-> FirstStage(r.mode), status |-> "WAITING"] \in Event
  BY DEF FirstStage, Event, AckStages, GetStages, Statuses
<1>4. NoEvent \notin Event
  BY DEF NoEvent, Event, AckStages, GetStages, Statuses
<1> QED
  BY <1>2, <1>3, <1>4, QueueTakesFirst DEF Configure

-----------------------------------------------------------------------------
LEMMA InitIInv == Init => IInv
<1> SUFFICES ASSUME Init
             PROVE  IInv
  OBVIOUS
<1> USE ControlAssumption, SystemAssumption DEF Init, ControlInit
<1>1. TypeOK
  <2>1. data \in [Slots -> [mode : Modes \cup {"NULL"}, config : Configs \cup {NoConfig}]]
    BY DEF NoRequest
  <2>2. report \in [request : Request \cup {NoRequest}, ok : BOOLEAN]
    BY DEF NoReport
  <2>3. {mask, control_waited, ardrone_state, is_disable, bContinue, tool_exit} \subseteq BOOLEAN
    OBVIOUS
  <2>4. /\ event \in [Slots -> Event \cup {NoEvent}]
        /\ current_index \in Slots /\ nb_event \in Slots
        /\ retry \in 0 .. NumRetries + 1
    BY DEF Slots
  <2> QED
    BY <2>1, <2>2, <2>3, <2>4 DEF TypeOK
<1>2. OneOutstanding
  BY DEF OneOutstanding, RingEmpty
<1>3. RingHolds
  BY DEF RingHolds, InRing, Slots
<1>4. RunsAnEvent /\ RetriesLeft
  BY DEF RunsAnEvent, RetriesLeft
<1> QED
  BY <1>1, <1>2, <1>3, <1>4 DEF IInv

\* Steps that leave the manager, the queue and the current event alone, and do
\* not start running an event, keep everything but the types.
LEMMA Untouched ==
    ASSUME IInv, UNCHANGED <<managerVars, queue, current_event>>,
           UNCHANGED retry, pc = "end" => pc' = "end",
           pc' \in {"run", "end"} => pc \in {"run", "end"}
    PROVE  OneOutstanding' /\ RingHolds' /\ RunsAnEvent' /\ RetriesLeft'
  BY DEF IInv, OneOutstanding, RingEmpty, RingHolds, InRing, RunsAnEvent, RetriesLeft,
         managerVars

\* A step of the event being run.
LEMMA EndStepIInv ==
    ASSUME IInv, pc = "run",
           NEW stage \in AckStages \cup GetStages,
           NEW status \in {"WAITING", "FINISH_SUCCESS"},
           NEW ok \in BOOLEAN,
           EndStep(stage, status, ok),
           at' \in Seq(AtMessage), tcp' \in Seq(Chunk), UNCHANGED droneVars
    PROVE  IInv'
<1> DEFINE final == IF ~ok /\ retry + 1 > NumRetries THEN "FINISH_FAILURE" ELSE status
<1>1. /\ current_event \in Slots
      /\ current_event = current_index
      /\ ~RingEmpty
  BY DEF IInv, RunsAnEvent, OneOutstanding, TypeOK
<1>2. [stage |-> stage, status |-> final] \in Event /\ NoEvent \notin Event
  BY DEF Event, Statuses, NoEvent, AckStages, GetStages
<1>3. event' = [event EXCEPT ![current_event] = [stage |-> stage, status |-> final]]
  BY DEF EndStep
<1>4. TypeOK'
  <2>1. event' \in [Slots -> Event \cup {NoEvent}]
    BY <1>1, <1>2, <1>3 DEF IInv, TypeOK
  <2>2. retry' \in 0 .. NumRetries + 1
    BY <1>1, ControlAssumption DEF IInv, TypeOK, RetriesLeft, EndStep, Slots
  <2> QED
    BY <2>1, <2>2 DEF IInv, TypeOK, EndStep, waitVars, exitVars, droneVars
<1>5. OneOutstanding'
  <2>1. \A s \in Slots : event'[s] # NoEvent <=> s = current_event
    BY <1>1, <1>2, <1>3 DEF IInv, TypeOK, OneOutstanding
  <2> QED
    BY <1>1, <2>1 DEF IInv, OneOutstanding, RingEmpty, EndStep
<1>6. RingHolds'
  BY DEF IInv, RingHolds, InRing, EndStep
<1>7. RunsAnEvent' /\ RetriesLeft'
  BY ControlAssumption DEF IInv, TypeOK, RunsAnEvent, RetriesLeft, EndStep
<1> QED
  BY <1>4, <1>5, <1>6, <1>7 DEF IInv

\* Queueing a request.
LEMMA AddEventIInv ==
    ASSUME IInv, NEW r \in Requests, AddEvent(r), UNCHANGED droneVars
    PROVE  IInv'
<1> USE ControlAssumption
<1>1. /\ current_index \in Slots /\ nb_event \in Slots
      /\ at \in Seq(AtMessage)
      /\ event \in [Slots -> Event \cup {NoEvent}]
      /\ nb_event' = NextSlot(nb_event)
      /\ NextSlot(nb_event) \in Slots
      /\ current_index # nb_event'
      /\ current_index' = current_index
  BY NextSlotValue DEF IInv, TypeOK, AddEvent, RingFull
<1>2. NextSlot(nb_event) = NextSlot(current_index) <=> RingEmpty
  BY <1>1, NextSlotInjective DEF RingEmpty
<1>3. ~RingEmpty'
  BY <1>1 DEF RingEmpty
<1>4. /\ at' \in Seq(AtMessage)
      /\ event' \in [Slots -> Event \cup {NoEvent}]
      /\ queue' \in Seq(Slots)
      /\ OneOutstanding'
  <2>1. CASE RingEmpty
    <3>1. Configure(current_index, r, event) /\ queue = <<>>
      BY <1>1, <1>2, <2>1 DEF AddEvent, IInv, OneOutstanding
    <3>2. /\ at' \in Seq(AtMessage)
          /\ event' \in [Slots -> Event \cup {NoEvent}]
          /\ event'[current_index] # NoEvent
          /\ \A t \in Slots \ {current_index} : event'[t] = event[t]
          /\ queue' = <<current_index>>
      BY <1>1, <3>1, ConfigureType
    <3> QED
      BY <1>1, <1>3, <2>1, <3>2
         DEF IInv, OneOutstanding, AddEvent, threadVars
  <2>2. CASE ~RingEmpty
    <3>1. UNCHANGED <<event, queue, at>>
      BY <1>1, <1>2, <2>2 DEF AddEvent
    <3> QED
      BY <1>1, <1>3, <2>2, <3>1 DEF IInv, TypeOK, OneOutstanding, AddEvent, threadVars
  <2> QED
    BY <2>1, <2>2
<1>5. data' = [data EXCEPT ![nb_event] = r] /\ r \in Request
  BY DEF AddEvent
<1>6. TypeOK'
  <2>1. r \in [mode : Modes \cup {"NULL"}, config : Configs \cup {NoConfig}]
    BY <1>5 DEF Request, Modes, GetModes
  <2>2. data' \in [Slots -> [mode : Modes \cup {"NULL"}, config : Configs \cup {NoConfig}]]
    BY <1>1, <1>5, <2>1 DEF IInv, TypeOK
  <2> QED
    BY <1>1, <1>4, <2>2
       DEF IInv, TypeOK, AddEvent, threadVars, waitVars, exitVars, droneVars
<1>7. RingHolds'
  <2> SUFFICES ASSUME NEW s \in Slots, InRing(s)'
               PROVE  data'[s] \in Requests
    BY DEF RingHolds
  <2>1. nb_event' = IF nb_event = RingSize - 1 THEN 0 ELSE nb_event + 1
    BY <1>1, NextSlotValue
  <2>2. s = nb_event \/ InRing(s)
    BY <1>1, <2>1 DEF InRing, Slots
  <2> QED
    BY <1>1, <1>5, <2>2 DEF IInv, TypeOK, RingHolds
<1>8. RunsAnEvent' /\ RetriesLeft'
  BY DEF IInv, RunsAnEvent, RetriesLeft, AddEvent, threadVars
<1> QED
  BY <1>4, <1>6, <1>7, <1>8 DEF IInv

\* A request that took effect leaves the ring and the next one is started.
LEMMA EventSucceedsIInv ==
    ASSUME IInv, EventSucceeds, UNCHANGED droneVars
    PROVE  IInv'
<1> USE ControlAssumption
<1> DEFINE cur == current_index
           rest == [event EXCEPT ![cur] = NoEvent]
<1>1. /\ cur \in Slots /\ nb_event \in Slots
      /\ at \in Seq(AtMessage)
      /\ event \in [Slots -> Event \cup {NoEvent}]
      /\ data \in [Slots -> [mode : Modes \cup {"NULL"}, config : Configs \cup {NoConfig}]]
      /\ current_index' = NextSlot(cur)
      /\ NextSlot(cur) \in Slots
      /\ NextSlot(cur) # cur
      /\ nb_event' = nb_event
      /\ current_event' = NoSlot
      /\ pc' = "loop"
  BY NextSlotValue DEF IInv, TypeOK, EventSucceeds, Slots
<1>2. ~RingEmpty /\ queue = <<>>
  BY DEF IInv, RunsAnEvent, OneOutstanding, EventSucceeds
<1>3. data[cur] \in Requests
  BY <1>1, <1>2 DEF IInv, RingHolds, InRing, RingEmpty, Slots
<1>4. \A s \in Slots : rest[s] = NoEvent
  BY <1>1, <1>2 DEF IInv, OneOutstanding
<1>5. rest \in [Slots -> Event \cup {NoEvent}]
  BY <1>1
<1>6. data' = [data EXCEPT ![cur].config = NoConfig]
  BY DEF EventSucceeds
<1>7. \A s \in Slots : InRing(s)' => InRing(s) /\ s # cur
  <2>1. current_index' = IF cur = RingSize - 1 THEN 0 ELSE cur + 1
    BY <1>1, NextSlotValue
  <2> QED
    BY <1>1, <1>2, <2>1 DEF InRing, RingEmpty, Slots
<1>8. RingHolds'
  <2> SUFFICES ASSUME NEW s \in Slots, InRing(s)'
               PROVE  data'[s] \in Requests
    BY DEF RingHolds
  <2>1. data'[s] = data[s]
    BY <1>1, <1>6, <1>7
  <2> QED
    BY <1>7, <2>1 DEF IInv, RingHolds
<1>9. /\ at' \in Seq(AtMessage)
      /\ event' \in [Slots -> Event \cup {NoEvent}]
      /\ queue' \in Seq(Slots)
      /\ OneOutstanding'
  <2>1. CASE current_index' # nb_event
    <3>1. InRing(current_index)'
      BY <1>1, <2>1 DEF InRing, Slots
    <3>2. data[current_index'] \in Requests
      BY <1>1, <1>7, <3>1 DEF IInv, RingHolds
    <3> DEFINE next == NextSlot(cur)
    <3>3. Configure(next, data[next], rest)
      BY <1>1, <2>1 DEF EventSucceeds
    <3>4. /\ at' \in Seq(AtMessage)
          /\ event' \in [Slots -> Event \cup {NoEvent}]
          /\ event'[next] # NoEvent
          /\ \A t \in Slots \ {next} : event'[t] = rest[t]
          /\ queue' = <<next>>
      <4>1. next \in Slots /\ data[next] \in Requests
        BY <1>1, <3>2
      <4> HIDE DEF next, rest
      <4> QED
        BY <1>1, <1>2, <1>5, <3>3, <4>1, ConfigureType
    <3> QED
      BY <1>1, <1>4, <2>1, <3>4 DEF OneOutstanding, RingEmpty
  <2>2. CASE current_index' = nb_event
    <3>1. event' = rest /\ UNCHANGED <<queue, at>>
      BY <2>2 DEF EventSucceeds
    <3> QED
      BY <1>1, <1>2, <1>4, <1>5, <2>2, <3>1 DEF OneOutstanding, RingEmpty
  <2> QED
    BY <2>1, <2>2
<1>10. TypeOK'
  <2>1. data' \in [Slots -> [mode : Modes \cup {"NULL"}, config : Configs \cup {NoConfig}]]
    BY <1>1, <1>6
  <2>2. report' \in [request : Request \cup {NoRequest}, ok : BOOLEAN]
    BY <1>3 DEF EventSucceeds
  <2> QED
    BY <1>1, <1>9, <2>1, <2>2
       DEF IInv, TypeOK, EventSucceeds, waitVars, exitVars, droneVars
<1>11. RunsAnEvent' /\ RetriesLeft'
  BY <1>1 DEF RunsAnEvent, RetriesLeft
<1> QED
  BY <1>8, <1>9, <1>10, <1>11 DEF IInv

\* A request that failed is started again.
LEMMA EventFailsIInv ==
    ASSUME IInv, EventFails, UNCHANGED droneVars
    PROVE  IInv'
<1> USE ControlAssumption
<1> DEFINE cur == current_index
<1>1. /\ cur \in Slots /\ nb_event \in Slots
      /\ at \in Seq(AtMessage)
      /\ event \in [Slots -> Event \cup {NoEvent}]
      /\ UNCHANGED <<data, current_index, nb_event>>
      /\ current_event' = NoSlot
      /\ pc' = "loop"
  BY DEF IInv, TypeOK, EventFails
<1>2. ~RingEmpty /\ queue = <<>>
  BY DEF IInv, RunsAnEvent, OneOutstanding, EventFails
<1>3. data[cur] \in Requests
  BY <1>1, <1>2 DEF IInv, RingHolds, InRing, RingEmpty, Slots
<1>4. Configure(cur, data[cur], event)
  BY DEF EventFails
<1>5. /\ at' \in Seq(AtMessage)
      /\ event' \in [Slots -> Event \cup {NoEvent}]
      /\ event'[cur] # NoEvent
      /\ \A t \in Slots \ {cur} : event'[t] = event[t]
      /\ queue' = <<cur>>
  BY <1>1, <1>2, <1>3, <1>4, ConfigureType
<1>6. OneOutstanding'
  BY <1>1, <1>2, <1>5 DEF IInv, OneOutstanding, RingEmpty
<1>7. TypeOK'
  <2>1. report' \in [request : Request \cup {NoRequest}, ok : BOOLEAN]
    BY <1>3 DEF EventFails
  <2>2. queue' \in Seq(Slots)
    BY <1>1, <1>5
  <2> QED
    BY <1>1, <1>5, <2>1, <2>2
       DEF IInv, TypeOK, EventFails, waitVars, exitVars, droneVars
<1>8. RingHolds'
  BY <1>1 DEF IInv, RingHolds, InRing
<1>9. RunsAnEvent' /\ RetriesLeft'
  BY <1>1 DEF RunsAnEvent, RetriesLeft
<1> QED
  BY <1>6, <1>7, <1>8, <1>9 DEF IInv

\* The stages of the two dialogues.
LEMMA DialogueIInv ==
    ASSUME IInv, UNCHANGED droneVars,
           \/ AwaitMask \/ AwaitReset \/ RequestFile
           \/ ReceiveChunk \/ ReceiveNothing \/ AwaitFileReset
    PROVE  IInv'
<1>1. at \in Seq(AtMessage) /\ tcp \in Seq(Chunk) /\ mask \in BOOLEAN
  BY DEF IInv, TypeOK
<1>2. /\ "ACK" \in Modes
      /\ {"MASK_TRUE", "MASK_FALSE", "REQUEST", "RECEIVE", "RECEIVED"}
            \subseteq AckStages \cup GetStages
  BY DEF Modes, AckStages, GetStages
<1>3. ASSUME Send(<<Ctrl("ACK")>>) PROVE at' \in Seq(AtMessage)
  BY <1>1, <1>2, <1>3, CtrlType, SendType
<1>4. CASE AwaitMask
  <2>1. CASE mask
    BY <1>1, <1>2, <1>3, <1>4, <2>1, EndStepIInv DEF AwaitMask, Running
  <2>2. CASE ~mask
    BY <1>1, <1>2, <1>4, <2>2, EndStepIInv DEF AwaitMask, Running
  <2> QED
    BY <2>1, <2>2
<1>5. CASE AwaitReset
  BY <1>1, <1>2, <1>3, <1>5, EndStepIInv DEF AwaitReset, Running
<1>6. CASE RequestFile
  <2>1. CASE mask
    BY <1>1, <1>2, <1>3, <1>6, <2>1, EndStepIInv DEF RequestFile, Running
  <2>2. CASE ~mask
    <3>1. current_event \in Slots /\ InRing(current_event)
      BY <1>6 DEF IInv, TypeOK, RunsAnEvent, OneOutstanding, RingEmpty, InRing,
                  RequestFile, Running, Slots
    <3>2. data[current_event].mode \in Modes
      BY <3>1, ControlAssumption DEF IInv, RingHolds, Request, Modes
    <3>3. Send(<<Ctrl(data[current_event].mode)>>)
      BY <1>6, <2>2 DEF RequestFile
    <3>4. at' \in Seq(AtMessage)
      BY <1>1, <3>2, <3>3, CtrlType, SendType
    <3> QED
      BY <1>1, <1>2, <1>6, <2>2, <3>4, EndStepIInv DEF RequestFile, Running
  <2> QED
    BY <2>1, <2>2
<1>7. CASE ReceiveChunk
  <2>1. tcp' \in Seq(Chunk)
    BY <1>1, <1>7, HeadTailProperties DEF ReceiveChunk
  <2>2. CASE Head(tcp) = "end"
    BY <1>1, <1>2, <1>3, <1>7, <2>1, <2>2, EndStepIInv DEF ReceiveChunk, Running
  <2>3. CASE Head(tcp) # "end"
    BY <1>1, <1>2, <1>7, <2>1, <2>3, EndStepIInv DEF ReceiveChunk, Running
  <2> QED
    BY <2>2, <2>3
<1>8. CASE ReceiveNothing
  BY <1>1, <1>2, <1>8, EndStepIInv DEF ReceiveNothing, Running
<1>9. CASE AwaitFileReset
  <2>1. CASE mask
    BY <1>1, <1>2, <1>3, <1>9, <2>1, EndStepIInv DEF AwaitFileReset, Running
  <2>2. CASE ~mask
    BY <1>1, <1>2, <1>9, <2>2, EndStepIInv DEF AwaitFileReset, Running
  <2> QED
    BY <2>1, <2>2
<1> QED
  BY <1>4, <1>5, <1>6, <1>7, <1>8, <1>9

\* The other steps of the control thread.
LEMMA LoopIInv ==
    ASSUME IInv, UNCHANGED droneVars,
           \/ Wait \/ Leave \/ Timeout \/ SpuriousWakeup \/ Snapshot \/ TakeEvent
           \/ \E ok \in BOOLEAN : Connect(ok)
    PROVE  IInv'
<1> USE DEF managerVars, threadVars, waitVars, exitVars, droneVars
<1>1. CASE TakeEvent
  <2>1. TypeOK'
    <3>1. CASE current_event = NoSlot /\ queue # <<>>
      <4>1. Head(queue) \in Slots /\ Tail(queue) \in Seq(Slots)
        BY <3>1, HeadTailProperties DEF IInv, TypeOK
      <4> QED
        <5>1. current_event' \in Slots /\ queue' \in Seq(Slots) /\ pc' \in {"loop", "run"}
          BY <1>1, <3>1, <4>1 DEF TakeEvent
        <5>2. retry' \in 0 .. NumRetries + 1
          BY <1>1, <3>1, ControlAssumption DEF TakeEvent
        <5> QED
          BY <1>1, <5>1, <5>2 DEF IInv, TypeOK, TakeEvent
    <3>2. CASE ~(current_event = NoSlot /\ queue # <<>>)
      BY <1>1, <3>2 DEF IInv, TypeOK, TakeEvent
    <3> QED
      BY <3>1, <3>2
  <2>2. OneOutstanding'
    <3>1. CASE current_event = NoSlot /\ queue # <<>>
      <4>1. queue = <<current_index>>
        BY <3>1 DEF IInv, OneOutstanding
      <4>2. current_event' = current_index /\ queue' = <<>>
        BY <1>1, <3>1, <4>1 DEF TakeEvent
      <4> QED
        BY <1>1, <3>1, <4>2 DEF IInv, OneOutstanding, RingEmpty, TakeEvent
    <3>2. CASE ~(current_event = NoSlot /\ queue # <<>>)
      BY <1>1, <3>2 DEF IInv, OneOutstanding, RingEmpty, TakeEvent
    <3> QED
      BY <3>1, <3>2
  <2>3. RingHolds' /\ RunsAnEvent'
    BY <1>1 DEF IInv, RingHolds, InRing, RunsAnEvent, TakeEvent
  <2>4. RetriesLeft'
    BY <1>1, ControlAssumption DEF IInv, RetriesLeft, TakeEvent
  <2> QED
    BY <2>1, <2>2, <2>3, <2>4 DEF IInv
<1>2. CASE ~TakeEvent
  <2>1. TypeOK'
    <3>1. CASE Wait
      BY <3>1 DEF IInv, TypeOK, Wait
    <3>4. CASE Leave
      BY <3>4 DEF IInv, TypeOK, Leave
    <3>5. CASE Timeout
      BY <3>5 DEF IInv, TypeOK, Timeout
    <3>2. CASE SpuriousWakeup \/ Snapshot
      BY <3>2 DEF IInv, TypeOK, SpuriousWakeup, Snapshot
    <3>3. CASE \E ok \in BOOLEAN : Connect(ok)
      <4>1. /\ is_disable' \in BOOLEAN
            /\ pc' \in {"woken", "loop"}
            /\ UNCHANGED <<queue, current_event, retry, mask, at, tcp>>
            /\ UNCHANGED managerVars /\ UNCHANGED waitVars /\ UNCHANGED exitVars
        BY <3>3 DEF Connect
      <4> QED
        BY <4>1 DEF IInv, TypeOK
    <3> QED
      BY <1>2, <3>1, <3>2, <3>3, <3>4, <3>5
  <2>2. /\ UNCHANGED <<managerVars, queue, current_event>>
        /\ UNCHANGED retry
        /\ pc # "end" /\ pc' \notin {"run", "end"}
    BY <1>2 DEF Wait, Leave, Timeout, SpuriousWakeup, Snapshot, Connect
  <2> QED
    BY <2>1, <2>2, Untouched DEF IInv
<1> QED
  BY <1>1, <1>2

\* The end of the program.
LEMMA ExitIInv ==
    ASSUME IInv, UNCHANGED droneVars, RequestExit \/ ShutdownResume \/ ShutdownStop
    PROVE  IInv'
<1> USE DEF managerVars, threadVars, waitVars, exitVars, droneVars
<1>1. TypeOK'
  BY DEF IInv, TypeOK, RequestExit, ShutdownResume, ShutdownStop, Resume
<1>2. /\ UNCHANGED <<managerVars, queue, current_event>>
      /\ UNCHANGED retry
      /\ pc' = pc \/ (pc = "waiting" /\ pc' = "woken")
  BY DEF RequestExit, ShutdownResume, ShutdownStop, Resume
<1> QED
  BY <1>1, <1>2, Untouched DEF IInv

\* The drone and the links.
LEMMA DroneIInv ==
    ASSUME IInv,
           Handle \/ LoseAt \/ EmitNavdata \/ LoseNavdata \/ DeliverNavdata
    PROVE  IInv'
<1> USE DEF managerVars, threadVars, waitVars, exitVars, droneVars
<1>1. at \in Seq(AtMessage) /\ tcp \in Seq(Chunk) /\ nav \in Seq(BOOLEAN)
  BY DEF IInv, TypeOK
<1>2. TypeOK'
  <2>1. CASE Handle
    <3>1. PICK m \in AtMessage : HandleAt(m)
      BY <2>1 DEF Handle
    <3>2. at' \in Seq(AtMessage)
      BY <1>1, <3>1, HeadTailProperties DEF HandleAt
    <3>3. tcp' \in Seq(Chunk)
      <4>1. Files \subseteq Seq(Chunk)
        BY DEF Files, Chunk
      <4> QED
        BY <1>1, <3>1, <4>1, ConcatProperties DEF HandleAt
    <3>4. config' \in Configs \cup {NoConfig} /\ commandMask' \in BOOLEAN
      BY <3>1 DEF HandleAt, AtMessage, IInv, TypeOK
    <3> QED
      BY <3>1, <3>2, <3>3, <3>4 DEF IInv, TypeOK, HandleAt
  <2>2. CASE LoseAt
    <3>1. at' \in Seq(AtMessage)
      BY <1>1, <2>2, HeadTailProperties DEF LoseAt
    <3> QED
      BY <2>2, <3>1 DEF IInv, TypeOK, LoseAt
  <2>3. CASE EmitNavdata
    <3>1. nav' \in Seq(BOOLEAN)
      BY <2>3, AppendProperties DEF IInv, TypeOK, EmitNavdata
    <3> QED
      BY <2>3, <3>1 DEF IInv, TypeOK, EmitNavdata, controlVars
  <2>4. CASE LoseNavdata
    <3>1. nav' \in Seq(BOOLEAN)
      BY <1>1, <2>4, HeadTailProperties DEF LoseNavdata
    <3> QED
      BY <2>4, <3>1 DEF IInv, TypeOK, LoseNavdata, controlVars
  <2>5. CASE DeliverNavdata
    <3>1. nav' \in Seq(BOOLEAN) /\ Head(nav) \in BOOLEAN
      BY <1>1, <2>5, HeadTailProperties DEF DeliverNavdata
    <3> QED
      BY <2>5, <3>1 DEF IInv, TypeOK, DeliverNavdata, Resume
  <2> QED
    BY <2>1, <2>2, <2>3, <2>4, <2>5
<1>3. /\ UNCHANGED <<managerVars, queue, current_event>>
      /\ UNCHANGED retry
      /\ pc' = pc \/ (pc = "waiting" /\ pc' = "woken")
  BY DEF Handle, HandleAt, LoseAt, EmitNavdata, LoseNavdata, DeliverNavdata, Resume,
         controlVars
<1> QED
  BY <1>2, <1>3, Untouched DEF IInv

-----------------------------------------------------------------------------
\* IInv is inductive.
LEMMA NextIInv == IInv /\ [Next]_vars => IInv'
<1> SUFFICES ASSUME IInv, [Next]_vars
             PROVE  IInv'
  OBVIOUS
<1>1. CASE Client /\ UNCHANGED droneVars
  BY <1>1, AddEventIInv, EventSucceedsIInv, EventFailsIInv, DialogueIInv, LoopIInv, ExitIInv
     DEF Client, ControlThread, ThreadStep, Exit
<1>2. CASE Handle \/ LoseAt \/ EmitNavdata \/ LoseNavdata \/ DeliverNavdata
  BY <1>2, DroneIInv
<1>3. CASE UNCHANGED vars
  <2>1. TypeOK'
    BY <1>3 DEF IInv, TypeOK, vars, controlVars, droneVars
  <2>2. UNCHANGED <<managerVars, queue, current_event>> /\ UNCHANGED retry /\ UNCHANGED pc
    BY <1>3 DEF vars, controlVars, managerVars
  <2> QED
    BY <2>1, <2>2, Untouched DEF IInv
<1> QED
  BY <1>1, <1>2, <1>3 DEF Next

\* The inductive invariant holds throughout.
THEOREM Safety == Spec => []IInv
  BY InitIInv, NextIInv, PTL DEF Spec

\* Every variable keeps its type.  Its bound on retry, num_retries + 1, says
\* that an event is ended as soon as it has used up its retries.
THEOREM TypeCorrect == Spec => []TypeOK
<1>1. IInv => TypeOK
  BY DEF IInv
<1> QED
  BY <1>1, Safety, PTL

\* At most one control event is outstanding, that of the oldest request, and
\* there is one as long as there is a request (OneOutstanding).
THEOREM AtMostOneOutstanding == Spec => []OneOutstanding
<1>1. IInv => OneOutstanding
  BY DEF IInv
<1> QED
  BY <1>1, Safety, PTL
-----------------------------------------------------------------------------
(* A success is one the drone has given cause for.  The navdata packet that *)
(* ends an event was emitted for that event: this takes one packet in       *)
(* flight at most, commands that do not overtake it, a thread woken by      *)
(* navdata only and, for the parameters, a drone whose acknowledge bit is   *)
(* clear when the client starts.                                            *)

OneInFlight == NavCapacity = 1 /\ PromptAt = TRUE /\ Spurious = FALSE
Fresh == InitialMask = {FALSE}

\* The request being negotiated and its control event.
Asked == data[current_index]
Stage == event[current_index].stage
Status == event[current_index].status

\* The commands on their way to the drone.
Sent == {at[i] : i \in DOMAIN at}

\* The drone's acknowledge bit is clear and nothing sent will set it.
Cleared == commandMask = FALSE /\ Sent \subseteq {Ctrl("ACK")}

\* The thread has navdata that it has not dealt with, whose bit is Told.
Looks == pc \in {"woken", "take", "run"}
Told == IF pc = "woken" THEN ardrone_state ELSE mask

\* The bit is set nowhere between the drone and the thread.
Quiet == commandMask = FALSE /\ nav # <<TRUE>> /\ (Looks => Told = FALSE)

\* An event is at a stage of the dialogue of its request, and succeeds at the
\* last one.
StageOfMode == ~RingEmpty => (Asked.mode = "ACK" <=> Stage \in AckStages)
SuccessStage == Status = "FINISH_SUCCESS" => Stage \in {"MASK_FALSE", "RECEIVED"}
WaitAnnounced == pc \in {"waiting", "woken"} => control_waited = TRUE
Dialogue == StageOfMode /\ SuccessStage /\ WaitAnnounced

\* The last stage of the dialogue, for the requests a theorem is about.
LastStage == Stage = "RECEIVED" \/ (Fresh /\ Stage = "MASK_FALSE")

\* The last stage, or one that the thread may leave for it at this look.
Resets == \/ LastStage
          \/ Looks /\ Stage = "RECEIVE"
          \/ Fresh /\ Looks /\ Stage = "MASK_TRUE" /\ Told = TRUE

\* Between two requests the bit is clear everywhere.
IdleCleared == Fresh /\ RingEmpty => Cleared /\ Quiet

\* The only parameter on its way is the one being negotiated.
OnlyAsked == Fresh /\ ~RingEmpty /\ Asked.mode = "ACK" =>
                Sent \subseteq {Ctrl("ACK"), [cmd |-> "CONFIG", config |-> Asked.config]}

\* Until the drone has it, no navdata with the bit set is anywhere.
NotYetTold == Fresh /\ ~RingEmpty /\ Asked.mode = "ACK" /\ config # Asked.config =>
                Quiet /\ Stage = "MASK_TRUE"

\* From the last stage on, a clear bit on its way to the client is that of a
\* drone that will not set it again; so is a clear bit the thread looks at,
\* and the success that follows.
ClearOnItsWay == Resets /\ nav = <<FALSE>> => Cleared
ClearSeen == LastStage /\ Looks /\ Told = FALSE => Cleared /\ nav # <<TRUE>>
ClearAtEnd == pc = "end" /\ Status = "FINISH_SUCCESS" /\ LastStage => Cleared /\ nav # <<TRUE>>

Causes == /\ nav \in {<<>>, <<TRUE>>, <<FALSE>>}
          /\ IdleCleared /\ OnlyAsked /\ NotYetTold
          /\ ClearOnItsWay /\ ClearSeen /\ ClearAtEnd

\* The made-up state of the shutdown ends these relations.
CausesAlone == shutdown = "no" => Causes

\* What is sent adds to what is on its way; what is received or lost does not.
LEMMA SentGrows ==
    ASSUME at \in Seq(AtMessage), NEW m \in AtMessage, Send(<<m>>)
    PROVE  Sent' \subseteq Sent \cup {m}
<1> DEFINE one == <<m>>
<1>1. one \in Seq(AtMessage) /\ Len(one) = 1 /\ one[1] = m
  OBVIOUS
<1> DEFINE new == at \o one
<1>2. at' = new
  BY DEF Send
<1> HIDE DEF one
<1>3. /\ at' \in Seq(AtMessage)
      /\ Len(at') = Len(at) + 1
      /\ \A i \in 1 .. Len(at) + 1 : at'[i] = IF i <= Len(at) THEN at[i] ELSE one[i - Len(at)]
  <2>1. /\ new \in Seq(AtMessage)
        /\ Len(new) = Len(at) + Len(one)
        /\ \A i \in 1 .. Len(at) + Len(one) : new[i] = IF i <= Len(at) THEN at[i] ELSE one[i - Len(at)]
    BY <1>1, ConcatProperties
  <2> HIDE DEF new
  <2> QED
    BY <1>1, <1>2, <2>1
<1> HIDE DEF new
<1> SUFFICES ASSUME NEW i \in DOMAIN at'
             PROVE  at'[i] \in Sent \cup {m}
  BY DEF Sent
<1>4. i \in 1 .. Len(at) + 1
  BY <1>3
<1>5. CASE i <= Len(at)
  BY <1>3, <1>4, <1>5 DEF Sent
<1>6. CASE i = Len(at) + 1
  BY <1>1, <1>3, <1>4, <1>6
<1> QED
  BY <1>4, <1>5, <1>6

LEMMA SentShrinks ==
    ASSUME at \in Seq(AtMessage), at # <<>>, at' = Tail(at)
    PROVE  Sent' \subseteq Sent /\ Head(at) \in Sent
<1>1. /\ Tail(at) \in Seq(AtMessage)
      /\ Len(Tail(at)) = Len(at) - 1
      /\ \A i \in 1 .. Len(Tail(at)) : Tail(at)[i] = at[i + 1]
      /\ Len(at) \in Nat \ {0}
      /\ Head(at) = at[1]
  BY HeadTailProperties
<1>2. Head(at) \in Sent
  BY <1>1 DEF Sent
<1> SUFFICES ASSUME NEW i \in 1 .. Len(Tail(at))
             PROVE  Tail(at)[i] \in Sent
  BY <1>1, <1>2 DEF Sent
<1> QED
  BY <1>1 DEF Sent

\* Configuring a request starts its dialogue and sends its parameter, if any.
LEMMA ConfigureStage ==
    ASSUME NEW s \in Slots, NEW r \in Requests,
           NEW ev \in [Slots -> Event \cup {NoEvent}],
           at \in Seq(AtMessage), Configure(s, r, ev)
    PROVE  /\ event'[s].stage = FirstStage(r.mode)
           /\ event'[s].status = "WAITING"
           /\ r.mode = "ACK" =>
                Sent' \subseteq Sent \cup {[cmd |-> "CONFIG", config |-> r.config]}
           /\ r.mode # "ACK" => at' = at
<1>1. event'[s] = [stage |-> FirstStage(r.mode), status |-> "WAITING"]
  BY DEF Configure
<1>2. ASSUME r.mode = "ACK"
      PROVE  Sent' \subseteq Sent \cup {[cmd |-> "CONFIG", config |-> r.config]}
  <2>1. r.config \in Configs
    BY <1>2, ControlAssumption DEF Request, GetModes
  <2>2. [cmd |-> "CONFIG", config |-> r.config] \in AtMessage
    BY <2>1 DEF AtMessage
  <2>3. Send(<<[cmd |-> "CONFIG", config |-> r.config]>>)
    BY <1>2 DEF Configure
  <2> QED
    BY <2>2, <2>3, SentGrows
<1>3. ASSUME r.mode # "ACK" PROVE at' = at
  BY <1>3, EmptySeq, ConcatEmptySeq DEF Configure, Send
<1> QED
  BY <1>1, <1>2, <1>3

\* Ring and oldest request, for the actions that run or end its event.
LEMMA CurrentEvent ==
    ASSUME IInv, pc \in {"run", "end"}
    PROVE  /\ ~RingEmpty
           /\ current_event = current_index
           /\ current_index \in Slots
           /\ Asked \in Requests
<1>1. ~RingEmpty /\ current_event = current_index /\ current_index \in Slots
  BY DEF IInv, RunsAnEvent, OneOutstanding, TypeOK
<1>2. InRing(current_index)
  BY <1>1 DEF IInv, TypeOK, RingEmpty, InRing, Slots
<1> QED
  BY <1>1, <1>2 DEF IInv, RingHolds, Asked

\* What one step of the event does.
FromTo(froms, tos) == Stage \in froms /\ Stage' \in tos
Success == Status = "FINISH_SUCCESS"
SendsAck == Sent' \subseteq Sent \cup {Ctrl("ACK")}

DialogueSteps ==
    \/ FromTo({"MASK_TRUE"}, {"MASK_FALSE"}) /\ mask = TRUE /\ ~Success' /\ SendsAck
    \/ FromTo({"MASK_TRUE"}, {"MASK_TRUE"}) /\ ~Success' /\ UNCHANGED at
    \/ FromTo({"MASK_FALSE"}, {"MASK_FALSE"}) /\ (Success' => mask = FALSE) /\ SendsAck
    \/ FromTo({"REQUEST"}, {"REQUEST", "RECEIVE"}) /\ ~Success'
    \/ FromTo({"RECEIVE"}, {"RECEIVE", "REQUEST", "RECEIVED"}) /\ ~Success' /\ SendsAck
    \/ FromTo({"RECEIVED"}, {"RECEIVED"}) /\ (Success' => mask = FALSE) /\ SendsAck

LEMMA EndStepStage ==
    ASSUME IInv, pc = "run",
           NEW stage \in AckStages \cup GetStages,
           NEW status \in {"WAITING", "FINISH_SUCCESS"},
           NEW ok \in BOOLEAN,
           EndStep(stage, status, ok)
    PROVE  /\ Stage' = stage
           /\ Success' => status = "FINISH_SUCCESS"
           /\ pc' \in {"loop", "end"}
           /\ UNCHANGED <<data, current_index, nb_event, control_waited, ardrone_state,
                          mask, shutdown>>
<1>1. current_event = current_index /\ current_index \in Slots
  BY CurrentEvent
<1> DEFINE final == IF ~ok /\ retry + 1 > NumRetries THEN "FINISH_FAILURE" ELSE status
<1>2. event'[current_index] = [stage |-> stage, status |-> final]
  BY <1>1 DEF EndStep, IInv, TypeOK
<1>3. UNCHANGED <<data, current_index, nb_event, control_waited, ardrone_state, mask, shutdown>>
  BY DEF EndStep, waitVars, exitVars
<1> QED
  BY <1>2, <1>3 DEF EndStep, Stage, Status, Success

LEMMA DialogueAction ==
    ASSUME IInv, UNCHANGED droneVars,
           \/ AwaitMask \/ AwaitReset \/ RequestFile
           \/ ReceiveChunk \/ ReceiveNothing \/ AwaitFileReset
    PROVE  /\ DialogueSteps
           /\ pc = "run" /\ pc' \in {"loop", "end"}
           /\ UNCHANGED <<data, current_index, nb_event, control_waited, ardrone_state,
                          mask, shutdown>>
<1> DEFINE Same == UNCHANGED <<data, current_index, nb_event, control_waited, ardrone_state,
                               mask, shutdown>>
           After == pc' \in {"loop", "end"} /\ Same
<1>1. pc = "run" /\ current_event = current_index
  BY CurrentEvent DEF AwaitMask, AwaitReset, RequestFile, ReceiveChunk, ReceiveNothing,
                      AwaitFileReset, Running
<1>2. at \in Seq(AtMessage) /\ mask \in BOOLEAN
  BY DEF IInv, TypeOK
<1>3. Ctrl("ACK") \in AtMessage
  BY DEF Ctrl, AtMessage, Modes
<1>4. ASSUME Send(<<Ctrl("ACK")>>) PROVE SendsAck
  BY <1>2, <1>3, <1>4, SentGrows DEF SendsAck
<1>5. ASSUME UNCHANGED at PROVE SendsAck
  BY <1>5 DEF SendsAck, Sent
<1> USE DEF FromTo
<1>6. CASE AwaitMask
  <2>1. Stage = "MASK_TRUE"
    BY <1>1, <1>6 DEF AwaitMask, Running, Stage
  <2>2. CASE mask
    <3>1. EndStep("MASK_FALSE", "WAITING", TRUE) /\ SendsAck
      BY <1>4, <1>6, <2>2 DEF AwaitMask
    <3>2. Stage' = "MASK_FALSE" /\ ~Success' /\ After
      BY <1>1, <3>1, EndStepStage DEF AckStages
    <3> QED
      BY <1>1, <1>2, <2>1, <2>2, <3>1, <3>2 DEF DialogueSteps
  <2>3. CASE ~mask
    <3>1. EndStep("MASK_TRUE", "WAITING", FALSE) /\ UNCHANGED at
      BY <1>6, <2>3 DEF AwaitMask
    <3>2. Stage' = "MASK_TRUE" /\ ~Success' /\ After
      BY <1>1, <3>1, EndStepStage DEF AckStages
    <3> QED
      BY <1>1, <2>1, <3>1, <3>2 DEF DialogueSteps
  <2> QED
    BY <2>2, <2>3
<1>7. CASE AwaitReset
  <2>1. Stage = "MASK_FALSE" /\ SendsAck
    BY <1>1, <1>4, <1>7 DEF AwaitReset, Running, Stage
  <2> DEFINE status == IF mask THEN "WAITING" ELSE "FINISH_SUCCESS"
  <2>2. EndStep("MASK_FALSE", status, ~mask)
    BY <1>7 DEF AwaitReset
  <2>3. status \in {"WAITING", "FINISH_SUCCESS"} /\ (status = "FINISH_SUCCESS" => mask = FALSE)
    BY <1>2
  <2>4. Stage' = "MASK_FALSE" /\ (Success' => mask = FALSE) /\ After
    <3> HIDE DEF status
    <3>1. "MASK_FALSE" \in AckStages \cup GetStages /\ (~mask) \in BOOLEAN
      BY DEF AckStages
    <3> QED
      BY <1>1, <2>2, <2>3, <3>1, EndStepStage
  <2> QED
    BY <1>1, <2>1, <2>4 DEF DialogueSteps
<1>8. CASE RequestFile
  <2>1. Stage = "REQUEST"
    BY <1>1, <1>8 DEF RequestFile, Running, Stage
  <2>2. EndStep("REQUEST", "WAITING", TRUE) \/ EndStep("RECEIVE", "WAITING", TRUE)
    BY <1>8 DEF RequestFile
  <2>3. Stage' \in {"REQUEST", "RECEIVE"} /\ ~Success' /\ After
    BY <1>1, <2>2, EndStepStage DEF GetStages
  <2> QED
    BY <1>1, <2>1, <2>3 DEF DialogueSteps
<1>9. CASE ReceiveChunk
  <2>1. Stage = "RECEIVE" /\ SendsAck
    BY <1>1, <1>4, <1>5, <1>9 DEF ReceiveChunk, Running, Stage
  <2>2. EndStep("RECEIVED", "WAITING", TRUE) \/ EndStep("RECEIVE", "WAITING", TRUE)
    BY <1>9 DEF ReceiveChunk
  <2>3. Stage' \in {"RECEIVED", "RECEIVE"} /\ ~Success' /\ After
    BY <1>1, <2>2, EndStepStage DEF GetStages
  <2> QED
    BY <1>1, <2>1, <2>3 DEF DialogueSteps
<1>10. CASE ReceiveNothing
  <2>1. Stage = "RECEIVE" /\ SendsAck
    BY <1>1, <1>5, <1>10 DEF ReceiveNothing, Running, Stage
  <2>2. EndStep("RECEIVE", "WAITING", FALSE) \/ EndStep("REQUEST", "WAITING", FALSE)
    BY <1>10 DEF ReceiveNothing
  <2>3. Stage' \in {"RECEIVE", "REQUEST"} /\ ~Success' /\ After
    BY <1>1, <2>2, EndStepStage DEF GetStages
  <2> QED
    BY <1>1, <2>1, <2>3 DEF DialogueSteps
<1>11. CASE AwaitFileReset
  <2>1. Stage = "RECEIVED" /\ SendsAck
    BY <1>1, <1>4, <1>5, <1>11 DEF AwaitFileReset, Running, Stage
  <2>2. \/ mask = TRUE /\ EndStep("RECEIVED", "WAITING", TRUE)
        \/ mask = FALSE /\ EndStep("RECEIVED", "FINISH_SUCCESS", TRUE)
    BY <1>2, <1>11 DEF AwaitFileReset
  <2>3. Stage' = "RECEIVED" /\ (Success' => mask = FALSE) /\ After
    BY <1>1, <2>2, EndStepStage DEF GetStages
  <2> QED
    BY <1>1, <2>1, <2>3 DEF DialogueSteps
<1> QED
  BY <1>6, <1>7, <1>8, <1>9, <1>10, <1>11

\* What starting a request does.
StartsAsked ==
    /\ Asked' \in Requests
    /\ Stage' = FirstStage(Asked'.mode) /\ Status' = "WAITING"
    /\ Asked'.mode = "ACK" =>
         Sent' \subseteq Sent \cup {[cmd |-> "CONFIG", config |-> Asked'.config]}
    /\ Asked'.mode # "ACK" => at' = at

LEMMA AddEventEffect ==
    ASSUME IInv, NEW r \in Requests, AddEvent(r)
    PROVE  /\ ~RingEmpty'
           /\ UNCHANGED <<current_index, pc, mask, ardrone_state, control_waited, shutdown>>
           /\ RingEmpty => StartsAsked
           /\ ~RingEmpty => UNCHANGED <<Asked, Stage, Status, at>>
<1>1. /\ current_index \in Slots /\ nb_event \in Slots
      /\ at \in Seq(AtMessage)
      /\ event \in [Slots -> Event \cup {NoEvent}]
      /\ data \in [Slots -> [mode : Modes \cup {"NULL"}, config : Configs \cup {NoConfig}]]
      /\ nb_event' = NextSlot(nb_event)
      /\ current_index # nb_event'
      /\ current_index' = current_index
      /\ data' = [data EXCEPT ![nb_event] = r]
  BY NextSlotValue DEF IInv, TypeOK, AddEvent, RingFull
<1>2. nb_event' = NextSlot(current_index) <=> RingEmpty
  BY <1>1, NextSlotInjective DEF RingEmpty
<1>3. ~RingEmpty'
  BY <1>1 DEF RingEmpty
<1>4. UNCHANGED <<current_index, pc, mask, ardrone_state, control_waited, shutdown>>
  BY DEF AddEvent, threadVars, waitVars, exitVars
<1>5. ASSUME RingEmpty PROVE StartsAsked
  <2>1. Asked' = r
    BY <1>1, <1>5 DEF Asked, RingEmpty
  <2>2. Configure(current_index, r, event)
    BY <1>2, <1>5 DEF AddEvent
  <2> QED
    BY <1>1, <2>1, <2>2, ConfigureStage DEF StartsAsked, Stage, Status
<1>6. ASSUME ~RingEmpty PROVE UNCHANGED <<Asked, Stage, Status, at>>
  BY <1>1, <1>2, <1>6 DEF AddEvent, Asked, Stage, Status, RingEmpty
<1> QED
  BY <1>3, <1>4, <1>5, <1>6

LEMMA EventSucceedsEffect ==
    ASSUME IInv, EventSucceeds
    PROVE  /\ ~RingEmpty /\ pc = "end" /\ Success
           /\ pc' = "loop"
           /\ UNCHANGED <<mask, ardrone_state, control_waited, shutdown>>
           /\ RingEmpty' => Stage' = "NULL" /\ Status' = "NULL" /\ at' = at
           /\ ~RingEmpty' => StartsAsked
<1> DEFINE cur == current_index
           next == NextSlot(current_index)
           rest == [event EXCEPT ![cur] = NoEvent]
<1>1. /\ cur \in Slots /\ nb_event \in Slots
      /\ at \in Seq(AtMessage)
      /\ event \in [Slots -> Event \cup {NoEvent}]
      /\ data \in [Slots -> [mode : Modes \cup {"NULL"}, config : Configs \cup {NoConfig}]]
      /\ current_index' = next /\ next \in Slots /\ next # cur
      /\ nb_event' = nb_event
  <2>1. cur \in Slots /\ next \in Slots /\ next # cur
    <3>1. cur \in Slots
      BY DEF IInv, TypeOK
    <3> QED
      BY <3>1, NextSlotValue, ControlAssumption DEF Slots
  <2> QED
    BY <2>1 DEF IInv, TypeOK, EventSucceeds
<1>2. data' = [data EXCEPT ![cur].config = NoConfig]
  BY DEF EventSucceeds
<1>3. ~RingEmpty /\ current_event = cur /\ pc = "end"
  BY CurrentEvent DEF EventSucceeds
<1>4. Success /\ pc' = "loop"
  BY <1>3 DEF EventSucceeds, Success, Status
<1>5. UNCHANGED <<mask, ardrone_state, control_waited, shutdown>>
  BY DEF EventSucceeds, waitVars, exitVars
<1>6. rest \in [Slots -> Event \cup {NoEvent}] /\ rest[next] = NoEvent
  BY <1>1, <1>3 DEF IInv, OneOutstanding
<1>7. ASSUME RingEmpty' PROVE Stage' = "NULL" /\ Status' = "NULL" /\ at' = at
  <2>1. event' = rest /\ at' = at
    BY <1>1, <1>7 DEF EventSucceeds, RingEmpty
  <2>2. event'[next] = NoEvent
    BY <1>6, <2>1
  <2> QED
    BY <1>1, <2>1, <2>2 DEF Stage, Status, NoEvent
<1>8. ASSUME ~RingEmpty' PROVE StartsAsked
  <2>1. current_index' # nb_event
    BY <1>1, <1>8 DEF RingEmpty
  <2>2. next = IF cur = RingSize - 1 THEN 0 ELSE cur + 1
    BY <1>1, NextSlotValue
  <2>3. InRing(next)
    BY <1>1, <1>3, <2>1, <2>2, ControlAssumption DEF InRing, RingEmpty, Slots
  <2>4. data[next] \in Requests /\ data'[next] = data[next]
    BY <1>1, <1>2, <2>3 DEF IInv, RingHolds
  <2>5. Configure(next, data[next], rest)
    BY <1>1, <2>1 DEF EventSucceeds
  <2>6. Asked' = data[next]
    BY <1>1, <2>4 DEF Asked
  <2> HIDE DEF next, rest
  <2>7. /\ event'[next].stage = FirstStage(data[next].mode)
        /\ event'[next].status = "WAITING"
        /\ data[next].mode = "ACK" =>
             Sent' \subseteq Sent \cup {[cmd |-> "CONFIG", config |-> data[next].config]}
        /\ data[next].mode # "ACK" => at' = at
    BY <1>1, <1>6, <2>4, <2>5, ConfigureStage
  <2> QED
    BY <1>1, <2>4, <2>6, <2>7 DEF StartsAsked, Stage, Status
<1> QED
  BY <1>3, <1>4, <1>5, <1>7, <1>8

LEMMA EventFailsEffect ==
    ASSUME IInv, EventFails
    PROVE  /\ ~RingEmpty /\ pc = "end"
           /\ ~RingEmpty'
           /\ Asked' = Asked
           /\ pc' = "loop"
           /\ UNCHANGED <<mask, ardrone_state, control_waited, shutdown>>
           /\ StartsAsked
<1>1. ~RingEmpty /\ pc = "end" /\ current_index \in Slots /\ Asked \in Requests
  BY CurrentEvent DEF EventFails
<1>2. at \in Seq(AtMessage) /\ event \in [Slots -> Event \cup {NoEvent}]
  BY DEF IInv, TypeOK
<1>3. /\ Configure(current_index, Asked, event)
      /\ UNCHANGED <<data, current_index, nb_event, mask>>
      /\ UNCHANGED waitVars /\ UNCHANGED exitVars /\ pc' = "loop"
  BY DEF EventFails, Asked
<1>4. Asked' = Asked /\ ~RingEmpty'
  BY <1>1, <1>3 DEF Asked, RingEmpty
<1>5. StartsAsked
  BY <1>1, <1>2, <1>3, <1>4, ConfigureStage DEF StartsAsked, Stage, Status
<1> QED
  BY <1>1, <1>3, <1>4, <1>5 DEF waitVars, exitVars

\* The steps that leave the manager, the drone and the AT commands alone: the
\* thread between two events, and the exit.  What the thread looks at is what
\* it looked at, unless the shutdown handed over its state.
LoopStep == \/ Wait \/ Leave \/ Timeout \/ SpuriousWakeup \/ Snapshot \/ TakeEvent
            \/ \E ok \in BOOLEAN : Connect(ok)
            \/ RequestExit \/ ShutdownResume \/ ShutdownStop

LEMMA LoopEffect ==
    ASSUME IInv, WaitAnnounced, LoopStep
    PROVE  /\ UNCHANGED <<data, event, current_index, nb_event, at>>
           /\ pc' = "end" <=> pc = "end"
           /\ WaitAnnounced'
           /\ shutdown' = "no" =>
                /\ shutdown = "no"
                /\ Spurious = FALSE /\ Looks' => Looks /\ Told' = Told
<1> USE DEF WaitAnnounced, Looks, Told, managerVars, threadVars, waitVars, exitVars
<1>1. CASE Wait
  BY <1>1 DEF Wait
<1>2. CASE Leave \/ Timeout
  BY <1>2 DEF Leave, Timeout
<1>3. CASE SpuriousWakeup
  BY <1>3 DEF SpuriousWakeup
<1>4. CASE Snapshot
  BY <1>4 DEF Snapshot
<1>5. CASE TakeEvent
  BY <1>5 DEF TakeEvent
<1>6. CASE \E ok \in BOOLEAN : Connect(ok)
  BY <1>6 DEF Connect
<1>7. CASE RequestExit
  BY <1>7 DEF RequestExit
<1>8. CASE ShutdownResume
  BY <1>8 DEF ShutdownResume, Resume
<1>9. CASE ShutdownStop
  BY <1>9 DEF ShutdownStop
<1> QED
  BY <1>1, <1>2, <1>3, <1>4, <1>5, <1>6, <1>7, <1>8, <1>9 DEF LoopStep

-----------------------------------------------------------------------------
LEMMA InitDialogue == Init => Dialogue
  BY ControlAssumption
     DEF Init, ControlInit, Dialogue, StageOfMode, SuccessStage, WaitAnnounced, RingEmpty,
         Status, NoEvent, Slots

LEMMA NextDialogue ==
    ASSUME IInv, Dialogue, [Next]_vars
    PROVE  Dialogue'
<1> USE DEF Dialogue
<1>1. ASSUME NEW r \in Requests, AddEvent(r) PROVE Dialogue'
  <2>1. CASE RingEmpty
    BY <1>1, <2>1, AddEventEffect
       DEF StageOfMode, SuccessStage, WaitAnnounced, StartsAsked, FirstStage, AckStages
  <2>2. CASE ~RingEmpty
    BY <1>1, <2>2, AddEventEffect DEF StageOfMode, SuccessStage, WaitAnnounced
  <2> QED
    BY <2>1, <2>2
<1>2. CASE EventSucceeds
  BY <1>2, EventSucceedsEffect
     DEF StageOfMode, SuccessStage, WaitAnnounced, StartsAsked, FirstStage, AckStages
<1>3. CASE EventFails
  BY <1>3, EventFailsEffect
     DEF StageOfMode, SuccessStage, WaitAnnounced, StartsAsked, FirstStage, AckStages
<1>4. CASE /\ \/ AwaitMask \/ AwaitReset \/ RequestFile
              \/ ReceiveChunk \/ ReceiveNothing \/ AwaitFileReset
           /\ UNCHANGED droneVars
  <2>1. /\ DialogueSteps
        /\ pc = "run" /\ pc' \in {"loop", "end"}
        /\ UNCHANGED <<data, current_index, nb_event>>
    BY <1>4, DialogueAction
  <2>2. Asked' = Asked /\ RingEmpty' = RingEmpty /\ WaitAnnounced'
    BY <2>1 DEF Asked, RingEmpty, WaitAnnounced
  <2>3. SuccessStage' /\ (Stage' \in AckStages <=> Stage \in AckStages)
    BY <2>1 DEF DialogueSteps, FromTo, SuccessStage, Success, AckStages
  <2>4. StageOfMode'
    BY <2>2, <2>3 DEF StageOfMode
  <2> QED
    BY <2>2, <2>3, <2>4
<1>5. CASE LoopStep
  <2>1. UNCHANGED <<data, event, current_index, nb_event>> /\ WaitAnnounced'
    BY <1>5, LoopEffect
  <2> QED
    BY <2>1 DEF StageOfMode, SuccessStage, Asked, Stage, Status, RingEmpty
<1>6. CASE Handle \/ LoseAt \/ EmitNavdata \/ LoseNavdata \/ DeliverNavdata \/ UNCHANGED vars
  <2>1. UNCHANGED <<data, event, current_index, nb_event>> /\ WaitAnnounced'
    BY <1>6 DEF Handle, HandleAt, LoseAt, EmitNavdata, LoseNavdata, DeliverNavdata, Resume,
                WaitAnnounced, managerVars, threadVars, waitVars, controlVars, vars
  <2> QED
    BY <2>1 DEF StageOfMode, SuccessStage, Asked, Stage, Status, RingEmpty
<1> QED
  BY <1>1, <1>2, <1>3, <1>4, <1>5, <1>6
     DEF Next, Client, ControlThread, ThreadStep, Exit, LoopStep

-----------------------------------------------------------------------------
LEMMA InitCauses == Init => CausesAlone
<1> SUFFICES ASSUME Init
             PROVE  Causes
  BY DEF CausesAlone
<1>1. /\ at = <<>> /\ nav = <<>> /\ pc = "loop"
      /\ current_index = nb_event
      /\ event[current_index] = NoEvent
      /\ Fresh => commandMask = FALSE
  BY ControlAssumption DEF Init, ControlInit, Slots, Fresh
<1>2. Sent = {} /\ Stage = "NULL" /\ RingEmpty
  BY <1>1 DEF Sent, Stage, NoEvent, RingEmpty
<1> QED
  BY <1>1, <1>2
     DEF Causes, IdleCleared, OnlyAsked, NotYetTold, ClearOnItsWay, ClearSeen, ClearAtEnd,
         Cleared, Quiet, Looks, LastStage, Resets

\* Sending the ACK control mode keeps what was cleared so.
LEMMA AckKeepsCleared ==
    ASSUME Cleared, UNCHANGED droneVars, SendsAck
    PROVE  Cleared'
  BY DEF Cleared, SendsAck, droneVars, Ctrl

\* A step of the event being run.
LEMMA DialogueCauses ==
    ASSUME IInv, Dialogue, Causes, UNCHANGED droneVars,
           \/ AwaitMask \/ AwaitReset \/ RequestFile
           \/ ReceiveChunk \/ ReceiveNothing \/ AwaitFileReset
    PROVE  Causes'
<1>1. /\ DialogueSteps
      /\ pc = "run" /\ pc' \in {"loop", "end"}
      /\ UNCHANGED <<data, current_index, nb_event, mask>>
  BY DialogueAction
<1>2. Asked' = Asked /\ ~RingEmpty /\ ~RingEmpty' /\ Looks /\ ~Looks' /\ Told = mask
  BY <1>1, CurrentEvent DEF Asked, RingEmpty, Looks, Told
<1>3. UNCHANGED <<nav, commandMask, config>>
  BY DEF droneVars
<1>4. ASSUME Stage \in AckStages PROVE SendsAck
  BY <1>1, <1>4 DEF DialogueSteps, FromTo, SendsAck, Sent, AckStages
<1>5. OnlyAsked'
  BY <1>2, <1>4 DEF Causes, OnlyAsked, Dialogue, StageOfMode, SendsAck, Ctrl
<1>6. NotYetTold'
  <2> SUFFICES ASSUME Fresh, Asked.mode = "ACK", config # Asked.config
               PROVE  Quiet' /\ Stage' = "MASK_TRUE"
    BY <1>2, <1>3 DEF NotYetTold
  <2>1. Quiet /\ Stage = "MASK_TRUE"
    BY <1>2 DEF Causes, NotYetTold
  <2>2. Stage' = "MASK_TRUE"
    BY <1>1, <1>2, <2>1 DEF DialogueSteps, FromTo, Quiet
  <2> QED
    BY <1>2, <1>3, <2>1, <2>2 DEF Quiet
<1>7. ClearOnItsWay'
  <2> SUFFICES ASSUME LastStage', nav = <<FALSE>>
               PROVE  Cleared'
    BY <1>2, <1>3 DEF ClearOnItsWay, Resets
  <2>1. Resets /\ SendsAck
    BY <1>1, <1>2 DEF LastStage, Resets, DialogueSteps, FromTo
  <2> QED
    BY <2>1, AckKeepsCleared DEF Causes, ClearOnItsWay
<1>8. ClearAtEnd'
  <2> SUFFICES ASSUME Success', LastStage'
               PROVE  Cleared' /\ nav' # <<TRUE>>
    BY DEF ClearAtEnd, Success
  <2>1. LastStage /\ mask = FALSE /\ SendsAck
    BY <1>1 DEF LastStage, DialogueSteps, FromTo
  <2>2. Cleared /\ nav # <<TRUE>>
    BY <1>2, <2>1 DEF Causes, ClearSeen
  <2> QED
    BY <1>3, <2>1, <2>2, AckKeepsCleared
<1>9. IdleCleared' /\ ClearSeen' /\ nav' \in {<<>>, <<TRUE>>, <<FALSE>>}
  BY <1>2, <1>3 DEF IdleCleared, ClearSeen, Causes
<1> QED
  BY <1>5, <1>6, <1>7, <1>8, <1>9 DEF Causes

\* Starting a request that the drone has no trace of.
LEMMA StartCauses ==
    ASSUME Causes, UNCHANGED droneVars, StartsAsked, ~RingEmpty',
           pc' # "end",
           Fresh => Cleared /\ Quiet'
    PROVE  Causes'
<1>1. UNCHANGED <<nav, commandMask, config>>
  BY DEF droneVars
<1>2. Stage' \in {"MASK_TRUE", "REQUEST"} /\ (Asked'.mode = "ACK" <=> Stage' = "MASK_TRUE")
  BY DEF StartsAsked, FirstStage
<1>3. OnlyAsked'
  BY DEF OnlyAsked, StartsAsked, Cleared
<1>4. NotYetTold'
  BY <1>2 DEF NotYetTold
<1>5. ClearOnItsWay'
  BY <1>2 DEF ClearOnItsWay, Resets, LastStage, Quiet
<1>6. ClearSeen' /\ ClearAtEnd' /\ IdleCleared'
  BY <1>2 DEF ClearSeen, ClearAtEnd, LastStage, IdleCleared
<1> QED
  BY <1>1, <1>3, <1>4, <1>5, <1>6 DEF Causes

LEMMA AddEventCauses ==
    ASSUME IInv, Causes, UNCHANGED droneVars, NEW r \in Requests, AddEvent(r)
    PROVE  Causes'
<1>1. /\ ~RingEmpty'
      /\ UNCHANGED <<pc, mask, ardrone_state, nav, commandMask, config>>
      /\ RingEmpty => StartsAsked
      /\ ~RingEmpty => UNCHANGED <<Asked, Stage, Status, at>>
  BY AddEventEffect DEF droneVars
<1>2. Looks' = Looks /\ Told' = Told /\ Quiet' = Quiet
  BY <1>1 DEF Looks, Told, Quiet
<1>3. CASE RingEmpty
  <2>1. Fresh => Cleared /\ Quiet'
    BY <1>2, <1>3 DEF Causes, IdleCleared
  <2>2. pc' # "end"
    BY <1>1, <1>3, CurrentEvent
  <2> QED
    BY <1>1, <1>3, <2>1, <2>2, StartCauses
<1>4. CASE ~RingEmpty
  <2>1. Sent' = Sent /\ Cleared' = Cleared /\ LastStage' = LastStage /\ Resets' = Resets
    BY <1>1, <1>2, <1>4 DEF Sent, Cleared, LastStage, Resets
  <2>2. IdleCleared' /\ OnlyAsked' /\ NotYetTold'
    BY <1>1, <1>2, <1>4, <2>1 DEF Causes, IdleCleared, OnlyAsked, NotYetTold
  <2>3. ClearOnItsWay' /\ ClearSeen' /\ ClearAtEnd'
    BY <1>1, <1>2, <1>4, <2>1 DEF Causes, ClearOnItsWay, ClearSeen, ClearAtEnd
  <2> QED
    BY <1>1, <2>2, <2>3 DEF Causes
<1> QED
  BY <1>3, <1>4

LEMMA EventSucceedsCauses ==
    ASSUME IInv, Dialogue, Causes, UNCHANGED droneVars, EventSucceeds
    PROVE  Causes'
<1>1. /\ ~RingEmpty /\ pc = "end" /\ Success /\ pc' = "loop"
      /\ RingEmpty' => Stage' = "NULL" /\ Status' = "NULL" /\ at' = at
      /\ ~RingEmpty' => StartsAsked
  BY EventSucceedsEffect
<1>2. UNCHANGED <<nav, commandMask, config>>
  BY DEF droneVars
<1>3. Fresh => Cleared /\ nav # <<TRUE>>
  BY <1>1 DEF Causes, ClearAtEnd, Dialogue, SuccessStage, LastStage, Success
<1>4. Fresh => Quiet'
  BY <1>1, <1>2, <1>3 DEF Quiet, Cleared, Looks
<1>5. CASE RingEmpty'
  <2>1. Fresh => Cleared'
    BY <1>1, <1>2, <1>3, <1>5 DEF Cleared, Sent
  <2>2. IdleCleared' /\ OnlyAsked' /\ NotYetTold'
    BY <1>4, <1>5, <2>1 DEF IdleCleared, OnlyAsked, NotYetTold
  <2>3. ClearOnItsWay' /\ ClearSeen' /\ ClearAtEnd'
    BY <1>1, <1>5 DEF ClearOnItsWay, ClearSeen, ClearAtEnd, Resets, LastStage
  <2> QED
    BY <1>2, <2>2, <2>3 DEF Causes
<1>6. CASE ~RingEmpty'
  BY <1>1, <1>3, <1>4, <1>6, StartCauses
<1> QED
  BY <1>5, <1>6

\* A request that failed: its parameter, if it is on its way, is its own.
LEMMA EventFailsCauses ==
    ASSUME IInv, Causes, UNCHANGED droneVars, EventFails
    PROVE  Causes'
<1>1. /\ ~RingEmpty /\ ~RingEmpty' /\ Asked' = Asked /\ pc' = "loop" /\ StartsAsked
      /\ pc = "end"
  BY EventFailsEffect
<1>2. UNCHANGED <<nav, commandMask, config>>
  BY DEF droneVars
<1>3. ~Looks'
  BY <1>1 DEF Looks
<1>4. /\ Stage' \in {"MASK_TRUE", "REQUEST"}
      /\ Asked.mode = "ACK" => Stage' = "MASK_TRUE"
  BY <1>1 DEF StartsAsked, FirstStage
<1>5. OnlyAsked'
  BY <1>1 DEF Causes, OnlyAsked, StartsAsked
<1>6. NotYetTold'
  BY <1>1, <1>2, <1>3, <1>4 DEF Causes, NotYetTold, Quiet
<1>7. ClearOnItsWay' /\ ClearSeen' /\ ClearAtEnd' /\ IdleCleared'
  BY <1>1, <1>3, <1>4 DEF ClearOnItsWay, ClearSeen, ClearAtEnd, IdleCleared, Resets, LastStage
<1> QED
  BY <1>2, <1>5, <1>6, <1>7 DEF Causes

\* The steps of the thread between two events.
LEMMA LoopCauses ==
    ASSUME IInv, Dialogue, CausesAlone, UNCHANGED droneVars, Spurious = FALSE, LoopStep
    PROVE  CausesAlone'
<1> SUFFICES ASSUME shutdown' = "no"
             PROVE  Causes'
  BY DEF CausesAlone
<1>1. /\ UNCHANGED <<data, event, current_index, nb_event, at>>
      /\ pc' = "end" <=> pc = "end"
      /\ Looks' => Looks /\ Told' = Told
      /\ shutdown = "no"
  BY LoopEffect DEF Dialogue
<1>2. Causes
  BY <1>1 DEF CausesAlone
<1>3. UNCHANGED <<nav, commandMask, config>>
  BY DEF droneVars
<1>4. UNCHANGED <<Asked, Stage, Status, Sent, Cleared, LastStage>> /\ RingEmpty' = RingEmpty
  BY <1>1, <1>3 DEF Asked, Stage, Status, Sent, Cleared, LastStage, RingEmpty
<1>5. (Quiet => Quiet') /\ (Resets' => Resets)
  BY <1>1, <1>3, <1>4 DEF Quiet, Resets
<1>6. IdleCleared' /\ OnlyAsked' /\ NotYetTold'
  BY <1>2, <1>3, <1>4, <1>5 DEF Causes, IdleCleared, OnlyAsked, NotYetTold
<1>7. ClearOnItsWay' /\ ClearSeen' /\ ClearAtEnd'
  BY <1>1, <1>2, <1>3, <1>4, <1>5 DEF Causes, ClearOnItsWay, ClearSeen, ClearAtEnd
<1> QED
  BY <1>2, <1>3, <1>6, <1>7 DEF Causes

\* The drone receives a command, or a command is lost.
LEMMA CommandCauses ==
    ASSUME IInv, Causes, Handle \/ LoseAt
    PROVE  Causes'
<1>1. at \in Seq(AtMessage) /\ at # <<>> /\ at' = Tail(at)
  BY DEF IInv, TypeOK, Handle, HandleAt, LoseAt
<1>2. Sent' \subseteq Sent /\ Head(at) \in Sent
  BY <1>1, SentShrinks
<1>3. UNCHANGED <<data, event, current_index, nb_event, pc, mask, ardrone_state, nav>>
  BY DEF Handle, HandleAt, LoseAt, droneVars, managerVars, threadVars, waitVars
<1>4. \/ UNCHANGED <<commandMask, config>>
      \/ /\ commandMask' = (Head(at) # Ctrl("ACK"))
         /\ config' = (IF Head(at).cmd = "CONFIG" THEN Head(at).config ELSE config)
  BY DEF Handle, HandleAt, LoseAt, droneVars
<1>5. /\ UNCHANGED <<Asked, Stage, Status, Looks, Told, LastStage, Resets>>
      /\ RingEmpty' = RingEmpty
  BY <1>3 DEF Asked, Stage, Status, Looks, Told, LastStage, Resets, RingEmpty
<1>6. Head(at) = Ctrl("ACK") => commandMask' \in {commandMask, FALSE} /\ config' = config
  <2> SUFFICES ASSUME Head(at) = Ctrl("ACK"), ~UNCHANGED <<commandMask, config>>
               PROVE  commandMask' = FALSE /\ config' = config
    BY <1>4
  <2>1. commandMask' = (Head(at) # Ctrl("ACK"))
    BY <1>4
  <2>2. commandMask' = FALSE
    BY <2>1, Zenon
  <2>3. Head(at).cmd # "CONFIG"
    BY DEF Ctrl
  <2> QED
    BY <1>4, <2>2, <2>3
<1>7. Cleared => Cleared'
  BY <1>2, <1>6 DEF Cleared
<1>8. Quiet /\ Head(at) = Ctrl("ACK") => Quiet'
  BY <1>3, <1>5, <1>6 DEF Quiet
<1>9. IdleCleared'
  BY <1>2, <1>5, <1>7, <1>8 DEF Causes, IdleCleared, Cleared
<1>10. OnlyAsked'
  BY <1>2, <1>5 DEF Causes, OnlyAsked
<1>11. NotYetTold'
  <2> SUFFICES ASSUME Fresh, ~RingEmpty, Asked.mode = "ACK", config' # Asked.config
               PROVE  Quiet' /\ Stage = "MASK_TRUE"
    BY <1>5 DEF NotYetTold
  <2>1. Head(at) \in {Ctrl("ACK"), [cmd |-> "CONFIG", config |-> Asked.config]}
    BY <1>2 DEF Causes, OnlyAsked
  <2>2. CASE UNCHANGED <<commandMask, config>>
    BY <1>3, <1>5, <2>2 DEF Causes, NotYetTold, Quiet
  <2>3. CASE Head(at) = Ctrl("ACK")
    BY <1>6, <1>8, <2>3 DEF Causes, NotYetTold
  <2>4. CASE Head(at) = [cmd |-> "CONFIG", config |-> Asked.config] /\ config' # config
    BY <1>4, <2>4
  <2>5. CASE Head(at) = [cmd |-> "CONFIG", config |-> Asked.config] /\ config' = config
    <3>1. UNCHANGED <<commandMask, config>> \/ config' = Asked.config
      BY <1>4, <2>5
    <3> QED
      BY <2>2, <3>1
  <2> QED
    BY <2>1, <2>3, <2>4, <2>5
<1>12. ClearOnItsWay' /\ ClearSeen' /\ ClearAtEnd'
  BY <1>3, <1>5, <1>7 DEF Causes, ClearOnItsWay, ClearSeen, ClearAtEnd
<1> QED
  BY <1>3, <1>9, <1>10, <1>11, <1>12 DEF Causes

\* The drone emits navdata: nothing else is in flight, in either direction.
LEMMA EmitCauses ==
    ASSUME IInv, Causes, OneInFlight, EmitNavdata
    PROVE  Causes'
<1>1. at = <<>> /\ nav = <<>> /\ nav' = <<commandMask>>
  <2>1. at = <<>> /\ Len(nav) < 1 /\ nav' = Append(nav, commandMask)
    BY DEF EmitNavdata, OneInFlight
  <2>2. nav = <<>>
    BY <2>1 DEF Causes
  <2> QED
    BY <2>1, <2>2
<1>2. /\ UNCHANGED <<data, event, current_index, nb_event, pc, mask, ardrone_state, at>>
      /\ UNCHANGED <<commandMask, config>>
  BY DEF EmitNavdata, controlVars
<1>3. /\ UNCHANGED <<Asked, Stage, Status, Looks, Told, LastStage, Resets, Sent, Cleared>>
      /\ RingEmpty' = RingEmpty
  BY <1>2 DEF Asked, Stage, Status, Looks, Told, LastStage, Resets, Sent, Cleared, RingEmpty
<1>4. commandMask \in BOOLEAN
  BY DEF IInv, TypeOK
<1>5. nav' \in {<<TRUE>>, <<FALSE>>}
  BY <1>1, <1>4
<1>6. commandMask = FALSE => nav' # <<TRUE>>
  BY <1>1
<1>7. nav' = <<FALSE>> => Cleared
  <2>1. Sent = {}
    BY <1>1 DEF Sent
  <2>2. nav'[1] = commandMask
    BY <1>1
  <2>3. ASSUME nav' = <<FALSE>> PROVE commandMask = FALSE
    BY <2>2, <2>3
  <2> QED
    BY <2>1, <2>3 DEF Cleared
<1>8. Quiet => Quiet'
  BY <1>2, <1>3, <1>6 DEF Quiet
<1>9. IdleCleared' /\ OnlyAsked' /\ NotYetTold'
  BY <1>2, <1>3, <1>8 DEF Causes, IdleCleared, OnlyAsked, NotYetTold
<1>10. ClearOnItsWay'
  BY <1>3, <1>7 DEF ClearOnItsWay
<1>11. ClearSeen' /\ ClearAtEnd'
  BY <1>2, <1>3, <1>6 DEF Causes, ClearSeen, ClearAtEnd, Cleared
<1> QED
  BY <1>5, <1>9, <1>10, <1>11 DEF Causes

\* The navdata in flight are lost, or handed to the thread.
LEMMA NavdataCauses ==
    ASSUME IInv, Dialogue, Causes, LoseNavdata \/ DeliverNavdata
    PROVE  Causes'
<1>1. nav \in {<<TRUE>>, <<FALSE>>} /\ nav' = <<>>
  <2>1. nav # <<>> /\ nav' = Tail(nav)
    BY DEF LoseNavdata, DeliverNavdata
  <2>2. nav = <<TRUE>> \/ nav = <<FALSE>>
    BY <2>1 DEF Causes
  <2>3. CASE nav = <<TRUE>>
    BY <2>1, <2>3
  <2>4. CASE nav = <<FALSE>>
    BY <2>1, <2>4
  <2> QED
    BY <2>2, <2>3, <2>4
<1>2. UNCHANGED <<data, event, current_index, nb_event, mask, at, commandMask, config>>
  BY DEF LoseNavdata, DeliverNavdata, controlVars, managerVars
<1>3. /\ UNCHANGED <<Asked, Stage, Status, LastStage, Sent, Cleared>>
      /\ RingEmpty' = RingEmpty
  BY <1>2 DEF Asked, Stage, Status, LastStage, Sent, Cleared, RingEmpty
<1>4. pc' = "end" => pc = "end"
  BY DEF LoseNavdata, DeliverNavdata, controlVars, Resume
\* What the thread now looks at is what it was looking at, or this packet.
<1>5. Looks' => \/ Looks /\ Told' = Told
                \/ nav = <<Told'>>
  <2>1. CASE LoseNavdata
    <3>1. UNCHANGED <<pc, ardrone_state, mask>>
      BY <2>1 DEF LoseNavdata, controlVars
    <3> QED
      BY <3>1 DEF Looks, Told
  <2>2. CASE DeliverNavdata
    <3>1. nav = <<Head(nav)>>
      <4>1. CASE nav = <<TRUE>>
        BY <4>1
      <4>2. CASE nav = <<FALSE>>
        BY <4>2
      <4> QED
        BY <1>1, <4>1, <4>2
    <3>2. /\ ardrone_state' = (IF control_waited THEN Head(nav) ELSE ardrone_state)
          /\ pc' = (IF control_waited /\ pc = "waiting" THEN "woken" ELSE pc)
      BY <2>2 DEF DeliverNavdata, Resume
    <3>3. CASE pc \in {"waiting", "woken"}
      <4>1. pc' = "woken" /\ ardrone_state' = Head(nav)
        BY <3>2, <3>3 DEF Dialogue, WaitAnnounced
      <4> QED
        BY <3>1, <4>1 DEF Told
    <3>4. CASE pc \notin {"waiting", "woken"}
      BY <1>2, <3>2, <3>4 DEF Looks, Told
    <3> QED
      BY <3>3, <3>4
  <2> QED
    BY <2>1, <2>2
<1>6. Quiet => Quiet'
  <2>1. nav = <<FALSE>> /\ nav = <<Told'>> => Told' = FALSE
    <3>1. <<Told'>>[1] = Told' /\ <<FALSE>>[1] = FALSE
      OBVIOUS
    <3> QED
      BY <3>1
  <2>2. nav' # <<TRUE>>
    BY <1>1
  <2> QED
    BY <1>1, <1>2, <1>5, <2>1, <2>2 DEF Quiet
<1>7. IdleCleared' /\ OnlyAsked' /\ NotYetTold'
  BY <1>2, <1>3, <1>6 DEF Causes, IdleCleared, OnlyAsked, NotYetTold
<1>8. ClearSeen'
  <2> SUFFICES ASSUME LastStage, Looks', Told' = FALSE
               PROVE  Cleared
    BY <1>1, <1>3 DEF ClearSeen
  <2>1. CASE Looks /\ Told' = Told
    BY <2>1 DEF Causes, ClearSeen
  <2>2. CASE nav = <<FALSE>>
    BY <2>2 DEF Causes, ClearOnItsWay, Resets
  <2> QED
    BY <1>5, <2>1, <2>2
<1>9. ClearOnItsWay' /\ ClearAtEnd'
  BY <1>1, <1>3, <1>4 DEF Causes, ClearOnItsWay, ClearAtEnd
<1> QED
  BY <1>1, <1>7, <1>8, <1>9 DEF Causes

-----------------------------------------------------------------------------
LEMMA NextCauses ==
    ASSUME OneInFlight, IInv, Dialogue, CausesAlone, [Next]_vars
    PROVE  CausesAlone'
<1>1. ASSUME UNCHANGED exitVars, Causes => Causes' PROVE CausesAlone'
  BY <1>1 DEF CausesAlone, exitVars
<1>2. CASE UNCHANGED vars
  <2>1. UNCHANGED <<data, event, current_index, nb_event, pc, mask, ardrone_state, at, nav,
                    commandMask, config, shutdown>>
    BY <1>2 DEF vars, controlVars, droneVars
  <2>2. /\ UNCHANGED <<Asked, Stage, Status, Sent, Looks, Told>>
        /\ RingEmpty' = RingEmpty
    BY <2>1 DEF Asked, Stage, Status, Sent, Looks, Told, RingEmpty
  <2>3. UNCHANGED <<Cleared, LastStage, Resets, Quiet>>
    BY <2>1, <2>2 DEF Cleared, LastStage, Resets, Quiet
  <2> QED
    BY <2>1, <2>2, <2>3
       DEF CausesAlone, Causes, IdleCleared, OnlyAsked, NotYetTold, ClearOnItsWay, ClearSeen,
           ClearAtEnd
<1>3. CASE Handle \/ LoseAt
  <2>1. UNCHANGED exitVars
    BY <1>3 DEF Handle, HandleAt, LoseAt
  <2> QED
    BY <1>1, <1>3, <2>1, CommandCauses
<1>4. CASE EmitNavdata
  <2>1. UNCHANGED exitVars
    BY <1>4 DEF EmitNavdata, controlVars, exitVars
  <2> QED
    BY <1>1, <1>4, <2>1, EmitCauses
<1>5. CASE LoseNavdata \/ DeliverNavdata
  <2>1. UNCHANGED exitVars
    BY <1>5 DEF LoseNavdata, DeliverNavdata, controlVars, exitVars
  <2> QED
    BY <1>1, <1>5, <2>1, NavdataCauses
<1>6. CASE Client /\ UNCHANGED droneVars
  <2>1. CASE \E r \in Requests : AddEvent(r)
    <3>1. UNCHANGED exitVars
      BY <2>1 DEF AddEvent
    <3> QED
      BY <1>1, <1>6, <2>1, <3>1, AddEventCauses
  <2>2. CASE EventSucceeds
    <3>1. UNCHANGED exitVars
      BY <2>2 DEF EventSucceeds
    <3> QED
      BY <1>1, <1>6, <2>2, <3>1, EventSucceedsCauses
  <2>3. CASE EventFails
    <3>1. UNCHANGED exitVars
      BY <2>3 DEF EventFails
    <3> QED
      BY <1>1, <1>6, <2>3, <3>1, EventFailsCauses
  <2>4. CASE \/ AwaitMask \/ AwaitReset \/ RequestFile
             \/ ReceiveChunk \/ ReceiveNothing \/ AwaitFileReset
    <3>1. shutdown' = shutdown
      BY <1>6, <2>4, DialogueAction
    <3>2. Causes => Causes'
      BY <1>6, <2>4, DialogueCauses
    <3> QED
      BY <3>1, <3>2 DEF CausesAlone
  <2>5. CASE LoopStep
    BY <1>6, <2>5, LoopCauses DEF OneInFlight
  <2> QED
    BY <1>6, <2>1, <2>2, <2>3, <2>4, <2>5
       DEF Client, ControlThread, ThreadStep, Exit, LoopStep
<1> QED
  BY <1>2, <1>3, <1>4, <1>5, <1>6 DEF Next

\* The stages of the dialogues and, with one packet in flight, their causes.
THEOREM Caused ==
    ASSUME OneInFlight
    PROVE  Spec => [](IInv /\ Dialogue /\ CausesAlone)
<1>1. Init => IInv /\ Dialogue /\ CausesAlone
  BY InitIInv, InitDialogue, InitCauses
<1>2. IInv /\ Dialogue /\ CausesAlone /\ [Next]_vars => (IInv /\ Dialogue /\ CausesAlone)'
  BY NextIInv, NextDialogue, NextCauses
<1> QED
  BY <1>1, <1>2, PTL DEF Spec

\* Only the end of a successful event moves the oldest request on.
LEMMA OnlySuccessAdvances ==
    ASSUME IInv, [Next]_vars, current_index' # current_index
    PROVE  EventSucceeds
<1>1. ASSUME NEW r \in Requests, AddEvent(r) PROVE FALSE
  BY <1>1 DEF AddEvent
<1>2. CASE EventFails
  BY <1>2 DEF EventFails
<1>3. CASE \/ AwaitMask \/ AwaitReset \/ RequestFile
           \/ ReceiveChunk \/ ReceiveNothing \/ AwaitFileReset
  BY <1>3 DEF AwaitMask, AwaitReset, RequestFile, ReceiveChunk, ReceiveNothing,
              AwaitFileReset, EndStep
<1>4. CASE LoopStep
  BY <1>4 DEF LoopStep, Wait, Leave, Timeout, SpuriousWakeup, Snapshot, TakeEvent, Connect,
              RequestExit, ShutdownResume, ShutdownStop, managerVars
<1>5. CASE Handle \/ LoseAt \/ EmitNavdata \/ LoseNavdata \/ DeliverNavdata \/ UNCHANGED vars
  BY <1>5 DEF Handle, HandleAt, LoseAt, EmitNavdata, LoseNavdata, DeliverNavdata, managerVars,
              controlVars, vars
<1> QED
  BY <1>1, <1>2, <1>3, <1>4, <1>5
     DEF Next, Client, ControlThread, ThreadStep, Exit, LoopStep

\* A success reported for a parameter means that the drone received it, as long
\* as the navdata that end an event were emitted for it and the drone's
\* acknowledge bit was clear when the client started (SuccessMeansReceived).
THEOREM ParameterReceived ==
    ASSUME OneInFlight, Fresh
    PROVE  Spec => SuccessMeansReceived
<1>1. ASSUME IInv, Dialogue, CausesAlone, [Next]_vars
      PROVE  [current_index' # current_index /\ shutdown = "no" /\ data[current_index].mode = "ACK"
                => config = data[current_index].config]_vars
  <2> SUFFICES ASSUME current_index' # current_index, shutdown = "no", Asked.mode = "ACK"
               PROVE  config = Asked.config
    BY DEF Asked
  <2>1. ~RingEmpty /\ Success
    BY <1>1, OnlySuccessAdvances, EventSucceedsEffect
  <2>2. Stage # "MASK_TRUE"
    BY <1>1, <2>1 DEF Dialogue, SuccessStage, Success
  <2> QED
    BY <1>1, <2>1, <2>2 DEF CausesAlone, Causes, NotYetTold
<1> QED
  BY <1>1, Caused, PTL DEF Spec, SuccessMeansReceived

\* A file request ends only once the drone has reset its acknowledge bit, under
\* the first of these conditions alone (FileEndsAfterReset).
THEOREM FileEndedAfterReset ==
    ASSUME OneInFlight
    PROVE  Spec => FileEndsAfterReset
<1>1. ASSUME IInv, Dialogue, CausesAlone, [Next]_vars
      PROVE  [current_index' # current_index /\ shutdown = "no"
                /\ data[current_index].mode \in GetModes => ~commandMask]_vars
  <2> SUFFICES ASSUME current_index' # current_index, shutdown = "no", Asked.mode \in GetModes
               PROVE  ~commandMask
    BY DEF Asked
  <2>1. ~RingEmpty /\ pc = "end" /\ Success
    BY <1>1, OnlySuccessAdvances, EventSucceedsEffect
  <2>2. Stage = "RECEIVED"
    BY <1>1, <2>1 DEF Dialogue, StageOfMode, SuccessStage, Success, AckStages, GetModes
  <2> QED
    BY <1>1, <2>1, <2>2 DEF CausesAlone, Causes, ClearAtEnd, Success, LastStage, Cleared
<1> QED
  BY <1>1, Caused, PTL DEF Spec, FileEndsAfterReset
=============================================================================
