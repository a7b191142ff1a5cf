------------------------ MODULE GeneralNavdata_proofs ------------------------
(***************************************************************************)
(* The multiconfiguration dialogue never waits for an answer that is not   *)
(* under way, takes no answer for another, and ends with a drone that uses *)
(* the identifiers and values of the application, for every capacity of    *)
(* the ring, any number of other requests and of restarts, and any users.  *)
(***************************************************************************)
EXTENDS GeneralNavdata, SequenceTheorems, TLAPS

\* No request sets a session other than ours or the default one.
OurRequests == {r \in Request : r.what = "id" /\ r.kind = "session" => r.value \in {"own", "-all"}}
OurSession == ids["session"] = "own" /\ ring \in Seq(OurRequests)

\* Between the requests for the stream and the state that awaits their end,
\* the second request is not the first in the ring while the control thread
\* may still act on this packet.
StreamUnderWay ==
    pc = "sent" /\ ~refused =>
        \E i \in DOMAIN ring : /\ ring[i].callback = "configuration"
                               /\ fresh => i >= 2

\* The inductive invariant.
IInv == TypeOK /\ WaitsServed /\ OurSession /\ StreamUnderWay

-----------------------------------------------------------------------------
(* Requests.                                                               *)

LEMMA PlainType ==
    \A what \in {"demo", "options", "file", "list", "other"}, c \in Callbacks :
        Plain(what, c) \in OurRequests
  BY DEF Set, Plain, OurRequests, Request

LEMMA SetType ==
    \A what \in {"desc", "values"}, k \in Kinds, v \in Ids : Set(what, k, v, "none") \in OurRequests
  BY DEF Set, OurRequests, Request

LEMMA IdType ==
    /\ \A k \in Custom, v \in Ids : Set("id", k, v, "none") \in OurRequests
    /\ \A v \in {"own", "-all"} : Set("id", "session", v, "none") \in OurRequests
  BY DEF Set, OurRequests, Request, Custom, Kinds, Ids

LEMMA OursAreRequests == Seq(OurRequests) \subseteq Seq(Request)
<1>1. OurRequests \subseteq Request
  BY DEF OurRequests
<1> QED
  BY <1>1

\* What Add does to a ring: it stays a ring, keeps what it holds, and gets
\* everything unless the refusal is remembered.
LEMMA AddToRing ==
    ASSUME NEW requests \in Seq(OurRequests), Add(requests),
           ring \in Seq(OurRequests), Len(ring) <= RingCapacity, refused \in BOOLEAN
    PROVE  /\ ring' \in Seq(OurRequests) /\ Len(ring') <= RingCapacity
           /\ refused' \in BOOLEAN
           /\ ~refused' => ~refused /\ ring' = ring \o requests
<1> DEFINE room == RingCapacity - Len(ring)
           n == IF Len(requests) <= room THEN Len(requests) ELSE room
           part == SubSeq(requests, 1, n)
<1>1. n \in 0 .. Len(requests) /\ n <= room /\ room \in Nat
  BY GeneralAssumption
<1>2. ring' = ring \o part /\ refused' = (refused \/ Len(requests) > room)
  BY DEF Add
<1> HIDE DEF n
<1>3. /\ part \in Seq(OurRequests) /\ Len(part) = n
      /\ \A j \in 1 .. n : part[j] = requests[j]
  BY <1>1, SubSeqProperties
<1> HIDE DEF part
<1>4. ring' \in Seq(OurRequests) /\ Len(ring') = Len(ring) + n
  BY <1>2, <1>3, ConcatProperties
<1>5. Len(ring') <= RingCapacity
  BY <1>1, <1>4, GeneralAssumption
<1>6. ASSUME ~refused' PROVE ~refused /\ ring' = ring \o requests
  <2>1. ~refused /\ ~(Len(requests) > room)
    <3> HIDE DEF room
    <3> QED
      BY <1>2, <1>6, Zenon
  <2>2. n = Len(requests)
    BY <1>1, <2>1 DEF n
  <2>3. part = requests
    BY <1>3, <2>2, SeqEqual
  <2> QED
    BY <1>2, <2>1, <2>3
<1>7. refused' \in BOOLEAN
  BY <1>2, Zenon
<1> QED
  BY <1>4, <1>5, <1>6, <1>7

\* What a longer ring serves.
LEMMA Longer ==
    ASSUME NEW s \in Seq(OurRequests), NEW t \in Seq(OurRequests)
    PROVE  /\ \A i \in DOMAIN s : i \in DOMAIN (s \o t) /\ (s \o t)[i] = s[i]
           /\ \A j \in DOMAIN t : /\ Len(s) + j \in DOMAIN (s \o t)
                                  /\ (s \o t)[Len(s) + j] = t[j]
<1>1. /\ s \o t \in Seq(OurRequests)
      /\ Len(s \o t) = Len(s) + Len(t)
      /\ \A i \in 1 .. Len(s) + Len(t) : (s \o t)[i] = IF i <= Len(s) THEN s[i] ELSE t[i - Len(s)]
  BY ConcatProperties
<1>2. ASSUME NEW i \in DOMAIN s
      PROVE  i \in DOMAIN (s \o t) /\ (s \o t)[i] = s[i]
  BY <1>1, <1>2
<1>3. ASSUME NEW j \in DOMAIN t
      PROVE  Len(s) + j \in DOMAIN (s \o t) /\ (s \o t)[Len(s) + j] = t[j]
  BY <1>1, <1>3
<1> QED
  BY <1>2, <1>3

\* A step keeps the ring well-formed and what it serves, unless it is refused.
RingKept ==
    /\ ring' \in Seq(OurRequests) /\ ring' \in Seq(Request) /\ Len(ring') <= RingCapacity
    /\ refused' \in BOOLEAN
    /\ ~refused' => /\ ~refused
                    /\ \A i \in DOMAIN ring : i \in DOMAIN ring' /\ ring'[i] = ring[i]

LEMMA AddServes ==
    ASSUME IInv, NEW requests \in Seq(OurRequests), Add(requests)
    PROVE  /\ RingKept
           /\ \A j \in DOMAIN requests : ~refused' => Awaits(requests[j].callback)'
           /\ ~refused' => ring' = ring \o requests
<1>1. ring \in Seq(OurRequests) /\ Len(ring) <= RingCapacity /\ refused \in BOOLEAN
  BY DEF IInv, TypeOK, OurSession
<1>2. /\ ring' \in Seq(OurRequests) /\ Len(ring') <= RingCapacity /\ refused' \in BOOLEAN
      /\ ~refused' => ~refused /\ ring' = ring \o requests
  BY <1>1, AddToRing
<1>3. ASSUME ~refused'
      PROVE  /\ \A i \in DOMAIN ring : i \in DOMAIN ring' /\ ring'[i] = ring[i]
             /\ \A j \in DOMAIN requests : \E i \in DOMAIN ring' : ring'[i] = requests[j]
  <2> DEFINE new == ring \o requests
  <2>1. ring' = new
    BY <1>2, <1>3
  <2>2. /\ \A i \in DOMAIN ring : i \in DOMAIN new /\ new[i] = ring[i]
        /\ \A j \in DOMAIN requests : /\ Len(ring) + j \in DOMAIN new
                                      /\ new[Len(ring) + j] = requests[j]
    BY <1>1, Longer
  <2> HIDE DEF new
  <2> QED
    BY <2>1, <2>2
<1>4. RingKept
  BY <1>2, <1>3, OursAreRequests DEF RingKept
<1>5. \A j \in DOMAIN requests : ~refused' => Awaits(requests[j].callback)'
  BY <1>3 DEF Awaits
<1> QED
  BY <1>2, <1>4, <1>5

LEMMA SameRing ==
    ASSUME IInv, UNCHANGED <<ring, refused>>
    PROVE  RingKept
  BY DEF IInv, TypeOK, OurSession, RingKept

\* A step that keeps the ring, and waits only for what it has asked for.
LEMMA StepIInv ==
    ASSUME IInv, RingKept, TypeOK', ids'["session"] = "own",
           ~refused' /\ configState' \in InProgress
               => configState \in InProgress \/ Awaits("configuration")',
           ~refused' /\ navdataState' = "IN_PROGRESS"
               => navdataState = "IN_PROGRESS" \/ Awaits("navdata")',
           \/ pc' # "sent"
           \/ pc = "sent" /\ (fresh' => fresh)
           \/ StreamUnderWay'
    PROVE  IInv'
<1>1. ASSUME ~refused', NEW c \in Callbacks, Awaits(c)
      PROVE  Awaits(c)'
  BY <1>1 DEF RingKept, Awaits
<1>2. WaitsServed'
  BY <1>1 DEF IInv, WaitsServed, RingKept, Callbacks
<1>3. OurSession'
  BY DEF OurSession, RingKept
<1>4. StreamUnderWay'
  BY DEF IInv, StreamUnderWay, RingKept
<1> QED
  BY <1>2, <1>3, <1>4 DEF IInv

\* The types after a step of the handler.
LEMMA HandlerType ==
    ASSUME IInv, RingKept,
           pc' \in {"idle", "config", "ids", "sent", "navdata"},
           configState' \in ConfigStates, navdataState' \in NavdataStates,
           droneSupportsMulticonfig' \in BOOLEAN, configWasDone' \in BOOLEAN, fresh' \in BOOLEAN,
           UNCHANGED <<switches, navdataNeeded, ids, copy, available, acked>>,
           UNCHANGED droneVars, UNCHANGED historyVars
    PROVE  TypeOK' /\ ids'["session"] = "own"
  BY DEF IInv, TypeOK, OurSession, RingKept, droneVars, historyVars

\* One request without a value.
LEMMA AddOne ==
    ASSUME IInv, NEW what \in {"demo", "options", "file", "list", "other"}, NEW c \in Callbacks,
           Add(<<Plain(what, c)>>)
    PROVE  RingKept /\ (~refused' => Awaits(c)')
<1> DEFINE requests == <<Plain(what, c)>>
<1>1. requests \in Seq(OurRequests) /\ requests[1].callback = c /\ 1 \in DOMAIN requests
  BY PlainType DEF Plain, Set
<1> HIDE DEF requests
<1>2. Add(requests)
  BY DEF requests
<1> QED
  BY <1>1, <1>2, AddServes

\* The stream: its second request comes after another one.
LEMMA AddStream ==
    ASSUME IInv, NEW before \in Seq(OurRequests), NEW c \in Callbacks,
           Add(before \o AskForStream(c))
    PROVE  /\ RingKept
           /\ ~refused' => Awaits(c)' /\ \E i \in DOMAIN ring' : i >= 2 /\ ring'[i].callback = c
<1> DEFINE stream == AskForStream(c)
           requests == before \o stream
<1>1. /\ stream \in Seq(OurRequests)
      /\ 2 \in DOMAIN stream /\ stream[2].callback = c
  BY PlainType DEF AskForStream, Plain, Set, Callbacks
<1> HIDE DEF stream
<1>2. /\ requests \in Seq(OurRequests)
      /\ Len(before) + 2 \in DOMAIN requests
      /\ requests[Len(before) + 2].callback = c
  BY <1>1, Longer, ConcatProperties
<1> HIDE DEF requests
<1>3. Add(requests)
  BY DEF requests, stream
<1>4. /\ RingKept
      /\ ~refused' => Awaits(c)' /\ ring' = ring \o requests
  BY <1>2, <1>3, AddServes
<1>5. ring \in Seq(OurRequests) /\ Len(ring) \in Nat /\ Len(before) \in Nat
  BY DEF IInv, OurSession
<1> DEFINE new == ring \o requests
<1>6. /\ Len(ring) + (Len(before) + 2) \in DOMAIN new
      /\ new[Len(ring) + (Len(before) + 2)].callback = c
  BY <1>2, <1>5, Longer
<1>7. Len(ring) + (Len(before) + 2) >= 2
  BY <1>5
<1> HIDE DEF new
<1>8. ASSUME ~refused' PROVE \E i \in DOMAIN ring' : i >= 2 /\ ring'[i].callback = c
  <2>1. ring' = new
    BY <1>4, <1>8 DEF new
  <2> QED
    BY <1>6, <1>7, <2>1
<1> QED
  BY <1>4, <1>8

LEMMA EmptyBefore ==
    ASSUME NEW t \in Seq(OurRequests)
    PROVE  <<>> \o t = t
  BY ConcatEmptySeq

\* The identifiers and the values that go with them.
LEMMA SwitchType ==
    ASSUME IInv, NEW k \in Kinds
    PROVE  SwitchTo(k) \in Seq(OurRequests)
<1>1. ids[k] \in Ids /\ (k = "session" => ids[k] = "own")
  BY DEF IInv, TypeOK, OurSession
<1>2. Set("id", k, ids[k], "none") \in OurRequests
  BY <1>1, IdType DEF Custom, Kinds
<1> QED
  BY <1>2 DEF SwitchTo

LEMMA SwitchCustomType ==
    ASSUME IInv, NEW k \in Custom
    PROVE  SwitchCustom(k) \in Seq(OurRequests) /\ Initialise(k) \in Seq(OurRequests)
<1>1. ids[k] \in Ids /\ k \in Kinds
  BY DEF IInv, TypeOK, Custom
<1>2. Set("values", k, ids[k], "none") \in OurRequests /\ Set("desc", k, ids[k], "none") \in OurRequests
  BY <1>1, SetType
<1> QED
  BY <1>1, <1>2, SwitchType DEF SwitchCustom, Initialise

-----------------------------------------------------------------------------
(* The initial states.                                                     *)

LEMMA InitIInv == Init => IInv
<1> SUFFICES ASSUME Init PROVE IInv
  OBVIOUS
<1>1. ring = <<Set("id", "session", "-all", "none")>> /\ refused = FALSE
  BY DEF Init
<1>2. Set("id", "session", "-all", "none") \in OurRequests
  BY IdType
<1>3. ring \in Seq(OurRequests) /\ Len(ring) = 1
  BY <1>1, <1>2
<1>4. Len(ring) <= RingCapacity /\ ring \in Seq(Request)
  BY <1>3, OursAreRequests, GeneralAssumption
<1>5. ids \in [Kinds -> Ids] /\ copy \in [Kinds -> Ids] /\ ids["session"] = "own"
  BY DEF Init, AllDefault, Ids, Kinds
<1>6. custom \in [{"default", "own"} -> [Custom -> Ids]]
  BY DEF Init, Ids
<1>7. {known, available, initialised} \subseteq SUBSET (Custom \X Ids)
  BY DEF Init, Ids, Custom, Kinds
<1>8. {navdataNeeded, droneSupportsMulticonfig, configWasDone, acked, fresh,
       supports, bootstrap, refused, interrupted, untimely} \subseteq BOOLEAN
  BY DEF Init
<1>9. TypeOK
  BY <1>4, <1>5, <1>6, <1>7, <1>8 DEF Init, TypeOK, ConfigStates, InProgress, NavdataStates
<1>10. WaitsServed /\ StreamUnderWay
  BY DEF Init, WaitsServed, StreamUnderWay, InProgress
<1> QED
  BY <1>3, <1>5, <1>9, <1>10 DEF IInv, OurSession

-----------------------------------------------------------------------------
(* The handler.                                                            *)

LEMMA PacketIInv == IInv /\ Packet => IInv'
<1> SUFFICES ASSUME IInv, Packet PROVE IInv'
  OBVIOUS
<1>1. RingKept
  BY SameRing DEF Packet
<1>2. TypeOK' /\ ids'["session"] = "own"
  BY <1>1, HandlerType DEF Packet, IInv, TypeOK, ConfigStates, NavdataStates
<1>3. configState' \in {configState, "NEEDED"} /\ navdataState' \in {navdataState, "NEEDED"}
  BY DEF Packet
<1>4. pc' = "config"
  BY DEF Packet
<1> QED
  BY <1>1, <1>2, <1>3, <1>4, StepIInv DEF InProgress

\* A step of the configuration automaton that leaves no wait unserved.
LEMMA ConfigStepIInv ==
    ASSUME IInv, RingKept, NEW s \in ConfigStates, NEW next \in {"ids", "navdata"},
           ConfigStep(s, next), configState' \in ConfigStates,
           droneSupportsMulticonfig' \in BOOLEAN, configWasDone' \in BOOLEAN,
           ~refused' /\ configState' \in InProgress
               => configState \in InProgress \/ Awaits("configuration")'
    PROVE  IInv'
<1>1. /\ pc' = next
      /\ UNCHANGED <<navdataState, switches, navdataNeeded, ids, copy, available, acked, fresh>>
      /\ UNCHANGED droneVars /\ UNCHANGED historyVars
  BY DEF ConfigStep, controlVars
<1>2. fresh' \in BOOLEAN /\ navdataState' \in NavdataStates
  BY <1>1 DEF IInv, TypeOK
<1>3. TypeOK' /\ ids'["session"] = "own"
  BY <1>1, <1>2, HandlerType
<1> QED
  BY <1>1, <1>3, StepIInv

LEMMA ConfigTypes ==
    ASSUME IInv
    PROVE  configState \in ConfigStates /\ droneSupportsMulticonfig \in BOOLEAN
           /\ configWasDone \in BOOLEAN
  BY DEF IInv, TypeOK

LEMMA CheckVersionIInv == IInv /\ CheckVersion => IInv'
<1> SUFFICES ASSUME IInv, CheckVersion PROVE IInv'
  OBVIOUS
<1>1. ConfigStep("GOT_DRONE_VERSION", "navdata") /\ UNCHANGED configWasDone
  BY DEF CheckVersion
<1>2. CASE supports
  <2>1. /\ configState' = "IN_PROGRESS_LIST" /\ droneSupportsMulticonfig' = TRUE
        /\ Add(<<Plain("list", "configuration")>>)
    BY <1>2 DEF CheckVersion
  <2>2. RingKept /\ (~refused' => Awaits("configuration")')
    BY <2>1, AddOne DEF Callbacks
  <2> QED
    BY <1>1, <2>1, <2>2, ConfigStepIInv, ConfigTypes DEF ConfigStates, InProgress
<1>3. CASE ~supports
  <2>1. /\ configState' = "REQUEST_NAVDATA"
        /\ UNCHANGED <<droneSupportsMulticonfig, ring, refused>>
    BY <1>3 DEF CheckVersion
  <2>2. RingKept
    BY <2>1, SameRing
  <2> QED
    BY <1>1, <2>1, <2>2, ConfigStepIInv, ConfigTypes DEF ConfigStates, InProgress
<1> QED
  BY <1>2, <1>3

LEMMA SendIdsIInv == IInv /\ SendIds => IInv'
<1> SUFFICES ASSUME IInv, SendIds PROVE IInv'
  OBVIOUS
<1> DEFINE a == IF "session" \in switches THEN SwitchTo("session") ELSE <<>>
           b == SwitchCustom("application")
           c == SwitchCustom("profile")
           d == Initialise("application")
           e == Initialise("profile")
           f == IF "session" \in switches /\ ids["session"] # "default"
                THEN <<Set("desc", "session", ids["session"], "none"),
                       Set("values", "session", ids["session"], "none")>>
                ELSE <<>>
           all == a \o b \o c \o d \o e \o f
<1>1. /\ ConfigStep("GOT_IDS_LIST", "ids") /\ Add(all)
      /\ UNCHANGED <<configState, droneSupportsMulticonfig, configWasDone>>
  BY DEF SendIds
<1>2. a \in Seq(OurRequests)
  BY SwitchType DEF Kinds
<1>3. b \in Seq(OurRequests) /\ c \in Seq(OurRequests) /\ d \in Seq(OurRequests) /\ e \in Seq(OurRequests)
  BY SwitchCustomType DEF Custom, Kinds
<1>4. f \in Seq(OurRequests)
  <2>1. ids["session"] \in Ids /\ "session" \in Kinds
    BY DEF IInv, TypeOK, Kinds
  <2>2. /\ Set("desc", "session", ids["session"], "none") \in OurRequests
        /\ Set("values", "session", ids["session"], "none") \in OurRequests
    BY <2>1, SetType
  <2> QED
    BY <2>2
<1> HIDE DEF a, b, c, d, e, f
<1>5. all \in Seq(OurRequests)
  BY <1>2, <1>3, <1>4, ConcatProperties
<1> HIDE DEF all
<1>6. RingKept
  BY <1>1, <1>5, AddServes
<1> QED
  BY <1>1, <1>6, ConfigStepIInv, ConfigTypes DEF ConfigStates

LEMMA RequestIdsIInv == IInv /\ RequestIds => IInv'
<1> SUFFICES ASSUME IInv, RequestIds PROVE IInv'
  OBVIOUS
<1>1. /\ pc' = "navdata" /\ configState' = "IN_PROGRESS_IDS"
      /\ Add(<<Plain("file", "configuration")>>)
      /\ UNCHANGED <<navdataState, switches, navdataNeeded, ids, droneSupportsMulticonfig,
                     configWasDone, copy, available, acked, fresh>>
      /\ UNCHANGED droneVars /\ UNCHANGED historyVars
  BY DEF RequestIds, controlVars
<1>2. RingKept /\ (~refused' => Awaits("configuration")')
  BY <1>1, AddOne DEF Callbacks
<1>3. fresh' \in BOOLEAN /\ navdataState' \in NavdataStates /\ configState' \in ConfigStates
      /\ droneSupportsMulticonfig' \in BOOLEAN /\ configWasDone' \in BOOLEAN
  BY <1>1 DEF IInv, TypeOK, ConfigStates, InProgress
<1>4. TypeOK' /\ ids'["session"] = "own"
  BY <1>1, <1>2, <1>3, HandlerType
<1> QED
  BY <1>1, <1>2, <1>4, StepIInv

LEMMA CheckIdsIInv == IInv /\ CheckIds => IInv'
<1> SUFFICES ASSUME IInv, CheckIds PROVE IInv'
  OBVIOUS
<1>1. /\ ConfigStep("GOT_CURRENT_IDS", "navdata")
      /\ configState' \in {"GOT_DRONE_VERSION", "REQUEST_NAVDATA", "IDLE"}
      /\ UNCHANGED <<droneSupportsMulticonfig, configWasDone, ring, refused>>
  BY DEF CheckIds
<1>2. RingKept
  BY <1>1, SameRing
<1> QED
  BY <1>1, <1>2, ConfigStepIInv, ConfigTypes DEF ConfigStates, InProgress

LEMMA RequestConfigIInv == IInv /\ RequestConfig => IInv'
<1> SUFFICES ASSUME IInv, RequestConfig PROVE IInv'
  OBVIOUS
<1>1. /\ ConfigStep("NEEDED", "navdata") /\ configState' = "IN_PROGRESS_VERSION"
      /\ Add(<<Plain("file", "configuration")>>)
      /\ UNCHANGED <<droneSupportsMulticonfig, configWasDone>>
  BY DEF RequestConfig
<1>2. RingKept /\ (~refused' => Awaits("configuration")')
  BY <1>1, AddOne DEF Callbacks
<1> QED
  BY <1>1, <1>2, ConfigStepIInv, ConfigTypes DEF ConfigStates, InProgress

\* The stream is under way before anything awaits it.
LEMMA SendNavdataIInv == IInv /\ SendNavdata => IInv'
<1> SUFFICES ASSUME IInv, SendNavdata PROVE IInv'
  OBVIOUS
<1>1. /\ pc' = "sent" /\ configState = "REQUEST_NAVDATA"
      /\ Add(AskForStream("configuration"))
      /\ UNCHANGED <<configState, droneSupportsMulticonfig, configWasDone>>
      /\ UNCHANGED <<navdataState, switches, navdataNeeded, ids, copy, available, acked, fresh>>
      /\ UNCHANGED droneVars /\ UNCHANGED historyVars
  BY DEF SendNavdata, ConfigStep, controlVars
<1>2. AskForStream("configuration") \in Seq(OurRequests)
  BY PlainType DEF AskForStream, Callbacks
<1>3. Add(<<>> \o AskForStream("configuration"))
  BY <1>1, <1>2, EmptyBefore
<1>4. <<>> \in Seq(OurRequests) /\ "configuration" \in Callbacks
  BY DEF Callbacks
<1>5. /\ RingKept
      /\ ~refused' => \E i \in DOMAIN ring' : i >= 2 /\ ring'[i].callback = "configuration"
  BY <1>3, <1>4, AddStream
<1>6. StreamUnderWay'
  BY <1>5 DEF StreamUnderWay
<1>7. fresh' \in BOOLEAN /\ navdataState' \in NavdataStates /\ configState' \in ConfigStates
      /\ droneSupportsMulticonfig' \in BOOLEAN /\ configWasDone' \in BOOLEAN
  BY <1>1 DEF IInv, TypeOK
<1>8. TypeOK' /\ ids'["session"] = "own"
  BY <1>1, <1>5, <1>7, HandlerType
<1> QED
  BY <1>1, <1>5, <1>6, <1>8, StepIInv

LEMMA AwaitNavdataIInv == IInv /\ AwaitNavdata => IInv'
<1> SUFFICES ASSUME IInv, AwaitNavdata PROVE IInv'
  OBVIOUS
<1>1. /\ pc = "sent" /\ pc' = "navdata" /\ configState' = "IN_PROGRESS_NAVDATA"
      /\ UNCHANGED <<ring, refused>>
      /\ UNCHANGED <<navdataState, switches, navdataNeeded, ids, droneSupportsMulticonfig,
                     configWasDone, copy, available, acked, fresh>>
      /\ UNCHANGED droneVars /\ UNCHANGED historyVars
  BY DEF AwaitNavdata, controlVars
<1>2. RingKept
  BY <1>1, SameRing
<1>3. ~refused' => Awaits("configuration")'
  BY <1>1 DEF IInv, StreamUnderWay, Awaits
<1>4. fresh' \in BOOLEAN /\ navdataState' \in NavdataStates /\ configState' \in ConfigStates
      /\ droneSupportsMulticonfig' \in BOOLEAN /\ configWasDone' \in BOOLEAN
  BY <1>1 DEF IInv, TypeOK, ConfigStates, InProgress
<1>5. TypeOK' /\ ids'["session"] = "own"
  BY <1>1, <1>2, <1>4, HandlerType
<1> QED
  BY <1>1, <1>2, <1>3, <1>5, StepIInv

LEMMA RefreshIInv == IInv /\ Refresh => IInv'
<1> SUFFICES ASSUME IInv, Refresh PROVE IInv'
  OBVIOUS
<1>1. /\ ConfigStep("GOT_NAVDATA", "navdata") /\ configState' = "IDLE"
      /\ Add(<<Plain("file", "none")>>) /\ configWasDone' = TRUE
      /\ UNCHANGED droneSupportsMulticonfig
  BY DEF Refresh
<1>2. RingKept
  BY <1>1, AddOne DEF Callbacks
<1> QED
  BY <1>1, <1>2, ConfigStepIInv, ConfigTypes DEF ConfigStates, InProgress

LEMMA ConfigRestsIInv == IInv /\ ConfigRests => IInv'
<1> SUFFICES ASSUME IInv, ConfigRests PROVE IInv'
  OBVIOUS
<1>1. PICK s \in InProgress \cup {"IDLE"} : ConfigStep(s, "navdata")
  BY DEF ConfigRests
<1>2. UNCHANGED <<configState, droneSupportsMulticonfig, configWasDone, ring, refused>>
  BY DEF ConfigRests
<1>3. RingKept
  BY <1>2, SameRing
<1> QED
  BY <1>1, <1>2, <1>3, ConfigStepIInv, ConfigTypes DEF ConfigStates

\* The automaton of the navdata stream.
LEMMA NavdataStepIInv ==
    ASSUME IInv, RingKept, NEW s \in NavdataStates, NavdataStep(s), navdataState' \in NavdataStates,
           ~refused' /\ navdataState' = "IN_PROGRESS"
               => navdataState = "IN_PROGRESS" \/ Awaits("navdata")'
    PROVE  IInv'
<1>1. /\ pc' = "idle"
      /\ UNCHANGED <<configState, switches, navdataNeeded, droneSupportsMulticonfig,
                     configWasDone, ids, copy, available, acked, fresh>>
      /\ UNCHANGED droneVars /\ UNCHANGED historyVars
  BY DEF NavdataStep, controlVars
<1>2. fresh' \in BOOLEAN /\ configState' \in ConfigStates
      /\ droneSupportsMulticonfig' \in BOOLEAN /\ configWasDone' \in BOOLEAN
  BY <1>1 DEF IInv, TypeOK
<1>3. TypeOK' /\ ids'["session"] = "own"
  BY <1>1, <1>2, HandlerType
<1> QED
  BY <1>1, <1>3, StepIInv

LEMMA NavdataAutomatonIInv == IInv /\ NavdataAutomaton => IInv'
<1> SUFFICES ASSUME IInv, NavdataAutomaton PROVE IInv'
  OBVIOUS
<1>1. CASE ResumeNavdata
  <2>1. /\ NavdataStep("NEEDED") /\ navdataState' = "IN_PROGRESS"
        /\ Add(SwitchTo("session") \o AskForStream("navdata"))
    BY <1>1 DEF ResumeNavdata
  <2>2. SwitchTo("session") \in Seq(OurRequests) /\ "navdata" \in Callbacks
    BY SwitchType DEF Kinds, Callbacks
  <2>3. RingKept /\ (~refused' => Awaits("navdata")')
    BY <2>1, <2>2, AddStream
  <2> QED
    BY <2>1, <2>3, NavdataStepIInv DEF NavdataStates
<1>2. CASE EndResume
  <2>1. NavdataStep("DONE") /\ navdataState' = "IDLE" /\ Add(<<Plain("file", "none")>>)
    BY <1>2 DEF EndResume
  <2>2. RingKept
    BY <2>1, AddOne DEF Callbacks
  <2> QED
    BY <2>1, <2>2, NavdataStepIInv DEF NavdataStates
<1>3. CASE NavdataRests
  <2>1. PICK s \in {"IDLE", "IN_PROGRESS"} : NavdataStep(s)
    BY <1>3 DEF NavdataRests
  <2>2. UNCHANGED <<navdataState, ring, refused>>
    BY <1>3 DEF NavdataRests
  <2>3. RingKept
    BY <2>2, SameRing
  <2>4. s \in NavdataStates /\ navdataState' \in NavdataStates
    BY <2>1, <2>2 DEF IInv, TypeOK, NavdataStates
  <2> QED
    BY <2>1, <2>2, <2>3, <2>4, NavdataStepIInv
<1> QED
  BY <1>1, <1>2, <1>3 DEF NavdataAutomaton

-----------------------------------------------------------------------------
(* The application, the control thread and the drone.                      *)

\* A step that starts no wait and leaves the handler where it is.
LEMMA OutsideIInv ==
    ASSUME IInv, RingKept, TypeOK', ids'["session"] = "own",
           configState' \in {configState, "GOT_DRONE_VERSION"},
           UNCHANGED <<pc, navdataState>>, fresh' => fresh
    PROVE  IInv'
<1>1. pc' # "sent" \/ (pc = "sent" /\ (fresh' => fresh))
  OBVIOUS
<1>2. configState' \in InProgress => configState \in InProgress
  BY DEF InProgress
<1> QED
  BY <1>1, <1>2, StepIInv

LEMMA UserFunctionIInv == IInv /\ UserFunction => IInv'
<1> SUFFICES ASSUME IInv, UserFunction PROVE IInv'
  OBVIOUS
<1>1. PICK switched \in SUBSET Kinds : StartDialogue(switched)
  BY DEF UserFunction, ardrone_refresh_user_list, ardrone_switch_to_user, ardrone_switch_to_user_id, Kinds
<1>2. /\ switches' = switched /\ navdataNeeded' = FALSE /\ configState' = "GOT_DRONE_VERSION"
      /\ calls' = calls + 1
      /\ UNCHANGED <<pc, navdataState, droneSupportsMulticonfig, configWasDone, ring, refused,
                     restarts, interrupted, copy, available, acked, fresh>>
      /\ UNCHANGED droneVars
  BY <1>1 DEF StartDialogue, controlVars
<1>3. untimely' = TRUE \/ untimely' = (untimely \/ configState # "IDLE")
  BY DEF UserFunction, ardrone_refresh_user_list, ardrone_switch_to_user, ardrone_switch_to_user_id
<1>4. untimely' \in BOOLEAN
  BY <1>3, Zenon
<1>5. ids' = ids \/ \E u \in NewUsers : ids' = [ids EXCEPT !["profile"] = u]
  BY DEF UserFunction, ardrone_refresh_user_list, ardrone_switch_to_user, ardrone_switch_to_user_id
<1>6. ids' \in [Kinds -> Ids] /\ ids'["session"] = "own"
  BY <1>5 DEF IInv, TypeOK, OurSession, Kinds, Ids
<1>7. RingKept
  BY <1>2, SameRing
<1>8. TypeOK'
  <2>1. UNCHANGED <<supports, session, custom, known, initialised, bootstrap>>
    BY <1>2 DEF droneVars
  <2>2. {navdataNeeded, droneSupportsMulticonfig, configWasDone, acked, fresh,
         supports, bootstrap, refused, interrupted, untimely}' \subseteq BOOLEAN
    <3>1. navdataNeeded' \in BOOLEAN
      BY <1>2
    <3>2. {droneSupportsMulticonfig, configWasDone, acked, fresh, supports, bootstrap,
           refused, interrupted}' \subseteq BOOLEAN
      BY <1>2, <2>1 DEF IInv, TypeOK
    <3> QED
      BY <1>4, <3>1, <3>2, Zenon
  <2>3. /\ configState' \in ConfigStates /\ navdataState' \in NavdataStates
        /\ pc' \in {"idle", "config", "ids", "sent", "navdata"} /\ switches' \subseteq Kinds
        /\ copy' \in [Kinds -> Ids] /\ session' \in {"default", "own"}
        /\ custom' \in [{"default", "own"} -> [Custom -> Ids]]
        /\ {known, available, initialised}' \subseteq SUBSET (Custom \X Ids)
        /\ restarts' \in Nat /\ calls' \in Nat
    BY <1>2, <2>1 DEF IInv, TypeOK, ConfigStates
  <2> QED
    BY <1>6, <1>7, <2>2, <2>3 DEF TypeOK, RingKept
<1> QED
  BY <1>2, <1>6, <1>7, <1>8, OutsideIInv

LEMMA OtherRequestIInv == IInv /\ OtherRequest => IInv'
<1> SUFFICES ASSUME IInv, OtherRequest PROVE IInv'
  OBVIOUS
<1>1. \/ Add(<<Plain("other", "none")>>)
      \/ Add(<<Plain("file", "none")>>)
  BY DEF OtherRequest, Others
<1>2. RingKept
  BY <1>1, AddOne DEF Callbacks
<1>3. /\ UNCHANGED <<pc, configState, navdataState, switches, navdataNeeded,
                     droneSupportsMulticonfig, configWasDone, ids, copy, available, acked, fresh>>
      /\ UNCHANGED droneVars /\ UNCHANGED historyVars
  BY DEF OtherRequest, handlerVars, controlVars
<1>4. TypeOK' /\ ids'["session"] = "own"
  BY <1>2, <1>3 DEF IInv, TypeOK, OurSession, RingKept, droneVars, historyVars
<1> QED
  BY <1>2, <1>3, <1>4, OutsideIInv

LEMMA RestartIInv == IInv /\ Restart => IInv'
<1> SUFFICES ASSUME IInv, Restart PROVE IInv'
  OBVIOUS
<1>1. /\ restarts' = restarts + 1 /\ session' = "default" /\ bootstrap' = TRUE
      /\ UNCHANGED <<pc, ring, refused, supports, custom, known, initialised, calls, untimely>>
      /\ UNCHANGED <<configState, navdataState, switches, navdataNeeded,
                     droneSupportsMulticonfig, configWasDone, ids, copy, available, acked, fresh>>
  BY DEF Restart, handlerVars, controlVars
<1>2. interrupted' \in BOOLEAN
  <2>1. interrupted' = (\/ configState \in {"IN_PROGRESS_IDS", "GOT_CURRENT_IDS",
                                            "REQUEST_NAVDATA", "IN_PROGRESS_NAVDATA"}
                        \/ navdataState = "IN_PROGRESS")
    BY DEF Restart
  <2> QED
    BY <2>1, Zenon
<1>3. RingKept
  BY <1>1, SameRing
<1>4. TypeOK' /\ ids'["session"] = "own"
  BY <1>1, <1>2, <1>3 DEF IInv, TypeOK, OurSession, RingKept
<1> QED
  BY <1>1, <1>3, <1>4, OutsideIInv

\* The identifiers the drone uses are ours, the default ones or a user's.
LEMMA CurrentType == IInv => Current \in [Kinds -> Ids]
  BY DEF IInv, TypeOK, Current, Kinds, Custom, Ids

LEMMA AcknowledgeIInv == IInv /\ Acknowledge => IInv'
<1> SUFFICES ASSUME IInv, Acknowledge PROVE IInv'
  OBVIOUS
<1> DEFINE r == Head(ring)
<1>1. /\ HandleRequest(r) /\ ring # <<>> /\ fresh' = FALSE /\ acked' = TRUE
      /\ UNCHANGED <<pc, ring, refused>>
      /\ UNCHANGED <<configState, navdataState, switches, navdataNeeded,
                     droneSupportsMulticonfig, configWasDone, ids>>
      /\ UNCHANGED historyVars
  BY DEF Acknowledge, handlerVars
<1>2. r \in OurRequests
  BY <1>1 DEF IInv, OurSession
<1> HIDE DEF r
<1>3. /\ session' \in {"default", "own"}
      /\ custom' \in [{"default", "own"} -> [Custom -> Ids]]
      /\ known' \subseteq Custom \X Ids
  <2>1. /\ session \in {"default", "own"}
        /\ custom \in [{"default", "own"} -> [Custom -> Ids]]
        /\ known \subseteq Custom \X Ids
    BY DEF IInv, TypeOK
  <2>2. CASE r.what # "id"
    BY <1>1, <2>1, <2>2 DEF HandleRequest
  <2>3. CASE r.what = "id" /\ r.value = "-all"
    BY <1>1, <2>1, <2>3 DEF HandleRequest, HandleId, Ids
  <2>4. CASE r.what = "id" /\ r.value # "-all" /\ r.kind = "session"
    BY <1>1, <1>2, <2>1, <2>4 DEF HandleRequest, HandleId, OurRequests
  <2>5. CASE r.what = "id" /\ r.value # "-all" /\ r.kind # "session"
    <3>1. r.kind \in Custom /\ r.value \in Ids
      BY <1>2, <2>5 DEF OurRequests, Request, Custom
    <3>2. /\ custom' = [custom EXCEPT ![session][r.kind] = r.value]
          /\ known' = known \cup {<<r.kind, r.value>>}
          /\ UNCHANGED session
      BY <1>1, <2>5 DEF HandleRequest, HandleId
    <3> QED
      BY <2>1, <3>1, <3>2
  <2> QED
    BY <2>2, <2>3, <2>4, <2>5
<1>4. initialised' \subseteq Custom \X Ids
  <2>1. initialised \subseteq Custom \X Ids
    BY DEF IInv, TypeOK
  <2>2. CASE r.what = "values" /\ r.kind \in Custom
    <3>1. Current[r.kind] \in Ids
      BY <2>2, CurrentType DEF Custom
    <3>2. initialised' = initialised \cup {<<r.kind, Current[r.kind]>>}
      BY <1>1, <2>2 DEF HandleRequest
    <3> QED
      BY <2>1, <2>2, <3>1, <3>2
  <2>3. CASE ~(r.what = "values" /\ r.kind \in Custom)
    BY <1>1, <2>1, <2>3 DEF HandleRequest
  <2> QED
    BY <2>2, <2>3
<1>5. copy' \in [Kinds -> Ids] /\ available' \subseteq Custom \X Ids
  BY <1>1, CurrentType DEF HandleRequest, IInv, TypeOK
<1>6. bootstrap' \in BOOLEAN
  <2>1. bootstrap' = (bootstrap /\ r.what # "demo")
    BY <1>1 DEF HandleRequest
  <2> QED
    BY <2>1, Zenon
<1>7. UNCHANGED supports
  BY <1>1 DEF HandleRequest
<1>8. RingKept
  BY <1>1, SameRing
<1>9. TypeOK' /\ ids'["session"] = "own"
  BY <1>1, <1>3, <1>4, <1>5, <1>6, <1>7, <1>8 DEF IInv, TypeOK, OurSession, RingKept, historyVars
<1> QED
  BY <1>1, <1>8, <1>9, OutsideIInv

LEMMA FailIInv == IInv /\ Fail => IInv'
<1> SUFFICES ASSUME IInv, Fail PROVE IInv'
  OBVIOUS
<1>1. /\ fresh' = FALSE /\ acked' = FALSE
      /\ UNCHANGED <<pc, copy, available, ring, refused>>
      /\ UNCHANGED <<configState, navdataState, switches, navdataNeeded,
                     droneSupportsMulticonfig, configWasDone, ids>>
      /\ UNCHANGED droneVars /\ UNCHANGED historyVars
  BY DEF Fail, handlerVars
<1>2. RingKept
  BY <1>1, SameRing
<1>3. TypeOK' /\ ids'["session"] = "own"
  BY <1>1, <1>2 DEF IInv, TypeOK, OurSession, RingKept, droneVars, historyVars
<1> QED
  BY <1>1, <1>2, <1>3, OutsideIInv

\* What is left of a ring.
LEMMA TailServes ==
    ASSUME NEW s \in Seq(OurRequests), s # <<>>, NEW i \in DOMAIN s, i # 1
    PROVE  i - 1 \in DOMAIN Tail(s) /\ Tail(s)[i - 1] = s[i]
<1>1. /\ Tail(s) \in Seq(OurRequests) /\ Len(Tail(s)) = Len(s) - 1
      /\ \A j \in 1 .. Len(Tail(s)) : Tail(s)[j] = s[j + 1]
  BY HeadTailProperties
<1>2. i - 1 \in 1 .. Len(Tail(s)) /\ (i - 1) + 1 = i
  BY <1>1
<1> QED
  BY <1>1, <1>2

\* The answer that ends a wait is used up only in the state that awaits it.
LEMMA CompleteIInv == IInv /\ Complete => IInv'
<1> SUFFICES ASSUME IInv, Complete PROVE IInv'
  OBVIOUS
<1>1. /\ fresh /\ ring # <<>> /\ fresh' = FALSE /\ acked' = FALSE /\ ring' = Tail(ring)
      /\ configState' = (IF Head(ring).callback = "configuration" THEN AfterConfiguration ELSE configState)
      /\ navdataState' = (IF Head(ring).callback = "navdata" THEN AfterNavdata ELSE navdataState)
      /\ UNCHANGED <<pc, switches, navdataNeeded, droneSupportsMulticonfig, configWasDone, ids,
                     copy, available, refused>>
      /\ UNCHANGED droneVars /\ UNCHANGED historyVars
  BY DEF Complete
<1>2. ring \in Seq(OurRequests) /\ Len(ring) <= RingCapacity /\ Head(ring) = ring[1]
  BY <1>1 DEF IInv, TypeOK, OurSession
<1>3. /\ ring' \in Seq(OurRequests) /\ ring' \in Seq(Request)
      /\ Len(ring') <= RingCapacity
  BY <1>1, <1>2, HeadTailProperties, OursAreRequests, GeneralAssumption
<1>4. \A i \in DOMAIN ring : i # 1 => i - 1 \in DOMAIN ring' /\ ring'[i - 1] = ring[i]
  BY <1>1, <1>2, TailServes
<1>5. configState \in ConfigStates /\ navdataState \in NavdataStates
  BY DEF IInv, TypeOK
<1>6. /\ configState' \in ConfigStates
      /\ configState' \in InProgress => Head(ring).callback # "configuration" /\ configState' = configState
  BY <1>1, <1>5 DEF AfterConfiguration, ConfigStates, InProgress
<1>7. /\ navdataState' \in NavdataStates
      /\ navdataState' = "IN_PROGRESS" => Head(ring).callback # "navdata" /\ navdataState' = navdataState
  BY <1>1, <1>5 DEF AfterNavdata, NavdataStates
<1>8. TypeOK'
  BY <1>1, <1>3, <1>6, <1>7 DEF IInv, TypeOK, droneVars, historyVars
<1>9. ASSUME NEW c \in Callbacks, Awaits(c), Head(ring).callback # c
      PROVE  Awaits(c)'
  <2>1. PICK i \in DOMAIN ring : ring[i].callback = c
    BY <1>9 DEF Awaits
  <2>2. i # 1
    BY <1>2, <1>9, <2>1
  <2> QED
    BY <1>4, <2>1, <2>2 DEF Awaits
<1>10. WaitsServed'
  <2>1. ASSUME ~refused', configState' \in InProgress PROVE Awaits("configuration")'
    BY <1>1, <1>6, <1>9, <2>1 DEF IInv, WaitsServed, Callbacks
  <2>2. ASSUME ~refused', navdataState' = "IN_PROGRESS" PROVE Awaits("navdata")'
    BY <1>1, <1>7, <1>9, <2>2 DEF IInv, WaitsServed, Callbacks
  <2> QED
    BY <2>1, <2>2 DEF WaitsServed
<1>11. OurSession'
  BY <1>1, <1>3 DEF IInv, OurSession
<1>12. StreamUnderWay'
  <2> SUFFICES ASSUME pc' = "sent", ~refused'
               PROVE  \E i \in DOMAIN ring' : ring'[i].callback = "configuration" /\ (fresh' => i >= 2)
    BY DEF StreamUnderWay
  <2>1. PICK i \in DOMAIN ring : ring[i].callback = "configuration" /\ i >= 2
    BY <1>1 DEF IInv, StreamUnderWay
  <2>2. i # 1
    BY <2>1
  <2> QED
    BY <1>1, <1>4, <2>1, <2>2
<1> QED
  BY <1>8, <1>10, <1>11, <1>12 DEF IInv

LEMMA StutterIInv == IInv /\ UNCHANGED vars => IInv'
  BY DEF IInv, TypeOK, WaitsServed, Awaits, OurSession, StreamUnderWay,
         vars, handlerVars, controlVars, droneVars, historyVars

-----------------------------------------------------------------------------
(* The theorems.                                                           *)

LEMMA NextIInv == IInv /\ [Next]_vars => IInv'
<1> SUFFICES ASSUME IInv, [Next]_vars PROVE IInv'
  OBVIOUS
<1>1. CASE ConfigAutomaton
  BY <1>1, CheckVersionIInv, SendIdsIInv, RequestIdsIInv, CheckIdsIInv, RequestConfigIInv,
     SendNavdataIInv, AwaitNavdataIInv, RefreshIInv, ConfigRestsIInv DEF ConfigAutomaton
<1>2. CASE Process
  BY <1>1, <1>2, PacketIInv, NavdataAutomatonIInv DEF Process
<1> QED
  BY <1>2, AcknowledgeIInv, CompleteIInv, FailIInv, UserFunctionIInv, OtherRequestIInv,
     RestartIInv, StutterIInv DEF Next

LEMMA Safety == Spec => []IInv
  BY InitIInv, NextIInv, PTL DEF Spec

\* The handler's states, its identifiers and the ring stay well-formed, and the
\* ring within its capacity (Navdata/ardrone_general_navdata.c).
THEOREM TypeCorrect == Spec => []TypeOK
<1>1. IInv => TypeOK
  BY DEF IInv
<1> QED
  BY <1>1, Safety, PTL

\* An automaton that waits for an answer has the request in the ring whose
\* callback releases it (ardrone_general_navdata.c:295-305), for every capacity
\* of the ring that has refused nothing.
THEOREM EveryWaitServed == Spec => []WaitsServed
<1>1. IInv => WaitsServed
  BY DEF IInv
<1> QED
  BY <1>1, Safety, PTL

-----------------------------------------------------------------------------
(* Answers.  Two facts make a callback that does not say what it ends safe:   *)
(* at most one request of the ring has it, and that request is the one the    *)
(* automaton waits for.  A user function breaks both.                         *)

\* What the automaton waits for; between the requests for the stream and the
\* state that awaits their end it waits already.
Waiting == IF pc = "sent" THEN {"options"}
           ELSE IF configState \in InProgress THEN {Awaited(configState)} ELSE {}

Answers ==
    calls = 0 =>
        /\ pc = "ids" => configState = "GOT_IDS_LIST"
        /\ pc = "sent" => configState = "REQUEST_NAVDATA"
        /\ \A i \in DOMAIN ring : ring[i].callback = "configuration" =>
               /\ ring[i].what \in Waiting
               /\ \A j \in DOMAIN ring : ring[j].callback = "configuration" => j = i

QuietRequests == {r \in OurRequests : r.callback # "configuration"}

\* The ring after an addition, whether or not all of it fits.
LEMMA AddExtends ==
    ASSUME IInv, NEW requests \in Seq(OurRequests), Add(requests)
    PROVE  /\ Len(ring) \in Nat
           /\ \A i \in DOMAIN ring' :
                  \/ i \in DOMAIN ring /\ ring'[i] = ring[i]
                  \/ i - Len(ring) \in DOMAIN requests /\ ring'[i] = requests[i - Len(ring)]
<1> DEFINE room == RingCapacity - Len(ring)
           n == IF Len(requests) <= room THEN Len(requests) ELSE room
           part == SubSeq(requests, 1, n)
<1>1. ring \in Seq(OurRequests) /\ Len(ring) <= RingCapacity
  BY DEF IInv, TypeOK, OurSession
<1>2. n \in 0 .. Len(requests)
  BY <1>1, GeneralAssumption
<1>3. ring' = ring \o part
  BY DEF Add
<1> HIDE DEF n
<1>4. /\ part \in Seq(OurRequests) /\ Len(part) = n
      /\ \A j \in 1 .. n : part[j] = requests[j]
  BY <1>2, SubSeqProperties
<1> HIDE DEF part
<1>5. /\ Len(ring \o part) = Len(ring) + n /\ DOMAIN (ring \o part) = 1 .. Len(ring) + n
      /\ \A i \in 1 .. Len(ring) + n :
             (ring \o part)[i] = IF i <= Len(ring) THEN ring[i] ELSE part[i - Len(ring)]
  <2> DEFINE new == ring \o part
  <2>1. /\ new \in Seq(OurRequests) /\ Len(new) = Len(ring) + Len(part)
        /\ \A i \in 1 .. Len(ring) + Len(part) :
               new[i] = IF i <= Len(ring) THEN ring[i] ELSE part[i - Len(ring)]
    BY <1>1, <1>4, ConcatProperties
  <2> HIDE DEF new
  <2>2. DOMAIN new = 1 .. Len(new)
    BY <2>1
  <2>3. /\ Len(new) = Len(ring) + n /\ DOMAIN new = 1 .. Len(ring) + n
        /\ \A i \in 1 .. Len(ring) + n :
               new[i] = IF i <= Len(ring) THEN ring[i] ELSE part[i - Len(ring)]
    BY <1>4, <2>1, <2>2
  <2> QED
    BY <2>3 DEF new
<1>6. ASSUME NEW i \in DOMAIN ring', i > Len(ring)
      PROVE  i - Len(ring) \in DOMAIN requests /\ ring'[i] = requests[i - Len(ring)]
  <2>1. i \in 1 .. Len(ring) + n
    BY <1>3, <1>5, <1>6
  <2>2. i - Len(ring) \in 1 .. n
    BY <1>1, <1>2, <1>6, <2>1
  <2>3. ring'[i] = part[i - Len(ring)]
    BY <1>1, <1>3, <1>5, <1>6, <2>1
  <2> QED
    BY <1>2, <1>4, <2>2, <2>3
<1>7. ASSUME NEW i \in DOMAIN ring', ~(i > Len(ring))
      PROVE  i \in DOMAIN ring /\ ring'[i] = ring[i]
  <2>1. i \in 1 .. Len(ring) + n
    BY <1>3, <1>5, <1>7
  <2> QED
    BY <1>1, <1>2, <1>3, <1>5, <1>7, <2>1
<1>8. Len(ring) \in Nat
  BY <1>1
<1> QED
  BY <1>6, <1>7, <1>8

\* A step after which the requests that have the callback are those of before.
LEMMA QuietStep ==
    ASSUME Answers, calls' = calls,
           calls = 0 => /\ pc' = "ids" => configState' = "GOT_IDS_LIST"
                        /\ pc' = "sent" => configState' = "REQUEST_NAVDATA"
                        /\ Waiting \subseteq Waiting',
           \A i \in DOMAIN ring' : ring'[i].callback = "configuration"
                                       => i \in DOMAIN ring /\ ring'[i] = ring[i]
    PROVE  Answers'
  BY DEF Answers

\* A step that adds such a request when there was none.
LEMMA AskStep ==
    ASSUME IInv, Answers, calls' = calls,
           NEW requests \in Seq(OurRequests), NEW k \in DOMAIN requests, Add(requests),
           \A j \in DOMAIN requests : requests[j].callback = "configuration" => j = k,
           calls = 0 => /\ pc' = "ids" => configState' = "GOT_IDS_LIST"
                        /\ pc' = "sent" => configState' = "REQUEST_NAVDATA"
                        /\ Waiting = {} /\ requests[k].what \in Waiting'
    PROVE  Answers'
<1> SUFFICES ASSUME calls = 0 PROVE Answers'
  BY DEF Answers
<1>1. \A i \in DOMAIN ring : ring[i].callback # "configuration"
  BY DEF Answers
<1>2. /\ Len(ring) \in Nat
      /\ \A i \in DOMAIN ring' :
             \/ i \in DOMAIN ring /\ ring'[i] = ring[i]
             \/ i - Len(ring) \in DOMAIN requests /\ ring'[i] = requests[i - Len(ring)]
  BY AddExtends
<1>3. ring' \in Seq(OurRequests)
  BY AddServes DEF RingKept
<1>4. ASSUME NEW i \in DOMAIN ring', ring'[i].callback = "configuration"
      PROVE  i = Len(ring) + k /\ ring'[i] = requests[k]
  <2>1. i - Len(ring) \in DOMAIN requests /\ ring'[i] = requests[i - Len(ring)]
    BY <1>1, <1>2, <1>4
  <2>2. i - Len(ring) = k
    BY <1>4, <2>1
  <2>3. i \in Int
    BY <1>3
  <2> QED
    BY <1>2, <2>1, <2>2, <2>3
<1> QED
  BY <1>4 DEF Answers

\* An addition of other requests.
LEMMA QuietAdd ==
    ASSUME IInv, NEW requests \in Seq(QuietRequests), Add(requests)
    PROVE  \A i \in DOMAIN ring' : ring'[i].callback = "configuration"
                                       => i \in DOMAIN ring /\ ring'[i] = ring[i]
<1>1. requests \in Seq(OurRequests)
  <2>1. QuietRequests \subseteq OurRequests
    BY DEF QuietRequests
  <2> QED
    BY <2>1
<1>2. \A j \in DOMAIN requests : requests[j].callback # "configuration"
  BY DEF QuietRequests
<1> QED
  BY <1>1, <1>2, AddExtends

LEMMA QuietPlain ==
    \A what \in {"demo", "options", "file", "list", "other"}, c \in {"none", "navdata"} :
        Plain(what, c) \in QuietRequests
  BY PlainType DEF QuietRequests, Plain, Set, Callbacks

LEMMA QuietSwitch ==
    ASSUME IInv, NEW k \in Kinds
    PROVE  SwitchTo(k) \in Seq(QuietRequests)
<1>1. ids[k] \in Ids /\ (k = "session" => ids[k] = "own")
  BY DEF IInv, TypeOK, OurSession
<1>2. Set("id", k, ids[k], "none") \in OurRequests
  BY <1>1, IdType DEF Custom, Kinds
<1>3. Set("id", k, ids[k], "none") \in QuietRequests
  BY <1>2 DEF QuietRequests, Set
<1> QED
  BY <1>3 DEF SwitchTo

LEMMA QuietCustom ==
    ASSUME IInv, NEW k \in Custom
    PROVE  SwitchCustom(k) \in Seq(QuietRequests) /\ Initialise(k) \in Seq(QuietRequests)
<1>1. ids[k] \in Ids /\ k \in Kinds
  BY DEF IInv, TypeOK, Custom
<1>2. Set("values", k, ids[k], "none") \in OurRequests /\ Set("desc", k, ids[k], "none") \in OurRequests
  BY <1>1, SetType
<1>3. Set("values", k, ids[k], "none") \in QuietRequests /\ Set("desc", k, ids[k], "none") \in QuietRequests
  BY <1>2 DEF QuietRequests, Set
<1> QED
  BY <1>1, <1>3, QuietSwitch DEF SwitchCustom, Initialise

LEMMA SendIdsAnswers == IInv /\ Answers /\ SendIds => Answers'
<1> SUFFICES ASSUME IInv, Answers, SendIds PROVE Answers'
  OBVIOUS
<1> DEFINE a == IF "session" \in switches THEN SwitchTo("session") ELSE <<>>
           b == SwitchCustom("application")
           c == SwitchCustom("profile")
           d == Initialise("application")
           e == Initialise("profile")
           f == IF "session" \in switches /\ ids["session"] # "default"
                THEN <<Set("desc", "session", ids["session"], "none"),
                       Set("values", "session", ids["session"], "none")>>
                ELSE <<>>
           all == a \o b \o c \o d \o e \o f
<1>1. /\ ConfigStep("GOT_IDS_LIST", "ids") /\ Add(all)
      /\ UNCHANGED configState
  BY DEF SendIds
<1>2. a \in Seq(QuietRequests)
  BY QuietSwitch DEF Kinds
<1>3. b \in Seq(QuietRequests) /\ c \in Seq(QuietRequests) /\ d \in Seq(QuietRequests) /\ e \in Seq(QuietRequests)
  BY QuietCustom DEF Custom, Kinds
<1>4. f \in Seq(QuietRequests)
  <2>1. ids["session"] \in Ids
    BY DEF IInv, TypeOK, Kinds
  <2>2. Set("desc", "session", ids["session"], "none") \in OurRequests
        /\ Set("values", "session", ids["session"], "none") \in OurRequests
    BY <2>1, SetType DEF Kinds
  <2>3. Set("desc", "session", ids["session"], "none") \in QuietRequests
        /\ Set("values", "session", ids["session"], "none") \in QuietRequests
    BY <2>2 DEF QuietRequests, Set
  <2> QED
    BY <2>3
<1> HIDE DEF a, b, c, d, e, f
<1>5. all \in Seq(QuietRequests)
  BY <1>2, <1>3, <1>4
<1> HIDE DEF all
<1>6. \A i \in DOMAIN ring' : ring'[i].callback = "configuration"
                                  => i \in DOMAIN ring /\ ring'[i] = ring[i]
  BY <1>1, <1>5, QuietAdd
<1>7. pc = "config" /\ pc' = "ids" /\ configState = "GOT_IDS_LIST" /\ calls' = calls
  BY <1>1 DEF ConfigStep, historyVars
<1>8. Waiting = {}
  BY <1>7 DEF Waiting, InProgress
<1> QED
  BY <1>1, <1>6, <1>7, <1>8, QuietStep

\* A step of the automaton that asks for something with the callback.
LEMMA AskOne ==
    ASSUME IInv, Answers, calls' = calls, NEW what \in {"file", "list"},
           Add(<<Plain(what, "configuration")>>), pc' \notin {"ids", "sent"},
           calls = 0 => pc # "sent" /\ configState \notin InProgress,
           configState' \in InProgress, Awaited(configState') = what
    PROVE  Answers'
<1> DEFINE requests == <<Plain(what, "configuration")>>
<1>1. requests \in Seq(OurRequests) /\ 1 \in DOMAIN requests /\ requests[1].what = what
      /\ \A j \in DOMAIN requests : j = 1
  BY PlainType DEF Plain, Set, Callbacks
<1>2. what \in Waiting'
  BY DEF Waiting
<1>3. calls = 0 => Waiting = {}
  BY DEF Waiting
<1> HIDE DEF requests
<1>4. Add(requests)
  BY DEF requests
<1> QED
  BY <1>1, <1>2, <1>3, <1>4, AskStep

LEMMA AutomatonAnswers == IInv /\ Answers /\ ConfigAutomaton => Answers'
<1> SUFFICES ASSUME IInv, Answers, ConfigAutomaton PROVE Answers'
  OBVIOUS
<1>1. CASE CheckVersion /\ supports
  <2>1. /\ pc = "config" /\ configState = "GOT_DRONE_VERSION" /\ pc' = "navdata" /\ calls' = calls
        /\ configState' = "IN_PROGRESS_LIST" /\ Add(<<Plain("list", "configuration")>>)
    BY <1>1 DEF CheckVersion, ConfigStep, historyVars
  <2> QED
    BY <2>1, AskOne DEF Awaited, InProgress
<1>2. CASE CheckVersion /\ ~supports
  <2>1. /\ pc = "config" /\ configState = "GOT_DRONE_VERSION" /\ pc' = "navdata" /\ calls' = calls
        /\ configState' = "REQUEST_NAVDATA" /\ UNCHANGED ring
    BY <1>2 DEF CheckVersion, ConfigStep, historyVars
  <2>2. Waiting = {}
    BY <2>1 DEF Waiting, InProgress
  <2> QED
    BY <2>1, <2>2, QuietStep
<1>3. CASE RequestIds
  <2>1. /\ pc = "ids" /\ pc' = "navdata" /\ calls' = calls
        /\ configState' = "IN_PROGRESS_IDS" /\ Add(<<Plain("file", "configuration")>>)
    BY <1>3 DEF RequestIds, historyVars
  <2>2. calls = 0 => configState = "GOT_IDS_LIST"
    BY <2>1 DEF Answers
  <2> QED
    BY <2>1, <2>2, AskOne DEF Awaited, InProgress
<1>4. CASE RequestConfig
  <2>1. /\ pc = "config" /\ configState = "NEEDED" /\ pc' = "navdata" /\ calls' = calls
        /\ configState' = "IN_PROGRESS_VERSION" /\ Add(<<Plain("file", "configuration")>>)
    BY <1>4 DEF RequestConfig, ConfigStep, historyVars
  <2> QED
    BY <2>1, AskOne DEF Awaited, InProgress
<1>5. CASE CheckIds
  <2>1. /\ pc = "config" /\ configState = "GOT_CURRENT_IDS" /\ pc' = "navdata" /\ calls' = calls
        /\ UNCHANGED ring
    BY <1>5 DEF CheckIds, ConfigStep, historyVars
  <2>2. Waiting = {}
    BY <2>1 DEF Waiting, InProgress
  <2> QED
    BY <2>1, <2>2, QuietStep
<1>6. CASE SendNavdata
  <2> DEFINE requests == AskForStream("configuration")
  <2>1. /\ pc = "config" /\ configState = "REQUEST_NAVDATA" /\ pc' = "sent" /\ calls' = calls
        /\ UNCHANGED configState /\ Add(requests)
    BY <1>6 DEF SendNavdata, ConfigStep, historyVars
  <2>2. requests \in Seq(OurRequests) /\ DOMAIN requests = {1, 2} /\ requests[1].callback = "none"
        /\ requests[2].what = "options"
    BY PlainType DEF AskForStream, Plain, Set, Callbacks
  <2> HIDE DEF requests
  <2>3. Waiting = {} /\ "options" \in Waiting'
    BY <2>1 DEF Waiting, InProgress
  <2> QED
    BY <2>1, <2>2, <2>3, AskStep
<1>7. CASE AwaitNavdata
  <2>1. /\ pc = "sent" /\ pc' = "navdata" /\ calls' = calls
        /\ configState' = "IN_PROGRESS_NAVDATA" /\ UNCHANGED ring
    BY <1>7 DEF AwaitNavdata, historyVars
  <2>2. Waiting = {"options"} /\ Waiting' = {"options"}
    BY <2>1 DEF Waiting, Awaited, InProgress
  <2> QED
    BY <2>1, <2>2, QuietStep
<1>8. CASE Refresh
  <2>1. /\ pc = "config" /\ configState = "GOT_NAVDATA" /\ pc' = "navdata" /\ calls' = calls
        /\ Add(<<Plain("file", "none")>>)
    BY <1>8 DEF Refresh, ConfigStep, historyVars
  <2>2. <<Plain("file", "none")>> \in Seq(QuietRequests)
    BY QuietPlain
  <2>3. Waiting = {}
    BY <2>1 DEF Waiting, InProgress
  <2> QED
    BY <2>1, <2>2, <2>3, QuietAdd, QuietStep
<1>9. CASE ConfigRests
  <2>1. pc = "config" /\ pc' = "navdata" /\ calls' = calls /\ UNCHANGED <<configState, ring>>
    BY <1>9 DEF ConfigRests, ConfigStep, historyVars
  <2>2. Waiting' = Waiting
    BY <2>1 DEF Waiting
  <2> QED
    BY <2>1, <2>2, QuietStep
<1>10. CASE SendIds
  BY <1>10, SendIdsAnswers
<1> QED
  BY <1>1, <1>2, <1>3, <1>4, <1>5, <1>6, <1>7, <1>8, <1>9, <1>10 DEF ConfigAutomaton

LEMMA NavdataAnswers == IInv /\ Answers /\ (Packet \/ NavdataAutomaton) => Answers'
<1> SUFFICES ASSUME IInv, Answers, Packet \/ NavdataAutomaton PROVE Answers'
  OBVIOUS
<1>1. CASE Packet
  <2>1. /\ pc = "idle" /\ pc' = "config" /\ calls' = calls /\ UNCHANGED ring
        /\ configState' = configState \/ (configState = "IDLE" /\ configState' = "NEEDED")
    BY <1>1 DEF Packet, historyVars
  <2>2. Waiting' = Waiting
    BY <2>1 DEF Waiting, InProgress
  <2> QED
    BY <2>1, <2>2, QuietStep
<1>2. CASE NavdataAutomaton
  <2>1. pc = "navdata" /\ pc' = "idle" /\ calls' = calls /\ UNCHANGED configState
    BY <1>2 DEF NavdataAutomaton, ResumeNavdata, EndResume, NavdataRests, NavdataStep, historyVars
  <2>2. Waiting' = Waiting
    BY <2>1 DEF Waiting
  <2>3. CASE NavdataRests
    BY <2>1, <2>2, <2>3, QuietStep DEF NavdataRests
  <2>4. CASE ResumeNavdata
    <3> DEFINE requests == SwitchTo("session") \o AskForStream("navdata")
    <3>1. SwitchTo("session") \in Seq(QuietRequests)
      BY QuietSwitch DEF Kinds
    <3>2. AskForStream("navdata") \in Seq(QuietRequests)
      BY QuietPlain DEF AskForStream
    <3>3. requests \in Seq(QuietRequests) /\ Add(requests)
      BY <2>4, <3>1, <3>2 DEF ResumeNavdata
    <3> HIDE DEF requests
    <3> QED
      BY <2>1, <2>2, <3>3, QuietAdd, QuietStep
  <2>5. CASE EndResume
    <3>1. <<Plain("file", "none")>> \in Seq(QuietRequests) /\ Add(<<Plain("file", "none")>>)
      BY <2>5, QuietPlain DEF EndResume
    <3> QED
      BY <2>1, <2>2, <3>1, QuietAdd, QuietStep
  <2> QED
    BY <1>2, <2>3, <2>4, <2>5 DEF NavdataAutomaton
<1> QED
  BY <1>1, <1>2

\* The oldest request ends: if it has the callback, no other has.
LEMMA CompleteAnswers == IInv /\ Answers /\ Complete => Answers'
<1> SUFFICES ASSUME IInv, Answers, Complete, calls = 0 PROVE Answers'
  BY DEF Answers, Complete, historyVars
<1>1. /\ ring # <<>> /\ ring' = Tail(ring) /\ UNCHANGED pc
      /\ configState' = (IF Head(ring).callback = "configuration" THEN AfterConfiguration ELSE configState)
  BY DEF Complete
<1>2. ring \in Seq(OurRequests) /\ Head(ring) = ring[1] /\ 1 \in DOMAIN ring
  BY <1>1 DEF IInv, OurSession
<1>3. ASSUME NEW i \in DOMAIN ring'
      PROVE  i \in Int /\ i + 1 \in DOMAIN ring /\ i + 1 # 1 /\ ring'[i] = ring[i + 1]
  <2>1. /\ Tail(ring) \in Seq(OurRequests) /\ Len(Tail(ring)) = Len(ring) - 1
        /\ \A j \in 1 .. Len(Tail(ring)) : Tail(ring)[j] = ring[j + 1]
    BY <1>1, <1>2, HeadTailProperties
  <2> QED
    BY <1>1, <1>2, <1>3, <2>1
<1>4. pc = "ids" => configState' = "GOT_IDS_LIST"
  BY <1>1 DEF Answers, AfterConfiguration
<1>5. pc = "sent" => configState' = "REQUEST_NAVDATA"
  BY <1>1 DEF Answers, AfterConfiguration
<1>6. CASE Head(ring).callback = "configuration"
  <2>1. \A i \in DOMAIN ring' : ring'[i].callback # "configuration"
    BY <1>2, <1>3, <1>6 DEF Answers
  <2> QED
    BY <1>1, <1>4, <1>5, <2>1 DEF Answers
<1>7. CASE Head(ring).callback # "configuration"
  <2>1. Waiting' = Waiting
    BY <1>1, <1>7 DEF Waiting
  <2>2. ASSUME NEW i \in DOMAIN ring', ring'[i].callback = "configuration"
        PROVE  /\ ring'[i].what \in Waiting
               /\ \A j \in DOMAIN ring' : ring'[j].callback = "configuration" => j = i
    <3>1. ring[i + 1].what \in Waiting
      BY <1>3, <2>2 DEF Answers
    <3>2. ASSUME NEW j \in DOMAIN ring', ring'[j].callback = "configuration" PROVE j = i
      <4>1. i + 1 \in DOMAIN ring /\ j + 1 \in DOMAIN ring /\ i \in Int /\ j \in Int
            /\ ring[i + 1].callback = "configuration" /\ ring[j + 1].callback = "configuration"
        BY <1>3, <2>2, <3>2
      <4>2. j + 1 = i + 1
        BY <4>1 DEF Answers
      <4> QED
        BY <4>1, <4>2
    <3> QED
      BY <1>3, <3>1, <3>2
  <2> QED
    BY <1>1, <1>4, <1>5, <2>1, <2>2 DEF Answers
<1> QED
  BY <1>6, <1>7

LEMMA NextAnswers == IInv /\ Answers /\ [Next]_vars => Answers'
<1> SUFFICES ASSUME IInv, Answers, [Next]_vars PROVE Answers'
  OBVIOUS
<1>1. CASE Process
  BY <1>1, AutomatonAnswers, NavdataAnswers DEF Process
<1>2. CASE Complete
  BY <1>2, CompleteAnswers
<1>3. CASE UserFunction
  <2>1. calls' = calls + 1
    BY <1>3 DEF UserFunction, ardrone_refresh_user_list, ardrone_switch_to_user,
                ardrone_switch_to_user_id, StartDialogue
  <2>2. calls' # 0
    BY <2>1 DEF IInv, TypeOK
  <2> QED
    BY <2>2 DEF Answers
<1>4. CASE OtherRequest
  <2>1. UNCHANGED <<pc, configState, calls>>
    BY <1>4 DEF OtherRequest, handlerVars, historyVars
  <2>2. PICK r \in QuietRequests : Add(<<r>>)
    BY <1>4, QuietPlain DEF OtherRequest, Others
  <2>3. <<r>> \in Seq(QuietRequests)
    OBVIOUS
  <2>4. Waiting' = Waiting
    BY <2>1 DEF Waiting
  <2>5. \A i \in DOMAIN ring' : ring'[i].callback = "configuration"
                                    => i \in DOMAIN ring /\ ring'[i] = ring[i]
    BY <2>2, <2>3, QuietAdd
  <2> QED
    BY <2>1, <2>4, <2>5, QuietStep DEF Answers
<1>5. CASE Acknowledge \/ Fail \/ Restart \/ UNCHANGED vars
  <2>1. UNCHANGED <<pc, configState, ring, calls>>
    BY <1>5 DEF Acknowledge, Fail, Restart, vars, handlerVars, historyVars
  <2> QED
    BY <2>1 DEF Answers, Waiting
<1> QED
  BY <1>1, <1>2, <1>3, <1>4, <1>5 DEF Next

\* Only the end of a request ends a wait.
LEMMA OnlyCompleteAnswers ==
    ASSUME IInv, Answers, [Next]_vars, configState' # configState,
           configState \in InProgress, calls' = 0
    PROVE  Complete /\ calls = 0
<1>1. calls = 0
  <2>1. calls' = calls \/ calls' = calls + 1
    BY DEF Next, Process, Packet, ConfigAutomaton, NavdataAutomaton, CheckVersion, SendIds, RequestIds,
           CheckIds, RequestConfig, SendNavdata, AwaitNavdata, Refresh, ConfigRests, ConfigStep,
           ResumeNavdata, EndResume, NavdataRests, NavdataStep, Acknowledge, Complete, Fail, UserFunction,
           ardrone_refresh_user_list, ardrone_switch_to_user, ardrone_switch_to_user_id, StartDialogue,
           OtherRequest, Restart, vars, historyVars
  <2> QED
    BY <2>1 DEF IInv, TypeOK
<1>2. ~UserFunction
  <2>1. UserFunction => calls' = calls + 1
    BY DEF UserFunction, ardrone_refresh_user_list, ardrone_switch_to_user,
           ardrone_switch_to_user_id, StartDialogue
  <2> QED
    BY <1>1, <2>1
<1>3. ~RequestIds /\ ~AwaitNavdata
  BY <1>1 DEF RequestIds, AwaitNavdata, Answers, InProgress
<1>4. ~(CheckVersion \/ SendIds \/ CheckIds \/ RequestConfig \/ SendNavdata \/ Refresh \/ ConfigRests)
  BY DEF CheckVersion, SendIds, CheckIds, RequestConfig, SendNavdata, Refresh, ConfigRests,
         ConfigStep, InProgress
<1>5. ~Packet /\ ~NavdataAutomaton
  BY DEF Packet, NavdataAutomaton, ResumeNavdata, EndResume, NavdataRests, NavdataStep, InProgress
<1>6. ~(Acknowledge \/ Fail \/ OtherRequest \/ Restart \/ UNCHANGED vars)
  BY DEF Acknowledge, Fail, OtherRequest, Restart, vars, handlerVars
<1> QED
  BY <1>1, <1>2, <1>3, <1>4, <1>5, <1>6 DEF Next, Process, ConfigAutomaton

\* A wait ends with the answer it is for (configurationCallback,
\* ardrone_general_navdata.c:67-103), for every capacity of the ring, full or
\* not, as long as no user function is called.
THEOREM AnswersMatched == Spec => AnswersMatch
<1>1. Init => Answers
  <2> SUFFICES ASSUME Init PROVE Answers
    OBVIOUS
  <2>1. pc = "idle" /\ ring = <<Set("id", "session", "-all", "none")>>
    BY DEF Init
  <2>2. \A i \in DOMAIN ring : ring[i].callback = "none"
    BY <2>1 DEF Set
  <2> QED
    BY <2>1, <2>2 DEF Answers
<1>2. IInv /\ Answers /\ [Next]_vars
          => [configState' # configState /\ configState \in InProgress /\ calls' = 0
                  => Head(ring).what = Awaited(configState)]_vars
  <2> SUFFICES ASSUME IInv, Answers, [Next]_vars, configState' # configState,
                      configState \in InProgress, calls' = 0
               PROVE  Head(ring).what = Awaited(configState)
    OBVIOUS
  <2>1. Complete /\ calls = 0
    BY OnlyCompleteAnswers
  <2>2. ring # <<>> /\ Head(ring).callback = "configuration"
    BY <2>1 DEF Complete
  <2>3. Head(ring) = ring[1] /\ 1 \in DOMAIN ring
    BY <2>2 DEF IInv, OurSession
  <2>4. pc # "sent"
    BY <2>1 DEF Answers, InProgress
  <2> QED
    BY <2>1, <2>2, <2>3, <2>4 DEF Answers, Waiting
<1> QED
  BY <1>1, <1>2, NextAnswers, Safety, PTL DEF Spec, AnswersMatch
-----------------------------------------------------------------------------
(* Once the configuration is done the drone uses our identifiers.  What is  *)
(* wanted of the drone is a set of facts, each of which a request in the    *)
(* ring brings about, as long as the facts it needs hold by then.           *)

\* No request was refused and nothing disturbs a drone that knows about
\* configurations.
Undisputed == supports = TRUE /\ ~refused /\ restarts = 0 /\ calls = 0

\* The facts: the drone uses our identifiers, and holds our values for those
\* of the application and the profile.  Each is named for its request.
Facts == ({"id"} \X Kinds) \cup ({"values"} \X Custom)
Holds(f) == CASE f[1] = "values"    -> <<f[2], "own">> \in initialised
              [] f[2] = "session"   -> session = "own"
              [] OTHER              -> custom["own"][f[2]] = "own"

\* The identifiers of application and profile are set in the session in use,
\* and the values in the configuration in use.
Needs(f) == CASE f[1] = "values"  -> {<<"id", "session">>, <<"id", f[2]>>}
              [] f[2] = "session" -> {}
              [] OTHER            -> {<<"id", "session">>}

Asks(r, f) == r.what = f[1] /\ r.kind = f[2] /\ r.value = "own"

\* The drone has yet to handle the request at index i.
Waits(i) == i \in DOMAIN ring /\ (i = 1 => ~acked)

\* The fact holds by the time the drone handles index i.
Before(f, i) == Holds(f) \/ \E j \in DOMAIN ring : Waits(j) /\ j < i /\ Asks(ring[j], f)
AllBefore(i) == \A f \in Facts : Before(f, i)

\* Every request comes after those it needs.
InOrder == \A j \in DOMAIN ring, f \in Facts :
              Asks(ring[j], f) => \A g \in Needs(f) : Before(g, j)

\* The only identifiers sent are ours, after the reset of the first session.
OurIds == \A i \in DOMAIN ring : ring[i].what = "id" =>
             \/ ring[i].value = "own"
             \/ /\ i = 1 /\ ring[i].value = "-all" /\ ring[i].kind = "session"
                /\ session = "default" /\ \A k \in Custom : custom["own"][k] = "default"

\* A configuration of ours that the drone knows by the time it handles index i
\* holds our values by then.
KnownInit(i) == \A k \in Custom :
    (\/ <<k, "own">> \in known
     \/ \E j \in DOMAIN ring : j < i /\ Asks(ring[j], <<"id", k>>))
       => Before(<<"values", k>>, i)

\* So the list the drone is asked for names only configurations with our values.
ListTrue == /\ KnownInit(Len(ring) + 1)
            /\ \A i \in DOMAIN ring : ring[i].what = "list" => KnownInit(i)
            /\ \A k \in Custom : <<k, "own">> \in available => Holds(<<"values", k>>)

\* The dialogue gets on once the ring holds what is wanted, then once the
\* drone does.
Agreed == configState \in {"GOT_CURRENT_IDS", "REQUEST_NAVDATA", "IN_PROGRESS_NAVDATA", "GOT_NAVDATA"}
             \/ configWasDone
Progress ==
    /\ pc = "ids" => AllBefore(Len(ring) + 1)
    /\ configState = "IN_PROGRESS_IDS" =>
         \A i \in DOMAIN ring : ring[i].callback = "configuration" => AllBefore(i)
    /\ Agreed => \A f \in Facts : Holds(f)

\* The handler switches to everything of ours; what is acknowledged is the
\* oldest request.
Settings == /\ switches = Kinds /\ ids = [k \in Kinds |-> "own"]
            /\ acked => ring # <<>>

Agreement == InOrder /\ OurIds /\ ListTrue /\ Progress /\ Settings
AgreementUndisputed == Undisputed => Agreement

-----------------------------------------------------------------------------
(* Facts.                                                                  *)

LEMMA FactCases ==
    ASSUME NEW f \in Facts
    PROVE  \/ f = <<"id", "session">>
           \/ \E k \in Custom : f = <<"id", k>> \/ f = <<"values", k>>
<1>1. CASE f \in {"id"} \X Kinds
  <2>1. PICK k \in Kinds : f = <<"id", k>>
    BY <1>1
  <2> QED
    BY <2>1 DEF Custom
<1>2. CASE f \in {"values"} \X Custom
  BY <1>2
<1> QED
  BY <1>1, <1>2 DEF Facts

LEMMA FactsAre ==
    /\ <<"id", "session">> \in Facts
    /\ \A k \in Custom : <<"id", k>> \in Facts /\ <<"values", k>> \in Facts
  BY DEF Facts, Custom, Kinds

LEMMA HoldsAre ==
    /\ Holds(<<"id", "session">>) <=> session = "own"
    /\ \A k \in Custom : /\ Holds(<<"id", k>>) <=> custom["own"][k] = "own"
                         /\ Holds(<<"values", k>>) <=> <<k, "own">> \in initialised
  BY DEF Holds, Custom

LEMMA NeedsAre ==
    /\ Needs(<<"id", "session">>) = {}
    /\ \A k \in Custom : /\ Needs(<<"id", k>>) = {<<"id", "session">>}
                         /\ Needs(<<"values", k>>) = {<<"id", "session">>, <<"id", k>>}
  BY DEF Needs, Custom

LEMMA NeedsFacts == \A f \in Facts : Needs(f) \subseteq Facts
<1> SUFFICES ASSUME NEW f \in Facts PROVE Needs(f) \subseteq Facts
  OBVIOUS
<1>1. CASE f = <<"id", "session">>
  BY <1>1, NeedsAre
<1>2. ASSUME NEW k \in Custom, f = <<"id", k>> \/ f = <<"values", k>>
      PROVE  Needs(f) \subseteq Facts
  BY <1>2, NeedsAre, FactsAre
<1> QED
  BY <1>1, <1>2, FactCases

LEMMA AsksAre ==
    ASSUME NEW r, NEW k
    PROVE  /\ Asks(r, <<"id", k>>) <=> r.what = "id" /\ r.kind = k /\ r.value = "own"
           /\ Asks(r, <<"values", k>>) <=> r.what = "values" /\ r.kind = k /\ r.value = "own"
  BY DEF Asks

\* Nothing comes before the oldest request.
LEMMA AtHead ==
    ASSUME IInv, NEW f, Before(f, 1)
    PROVE  Holds(f)
<1>1. \A j \in DOMAIN ring : ~(j < 1)
  BY DEF IInv, OurSession
<1> QED
  BY <1>1 DEF Before

\* What holds by a request holds by a later one.
LEMMA BeforeLater ==
    ASSUME IInv, NEW f, NEW i \in Int, NEW j \in Int, i <= j, Before(f, i)
    PROVE  Before(f, j)
<1>1. DOMAIN ring \subseteq Int
  BY DEF IInv, OurSession
<1> QED
  BY <1>1 DEF Before

\* What is asked for anywhere holds by the end.
LEMMA BeforeEnd ==
    ASSUME IInv, NEW f, NEW i \in Int, Before(f, i)
    PROVE  Before(f, Len(ring) + 1)
<1>1. ring \in Seq(OurRequests) /\ DOMAIN ring = 1 .. Len(ring) /\ Len(ring) \in Nat
  BY DEF IInv, OurSession
<1> QED
  BY <1>1 DEF Before

-----------------------------------------------------------------------------
(* A ring that gets longer.                                                *)

\* Requests that may be added to the ring: each comes after those it needs,
\* identifiers are ours and come with our values, and the list is not asked
\* for together with them.
Fits(t) ==
    /\ \A j \in DOMAIN t, f \in Facts : Asks(t[j], f) =>
           \A g \in Needs(f) : \E m \in DOMAIN t : m < j /\ Asks(t[m], g)
    /\ \A j \in DOMAIN t : t[j].what = "id" => t[j].value = "own"
    /\ \A j \in DOMAIN t, k \in Custom : Asks(t[j], <<"id", k>>) =>
           /\ Holds(<<"values", k>>) \/ \E m \in DOMAIN t : Asks(t[m], <<"values", k>>)
           /\ \A m \in DOMAIN t : t[m].what # "list"

\* A step that adds them, and leaves the drone alone.
Grows(t) ==
    /\ ring' = ring \o t
    /\ acked' => acked
    /\ UNCHANGED <<switches, ids, available>> /\ UNCHANGED droneVars

\* Where the requests of the longer ring come from.
LEMMA LongerRing ==
    ASSUME IInv, NEW t \in Seq(OurRequests), ring' = ring \o t
    PROVE  /\ Len(ring) \in Nat /\ Len(t) \in Nat /\ Len(ring') = Len(ring) + Len(t)
           /\ DOMAIN ring = 1 .. Len(ring) /\ DOMAIN t = 1 .. Len(t)
           /\ DOMAIN ring' = 1 .. Len(ring) + Len(t)
           /\ \A i \in DOMAIN ring : ring'[i] = ring[i]
           /\ \A j \in DOMAIN t : ring'[Len(ring) + j] = t[j]
<1>1. ring \in Seq(OurRequests)
  BY DEF IInv, OurSession
<1> DEFINE new == ring \o t
<1>2. /\ new \in Seq(OurRequests) /\ Len(new) = Len(ring) + Len(t)
      /\ \A i \in 1 .. Len(ring) + Len(t) :
             new[i] = IF i <= Len(ring) THEN ring[i] ELSE t[i - Len(ring)]
  BY <1>1, ConcatProperties
<1>3. ring' = new
  OBVIOUS
<1> HIDE DEF new
<1>4. Len(ring) \in Nat /\ Len(t) \in Nat /\ DOMAIN ring = 1 .. Len(ring) /\ DOMAIN t = 1 .. Len(t)
  BY <1>1
<1>5. Len(ring') = Len(ring) + Len(t) /\ DOMAIN ring' = 1 .. Len(ring) + Len(t)
  BY <1>2, <1>3
<1>6. \A i \in DOMAIN ring : ring'[i] = ring[i]
  BY <1>2, <1>3, <1>4
<1>7. \A j \in DOMAIN t : ring'[Len(ring) + j] = t[j]
  BY <1>2, <1>3, <1>4
<1> QED
  BY <1>4, <1>5, <1>6, <1>7

LEMMA GrowsBefore ==
    ASSUME IInv, NEW t \in Seq(OurRequests), Grows(t)
    PROVE  /\ \A f : Holds(f)' <=> Holds(f)
           /\ \A f, i : Before(f, i) => Before(f, i)'
           /\ \A f : Before(f, Len(ring) + 1) => Before(f, Len(ring) + 1)'
<1>1. /\ Len(ring) \in Nat /\ Len(t) \in Nat /\ Len(ring') = Len(ring) + Len(t)
      /\ DOMAIN ring = 1 .. Len(ring) /\ DOMAIN ring' = 1 .. Len(ring) + Len(t)
      /\ \A i \in DOMAIN ring : ring'[i] = ring[i]
  BY LongerRing DEF Grows
<1>2. \A f : Holds(f)' <=> Holds(f)
  BY DEF Grows, droneVars, Holds
<1>3. \A i \in DOMAIN ring : i \in DOMAIN ring'
  BY <1>1
<1>4. ASSUME NEW j, Waits(j) PROVE Waits(j)' /\ ring'[j] = ring[j]
  BY <1>1, <1>3, <1>4 DEF Grows, Waits
<1>5. ASSUME NEW f, NEW i, Before(f, i) PROVE Before(f, i)'
  <2>1. CASE Holds(f)
    BY <1>2, <2>1 DEF Before
  <2>2. ASSUME NEW j \in DOMAIN ring, Waits(j), j < i, Asks(ring[j], f)
        PROVE  Before(f, i)'
    BY <1>3, <1>4, <2>2 DEF Before, Asks
  <2> QED
    BY <1>5, <2>1, <2>2 DEF Before
<1>6. ASSUME NEW f, Before(f, Len(ring) + 1) PROVE Before(f, Len(ring) + 1)'
  <2>1. CASE Holds(f)
    BY <1>2, <2>1 DEF Before
  <2>2. ASSUME NEW j \in DOMAIN ring, Waits(j), Asks(ring[j], f)
        PROVE  Before(f, Len(ring) + 1)'
    <3>1. j \in DOMAIN ring' /\ j < Len(ring') + 1 /\ Waits(j)' /\ ring'[j] = ring[j]
      BY <1>1, <1>4, <2>2
    <3> QED
      BY <2>2, <3>1 DEF Before, Asks
  <2> QED
    BY <1>6, <2>1, <2>2 DEF Before
<1> QED
  BY <1>2, <1>5, <1>6

\* An added request waits, and brings about its fact for those after it.
LEMMA AddedBefore ==
    ASSUME IInv, Settings, NEW t \in Seq(OurRequests), Grows(t),
           NEW f, NEW i \in Int, NEW m \in DOMAIN t, Asks(t[m], f), Len(ring) + m < i
    PROVE  Before(f, i)'
<1>1. /\ Len(ring) \in Nat /\ Len(t) \in Nat /\ DOMAIN t = 1 .. Len(t)
      /\ DOMAIN ring' = 1 .. Len(ring) + Len(t)
      /\ ring'[Len(ring) + m] = t[m]
  BY LongerRing DEF Grows
<1>2. Len(ring) + m \in DOMAIN ring' /\ m >= 1
  BY <1>1
<1>3. Len(ring) + m = 1 => ring = <<>>
  <2>1. ring \in Seq(OurRequests)
    BY DEF IInv, OurSession
  <2> QED
    BY <1>1, <1>2, <2>1
<1>4. Len(ring) + m = 1 => ~acked'
  BY <1>3 DEF Settings, Grows
<1> DEFINE n == Len(ring) + m
<1> HIDE DEF n
<1>5. n \in DOMAIN ring' /\ (n = 1 => ~acked') /\ n < i /\ Asks(ring'[n], f)
  BY <1>1, <1>2, <1>4 DEF n
<1>6. \E j \in DOMAIN ring' : j \in DOMAIN ring' /\ (j = 1 => ~acked') /\ j < i /\ Asks(ring'[j], f)
  BY <1>5
<1> QED
  BY <1>6 DEF Before, Waits, Asks

LEMMA GrowsInOrder ==
    ASSUME IInv, Settings, InOrder, NEW t \in Seq(OurRequests), Grows(t), Fits(t)
    PROVE  InOrder'
<1>1. /\ Len(ring) \in Nat /\ Len(t) \in Nat
      /\ DOMAIN ring = 1 .. Len(ring) /\ DOMAIN t = 1 .. Len(t)
      /\ DOMAIN ring' = 1 .. Len(ring) + Len(t)
      /\ \A i \in DOMAIN ring : ring'[i] = ring[i]
      /\ \A j \in DOMAIN t : ring'[Len(ring) + j] = t[j]
  BY LongerRing DEF Grows
<1>2. ASSUME NEW j \in DOMAIN ring', NEW f \in Facts, Asks(ring'[j], f), NEW g \in Needs(f)
      PROVE  Before(g, j)'
  <2>1. CASE j <= Len(ring)
    <3>1. j \in DOMAIN ring /\ ring'[j] = ring[j]
      BY <1>1, <1>2, <2>1
    <3>2. Before(g, j)
      BY <1>2, <3>1 DEF InOrder
    <3> QED
      BY <3>2, GrowsBefore
  <2>2. CASE j > Len(ring)
    <3>1. /\ j - Len(ring) \in DOMAIN t /\ j \in Int
          /\ ring'[Len(ring) + (j - Len(ring))] = t[j - Len(ring)]
          /\ Len(ring) + (j - Len(ring)) = j
      BY <1>1, <1>2, <2>2
    <3>2. Asks(t[j - Len(ring)], f)
      BY <1>2, <3>1
    <3>3. PICK m \in DOMAIN t : m < j - Len(ring) /\ Asks(t[m], g)
      BY <1>2, <3>1, <3>2 DEF Fits
    <3>4. Len(ring) + m < j
      BY <1>1, <3>1, <3>3
    <3> QED
      BY <3>1, <3>3, <3>4, AddedBefore
  <2> QED
    BY <1>1, <1>2, <2>1, <2>2
<1> QED
  BY <1>2 DEF InOrder, Asks, Needs

LEMMA GrowsOurIds ==
    ASSUME IInv, OurIds, NEW t \in Seq(OurRequests), Grows(t), Fits(t)
    PROVE  OurIds'
<1>1. /\ Len(ring) \in Nat /\ Len(t) \in Nat
      /\ DOMAIN ring = 1 .. Len(ring) /\ DOMAIN t = 1 .. Len(t)
      /\ DOMAIN ring' = 1 .. Len(ring) + Len(t)
      /\ \A i \in DOMAIN ring : ring'[i] = ring[i]
      /\ \A j \in DOMAIN t : ring'[Len(ring) + j] = t[j]
  BY LongerRing DEF Grows
<1>2. UNCHANGED <<session, custom>>
  BY DEF Grows, droneVars
<1>3. ASSUME NEW i \in DOMAIN ring', i > Len(ring), ring'[i].what = "id"
      PROVE  ring'[i].value = "own"
  <2>1. /\ i - Len(ring) \in DOMAIN t
        /\ ring'[Len(ring) + (i - Len(ring))] = t[i - Len(ring)]
        /\ Len(ring) + (i - Len(ring)) = i
    BY <1>1, <1>3
  <2> QED
    BY <1>3, <2>1 DEF Fits
<1>4. ASSUME NEW i \in DOMAIN ring', ~(i > Len(ring))
      PROVE  i \in DOMAIN ring /\ ring'[i] = ring[i]
  BY <1>1, <1>4
<1> QED
  BY <1>2, <1>3, <1>4 DEF OurIds

LEMMA GrowsListTrue ==
    ASSUME IInv, Settings, ListTrue, NEW t \in Seq(OurRequests), Grows(t), Fits(t)
    PROVE  ListTrue'
<1>1. /\ Len(ring) \in Nat /\ Len(t) \in Nat /\ Len(ring') = Len(ring) + Len(t)
      /\ DOMAIN ring = 1 .. Len(ring) /\ DOMAIN t = 1 .. Len(t)
      /\ DOMAIN ring' = 1 .. Len(ring) + Len(t)
      /\ \A i \in DOMAIN ring : ring'[i] = ring[i]
      /\ \A j \in DOMAIN t : ring'[Len(ring) + j] = t[j]
  BY LongerRing DEF Grows
<1>2. known' = known /\ available' = available
  BY DEF Grows, droneVars
<1>3. ASSUME NEW i \in DOMAIN ring', ~(i > Len(ring))
      PROVE  i \in DOMAIN ring /\ ring'[i] = ring[i]
  BY <1>1, <1>3
<1>4. ASSUME NEW i \in DOMAIN ring', i > Len(ring)
      PROVE  i - Len(ring) \in DOMAIN t /\ ring'[i] = t[i - Len(ring)]
  <2>1. i - Len(ring) \in DOMAIN t /\ Len(ring) + (i - Len(ring)) = i
    BY <1>1, <1>4
  <2> QED
    BY <1>1, <2>1
\* What was known, or going to be, by the end of the shorter ring.
<1>5. ASSUME NEW k \in Custom, NEW i \in Int, i > Len(ring),
             \/ <<k, "own">> \in known
             \/ \E j \in DOMAIN ring : Asks(ring[j], <<"id", k>>)
      PROVE  Before(<<"values", k>>, i)'
  <2>1. \A j \in DOMAIN ring : j < Len(ring) + 1
    BY <1>1
  <2>2. Before(<<"values", k>>, Len(ring) + 1)
    BY <1>5, <2>1 DEF ListTrue, KnownInit
  <2>3. Len(ring) + 1 \in Int /\ Len(ring) + 1 <= i
    BY <1>1, <1>5
  <2>4. Before(<<"values", k>>, i)
    BY <1>5, <2>2, <2>3, BeforeLater
  <2> QED
    BY <2>4, GrowsBefore
<1>6. KnownInit(Len(ring) + 1)'
  <2>1. PICK n \in Int : n = Len(ring') + 1
    BY <1>1
  <2>2. n > Len(ring) /\ \A m \in DOMAIN t : Len(ring) + m < n
    BY <1>1, <2>1
  <2>3. ASSUME NEW k \in Custom,
               \/ <<k, "own">> \in known'
               \/ \E j \in DOMAIN ring' : Asks(ring'[j], <<"id", k>>)
        PROVE  Before(<<"values", k>>, n)'
    <3>1. CASE <<k, "own">> \in known'
      BY <1>2, <1>5, <2>2, <3>1
    <3>2. ASSUME NEW j \in DOMAIN ring', ~(j > Len(ring)), Asks(ring'[j], <<"id", k>>)
          PROVE  Before(<<"values", k>>, n)'
      <4>1. j \in DOMAIN ring /\ Asks(ring[j], <<"id", k>>)
        BY <1>3, <3>2
      <4> QED
        BY <1>5, <2>2, <4>1
    <3>3. ASSUME NEW j \in DOMAIN ring', j > Len(ring), Asks(ring'[j], <<"id", k>>)
          PROVE  Before(<<"values", k>>, n)'
      <4>1. j - Len(ring) \in DOMAIN t /\ Asks(t[j - Len(ring)], <<"id", k>>)
        BY <1>4, <3>3
      <4>2. Holds(<<"values", k>>) \/ \E m \in DOMAIN t : Asks(t[m], <<"values", k>>)
        BY <4>1 DEF Fits
      <4>3. CASE Holds(<<"values", k>>)
        <5>1. Before(<<"values", k>>, n)
          BY <4>3 DEF Before
        <5> QED
          BY <5>1, GrowsBefore
      <4>4. CASE \E m \in DOMAIN t : Asks(t[m], <<"values", k>>)
        BY <2>2, <4>4, AddedBefore
      <4> QED
        BY <4>2, <4>3, <4>4
    <3> QED
      BY <2>3, <3>1, <3>2, <3>3
  <2>4. \A k \in Custom : Before(<<"values", k>>, n)' => Before(<<"values", k>>, Len(ring) + 1)'
    BY <2>1 DEF Before
  <2> QED
    BY <2>3, <2>4 DEF KnownInit, Asks
<1>7. ASSUME NEW i \in DOMAIN ring', ring'[i].what = "list"
      PROVE  KnownInit(i)'
  <2> SUFFICES ASSUME NEW k \in Custom,
                      \/ <<k, "own">> \in known'
                      \/ \E j \in DOMAIN ring' : j < i /\ Asks(ring'[j], <<"id", k>>)
               PROVE  Before(<<"values", k>>, i)'
    BY DEF KnownInit, Asks
  <2>1. CASE ~(i > Len(ring))
    <3>1. i \in DOMAIN ring /\ ring[i].what = "list"
      BY <1>3, <1>7, <2>1
    <3>2. \A j \in DOMAIN ring' : j < i => j \in DOMAIN ring /\ ring'[j] = ring[j]
      BY <1>1, <1>3, <2>1
    <3>3. \/ <<k, "own">> \in known
          \/ \E j \in DOMAIN ring : j < i /\ Asks(ring[j], <<"id", k>>)
      BY <1>2, <3>2
    <3>4. Before(<<"values", k>>, i)
      BY <3>1, <3>3 DEF ListTrue, KnownInit
    <3> QED
      BY <3>4, GrowsBefore
  <2>2. CASE i > Len(ring)
    <3>1. i - Len(ring) \in DOMAIN t /\ t[i - Len(ring)].what = "list"
      BY <1>4, <1>7, <2>2
    <3>2. ASSUME NEW j \in DOMAIN ring', Asks(ring'[j], <<"id", k>>)
          PROVE  j \in DOMAIN ring /\ Asks(ring[j], <<"id", k>>)
      <4>1. ~(j > Len(ring))
        <5> SUFFICES ASSUME j > Len(ring) PROVE FALSE
          OBVIOUS
        <5>1. j - Len(ring) \in DOMAIN t /\ Asks(t[j - Len(ring)], <<"id", k>>)
          BY <1>4, <3>2
        <5> QED
          BY <3>1, <5>1 DEF Fits
      <4> QED
        BY <1>3, <3>2, <4>1
    <3>3. i \in Int
      BY <1>1
    <3> QED
      BY <1>2, <1>5, <2>2, <3>2, <3>3
  <2> QED
    BY <2>1, <2>2
<1>8. ASSUME NEW k \in Custom, <<k, "own">> \in available'
      PROVE  Holds(<<"values", k>>)'
  <2>1. Holds(<<"values", k>>)
    BY <1>2, <1>8 DEF ListTrue
  <2> QED
    BY <2>1, GrowsBefore
<1> QED
  BY <1>6, <1>7, <1>8 DEF ListTrue

\* A step that adds requests to the ring, and what is left to show of it.
LEMMA GrowStep ==
    ASSUME IInv, Agreement, NEW t \in Seq(OurRequests), Grows(t), Fits(t),
           pc' = "ids" => AllBefore(Len(ring) + 1)',
           configState' = "IN_PROGRESS_IDS" =>
               \A i \in DOMAIN ring' : ring'[i].callback = "configuration" => AllBefore(i)',
           Agreed' => Agreed
    PROVE  Agreement'
<1>1. InOrder' /\ OurIds' /\ ListTrue'
  BY GrowsInOrder, GrowsOurIds, GrowsListTrue DEF Agreement
<1>2. Agreed' => \A f \in Facts : Holds(f)'
  BY GrowsBefore DEF Agreement, Progress
<1>3. Progress'
  BY <1>2 DEF Progress
<1>4. Settings'
  <2>1. ring # <<>> => ring' # <<>>
    <3>1. ring \in Seq(OurRequests) /\ ring' \in Seq(OurRequests)
      <4>1. ring \in Seq(OurRequests)
        BY DEF IInv, OurSession
      <4> QED
        BY <4>1, ConcatProperties DEF Grows
    <3>2. Len(ring) \in Nat /\ Len(t) \in Nat /\ Len(ring') = Len(ring) + Len(t)
      BY LongerRing DEF Grows
    <3> QED
      BY <3>1, <3>2
  <2> QED
    BY <2>1 DEF Agreement, Settings, Grows
<1> QED
  BY <1>1, <1>3, <1>4 DEF Agreement

\* A step of which no part of the dialogue depends.
LEMMA QuietGrow ==
    ASSUME IInv, Agreement, NEW t \in Seq(OurRequests), Grows(t), Fits(t),
           \A j \in DOMAIN t : t[j].callback # "configuration",
           pc' = "ids" => pc = "ids",
           configState' = "IN_PROGRESS_IDS" => configState = "IN_PROGRESS_IDS",
           Agreed' => Agreed
    PROVE  Agreement'
<1>1. pc' = "ids" => AllBefore(Len(ring) + 1)'
  BY GrowsBefore DEF Agreement, Progress, AllBefore
<1>2. ASSUME configState' = "IN_PROGRESS_IDS",
             NEW i \in DOMAIN ring', ring'[i].callback = "configuration"
      PROVE  AllBefore(i)'
  <2>1. /\ Len(ring) \in Nat /\ Len(t) \in Nat
        /\ DOMAIN ring = 1 .. Len(ring) /\ DOMAIN t = 1 .. Len(t)
        /\ DOMAIN ring' = 1 .. Len(ring) + Len(t)
        /\ \A j \in DOMAIN ring : ring'[j] = ring[j]
        /\ \A j \in DOMAIN t : ring'[Len(ring) + j] = t[j]
    BY LongerRing DEF Grows
  <2>2. ~(i > Len(ring))
    <3> SUFFICES ASSUME i > Len(ring) PROVE FALSE
      OBVIOUS
    <3>1. i - Len(ring) \in DOMAIN t /\ Len(ring) + (i - Len(ring)) = i
      BY <2>1
    <3> QED
      BY <1>2, <2>1, <3>1
  <2>3. i \in DOMAIN ring /\ ring[i].callback = "configuration"
    BY <1>2, <2>1, <2>2
  <2>4. AllBefore(i)
    BY <1>2, <2>3 DEF Agreement, Progress
  <2> QED
    BY <2>4, GrowsBefore DEF AllBefore
<1> QED
  BY <1>1, <1>2, GrowStep

\* Requests that set nothing fit.
LEMMA PlainFits ==
    ASSUME NEW t \in Seq(OurRequests), \A j \in DOMAIN t : t[j].what \notin {"id", "values"}
    PROVE  Fits(t)
<1>1. \A f \in Facts : f[1] \in {"id", "values"}
  BY DEF Facts
<1>2. \A j \in DOMAIN t, f \in Facts : ~Asks(t[j], f)
  BY <1>1 DEF Asks
<1>3. \A j \in DOMAIN t, k \in Custom : ~Asks(t[j], <<"id", k>>)
  BY DEF Asks
<1> QED
  BY <1>2, <1>3 DEF Fits

LEMMA OnePlain ==
    ASSUME NEW what \in {"demo", "options", "file", "list", "other"}, NEW c \in Callbacks
    PROVE  LET t == <<Plain(what, c)>>
           IN  /\ t \in Seq(OurRequests) /\ Fits(t) /\ DOMAIN t = {1}
               /\ t[1].what = what /\ t[1].callback = c
<1> DEFINE t == <<Plain(what, c)>>
<1>1. /\ t \in Seq(OurRequests) /\ DOMAIN t = {1}
      /\ t[1].what = what /\ t[1].callback = c
  BY PlainType DEF Plain, Set
<1>2. Fits(t)
  <2> HIDE DEF t
  <2> QED
    BY <1>1, PlainFits
<1> QED
  BY <1>1, <1>2

LEMMA StreamFits ==
    ASSUME NEW c \in Callbacks
    PROVE  LET t == AskForStream(c)
           IN  /\ t \in Seq(OurRequests) /\ DOMAIN t = {1, 2}
               /\ t[1].what = "demo" /\ t[2].what = "options"
               /\ t[1].callback = "none" /\ t[2].callback = c
  BY PlainType DEF AskForStream, Plain, Set, Callbacks

\* A step that adds nothing.
LEMMA NothingAdded ==
    ASSUME IInv, acked' => acked, UNCHANGED <<ring, switches, ids, available>>, UNCHANGED droneVars
    PROVE  /\ <<>> \in Seq(OurRequests) /\ Grows(<<>>) /\ Fits(<<>>) /\ DOMAIN <<>> = {}
<1>1. ring \in Seq(OurRequests)
  BY DEF IInv, OurSession
<1>2. ring' = ring \o <<>>
  BY <1>1, ConcatEmptySeq
<1>3. <<>> \in Seq(OurRequests) /\ DOMAIN <<>> = {}
  OBVIOUS
<1> DEFINE t == <<>>
<1>4. Fits(t)
  <2>1. t \in Seq(OurRequests) /\ DOMAIN t = {}
    BY <1>3
  <2> HIDE DEF t
  <2> QED
    BY <2>1, PlainFits
<1> QED
  BY <1>2, <1>3, <1>4 DEF Grows

-----------------------------------------------------------------------------
(* The handler.                                                            *)

LEMMA AddGrows ==
    ASSUME IInv, NEW t \in Seq(OurRequests), Add(t), ~refused', acked' => acked,
           UNCHANGED <<switches, ids, available>>, UNCHANGED droneVars
    PROVE  Grows(t)
  BY AddServes DEF Grows

LEMMA OneAdded ==
    ASSUME IInv, Agreement, ~refused', acked' => acked,
           UNCHANGED <<switches, ids, available>>, UNCHANGED droneVars,
           NEW what \in {"demo", "options", "file", "list", "other"},
           NEW c \in Callbacks, Add(<<Plain(what, c)>>),
           configState' = "IN_PROGRESS_IDS" => configState = "IN_PROGRESS_IDS" /\ c # "configuration",
           pc' = "ids" => pc = "ids", Agreed' => Agreed
    PROVE  Agreement'
<1> DEFINE t == <<Plain(what, c)>>
<1>1. /\ t \in Seq(OurRequests) /\ Fits(t) /\ DOMAIN t = {1} /\ t[1].callback = c
      /\ t[1].what = what
  BY OnePlain
<1>2. Grows(t)
  BY <1>1, AddGrows
<1> HIDE DEF t
<1>3. CASE configState' = "IN_PROGRESS_IDS"
  BY <1>1, <1>2, <1>3, QuietGrow
<1>4. CASE configState' # "IN_PROGRESS_IDS"
  <2>1. pc' = "ids" => AllBefore(Len(ring) + 1)'
    BY <1>1, <1>2, GrowsBefore DEF Agreement, Progress, AllBefore
  <2> QED
    BY <1>1, <1>2, <1>4, <2>1, GrowStep
<1> QED
  BY <1>3, <1>4

\* What a step of an automaton leaves alone.
LEMMA ConfigStepKeeps ==
    ASSUME NEW s, NEW next, ConfigStep(s, next)
    PROVE  /\ pc = "config" /\ configState = s /\ pc' = next /\ acked' = acked
           /\ UNCHANGED <<switches, ids, available>> /\ UNCHANGED droneVars
  BY DEF ConfigStep, controlVars

LEMMA PacketAgreement ==
    ASSUME IInv, Agreement, Packet
    PROVE  Agreement'
<1>1. /\ UNCHANGED <<ring, switches, ids, available, acked, configWasDone>> /\ UNCHANGED droneVars
      /\ pc' = "config" /\ configState' \in {configState, "NEEDED"}
  BY DEF Packet
<1>2. <<>> \in Seq(OurRequests) /\ Grows(<<>>) /\ Fits(<<>>) /\ DOMAIN <<>> = {}
  BY <1>1, NothingAdded
<1>3. Agreed' => Agreed
  BY <1>1 DEF Agreed
<1>4. configState' = "IN_PROGRESS_IDS" => configState = "IN_PROGRESS_IDS"
  BY <1>1
<1> QED
  BY <1>1, <1>2, <1>3, <1>4, QuietGrow

LEMMA CheckVersionAgreement ==
    ASSUME IInv, Agreement, Undisputed, Undisputed', CheckVersion
    PROVE  Agreement'
<1>1. /\ ConfigStep("GOT_DRONE_VERSION", "navdata") /\ UNCHANGED configWasDone
      /\ configState' = "IN_PROGRESS_LIST" /\ Add(<<Plain("list", "configuration")>>)
  BY DEF CheckVersion, Undisputed
<1>2. /\ pc' = "navdata" /\ acked' = acked
      /\ UNCHANGED <<switches, ids, available>> /\ UNCHANGED droneVars
  BY <1>1, ConfigStepKeeps
<1>3. Agreed' => Agreed
  BY <1>1 DEF Agreed
<1>4. ~refused' /\ "configuration" \in Callbacks
  BY DEF Undisputed, Callbacks
<1>5. ~(configState' = "IN_PROGRESS_IDS") /\ ~(pc' = "ids")
  BY <1>1, <1>2
<1> QED
  BY <1>1, <1>2, <1>3, <1>4, <1>5, OneAdded

LEMMA RequestConfigAgreement ==
    ASSUME IInv, Agreement, Undisputed', RequestConfig
    PROVE  Agreement'
<1>1. /\ ConfigStep("NEEDED", "navdata") /\ UNCHANGED configWasDone
      /\ configState' = "IN_PROGRESS_VERSION" /\ Add(<<Plain("file", "configuration")>>)
  BY DEF RequestConfig
<1>2. /\ pc' = "navdata" /\ acked' = acked
      /\ UNCHANGED <<switches, ids, available>> /\ UNCHANGED droneVars
  BY <1>1, ConfigStepKeeps
<1>3. Agreed' => Agreed
  BY <1>1 DEF Agreed
<1>4. ~refused' /\ "configuration" \in Callbacks
  BY DEF Undisputed, Callbacks
<1>5. ~(configState' = "IN_PROGRESS_IDS") /\ ~(pc' = "ids")
  BY <1>1, <1>2
<1> QED
  BY <1>1, <1>2, <1>3, <1>4, <1>5, OneAdded

\* The configuration is done only when the drone uses our identifiers.
LEMMA RefreshAgreement ==
    ASSUME IInv, Agreement, Undisputed', Refresh
    PROVE  Agreement'
<1>1. /\ ConfigStep("GOT_NAVDATA", "navdata")
      /\ configState' = "IDLE" /\ Add(<<Plain("file", "none")>>)
  BY DEF Refresh
<1>2. /\ pc' = "navdata" /\ acked' = acked /\ configState = "GOT_NAVDATA"
      /\ UNCHANGED <<switches, ids, available>> /\ UNCHANGED droneVars
  BY <1>1, ConfigStepKeeps
<1>3. Agreed
  BY <1>2 DEF Agreed
<1>4. ~refused' /\ "none" \in Callbacks
  BY DEF Undisputed, Callbacks
<1>5. ~(configState' = "IN_PROGRESS_IDS") /\ ~(pc' = "ids")
  BY <1>1, <1>2
<1> QED
  BY <1>1, <1>2, <1>3, <1>4, <1>5, OneAdded

\* The steps of the configuration automaton that add nothing.
LEMMA RestingAgreement ==
    ASSUME IInv, Answers, Agreement, Undisputed, CheckIds \/ AwaitNavdata \/ ConfigRests
    PROVE  Agreement'
<1>1. /\ pc' = "navdata" /\ acked' = acked /\ ring' = ring /\ configWasDone' = configWasDone
      /\ UNCHANGED <<switches, ids, available>> /\ UNCHANGED droneVars
  BY DEF CheckIds, AwaitNavdata, ConfigRests, ConfigStep, controlVars
<1>2. <<>> \in Seq(OurRequests) /\ Grows(<<>>) /\ Fits(<<>>) /\ DOMAIN <<>> = {}
  BY <1>1, NothingAdded
<1>3. (Agreed' => Agreed) /\ (configState' = "IN_PROGRESS_IDS" => configState = "IN_PROGRESS_IDS")
  <2>1. CASE CheckIds
    BY <1>1, <2>1 DEF CheckIds, ConfigStep, Agreed
  <2>2. CASE AwaitNavdata
    <3>1. configState = "REQUEST_NAVDATA" /\ configState' = "IN_PROGRESS_NAVDATA"
      BY <2>2 DEF AwaitNavdata, Answers, Undisputed
    <3> QED
      BY <3>1 DEF Agreed
  <2>3. CASE ConfigRests
    BY <1>1, <2>3 DEF ConfigRests, Agreed
  <2> QED
    BY <2>1, <2>2, <2>3
<1> QED
  BY <1>1, <1>2, <1>3, QuietGrow

LEMMA SendNavdataAgreement ==
    ASSUME IInv, Agreement, Undisputed', SendNavdata
    PROVE  Agreement'
<1> DEFINE t == AskForStream("configuration")
<1>1. ConfigStep("REQUEST_NAVDATA", "sent") /\ Add(t) /\ UNCHANGED <<configState, configWasDone>>
  BY DEF SendNavdata
<1>2. /\ configState = "REQUEST_NAVDATA" /\ pc' = "sent" /\ acked' = acked
      /\ UNCHANGED <<switches, ids, available>> /\ UNCHANGED droneVars
  BY <1>1, ConfigStepKeeps
<1>3. /\ t \in Seq(OurRequests) /\ DOMAIN t = {1, 2} /\ t[1].what = "demo" /\ t[2].what = "options"
  BY StreamFits DEF Callbacks
<1> HIDE DEF t
<1>4. Fits(t)
  BY <1>3, PlainFits
<1>5. Grows(t)
  BY <1>1, <1>2, <1>3, AddGrows DEF Undisputed
<1>6. Agreed
  BY <1>2 DEF Agreed
<1>7. ~(configState' = "IN_PROGRESS_IDS") /\ ~(pc' = "ids")
  BY <1>1, <1>2
<1> QED
  BY <1>3, <1>4, <1>5, <1>6, <1>7, GrowStep

\* The file that shows which identifiers the drone uses is asked for after them.
LEMMA RequestIdsAgreement ==
    ASSUME IInv, Answers, Agreement, Undisputed, Undisputed', RequestIds
    PROVE  Agreement'
<1> DEFINE t == <<Plain("file", "configuration")>>
<1>1. /\ pc = "ids" /\ pc' = "navdata" /\ configState' = "IN_PROGRESS_IDS" /\ Add(t)
      /\ configWasDone' = configWasDone /\ acked' = acked
      /\ UNCHANGED <<switches, ids, available>> /\ UNCHANGED droneVars
  BY DEF RequestIds, controlVars
<1>2. t \in Seq(OurRequests) /\ Fits(t) /\ DOMAIN t = {1}
  BY OnePlain DEF Callbacks
<1> HIDE DEF t
<1>3. Grows(t)
  BY <1>1, <1>2, AddGrows DEF Undisputed
<1>4. Waiting = {} /\ calls = 0
  BY <1>1 DEF Answers, Undisputed, Waiting, InProgress
<1>5. \A i \in DOMAIN ring : ring[i].callback # "configuration"
  BY <1>4 DEF Answers
<1>6. ASSUME NEW i \in DOMAIN ring', ring'[i].callback = "configuration"
      PROVE  AllBefore(i)'
  <2>1. /\ Len(ring) \in Nat /\ Len(t) \in Nat
        /\ DOMAIN ring = 1 .. Len(ring) /\ DOMAIN t = 1 .. Len(t)
        /\ DOMAIN ring' = 1 .. Len(ring) + Len(t)
        /\ \A j \in DOMAIN ring : ring'[j] = ring[j]
    BY <1>2, <1>3, LongerRing DEF Grows
  <2>2. i = Len(ring) + 1
    <3>1. ~(i \in DOMAIN ring)
      BY <1>5, <1>6, <2>1
    <3>2. Len(t) = 1
      BY <1>2, <2>1
    <3> QED
      BY <2>1, <3>1, <3>2
  <2>3. AllBefore(i)
    BY <1>1, <2>2 DEF Agreement, Progress, AllBefore
  <2> QED
    BY <2>3, <1>2, <1>3, GrowsBefore DEF AllBefore
<1>7. Agreed' => Agreed
  BY <1>1 DEF Agreed
<1> QED
  BY <1>1, <1>2, <1>3, <1>6, <1>7, GrowStep

\* The identifiers come first, then values and descriptions.
Later == {r \in OurRequests : r.what \in {"values", "desc"}}
IdsFirst(s) ==
    /\ s \in Seq(OurRequests) /\ Len(s) >= 3
    /\ s[1] = Set("id", "session", "own", "none")
    /\ s[2] = Set("id", "application", "own", "none")
    /\ s[3] = Set("id", "profile", "own", "none")
    /\ \A j \in DOMAIN s : j > 3 => s[j].what \in {"values", "desc"}

LEMMA IdsFirstThen ==
    ASSUME NEW s, IdsFirst(s), NEW u \in Seq(Later)
    PROVE  /\ IdsFirst(s \o u)
           /\ \A i \in DOMAIN s : \E m \in DOMAIN (s \o u) : (s \o u)[m] = s[i]
           /\ \A i \in DOMAIN u : \E m \in DOMAIN (s \o u) : (s \o u)[m] = u[i]
<1>1. s \in Seq(OurRequests) /\ u \in Seq(OurRequests)
  <2>1. Later \subseteq OurRequests
    BY DEF Later
  <2> QED
    BY <2>1 DEF IdsFirst
<1> DEFINE new == s \o u
<1>2. /\ \A i \in DOMAIN s : i \in DOMAIN new /\ new[i] = s[i]
      /\ \A j \in DOMAIN u : Len(s) + j \in DOMAIN new /\ new[Len(s) + j] = u[j]
  BY <1>1, Longer
<1>3. /\ new \in Seq(OurRequests) /\ Len(new) = Len(s) + Len(u)
      /\ \A i \in 1 .. Len(s) + Len(u) : new[i] = IF i <= Len(s) THEN s[i] ELSE u[i - Len(s)]
  BY <1>1, ConcatProperties
<1> HIDE DEF new
<1>4. /\ Len(s) \in Nat /\ Len(u) \in Nat /\ DOMAIN s = 1 .. Len(s) /\ DOMAIN u = 1 .. Len(u)
      /\ DOMAIN new = 1 .. Len(s) + Len(u)
  BY <1>1, <1>3
<1>5. ASSUME NEW j \in DOMAIN new, j > 3
      PROVE  new[j].what \in {"values", "desc"}
  <2>1. CASE j <= Len(s)
    <3>1. j \in DOMAIN s /\ new[j] = s[j]
      BY <1>3, <1>4, <2>1
    <3> QED
      BY <1>5, <3>1 DEF IdsFirst
  <2>2. CASE ~(j <= Len(s))
    <3>1. j - Len(s) \in DOMAIN u /\ new[j] = u[j - Len(s)]
      BY <1>3, <1>4, <2>2
    <3> QED
      BY <3>1 DEF Later
  <2> QED
    BY <2>1, <2>2
<1>6. {1, 2, 3} \subseteq DOMAIN s
  BY <1>4 DEF IdsFirst
<1>7. new[1] = s[1] /\ new[2] = s[2] /\ new[3] = s[3] /\ Len(new) >= 3
  BY <1>2, <1>3, <1>4, <1>6 DEF IdsFirst
<1>8. IdsFirst(new)
  BY <1>3, <1>5, <1>7 DEF IdsFirst
<1> QED
  BY <1>2, <1>8 DEF new

\* Such a sequence fits, if it has the values that are wanted.
LEMMA IdsFirstFits ==
    ASSUME NEW t, IdsFirst(t),
           \A k \in Custom : Holds(<<"values", k>>) \/ \E m \in DOMAIN t : Asks(t[m], <<"values", k>>)
    PROVE  /\ Fits(t)
           /\ \A f \in Facts : Holds(f) \/ \E m \in DOMAIN t : Asks(t[m], f)
<1>1. /\ t \in Seq(OurRequests) /\ DOMAIN t = 1 .. Len(t) /\ Len(t) \in Nat /\ Len(t) >= 3
  BY DEF IdsFirst
<1>2. {1, 2, 3} \subseteq DOMAIN t
  BY <1>1
<1>3. /\ Asks(t[1], <<"id", "session">>)
      /\ Asks(t[2], <<"id", "application">>)
      /\ Asks(t[3], <<"id", "profile">>)
  BY DEF IdsFirst, Asks, Set
<1>4. Custom = {"application", "profile"}
  BY DEF Custom, Kinds
<1>5. \A k \in Custom : \E m \in {2, 3} : Asks(t[m], <<"id", k>>)
  BY <1>3, <1>4
<1>6. ASSUME NEW f \in Facts
      PROVE  Holds(f) \/ \E m \in DOMAIN t : Asks(t[m], f)
  BY <1>2, <1>3, <1>5, FactCases
<1>7. ASSUME NEW j \in DOMAIN t, j \notin {1, 2, 3}
      PROVE  t[j].what \in {"values", "desc"}
  BY <1>1, <1>7 DEF IdsFirst
<1>8. /\ t[1].what = "id" /\ t[2].what = "id" /\ t[3].what = "id"
      /\ t[1].value = "own" /\ t[2].value = "own" /\ t[3].value = "own"
      /\ t[1].kind = "session"
  BY DEF IdsFirst, Set
<1>9. \A j \in DOMAIN t : t[j].what # "list" /\ (t[j].what = "id" => t[j].value = "own")
  BY <1>7, <1>8
<1>10. ASSUME NEW j \in DOMAIN t, NEW k \in Custom, Asks(t[j], <<"id", k>>)
       PROVE  j > 1
  <2>1. j # 1
    BY <1>4, <1>8, <1>10 DEF Asks
  <2> QED
    BY <1>1, <2>1
<1>11. ASSUME NEW j \in DOMAIN t, NEW k \in Custom, Asks(t[j], <<"values", k>>)
       PROVE  j > 3
  <2>1. t[j].what = "values"
    BY <1>11 DEF Asks
  <2>2. j # 1 /\ j # 2 /\ j # 3
    BY <1>8, <2>1
  <2> QED
    BY <1>1, <2>2
<1>12. ASSUME NEW j \in DOMAIN t, NEW f \in Facts, Asks(t[j], f), NEW g \in Needs(f)
       PROVE  \E m \in DOMAIN t : m < j /\ Asks(t[m], g)
  <2>1. CASE f = <<"id", "session">>
    BY <1>12, <2>1, NeedsAre
  <2>2. ASSUME NEW k \in Custom, f = <<"id", k>>
        PROVE  \E m \in DOMAIN t : m < j /\ Asks(t[m], g)
    <3>1. g = <<"id", "session">>
      BY <1>12, <2>2, NeedsAre
    <3>2. 1 < j
      BY <1>10, <1>12, <2>2
    <3> QED
      BY <1>2, <1>3, <3>1, <3>2
  <2>3. ASSUME NEW k \in Custom, f = <<"values", k>>
        PROVE  \E m \in DOMAIN t : m < j /\ Asks(t[m], g)
    <3>1. g = <<"id", "session">> \/ g = <<"id", k>>
      BY <1>12, <2>3, NeedsAre
    <3>2. j > 3 /\ j \in Int
      BY <1>1, <1>11, <1>12, <2>3
    <3>3. 1 < j /\ 2 < j /\ 3 < j
      BY <3>2
    <3> QED
      BY <1>2, <1>3, <1>5, <3>1, <3>3
  <2> QED
    BY <2>1, <2>2, <2>3, FactCases
<1> QED
  BY <1>6, <1>9, <1>12 DEF Fits

\* The values of a configuration that is not in the list.
LEMMA InitialiseAsks ==
    ASSUME IInv, Settings, NEW k \in Custom
    PROVE  /\ SwitchTo("session") = <<Set("id", "session", "own", "none")>>
           /\ SwitchCustom(k) = <<Set("id", k, "own", "none")>>
           /\ Initialise(k) \in Seq(Later)
           /\ <<k, "own">> \notin available =>
                  \E m \in DOMAIN Initialise(k) : Asks(Initialise(k)[m], <<"values", k>>)
<1>1. ids[k] = "own" /\ ids["session"] = "own" /\ k \in Kinds /\ k \in Switched
  BY DEF Settings, Switched, Custom, Kinds
<1>2. /\ Set("values", k, "own", "none") \in Later /\ Set("desc", k, "own", "none") \in Later
      /\ Asks(Set("values", k, "own", "none"), <<"values", k>>)
  <2>1. /\ Set("values", k, "own", "none") \in OurRequests /\ Set("desc", k, "own", "none") \in OurRequests
    BY <1>1, SetType DEF Ids
  <2> QED
    BY <2>1 DEF Later, Set, Asks
<1>3. CASE k \in NeedInit
  <2> DEFINE s == <<Set("values", k, "own", "none"), Set("desc", k, "own", "none")>>
  <2>1. Initialise(k) = s
    BY <1>1, <1>3 DEF Initialise
  <2>2. s \in Seq(Later) /\ 1 \in DOMAIN s /\ s[1] = Set("values", k, "own", "none")
    BY <1>2
  <2>3. SwitchTo("session") = <<Set("id", "session", "own", "none")>>
        /\ SwitchCustom(k) = <<Set("id", k, "own", "none")>>
    BY <1>1 DEF SwitchTo, SwitchCustom
  <2> HIDE DEF s
  <2> QED
    BY <1>2, <2>1, <2>2, <2>3
<1>4. CASE k \notin NeedInit
  <2>1. Initialise(k) = <<>> /\ <<k, "own">> \in available
    BY <1>1, <1>4 DEF Initialise, NeedInit
  <2>2. SwitchTo("session") = <<Set("id", "session", "own", "none")>>
        /\ SwitchCustom(k) = <<Set("id", k, "own", "none")>>
    BY <1>1 DEF SwitchTo, SwitchCustom
  <2>3. Initialise(k) \in Seq(Later)
    BY <2>1
  <2> QED
    BY <2>1, <2>2, <2>3
<1> QED
  BY <1>3, <1>4

LEMMA SendIdsAgreement ==
    ASSUME IInv, Agreement, Undisputed', SendIds
    PROVE  Agreement'
<1> DEFINE a == IF "session" \in switches THEN SwitchTo("session") ELSE <<>>
           b == SwitchCustom("application")
           c == SwitchCustom("profile")
           d == Initialise("application")
           e == Initialise("profile")
           f == IF "session" \in switches /\ ids["session"] # "default"
                THEN <<Set("desc", "session", ids["session"], "none"),
                       Set("values", "session", ids["session"], "none")>>
                ELSE <<>>
           t1 == a \o b \o c
           t2 == t1 \o d
           t3 == t2 \o e
           t == t3 \o f
<1>1. ConfigStep("GOT_IDS_LIST", "ids") /\ Add(t) /\ UNCHANGED <<configState, configWasDone>>
  BY DEF SendIds
<1>2. /\ configState = "GOT_IDS_LIST" /\ pc' = "ids" /\ acked' = acked
      /\ UNCHANGED <<switches, ids, available>> /\ UNCHANGED droneVars
  BY <1>1, ConfigStepKeeps
<1>3. Settings /\ "application" \in Custom /\ "profile" \in Custom
  BY DEF Agreement, Custom, Kinds
<1>4. /\ a = <<Set("id", "session", "own", "none")>>
      /\ b = <<Set("id", "application", "own", "none")>>
      /\ c = <<Set("id", "profile", "own", "none")>>
  BY <1>3, InitialiseAsks DEF Settings, Kinds
<1>5. d \in Seq(Later) /\ e \in Seq(Later)
  BY <1>3, InitialiseAsks
<1>6. /\ <<"application", "own">> \notin available => \E m \in DOMAIN d : Asks(d[m], <<"values", "application">>)
      /\ <<"profile", "own">> \notin available => \E m \in DOMAIN e : Asks(e[m], <<"values", "profile">>)
  BY <1>3, InitialiseAsks
<1>7. f \in Seq(Later)
  <2>1. ids["session"] \in Ids /\ "session" \in Kinds
    BY DEF IInv, TypeOK, Kinds
  <2>2. /\ Set("desc", "session", ids["session"], "none") \in Later
        /\ Set("values", "session", ids["session"], "none") \in Later
    BY <2>1, SetType DEF Later, Set
  <2> QED
    BY <2>2
<1>8. IdsFirst(t1)
  <2>1. /\ Set("id", "session", "own", "none") \in OurRequests
        /\ Set("id", "application", "own", "none") \in OurRequests
        /\ Set("id", "profile", "own", "none") \in OurRequests
    BY IdType DEF Custom, Kinds, Ids
  <2>2. t1 = <<Set("id", "session", "own", "none")>> \o <<Set("id", "application", "own", "none")>>
                 \o <<Set("id", "profile", "own", "none")>>
    BY <1>4
  <2> DEFINE r1 == Set("id", "session", "own", "none")
             r2 == Set("id", "application", "own", "none")
             r3 == Set("id", "profile", "own", "none")
             u == <<r1>> \o <<r2>> \o <<r3>>
  <2>3. r1 \in OurRequests /\ r2 \in OurRequests /\ r3 \in OurRequests
    BY <2>1
  <2>4. t1 = u
    BY <2>2
  <2> HIDE DEF r1, r2, r3, t1
  <2>5. /\ u \in Seq(OurRequests) /\ Len(u) = 3
        /\ u[1] = r1 /\ u[2] = r2 /\ u[3] = r3
    BY <2>3
  <2> HIDE DEF u
  <2>6. \A j \in DOMAIN u : ~(j > 3)
    BY <2>5
  <2>7. IdsFirst(u)
    BY <2>5, <2>6 DEF IdsFirst, r1, r2, r3
  <2> QED
    BY <2>4, <2>7
<1> HIDE DEF a, b, c, d, e, f, t1
<1>9. /\ IdsFirst(t2)
      /\ \A i \in DOMAIN d : \E m \in DOMAIN t2 : t2[m] = d[i]
  <2>1. d \in Seq(Later)
    BY <1>5
  <2> QED
    BY <1>8, <2>1, IdsFirstThen
<1> HIDE DEF t2
<1>10. /\ IdsFirst(t3)
       /\ \A i \in DOMAIN t2 : \E m \in DOMAIN t3 : t3[m] = t2[i]
       /\ \A i \in DOMAIN e : \E m \in DOMAIN t3 : t3[m] = e[i]
  BY <1>5, <1>9, IdsFirstThen
<1> HIDE DEF t3
<1>11. /\ IdsFirst(t)
       /\ \A i \in DOMAIN t3 : \E m \in DOMAIN t : t[m] = t3[i]
  BY <1>7, <1>10, IdsFirstThen
<1> HIDE DEF t
<1>12. /\ <<"application", "own">> \notin available => \E m \in DOMAIN t : Asks(t[m], <<"values", "application">>)
       /\ <<"profile", "own">> \notin available => \E m \in DOMAIN t : Asks(t[m], <<"values", "profile">>)
  <2>1. \A i \in DOMAIN d : \E m \in DOMAIN t : t[m] = d[i]
    BY <1>9, <1>10, <1>11
  <2>2. \A i \in DOMAIN e : \E m \in DOMAIN t : t[m] = e[i]
    BY <1>10, <1>11
  <2>3. ASSUME <<"application", "own">> \notin available
        PROVE  \E m \in DOMAIN t : Asks(t[m], <<"values", "application">>)
    BY <1>6, <2>1, <2>3
  <2>4. ASSUME <<"profile", "own">> \notin available
        PROVE  \E m \in DOMAIN t : Asks(t[m], <<"values", "profile">>)
    BY <1>6, <2>2, <2>4
  <2> QED
    BY <2>3, <2>4
<1>13. ASSUME NEW k \in Custom
       PROVE  Holds(<<"values", k>>) \/ \E m \in DOMAIN t : Asks(t[m], <<"values", k>>)
  <2>1. k = "application" \/ k = "profile"
    BY <1>13 DEF Custom, Kinds
  <2>2. <<k, "own">> \in available => Holds(<<"values", k>>)
    BY <1>13 DEF Agreement, ListTrue
  <2> QED
    BY <1>12, <2>1, <2>2
<1>14. /\ Fits(t)
       /\ \A g \in Facts : Holds(g) \/ \E m \in DOMAIN t : Asks(t[m], g)
  BY <1>11, <1>13, IdsFirstFits
<1>15. t \in Seq(OurRequests)
  BY <1>11 DEF IdsFirst
<1>16. Grows(t)
  BY <1>1, <1>2, <1>15, AddGrows DEF Undisputed
<1>17. AllBefore(Len(ring) + 1)'
  <2>1. Len(ring) \in Nat /\ Len(t) \in Nat /\ Len(ring') = Len(ring) + Len(t) /\ DOMAIN t = 1 .. Len(t)
    BY <1>15, <1>16, LongerRing DEF Grows
  <2>2. PICK n \in Int : n = Len(ring') + 1
    BY <2>1
  <2>3. \A m \in DOMAIN t : Len(ring) + m < n
    BY <2>1, <2>2
  <2>4. ASSUME NEW g \in Facts PROVE Before(g, n)'
    <3>1. CASE Holds(g)
      <4>1. Before(g, n)
        BY <3>1 DEF Before
      <4> QED
        BY <1>15, <1>16, <4>1, GrowsBefore
    <3>2. CASE \E m \in DOMAIN t : Asks(t[m], g)
      BY <1>3, <1>15, <1>16, <2>3, <3>2, AddedBefore
    <3> QED
      BY <1>14, <3>1, <3>2
  <2>5. \A g \in Facts : Before(g, n)' => Before(g, Len(ring) + 1)'
    BY <2>2 DEF Before
  <2> QED
    BY <2>4, <2>5 DEF AllBefore
<1>18. ~(configState' = "IN_PROGRESS_IDS") /\ (Agreed' => Agreed)
  BY <1>1, <1>2 DEF Agreed
<1> QED
  BY <1>14, <1>15, <1>16, <1>17, <1>18, GrowStep

\* The automaton of the stream sends our session identifier before it asks.
LEMMA NavdataAgreement ==
    ASSUME IInv, Agreement, Undisputed', NavdataAutomaton
    PROVE  Agreement'
<1>1. /\ pc' = "idle" /\ acked' = acked
      /\ UNCHANGED <<configState, configWasDone, switches, ids, available>> /\ UNCHANGED droneVars
  BY DEF NavdataAutomaton, ResumeNavdata, EndResume, NavdataRests, NavdataStep, controlVars
<1>2. (Agreed' => Agreed) /\ ~(pc' = "ids")
  BY <1>1 DEF Agreed
<1>3. CASE NavdataRests
  <2>1. <<>> \in Seq(OurRequests) /\ Grows(<<>>) /\ Fits(<<>>) /\ DOMAIN <<>> = {}
    BY <1>1, <1>3, NothingAdded DEF NavdataRests
  <2> QED
    BY <1>1, <1>2, <2>1, QuietGrow
<1>4. CASE EndResume
  <2>1. Add(<<Plain("file", "none")>>) /\ "none" \in Callbacks
    BY <1>4 DEF EndResume, Callbacks
  <2> QED
    BY <1>1, <1>2, <2>1, OneAdded DEF Undisputed
<1>5. CASE ResumeNavdata
  <2> DEFINE u == <<Set("id", "session", "own", "none")>>
             v == AskForStream("navdata")
             t == u \o v
  <2>1. SwitchTo("session") = u
    BY DEF Agreement, Settings, SwitchTo, Kinds
  <2>2. Add(t)
    BY <1>5, <2>1 DEF ResumeNavdata
  <2>3. /\ u \in Seq(OurRequests) /\ Len(u) = 1 /\ u[1].what = "id" /\ u[1].kind = "session"
        /\ u[1].value = "own" /\ u[1].callback = "none"
    BY IdType DEF Set
  <2>4. /\ v \in Seq(OurRequests) /\ DOMAIN v = {1, 2} /\ v[1].what = "demo" /\ v[2].what = "options"
        /\ v[1].callback = "none" /\ v[2].callback = "navdata"
    BY StreamFits DEF Callbacks
  <2> HIDE DEF u, v
  <2>5. Len(v) = 2
    BY <2>4
  <2>6. /\ t \in Seq(OurRequests) /\ Len(t) = 3
        /\ t[1] = u[1] /\ t[2] = v[1] /\ t[3] = v[2]
    BY <2>3, <2>4, <2>5, ConcatProperties
  <2> HIDE DEF t
  <2>7. DOMAIN t = {1, 2, 3}
    BY <2>6
  <2>8. /\ \A j \in DOMAIN t, k \in Custom : ~Asks(t[j], <<"id", k>>) /\ ~Asks(t[j], <<"values", k>>)
        /\ \A j \in DOMAIN t : t[j].what = "id" => t[j].value = "own"
        /\ \A j \in DOMAIN t : t[j].callback # "configuration"
    BY <2>3, <2>4, <2>6, <2>7 DEF Asks, Custom
  <2>9. \A j \in DOMAIN t, f \in Facts : Asks(t[j], f) => Needs(f) = {}
    <3> SUFFICES ASSUME NEW j \in DOMAIN t, NEW f1 \in Facts, Asks(t[j], f1) PROVE Needs(f1) = {}
      OBVIOUS
    <3>1. f1 = <<"id", "session">>
      <4>1. \A k \in Custom : f1 # <<"id", k>> /\ f1 # <<"values", k>>
        BY <2>8
      <4> QED
        BY <4>1, FactCases
    <3> QED
      BY <3>1, NeedsAre
  <2>10. Fits(t)
    BY <2>8, <2>9 DEF Fits
  <2>11. Grows(t)
    BY <1>1, <2>2, <2>6, AddGrows DEF Undisputed
  <2> QED
    BY <1>1, <1>2, <2>6, <2>8, <2>10, <2>11, QuietGrow
<1> QED
  BY <1>3, <1>4, <1>5 DEF NavdataAutomaton

LEMMA OtherAgreement ==
    ASSUME IInv, Agreement, Undisputed', OtherRequest
    PROVE  Agreement'
<1>1. /\ pc' = pc /\ acked' = acked
      /\ UNCHANGED <<configState, configWasDone, switches, ids, available>> /\ UNCHANGED droneVars
  BY DEF OtherRequest, handlerVars, controlVars
<1>2. PICK what \in {"other", "file"} : Add(<<Plain(what, "none")>>)
  BY DEF OtherRequest, Others
<1>3. (Agreed' => Agreed) /\ "none" \in Callbacks
  BY <1>1 DEF Agreed, Callbacks
<1> QED
  BY <1>1, <1>2, <1>3, OneAdded DEF Undisputed

LEMMA FailAgreement ==
    ASSUME IInv, Agreement, Fail \/ UNCHANGED vars
    PROVE  Agreement'
<1>1. /\ pc' = pc /\ (acked' => acked) /\ ring' = ring
      /\ UNCHANGED <<configState, configWasDone, switches, ids, available>> /\ UNCHANGED droneVars
  BY DEF Fail, vars, handlerVars, controlVars
<1>2. <<>> \in Seq(OurRequests) /\ Grows(<<>>) /\ Fits(<<>>) /\ DOMAIN <<>> = {}
  BY <1>1, NothingAdded
<1>3. Agreed' => Agreed
  BY <1>1 DEF Agreed
<1> QED
  BY <1>1, <1>2, <1>3, QuietGrow

-----------------------------------------------------------------------------
(* The drone handles the oldest request.                                    *)

\* The request acts on what the facts it needs have prepared.
LEMMA HandledHolds ==
    ASSUME IInv, Agreement, Acknowledge
    PROVE  /\ \A f \in Facts : Holds(f) => Holds(f)'
           /\ \A f \in Facts : Asks(ring[1], f) => Holds(f)'
<1> DEFINE r == ring[1]
<1>1. /\ r \in OurRequests /\ 1 \in DOMAIN ring /\ Head(ring) = r
  BY DEF Acknowledge, IInv, OurSession
<1>2. HandleRequest(r)
  BY <1>1 DEF Acknowledge
<1>3. /\ r.what = "id" => HandleId(r)
      /\ r.what # "id" => UNCHANGED <<session, custom, known>>
      /\ initialised' = (IF r.what = "values" /\ r.kind \in Custom
                         THEN initialised \cup {<<r.kind, Current[r.kind]>>} ELSE initialised)
  BY <1>2 DEF HandleRequest
<1>4. r.what = "id" => \/ r.value = "own"
                       \/ r.value = "-all" /\ session = "default" /\ \A k \in Custom : custom["own"][k] = "default"
  BY <1>1 DEF Agreement, OurIds
<1>5. /\ session \in {"default", "own"} /\ custom \in [{"default", "own"} -> [Custom -> Ids]]
      /\ r.what = "id" => r.kind \in Kinds
  BY <1>1 DEF IInv, TypeOK, OurRequests, Request
<1>6. ASSUME NEW g \in Facts, NEW f \in Facts, Asks(r, f), g \in Needs(f)
      PROVE  Holds(g)
  BY <1>1, <1>6, AtHead DEF Agreement, InOrder
<1> HIDE DEF r
\* An identifier of ours.
<1>7. ASSUME r.what = "id", r.value = "own", r.kind = "session"
      PROVE  session' = "own" /\ custom' = custom
  BY <1>3, <1>7 DEF HandleId
<1>8. ASSUME r.what = "id", r.value = "own", NEW k \in Custom, r.kind = k
      PROVE  session = "own" /\ session' = "own" /\ custom' = [custom EXCEPT !["own"][k] = "own"]
  <2>1. Asks(r, <<"id", k>>) /\ <<"id", k>> \in Facts /\ <<"id", "session">> \in Facts
    BY <1>8, AsksAre, FactsAre
  <2>2. <<"id", "session">> \in Needs(<<"id", k>>)
    BY NeedsAre
  <2>3. session = "own"
    BY <1>6, <2>1, <2>2, HoldsAre
  <2>4. k # "session"
    BY DEF Custom
  <2> QED
    BY <1>3, <1>8, <2>3, <2>4 DEF HandleId
<1>9. ASSUME r.what = "id", r.value # "own"
      PROVE  session # "own" /\ \A k \in Custom : custom["own"][k] # "own"
  BY <1>4, <1>9
<1>10. (Holds(<<"id", "session">>) \/ Asks(r, <<"id", "session">>)) => session' = "own"
  <2>1. CASE r.what # "id"
    BY <1>3, <2>1, HoldsAre, AsksAre
  <2>2. CASE r.what = "id" /\ r.value # "own"
    BY <1>9, <2>2, HoldsAre, AsksAre
  <2>3. CASE r.what = "id" /\ r.value = "own"
    BY <1>5, <1>7, <1>8, <2>3 DEF Custom
  <2> QED
    BY <2>1, <2>2, <2>3
<1>11. ASSUME NEW k \in Custom, Holds(<<"id", k>>) \/ Asks(r, <<"id", k>>)
       PROVE  custom'["own"][k] = "own"
  <2>1. CASE r.what # "id"
    BY <1>3, <1>11, <2>1, HoldsAre, AsksAre
  <2>2. CASE r.what = "id" /\ r.value # "own"
    BY <1>9, <1>11, <2>2, HoldsAre, AsksAre
  <2>3. CASE r.what = "id" /\ r.value = "own" /\ r.kind = "session"
    <3>1. ~Asks(r, <<"id", k>>)
      BY <2>3, AsksAre DEF Custom
    <3> QED
      BY <1>7, <1>11, <2>3, <3>1, HoldsAre
  <2>4. CASE r.what = "id" /\ r.value = "own" /\ r.kind # "session"
    <3>1. PICK q \in Custom : r.kind = q
      BY <1>5, <2>4 DEF Custom
    <3>2. custom' = [custom EXCEPT !["own"][q] = "own"]
      BY <1>8, <2>4, <3>1
    <3>3. q # k => custom["own"][k] = "own"
      BY <1>11, <3>1, HoldsAre, AsksAre
    <3> QED
      BY <1>5, <3>2, <3>3
  <2> QED
    BY <2>1, <2>2, <2>3, <2>4
<1>12. ASSUME NEW k \in Custom, Holds(<<"values", k>>) \/ Asks(r, <<"values", k>>)
       PROVE  <<k, "own">> \in initialised'
  <2>1. CASE Holds(<<"values", k>>)
    BY <1>3, <2>1, HoldsAre
  <2>2. CASE Asks(r, <<"values", k>>)
    <3>1. r.what = "values" /\ r.kind = k
      BY <2>2, AsksAre
    <3>2. /\ <<"id", "session">> \in Needs(<<"values", k>>) /\ <<"id", k>> \in Needs(<<"values", k>>)
          /\ <<"values", k>> \in Facts /\ <<"id", "session">> \in Facts /\ <<"id", k>> \in Facts
      BY NeedsAre, FactsAre
    <3>3. session = "own" /\ custom["own"][k] = "own"
      BY <1>6, <2>2, <3>2, HoldsAre
    <3>4. Current[k] = "own"
      BY <3>3 DEF Current, Custom
    <3> QED
      BY <1>3, <3>1, <3>4
  <2> QED
    BY <1>12, <2>1, <2>2
<1>13. ASSUME NEW f \in Facts, Holds(f) \/ Asks(r, f)
       PROVE  Holds(f)'
  <2>1. CASE f = <<"id", "session">>
    BY <1>10, <1>13, <2>1 DEF Holds
  <2>2. ASSUME NEW k \in Custom, f = <<"id", k>> PROVE Holds(f)'
    BY <1>11, <1>13, <2>2 DEF Holds, Custom
  <2>3. ASSUME NEW k \in Custom, f = <<"values", k>> PROVE Holds(f)'
    <3>1. <<k, "own">> \in initialised'
      BY <1>12, <1>13, <2>3
    <3>2. Holds(<<"values", k>>)' <=> <<k, "own">> \in initialised'
      BY DEF Holds, Custom
    <3> QED
      BY <2>3, <3>1, <3>2
  <2> QED
    BY <2>1, <2>2, <2>3, FactCases
<1> QED
  BY <1>13 DEF r

LEMMA AcknowledgeAgreement ==
    ASSUME IInv, Agreement, Acknowledge
    PROVE  Agreement'
<1>1. /\ ring # <<>> /\ acked' = TRUE /\ 1 \in DOMAIN ring
      /\ UNCHANGED <<pc, ring, configState, configWasDone, switches, ids>>
  BY DEF Acknowledge, handlerVars, IInv, OurSession
<1>2. ring[1] \in OurRequests /\ HandleRequest(ring[1])
  BY DEF Acknowledge, IInv, OurSession
\* What held by an index still does: the request handled has done its part.
<1>3. ASSUME NEW f \in Facts, NEW i, Before(f, i) PROVE Before(f, i)'
  <2>1. CASE Holds(f)
    BY <2>1, HandledHolds DEF Before
  <2>2. ASSUME NEW j \in DOMAIN ring, Waits(j), j < i, Asks(ring[j], f)
        PROVE  Before(f, i)'
    <3>1. CASE j = 1
      BY <2>2, <3>1, HandledHolds DEF Before
    <3>2. CASE j # 1
      <4>1. j \in DOMAIN ring' /\ j < i /\ ring'[j] = ring[j] /\ Waits(j)'
        BY <1>1, <2>2, <3>2 DEF Waits
      <4> QED
        BY <2>2, <4>1 DEF Before, Asks
    <3> QED
      BY <3>1, <3>2
  <2> QED
    BY <1>3, <2>1, <2>2 DEF Before
<1>4. ASSUME NEW f \in Facts, Before(f, Len(ring) + 1) PROVE Before(f, Len(ring) + 1)'
  <2>1. PICK n : n = Len(ring) + 1
    OBVIOUS
  <2>2. Before(f, n)'
    BY <1>3, <1>4, <2>1
  <2>3. n = Len(ring') + 1
    BY <1>1, <2>1
  <2> QED
    BY <2>2, <2>3 DEF Before
<1>5. InOrder'
  <2> SUFFICES ASSUME NEW j \in DOMAIN ring, NEW f \in Facts, Asks(ring[j], f), NEW g \in Needs(f)
               PROVE  Before(g, j)'
    BY <1>1 DEF InOrder, Asks, Needs
  <2>1. g \in Facts /\ Before(g, j)
    BY NeedsFacts DEF Agreement, InOrder
  <2> QED
    BY <1>3, <2>1
<1>6. OurIds'
  <2>1. ASSUME ring[1].what = "id", ring[1].value = "-all", NEW k \in Custom
        PROVE  session' = "default" /\ custom'["own"][k] = "default"
    <3>1. session' = "default" /\ custom' = [custom EXCEPT !["own"] = [q \in Custom |-> "default"]]
      BY <1>2, <2>1 DEF HandleRequest, HandleId
    <3>2. custom \in [{"default", "own"} -> [Custom -> Ids]]
      BY DEF IInv, TypeOK
    <3> QED
      BY <2>1, <3>1, <3>2
  <2>2. "profile" \in Custom
    BY DEF Custom, Kinds
  <2>3. ring[1].what = "id" /\ ring[1].value = "-all" =>
            session' = "default" /\ \A k \in Custom : custom'["own"][k] = "default"
    BY <2>1, <2>2
  <2> QED
    BY <1>1, <2>3 DEF Agreement, OurIds
\* A configuration becomes known by the request that asks for it.
<1>7. /\ known' \subseteq known \cup {<<ring[1].kind, ring[1].value>>}
      /\ known' # known => ring[1].what = "id" /\ ring[1].kind # "session" /\ ring[1].value = "own"
      /\ available' = (IF ring[1].what = "list" THEN known ELSE available)
  <2>1. available' = (IF ring[1].what = "list" THEN known ELSE available)
    BY <1>2 DEF HandleRequest
  <2>2. CASE ring[1].what # "id"
    BY <1>2, <2>1, <2>2 DEF HandleRequest
  <2>3. CASE ring[1].what = "id"
    <3>1. HandleId(ring[1])
      BY <1>2, <2>3 DEF HandleRequest
    <3>2. ring[1].value \in {"own", "-all"}
      BY <1>1, <2>3 DEF Agreement, OurIds
    <3> QED
      BY <2>1, <2>3, <3>1, <3>2 DEF HandleId
  <2> QED
    BY <2>2, <2>3
<1>8. ASSUME NEW i, i # 1, KnownInit(i), 1 < i PROVE KnownInit(i)'
  <2> SUFFICES ASSUME NEW k \in Custom,
                      \/ <<k, "own">> \in known'
                      \/ \E j \in DOMAIN ring : j < i /\ Asks(ring[j], <<"id", k>>)
               PROVE  Before(<<"values", k>>, i)'
    BY <1>1 DEF KnownInit, Asks
  <2>1. ASSUME <<k, "own">> \in known', <<k, "own">> \notin known
        PROVE  Asks(ring[1], <<"id", k>>)
    <3>1. <<k, "own">> = <<ring[1].kind, ring[1].value>> /\ ring[1].what = "id"
      BY <1>7, <2>1
    <3> QED
      BY <3>1, AsksAre
  <2>2. Before(<<"values", k>>, i)
    BY <1>1, <1>8, <2>1 DEF KnownInit
  <2> QED
    BY <1>3, <2>2, FactsAre
<1>9. ListTrue'
  <2>1. KnownInit(Len(ring) + 1)'
    <3>1. PICK n : n = Len(ring) + 1
      OBVIOUS
    <3>2. n # 1 /\ 1 < n
      BY <1>1, <3>1 DEF IInv, OurSession
    <3>3. KnownInit(n)
      BY <3>1 DEF Agreement, ListTrue
    <3>4. KnownInit(n)'
      BY <1>8, <3>2, <3>3
    <3>5. n = Len(ring') + 1
      BY <1>1, <3>1
    <3> QED
      BY <3>4, <3>5 DEF KnownInit, Before
  <2>2. ASSUME NEW i \in DOMAIN ring, ring[i].what = "list" PROVE KnownInit(i)'
    <3>1. KnownInit(i)
      BY <2>2 DEF Agreement, ListTrue
    <3>2. CASE i # 1
      <4>1. 1 < i
        BY <3>2 DEF IInv, OurSession
      <4> QED
        BY <1>8, <3>1, <3>2, <4>1
    <3>3. CASE i = 1
      <4>1. known' = known
        BY <1>7, <2>2, <3>3
      <4>2. ASSUME NEW k \in Custom, Before(<<"values", k>>, i) PROVE Before(<<"values", k>>, i)'
        BY <1>3, <4>2, FactsAre
      <4> QED
        BY <1>1, <3>1, <4>1, <4>2 DEF KnownInit, Asks
    <3> QED
      BY <3>2, <3>3
  <2>3. ASSUME NEW k \in Custom, <<k, "own">> \in available' PROVE Holds(<<"values", k>>)'
    <3>1. Holds(<<"values", k>>)
      <4>1. CASE ring[1].what = "list"
        <5>1. KnownInit(1) /\ <<k, "own">> \in known
          BY <1>1, <1>7, <2>3, <4>1 DEF Agreement, ListTrue
        <5> QED
          BY <5>1, AtHead DEF KnownInit
      <4>2. CASE ring[1].what # "list"
        BY <1>7, <2>3, <4>2 DEF Agreement, ListTrue
      <4> QED
        BY <4>1, <4>2
    <3> QED
      BY <3>1, FactsAre, HandledHolds
  <2> QED
    BY <1>1, <2>1, <2>2, <2>3 DEF ListTrue
<1>10. Progress'
  <2>1. pc' = "ids" => AllBefore(Len(ring) + 1)'
    BY <1>1, <1>4 DEF Agreement, Progress, AllBefore
  <2>2. ASSUME configState' = "IN_PROGRESS_IDS", NEW i \in DOMAIN ring', ring'[i].callback = "configuration"
        PROVE  AllBefore(i)'
    BY <1>1, <1>3, <2>2 DEF Agreement, Progress, AllBefore
  <2>3. Agreed' => \A f \in Facts : Holds(f)'
    BY <1>1, HandledHolds DEF Agreement, Progress, Agreed
  <2> QED
    BY <2>1, <2>2, <2>3 DEF Progress
<1>11. Settings'
  BY <1>1 DEF Agreement, Settings
<1> QED
  BY <1>5, <1>6, <1>9, <1>10, <1>11 DEF Agreement

-----------------------------------------------------------------------------
(* The oldest request ends.                                                *)

LEMMA CompleteAgreement ==
    ASSUME IInv, Agreement, Complete
    PROVE  Agreement'
<1>1. /\ ring # <<>> /\ acked = TRUE /\ acked' = FALSE /\ ring' = Tail(ring)
      /\ configState' = (IF Head(ring).callback = "configuration" THEN AfterConfiguration ELSE configState)
      /\ UNCHANGED <<pc, configWasDone, switches, ids, available>> /\ UNCHANGED droneVars
  <2>1. acked = TRUE
    BY DEF Complete, IInv, TypeOK
  <2> QED
    BY <2>1 DEF Complete
<1>2. ring \in Seq(OurRequests) /\ Head(ring) = ring[1] /\ 1 \in DOMAIN ring
      /\ Len(ring) \in Nat /\ Len(ring) >= 1 /\ DOMAIN ring = 1 .. Len(ring)
  BY <1>1 DEF IInv, OurSession
<1>3. Len(ring') = Len(ring) - 1 /\ DOMAIN ring' = 1 .. Len(ring) - 1
      /\ \A j \in 1 .. Len(ring) - 1 : ring'[j] = ring[j + 1]
  BY <1>1, <1>2, HeadTailProperties
<1>4. ASSUME NEW j \in DOMAIN ring'
      PROVE  j \in Int /\ j + 1 \in DOMAIN ring /\ j + 1 > 1 /\ ring'[j] = ring[j + 1]
  BY <1>2, <1>3
<1>5. \A f : Holds(f)' <=> Holds(f)
  BY <1>1 DEF Holds, droneVars
<1>6. ASSUME NEW f, NEW i \in Int, Before(f, i + 1) PROVE Before(f, i)'
  <2>1. CASE Holds(f)
    BY <1>5, <2>1 DEF Before
  <2>2. ASSUME NEW j \in DOMAIN ring, Waits(j), j < i + 1, Asks(ring[j], f)
        PROVE  Before(f, i)'
    <3>1. j # 1 /\ j \in Int
      BY <1>1, <1>2, <2>2 DEF Waits
    <3>2. PICK m \in Int : m = j - 1
      BY <3>1
    <3>3. m \in DOMAIN ring' /\ m < i /\ m + 1 = j
      BY <1>2, <1>3, <3>1, <3>2, <2>2
    <3>4. ring'[m] = ring[j]
      BY <1>4, <3>3
    <3>5. Waits(m)' /\ Asks(ring'[m], f)
      BY <1>1, <2>2, <3>3, <3>4 DEF Waits, Asks
    <3> QED
      BY <3>3, <3>5 DEF Before, Asks
  <2> QED
    BY <1>6, <2>1, <2>2 DEF Before
<1>7. InOrder'
  <2> SUFFICES ASSUME NEW j \in DOMAIN ring', NEW f \in Facts, Asks(ring'[j], f), NEW g \in Needs(f)
               PROVE  Before(g, j)'
    BY DEF InOrder, Asks, Needs
  <2>1. j \in Int /\ j + 1 \in DOMAIN ring /\ Asks(ring[j + 1], f)
    BY <1>4
  <2>2. Before(g, j + 1)
    BY <2>1 DEF Agreement, InOrder
  <2> QED
    BY <1>6, <2>1, <2>2
<1>8. OurIds'
  <2>1. ASSUME NEW j \in DOMAIN ring', ring'[j].what = "id" PROVE ring'[j].value = "own"
    <3>1. j + 1 \in DOMAIN ring /\ j + 1 # 1 /\ ring'[j] = ring[j + 1]
      BY <1>4
    <3> QED
      BY <2>1, <3>1 DEF Agreement, OurIds
  <2> QED
    BY <2>1 DEF OurIds
<1>9. ASSUME NEW i \in Int, KnownInit(i + 1) PROVE KnownInit(i)'
  <2> SUFFICES ASSUME NEW k \in Custom,
                      \/ <<k, "own">> \in known'
                      \/ \E j \in DOMAIN ring' : j < i /\ Asks(ring'[j], <<"id", k>>)
               PROVE  Before(<<"values", k>>, i)'
    BY DEF KnownInit, Asks
  <2>1. known' = known
    BY <1>1 DEF droneVars
  <2>2. ASSUME NEW j \in DOMAIN ring', j < i, Asks(ring'[j], <<"id", k>>)
        PROVE  \E m \in DOMAIN ring : m < i + 1 /\ Asks(ring[m], <<"id", k>>)
    <3>1. j \in Int /\ j + 1 \in DOMAIN ring /\ j + 1 < i + 1 /\ ring'[j] = ring[j + 1]
      BY <1>4, <2>2
    <3> QED
      BY <2>2, <3>1
  <2>3. Before(<<"values", k>>, i + 1)
    BY <1>9, <2>1, <2>2 DEF KnownInit
  <2> QED
    BY <1>6, <2>3
\* The end of the ring is the end of the shorter one.
<1>10. PICK n \in Int : n = Len(ring)
  <2>1. Len(ring) \in Int
    BY <1>2
  <2> QED
    BY <2>1
<1>11. n = Len(ring') + 1
  BY <1>2, <1>3, <1>10
<1>12. ListTrue'
  <2>1. KnownInit(Len(ring) + 1)'
    <3>1. KnownInit(n + 1)
      BY <1>10 DEF Agreement, ListTrue
    <3>2. KnownInit(n)'
      BY <1>9, <3>1
    <3> QED
      BY <1>11, <3>2 DEF KnownInit, Before
  <2>2. ASSUME NEW i \in DOMAIN ring', ring'[i].what = "list" PROVE KnownInit(i)'
    <3>1. i \in Int /\ i + 1 \in DOMAIN ring /\ ring[i + 1].what = "list"
      BY <1>4, <2>2
    <3>2. KnownInit(i + 1)
      BY <3>1 DEF Agreement, ListTrue
    <3> QED
      BY <1>9, <3>1, <3>2
  <2>3. ASSUME NEW k \in Custom, <<k, "own">> \in available' PROVE Holds(<<"values", k>>)'
    <3>1. Holds(<<"values", k>>)
      BY <1>1, <2>3 DEF Agreement, ListTrue
    <3> QED
      BY <1>5, <3>1
  <2> QED
    BY <2>1, <2>2, <2>3 DEF ListTrue
<1>13. Progress'
  <2>1. pc' = "ids" => AllBefore(Len(ring) + 1)'
    <3>1. SUFFICES ASSUME pc' = "ids", NEW f \in Facts PROVE Before(f, Len(ring) + 1)'
      BY DEF AllBefore, Facts
    <3>2. Before(f, n + 1)
      BY <1>1, <1>10, <3>1 DEF Agreement, Progress, AllBefore
    <3>3. Before(f, n)'
      BY <1>6, <3>2
    <3> QED
      BY <1>11, <3>3 DEF Before
  <2>2. ASSUME configState' = "IN_PROGRESS_IDS", NEW i \in DOMAIN ring', ring'[i].callback = "configuration"
        PROVE  AllBefore(i)'
    <3>1. configState = "IN_PROGRESS_IDS"
      BY <1>1, <2>2 DEF AfterConfiguration
    <3>2. i \in Int /\ i + 1 \in DOMAIN ring /\ ring[i + 1].callback = "configuration"
      BY <1>4, <2>2
    <3>3. AllBefore(i + 1)
      BY <3>1, <3>2 DEF Agreement, Progress
    <3> QED
      BY <1>6, <3>2, <3>3 DEF AllBefore
  <2>3. ASSUME Agreed', NEW f \in Facts PROVE Holds(f)'
    <3>1. CASE Agreed
      BY <1>5, <3>1 DEF Agreement, Progress
    <3>2. CASE ~Agreed
      <4>1. configState = "IN_PROGRESS_IDS" /\ ring[1].callback = "configuration"
        BY <1>1, <1>2, <2>3, <3>2 DEF Agreed, AfterConfiguration
      <4>2. Before(f, 1)
        BY <1>2, <4>1 DEF Agreement, Progress, AllBefore
      <4> QED
        BY <1>5, <4>2, AtHead
    <3> QED
      BY <3>1, <3>2
  <2> QED
    BY <2>1, <2>2, <2>3 DEF Progress
<1>14. Settings'
  BY <1>1 DEF Agreement, Settings
<1> QED
  BY <1>7, <1>8, <1>12, <1>13, <1>14 DEF Agreement

-----------------------------------------------------------------------------
(* The theorem.                                                            *)

LEMMA InitAgreement == Init => Agreement
<1> SUFFICES ASSUME Init PROVE Agreement
  OBVIOUS
<1>1. /\ ring = <<Set("id", "session", "-all", "none")>> /\ acked = FALSE
      /\ pc = "idle" /\ configState = "NEEDED" /\ configWasDone = FALSE
      /\ switches = Kinds /\ ids = [k \in Kinds |-> "own"] /\ available = {}
      /\ initialised = known /\ session = "default"
      /\ custom = [s \in {"default", "own"} |-> [k \in Custom |-> "default"]]
  BY DEF Init
<1>2. /\ DOMAIN ring = {1} /\ ring[1].what = "id" /\ ring[1].kind = "session" /\ ring[1].value = "-all"
      /\ ring # <<>>
  BY <1>1 DEF Set
<1>3. \A i \in DOMAIN ring : \A f : ~Asks(ring[i], f)
  BY <1>2 DEF Asks
<1>4. InOrder
  BY <1>3 DEF InOrder
<1>5. OurIds
  BY <1>1, <1>2 DEF OurIds
<1>6. ListTrue
  BY <1>1, <1>2, <1>3, HoldsAre DEF ListTrue, KnownInit, Before
<1>7. Progress
  BY <1>1 DEF Progress, Agreed
<1>8. Settings
  BY <1>1 DEF Settings
<1> QED
  BY <1>4, <1>5, <1>6, <1>7, <1>8 DEF Agreement

\* What disturbs is remembered.
LEMMA StillUndisputed ==
    ASSUME IInv, [Next]_vars, Undisputed'
    PROVE  Undisputed /\ ~UserFunction /\ ~Restart
<1>1. ~UserFunction
  <2>1. UserFunction => calls' = calls + 1
    BY DEF UserFunction, ardrone_refresh_user_list, ardrone_switch_to_user,
           ardrone_switch_to_user_id, StartDialogue
  <2>2. calls \in Nat
    BY DEF IInv, TypeOK
  <2> QED
    BY <2>1, <2>2 DEF Undisputed
<1>2. ~Restart
  <2>1. Restart => restarts' = restarts + 1
    BY DEF Restart
  <2>2. restarts \in Nat
    BY DEF IInv, TypeOK
  <2> QED
    BY <2>1, <2>2 DEF Undisputed
<1>3. /\ supports' = supports /\ restarts' = restarts /\ calls' = calls
      /\ refused' = refused \/ \E requests : Add(requests)
  BY <1>1, <1>2
     DEF Next, Process, Packet, ConfigAutomaton, NavdataAutomaton, CheckVersion, SendIds, RequestIds,
         CheckIds, RequestConfig, SendNavdata, AwaitNavdata, Refresh, ConfigRests, ConfigStep,
         ResumeNavdata, EndResume, NavdataRests, NavdataStep, Acknowledge, HandleRequest, Complete, Fail,
         OtherRequest, vars, handlerVars, controlVars, droneVars, historyVars
<1>4. ~refused
  <2>1. ASSUME NEW requests, Add(requests) PROVE ~refused
    <3>1. refused' = (refused \/ Len(requests) > RingCapacity - Len(ring))
      BY <2>1 DEF Add
    <3> QED
      BY <3>1, Zenon DEF Undisputed
  <2>2. refused' = refused => ~refused
    BY DEF Undisputed
  <2> QED
    BY <1>3, <2>1, <2>2
<1> QED
  BY <1>1, <1>2, <1>3, <1>4 DEF Undisputed

LEMMA NextAgreement ==
    IInv /\ Answers /\ AgreementUndisputed /\ [Next]_vars => AgreementUndisputed'
<1> SUFFICES ASSUME IInv, Answers, AgreementUndisputed, [Next]_vars, Undisputed' PROVE Agreement'
  BY DEF AgreementUndisputed
<1>1. Undisputed /\ ~UserFunction /\ ~Restart
  BY StillUndisputed
<1>2. Agreement
  BY <1>1 DEF AgreementUndisputed
<1>3. CASE ConfigAutomaton
  BY <1>1, <1>2, <1>3, CheckVersionAgreement, SendIdsAgreement, RequestIdsAgreement, RestingAgreement,
     RequestConfigAgreement, SendNavdataAgreement, RefreshAgreement DEF ConfigAutomaton
<1>4. CASE Process
  BY <1>2, <1>3, <1>4, PacketAgreement, NavdataAgreement DEF Process
<1> QED
  BY <1>1, <1>2, <1>4, AcknowledgeAgreement, CompleteAgreement, FailAgreement, OtherAgreement DEF Next

\* Once the configuration is done (ardrone_general_navdata.c:307-312), a drone
\* that has not restarted uses our three identifiers and holds our values, for
\* every capacity of the ring that has refused nothing, any number of requests
\* of the application and of failures, and whatever the drone knew before.
THEOREM ConfigurationAgreed == Spec => []ConfiguredMeansAgreed
<1>1. Init => Answers /\ AgreementUndisputed
  <2> SUFFICES ASSUME Init PROVE Answers
    BY InitAgreement DEF AgreementUndisputed
  <2>1. pc = "idle" /\ ring = <<Set("id", "session", "-all", "none")>>
    BY DEF Init
  <2>2. \A i \in DOMAIN ring : ring[i].callback = "none"
    BY <2>1 DEF Set
  <2> QED
    BY <2>1, <2>2 DEF Answers
<1>2. IInv /\ AgreementUndisputed => ConfiguredMeansAgreed
  <2> SUFFICES ASSUME IInv, AgreementUndisputed, configWasDone, supports, ~refused,
                      restarts = 0, calls = 0
               PROVE  Current = ids /\ \A k \in Custom : <<k, ids[k]>> \in initialised
    BY DEF ConfiguredMeansAgreed
  <2>1. supports = TRUE
    BY DEF IInv, TypeOK
  <2>2. Settings /\ \A f \in Facts : Holds(f)
    BY <2>1 DEF AgreementUndisputed, Undisputed, Agreement, Progress, Agreed
  <2>3. session = "own"
    BY <2>2, FactsAre, HoldsAre
  <2>4. \A k \in Custom : custom["own"][k] = "own" /\ <<k, "own">> \in initialised
    BY <2>2, FactsAre, HoldsAre
  <2>5. Current = [k \in Kinds |-> "own"]
    BY <2>3, <2>4 DEF Current, Custom
  <2> QED
    BY <2>2, <2>4, <2>5 DEF Settings, Custom
<1> QED
  BY <1>1, <1>2, NextAnswers, NextAgreement, Safety, PTL DEF Spec
=============================================================================
