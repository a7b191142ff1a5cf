------------------------ MODULE NavdataClient_proofs ------------------------
(***************************************************************************)
(* Theorems about NavdataClient: type correctness for any constants, and,  *)
(* where the network holds at most two packets, that the handlers never go *)
(* back to an older packet, for any number of packets and losses of        *)
(* contact.  With three packets that is false.                             *)
(***************************************************************************)
EXTENDS NavdataClient, FiniteSetTheorems, TLAPS

-----------------------------------------------------------------------------
(* Types.                                                                  *)

Places == {"start", "top", "pausing", "blocked", "read", "done"}

ThreadType == /\ pc \in Places /\ in_pause \in BOOLEAN
              /\ sequence \in 0 .. MaxSequence /\ num_retries \in 0 .. MaxRetries + 1
              /\ processed \in Packet \cup {NoPacket}
AppType == exiting \in BOOLEAN /\ send_com_watchdog \in BOOLEAN /\ acknowledging \in BOOLEAN
DroneType == /\ drone \in [next : 1 .. MaxSequence + 1, watchdog : BOOLEAN, bootstrap : BOOLEAN]
             /\ streaming \in BOOLEAN
             /\ net \subseteq Packet /\ commands \subseteq {"request", "comwdg"}

Types == ThreadType /\ AppType /\ DroneType

LEMMA InitTypes == Init => Types
<1> SUFFICES ASSUME Init PROVE Types
  OBVIOUS
<1>1. sequence \in 0 .. MaxSequence /\ num_retries \in 0 .. MaxRetries + 1
  BY NavdataAssumption DEF Init
<1>2. ThreadType
  BY <1>1 DEF Init, ThreadType, Places
<1>3. AppType
  BY DEF Init, AppType
<1>4. 1 \in 1 .. MaxSequence + 1
  BY NavdataAssumption
<1>5. DroneType
  BY <1>4 DEF Init, DroneType
<1> QED
  BY <1>2, <1>3, <1>5 DEF Types

\* The steps of the thread that read nothing, and the application's.
LEMMA QuietTypes ==
    ASSUME Types,
           \/ Start \/ SocketFails \/ Top \/ Block \/ SpuriousWakeup \/ ReadNothing
           \/ Suspend \/ Resume \/ RequestExit \/ ShutdownSignal \/ Acknowledge \/ ResetFlag
    PROVE  Types' /\ net' = net /\ processed' = processed /\ drone' = drone
<1>1. net' = net /\ processed' = processed /\ drone' = drone /\ streaming' = streaming
  BY DEF Start, SocketFails, Top, Block, SpuriousWakeup, ReadNothing, Suspend, Resume, RequestExit,
         ShutdownSignal, Acknowledge, ResetFlag, threadVars, droneVars
<1>2. pc' \in Places
  BY DEF Start, SocketFails, Top, Block, SpuriousWakeup, ReadNothing, Suspend, Resume, RequestExit,
         ShutdownSignal, Signal, Acknowledge, ResetFlag, threadVars, Types, ThreadType, Places
<1>3. in_pause' \in {in_pause, TRUE, FALSE}
  BY DEF Start, SocketFails, Top, Block, SpuriousWakeup, ReadNothing, Suspend, Resume, RequestExit,
         ShutdownSignal, Acknowledge, ResetFlag, threadVars
<1>4. sequence' \in {sequence, 0}
  BY DEF Start, SocketFails, Top, Block, SpuriousWakeup, ReadNothing, Suspend, Resume, RequestExit,
         ShutdownSignal, Acknowledge, ResetFlag, threadVars
<1>5. num_retries' \in 0 .. MaxRetries + 1
  BY NavdataAssumption
  DEF Start, SocketFails, Top, Block, SpuriousWakeup, ReadNothing, Suspend, Resume, RequestExit,
      ShutdownSignal, Acknowledge, ResetFlag, threadVars, Types, ThreadType
<1>6. AppType'
  <2>1. /\ exiting' \in {exiting, TRUE} /\ send_com_watchdog' \in {send_com_watchdog, FALSE}
        /\ acknowledging' \in {acknowledging, TRUE, FALSE}
    BY DEF Start, SocketFails, Top, Block, SpuriousWakeup, ReadNothing, Suspend, Resume, RequestExit,
           ShutdownSignal, Acknowledge, ResetFlag, appVars
  <2> QED
    BY <2>1 DEF Types, AppType
<1>7. commands' \subseteq {"request", "comwdg"}
  BY DEF Start, SocketFails, Top, Block, SpuriousWakeup, ReadNothing, Suspend, Resume, RequestExit,
         ShutdownSignal, Acknowledge, ResetFlag, droneVars, Types, DroneType
<1>8. ThreadType'
  <2>1. in_pause' \in BOOLEAN
    BY <1>3 DEF Types, ThreadType
  <2>2. sequence' \in 0 .. MaxSequence
    BY <1>4, NavdataAssumption DEF Types, ThreadType
  <2> QED
    BY <1>1, <1>2, <1>5, <2>1, <2>2 DEF Types, ThreadType
<1>9. DroneType'
  BY <1>1, <1>7 DEF Types, DroneType
<1> QED
  BY <1>1, <1>6, <1>8, <1>9 DEF Types

LEMMA ReadTypes ==
    ASSUME Types, NEW p \in Packet, NEW sound \in BOOLEAN, Read(p, sound)
    PROVE  Types'
<1>1. p.sequence \in 0 .. MaxSequence /\ p.watchdog \in BOOLEAN /\ p.bootstrap \in BOOLEAN
  BY NavdataAssumption DEF Packet
<1>2. /\ pc' = "top" /\ num_retries' = 0 /\ sequence' = p.sequence
      /\ processed' \in {processed, p} /\ net' = net \ {p}
      /\ UNCHANGED <<in_pause, exiting, acknowledging, drone, streaming, commands>>
  BY DEF Read
<1>3. send_com_watchdog' \in BOOLEAN
  <2>1. send_com_watchdog' = (send_com_watchdog \/ (p.watchdog /\ ~p.bootstrap))
    BY DEF Read
  <2> QED
    BY <2>1, Zenon
<1>4. ThreadType'
  BY <1>1, <1>2, NavdataAssumption DEF Types, ThreadType, Places
<1>5. AppType' /\ DroneType'
  BY <1>2, <1>3 DEF Types, AppType, DroneType
<1> QED
  BY <1>4, <1>5 DEF Types

LEMMA NewPacket ==
    ASSUME Types, Emit
    PROVE  \E p \in Packet : /\ p.sequence = drone.next /\ p.watchdog = drone.watchdog
                             /\ net' = net \cup {p}
                             /\ drone' = [drone EXCEPT !.next = drone.next + 1]
                             /\ drone.next \in 1 .. MaxSequence
<1> DEFINE p == [sequence |-> drone.next, watchdog |-> drone.watchdog, bootstrap |-> drone.bootstrap]
<1>1. drone.next \in 1 .. MaxSequence
  BY NavdataAssumption DEF Types, DroneType, Emit
<1>2. drone.watchdog \in BOOLEAN /\ drone.bootstrap \in BOOLEAN
  BY DEF Types, DroneType
<1>3. p \in Packet
  BY <1>1, <1>2, Zenon DEF Packet
<1>4. net' = net \cup {p} /\ drone' = [drone EXCEPT !.next = drone.next + 1]
  BY DEF Emit
<1>5. p.sequence = drone.next /\ p.watchdog = drone.watchdog
  OBVIOUS
<1> QED
  BY <1>1, <1>3, <1>4, <1>5

\* The drone and the network.
LEMMA DroneTypes ==
    ASSUME Types,
           \/ Emit \/ Lose \/ LoseContact \/ LeaveBootstrap
           \/ (\E c \in commands : ReceiveCommand(c)) \/ LoseCommand
    PROVE  Types'
<1>1. UNCHANGED appVars /\ UNCHANGED <<pc, in_pause, sequence, num_retries>>
  BY DEF Emit, Lose, LoseContact, LeaveBootstrap, ReceiveCommand, LoseCommand, threadVars
<1>2. processed' \in {processed, NoPacket}
  BY DEF Emit, Lose, LoseContact, LeaveBootstrap, ReceiveCommand, LoseCommand, threadVars
<1>3. ThreadType' /\ AppType'
  BY <1>1, <1>2 DEF Types, ThreadType, AppType, appVars
<1>4. net' \subseteq Packet
  <2>1. CASE Emit
    BY <2>1, NewPacket DEF Types, DroneType
  <2>2. CASE ~Emit
    BY <2>2 DEF Lose, LoseContact, LeaveBootstrap, ReceiveCommand, LoseCommand, Types, DroneType
  <2> QED
    BY <2>1, <2>2
<1>5. commands' \subseteq {"request", "comwdg"} /\ streaming' \in {streaming, TRUE, FALSE}
  BY DEF Emit, Lose, LoseContact, LeaveBootstrap, ReceiveCommand, LoseCommand, Types, DroneType
<1>6. drone' \in [next : 1 .. MaxSequence + 1, watchdog : BOOLEAN, bootstrap : BOOLEAN]
  <2>1. CASE Emit
    <3>1. drone' = [drone EXCEPT !.next = drone.next + 1] /\ drone.next \in 1 .. MaxSequence
      BY <2>1, NewPacket
    <3>2. drone.next + 1 \in 1 .. MaxSequence + 1
      BY <3>1, NavdataAssumption
    <3> QED
      BY <3>1, <3>2 DEF Types, DroneType
  <2>2. CASE LoseContact
    <3>1. 1 \in 1 .. MaxSequence + 1
      BY NavdataAssumption
    <3> QED
      BY <2>2, <3>1 DEF LoseContact, Types, DroneType
  <2>3. CASE Lose \/ LeaveBootstrap \/ (\E c \in commands : ReceiveCommand(c)) \/ LoseCommand
    BY <2>3 DEF Lose, LeaveBootstrap, ReceiveCommand, LoseCommand, Types, DroneType
  <2> QED
    BY <2>1, <2>2, <2>3
<1>7. DroneType'
  BY <1>4, <1>5, <1>6 DEF Types, DroneType
<1> QED
  BY <1>3, <1>7 DEF Types

LEMMA StutterTypes == Types /\ UNCHANGED vars => Types'
  BY DEF vars, threadVars, appVars, droneVars, Types, ThreadType, AppType, DroneType

LEMMA NextTypes == Types /\ [Next]_vars => Types'
  BY QuietTypes, ReadTypes, DroneTypes, StutterTypes DEF Next, Receive

\* The thread's counters stay within their bounds, and every variable keeps its
\* type.
THEOREM TypeCorrect == Spec => []TypeOK
<1>1. Types => TypeOK
  BY DEF Types, ThreadType, AppType, DroneType, Places, TypeOK
<1> QED
  BY <1>1, InitTypes, NextTypes, PTL DEF Spec

-----------------------------------------------------------------------------
(* The order of the packets.                                               *)

\* At most two packets are under way.
Pair == \E a, b : net \subseteq {a, b}

\* The drone numbers its packets, and the last one processed is not under way.
Numbered == /\ processed.sequence < drone.next
            /\ \A p \in net : p.sequence < drone.next /\ p.sequence # processed.sequence
            /\ \A p, q \in net : p.sequence = q.sequence => p = q

\* What exceeds the number to exceed is newer than the last packet processed,
\* although that number is also lowered: by packets that are rejected, by a
\* second without packets, and by the watchdog.
Ahead == \A p \in net : ~p.watchdog /\ p.sequence > sequence => p.sequence > processed.sequence

\* Of the packets under way only one is older than the last one processed: two
\* of them would follow each other past the test.
OneLate == \A p, q \in net :
    p.sequence < processed.sequence /\ q.sequence < processed.sequence => p = q

Order == Pair /\ Numbered /\ Ahead /\ OneLate

LEMMA Numbers ==
    ASSUME Types
    PROVE  /\ \A p \in net : p.sequence \in Nat
           /\ processed.sequence \in Nat /\ sequence \in Nat /\ drone.next \in Nat
<1>1. \A p \in Packet : p.sequence \in Nat
  BY NavdataAssumption DEF Packet
<1>2. NoPacket.sequence = 0
  BY DEF NoPacket
<1> QED
  BY <1>1, <1>2, NavdataAssumption DEF Types, ThreadType, DroneType

LEMMA InitOrder == Init => Order
<1> SUFFICES ASSUME Init PROVE Order
  OBVIOUS
<1>1. net = {} /\ processed.sequence = 0 /\ drone.next = 1
  BY DEF Init, NoPacket
<1> QED
  BY <1>1 DEF Order, Pair, Numbered, Ahead, OneLate

\* Fewer packets under way, and no other change that matters.
LEMMA FewerOrder ==
    ASSUME Types, Types', Order, net' \subseteq net, UNCHANGED <<processed, sequence>>,
           drone'.next = drone.next
    PROVE  Order'
<1>1. Pair'
  BY DEF Order, Pair
<1>2. Numbered' /\ Ahead' /\ OneLate'
  BY DEF Order, Numbered, Ahead, OneLate
<1> QED
  BY <1>1, <1>2 DEF Order

\* Nothing under way.
LEMMA EmptyOrder ==
    ASSUME net' = {}, processed'.sequence < drone'.next
    PROVE  Order'
  BY DEF Order, Pair, Numbered, Ahead, OneLate

LEMMA ReadOrder ==
    ASSUME Types, Order, NEW r \in Packet, NEW sound \in BOOLEAN, Read(r, sound)
    PROVE  /\ Order'
           /\ processed' # processed => processed'.sequence > processed.sequence \/ processed'.watchdog
<1>1. /\ r \in net /\ net' = net \ {r} /\ sequence' = r.sequence /\ drone' = drone
      /\ processed' = IF Newer(r) /\ sound THEN r ELSE processed
  BY DEF Read
<1>2. /\ \A p \in net : p.sequence \in Nat
      /\ processed.sequence \in Nat /\ sequence \in Nat /\ drone.next \in Nat
  BY Numbers
<1>3. \A p, q \in net' : p = q
  BY <1>1 DEF Order, Pair
<1>4. Pair' /\ OneLate'
  <2>1. PICK a, b : net \subseteq {a, b}
    BY DEF Order, Pair
  <2>2. net' \subseteq {a, b}
    BY <1>1, <2>1
  <2> QED
    BY <1>3, <2>2 DEF Pair, OneLate
<1>5. CASE processed' = r /\ Newer(r)
  <2>1. Numbered' /\ Ahead'
    BY <1>1, <1>2, <1>5 DEF Order, Numbered, Ahead
  <2>2. r.watchdog \/ r.sequence > sequence
    BY <1>5 DEF Newer
  <2>3. r.watchdog \/ r.sequence > processed.sequence
    BY <1>1, <2>2 DEF Order, Ahead
  <2> QED
    BY <1>4, <1>5, <2>1, <2>3 DEF Order
<1>6. CASE processed' = processed
  <2>1. Numbered'
    BY <1>1, <1>6 DEF Order, Numbered
  <2>2. ASSUME NEW p \in net', p.sequence > r.sequence
        PROVE  p.sequence > processed.sequence
    <3>1. p \in net /\ p # r
      BY <1>1
    <3>2. CASE r.sequence < processed.sequence
      <4>1. ~(p.sequence < processed.sequence) /\ p.sequence # processed.sequence
        BY <1>1, <3>1, <3>2 DEF Order, OneLate, Numbered
      <4> QED
        BY <1>2, <3>1, <4>1
    <3>3. CASE ~(r.sequence < processed.sequence)
      BY <1>1, <1>2, <2>2, <3>1, <3>3
    <3> QED
      BY <3>2, <3>3
  <2>3. Ahead'
    BY <1>1, <1>6, <2>2 DEF Ahead
  <2> QED
    BY <1>4, <1>6, <2>1, <2>3 DEF Order
<1> QED
  BY <1>1, <1>5, <1>6

LEMMA EmitOrder ==
    ASSUME InFlight <= 2, Types, Order, Emit
    PROVE  Order'
<1>1. PICK p \in Packet : /\ p.sequence = drone.next /\ net' = net \cup {p}
                          /\ drone' = [drone EXCEPT !.next = drone.next + 1]
                          /\ drone.next \in 1 .. MaxSequence
  BY NewPacket
<1>2. UNCHANGED <<processed, sequence>>
  BY DEF Emit, threadVars
<1>3. /\ \A q \in net : q.sequence \in Nat
      /\ processed.sequence \in Nat /\ sequence \in Nat /\ drone.next \in Nat
  BY Numbers
<1>4. drone'.next = drone.next + 1
  BY <1>1 DEF Types, DroneType
<1>5. Pair'
  <2>1. PICK a, b : net \subseteq {a, b}
    BY DEF Order, Pair
  <2>2. CASE a \in net /\ b \in net /\ a # b
    <3>1. net = {a} \cup {b}
      BY <2>1, <2>2
    <3>2. IsFiniteSet({a}) /\ Cardinality({a}) = 1
      BY FS_Singleton
    <3>3. Cardinality({a} \cup {b}) = IF b \in {a} THEN Cardinality({a}) ELSE Cardinality({a}) + 1
      BY <3>2, FS_AddElement
    <3>4. Cardinality(net) = 2
      BY <2>2, <3>1, <3>2, <3>3
    <3>5. Cardinality(net) < InFlight
      BY DEF Emit
    <3> QED
      BY <3>4, <3>5, NavdataAssumption
  <2>3. CASE ~(a \in net /\ b \in net /\ a # b)
    <3>1. net' \subseteq {a, p} \/ net' \subseteq {b, p}
      BY <1>1, <2>1, <2>3
    <3> QED
      BY <3>1 DEF Pair
  <2> QED
    BY <2>2, <2>3
<1>6. Numbered'
  BY <1>1, <1>2, <1>3, <1>4 DEF Order, Numbered
<1>7. Ahead' /\ OneLate'
  BY <1>1, <1>2, <1>3 DEF Order, Numbered, Ahead, OneLate
<1> QED
  BY <1>5, <1>6, <1>7 DEF Order

\* One step of the system keeps the order, and hands no older packet over.
LEMMA NextOrder ==
    ASSUME InFlight <= 2, Types, Order, [Next]_vars
    PROVE  /\ Order'
           /\ processed' \notin {processed, NoPacket} =>
                 processed'.sequence > processed.sequence \/ processed'.watchdog
<1>0. Types'
  BY NextTypes
<1>1. CASE \/ Start \/ SocketFails \/ Top \/ Block \/ SpuriousWakeup
           \/ Suspend \/ Resume \/ RequestExit \/ ShutdownSignal \/ Acknowledge \/ ResetFlag
  <2>1. net' = net /\ processed' = processed /\ drone' = drone
    BY <1>1, QuietTypes
  <2>2. sequence' = sequence
    BY <1>1 DEF Start, SocketFails, Top, Block, SpuriousWakeup, Suspend, Resume, RequestExit,
                ShutdownSignal, Acknowledge, ResetFlag, threadVars
  <2> QED
    BY <1>0, <2>1, <2>2, FewerOrder
<1>2. CASE ReadNothing
  <2>1. net' = {} /\ processed' = processed /\ drone' = drone
    BY <1>2 DEF ReadNothing
  <2> QED
    BY <2>1, EmptyOrder DEF Order, Numbered
<1>3. CASE \E p \in Packet, sound \in BOOLEAN : Read(p, sound)
  BY <1>3, ReadOrder
<1>4. CASE Emit
  <2>1. processed' = processed
    BY <1>4 DEF Emit, threadVars
  <2> QED
    BY <1>4, <2>1, EmitOrder
<1>5. CASE LoseContact
  <2>1. net' = {} /\ processed' = NoPacket /\ drone'.next = 1
    BY <1>5 DEF LoseContact, Types, DroneType
  <2>2. NoPacket.sequence = 0
    BY DEF NoPacket
  <2> QED
    BY <2>1, <2>2, EmptyOrder
<1>6. CASE Lose \/ LeaveBootstrap \/ (\E c \in commands : ReceiveCommand(c)) \/ LoseCommand
  <2>1. net' \subseteq net /\ UNCHANGED <<processed, sequence>>
    BY <1>6 DEF Lose, LeaveBootstrap, ReceiveCommand, LoseCommand, threadVars
  <2>2. drone'.next = drone.next
    BY <1>6 DEF Lose, LeaveBootstrap, ReceiveCommand, LoseCommand, Types, DroneType
  <2> QED
    BY <1>0, <2>1, <2>2, FewerOrder
<1>7. CASE UNCHANGED vars
  <2>1. UNCHANGED <<net, processed, sequence, drone>>
    BY <1>7 DEF vars, threadVars, droneVars
  <2> QED
    BY <1>0, <2>1, FewerOrder
<1> QED
  BY <1>1, <1>2, <1>3, <1>4, <1>5, <1>6, <1>7 DEF Next, Receive

\* While the network holds at most two packets, the handlers never go back to
\* an older packet, except to one that itself reports the watchdog: for any
\* number of packets, losses of contact, suspensions and damaged packets.
THEOREM DeliveredInOrder == ASSUME InFlight <= 2 PROVE Spec => InOrder
<1>1. Init => Types /\ Order
  BY InitTypes, InitOrder
<1>2. Types /\ Order /\ [Next]_vars => (Types /\ Order)'
  BY NextTypes, NextOrder
<1>3. Types /\ Order /\ [Next]_vars =>
        [processed' \notin {processed, NoPacket} =>
            processed'.sequence > processed.sequence \/ processed'.watchdog]_vars
  BY NextOrder
<1> QED
  BY <1>1, <1>2, <1>3, PTL DEF Spec, InOrder
=============================================================================
