----------------------- MODULE ControlRefinement_proofs -----------------------
(***************************************************************************)
(* The configuration ring implements the queue of ConfigQueue, for every   *)
(* size of the ring, every number of retries and every capacity of the     *)
(* links, whatever the links lose.                                         *)
(***************************************************************************)
EXTENDS ControlSystem_proofs

\* The requests between two slots of a ring with these data.
Contents(d, first, free) ==
    [k \in 1 .. ((free - first) % RingSize) |-> d[(first + k - 1) % RingSize]]

\* The remainders that Pending is made of.
LEMMA Remainder ==
    \A x \in Int : /\ 0 <= x /\ x < RingSize => x % RingSize = x
                   /\ RingSize <= x /\ x < 2 * RingSize => x % RingSize = x - RingSize
                   /\ -RingSize <= x /\ x < 0 => x % RingSize = x + RingSize
  BY ControlAssumption

LEMMA Distance ==
    ASSUME NEW c \in Slots, NEW n \in Slots
    PROVE  /\ (n - c) % RingSize \in 0 .. RingSize - 1
           /\ (n - c) % RingSize = IF c <= n THEN n - c ELSE n - c + RingSize
  BY Remainder, ControlAssumption DEF Slots

LEMMA Position ==
    ASSUME NEW c \in Slots, NEW k \in 1 .. RingSize
    PROVE  /\ (c + k - 1) % RingSize \in Slots
           /\ (c + k - 1) % RingSize = IF c + k - 1 < RingSize THEN c + k - 1 ELSE c + k - 1 - RingSize
  BY Remainder, ControlAssumption DEF Slots

\* A function on 1 .. n is a sequence of length n.
LEMMA FunctionIsSequence ==
    ASSUME NEW S, NEW n \in Nat, NEW f \in [1 .. n -> S]
    PROVE  f \in Seq(S) /\ Len(f) = n
  OBVIOUS

\* The contents are a sequence.
LEMMA ContentsType ==
    ASSUME NEW S, NEW d \in [Slots -> S], NEW c \in Slots, NEW n \in Slots
    PROVE  /\ Contents(d, c, n) \in Seq(S)
           /\ Len(Contents(d, c, n)) = (n - c) % RingSize
           /\ \A k \in 1 .. ((n - c) % RingSize) :
                  Contents(d, c, n)[k] = d[(c + k - 1) % RingSize]
<1> DEFINE size == (n - c) % RingSize
<1>1. size \in Nat /\ size <= RingSize - 1
  BY Distance, ControlAssumption DEF Slots
<1>2. \A k \in 1 .. size : (c + k - 1) % RingSize \in Slots
  BY <1>1, Position, ControlAssumption
<1>3. Contents(d, c, n) \in [1 .. size -> S]
  BY <1>2 DEF Contents
<1>4. Contents(d, c, n) \in Seq(S) /\ Len(Contents(d, c, n)) = size
  BY <1>1, <1>3, FunctionIsSequence
<1>5. \A k \in 1 .. size : Contents(d, c, n)[k] = d[(c + k - 1) % RingSize]
  BY DEF Contents
<1> QED
  BY <1>4, <1>5

\* They start with the first slot.
LEMMA ContentsHead ==
    ASSUME NEW S, NEW d \in [Slots -> S], NEW c \in Slots, NEW n \in Slots, c # n
    PROVE  /\ Contents(d, c, n) # <<>>
           /\ Head(Contents(d, c, n)) = d[c]
<1>1. (n - c) % RingSize \in Nat \ {0}
  BY Distance, ControlAssumption DEF Slots
<1>2. Contents(d, c, n)[1] = d[(c + 1 - 1) % RingSize]
  <2>1. \A k \in 1 .. ((n - c) % RingSize) :
            Contents(d, c, n)[k] = d[(c + k - 1) % RingSize]
    BY ContentsType
  <2>2. 1 \in 1 .. ((n - c) % RingSize)
    BY <1>1
  <2> QED
    BY <2>1, <2>2
<1>3. (c + 1 - 1) % RingSize = c
  BY Position, ControlAssumption DEF Slots
<1>4. Contents(d, c, n) \in Seq(S) /\ Len(Contents(d, c, n)) = (n - c) % RingSize
  BY ContentsType
<1> QED
  BY <1>1, <1>2, <1>3, <1>4

\* The same distance and position for one more slot.
LEMMA LongerDistance ==
    ASSUME NEW c \in Slots, NEW n \in Slots, c # NextSlot(n)
    PROVE  /\ (NextSlot(n) - c) % RingSize = ((n - c) % RingSize) + 1
           /\ ((n - c) % RingSize) + 1 < RingSize
           /\ (c + (((n - c) % RingSize) + 1) - 1) % RingSize = n
<1>1. /\ NextSlot(n) \in Slots
      /\ NextSlot(n) = IF n = RingSize - 1 THEN 0 ELSE n + 1
  BY NextSlotValue
<1>2. (n - c) % RingSize = IF c <= n THEN n - c ELSE n - c + RingSize
  BY Distance
<1>3. (NextSlot(n) - c) % RingSize =
          IF c <= NextSlot(n) THEN NextSlot(n) - c ELSE NextSlot(n) - c + RingSize
  BY <1>1, Distance
<1>4. /\ (NextSlot(n) - c) % RingSize = ((n - c) % RingSize) + 1
      /\ ((n - c) % RingSize) + 1 < RingSize
      /\ (n - c) % RingSize \in Nat
  BY <1>1, <1>2, <1>3, ControlAssumption DEF Slots
<1> DEFINE k == ((n - c) % RingSize) + 1
<1>5. k \in 1 .. RingSize
  BY <1>4, ControlAssumption
<1>6. (c + k - 1) % RingSize = IF c + k - 1 < RingSize THEN c + k - 1 ELSE c + k - 1 - RingSize
  <2> HIDE DEF k
  <2> QED
    BY <1>5, Position
<1>7. c + k - 1 = IF c <= n THEN n ELSE n + RingSize
  BY <1>2, ControlAssumption DEF Slots
<1>8. (c + k - 1) % RingSize = n
  BY <1>6, <1>7, ControlAssumption DEF Slots
<1> QED
  BY <1>4, <1>8

\* No slot in use is the first free one.
LEMMA UsedSlot ==
    ASSUME NEW c \in Slots, NEW n \in Slots, NEW k \in 1 .. ((n - c) % RingSize)
    PROVE  /\ (c + k - 1) % RingSize \in Slots
           /\ (c + k - 1) % RingSize # n
<1>1. (n - c) % RingSize = IF c <= n THEN n - c ELSE n - c + RingSize
  BY Distance
<1>2. k \in 1 .. RingSize
  BY <1>1, ControlAssumption DEF Slots
<1>3. /\ (c + k - 1) % RingSize \in Slots
      /\ (c + k - 1) % RingSize = IF c + k - 1 < RingSize THEN c + k - 1 ELSE c + k - 1 - RingSize
  BY <1>2, Position
<1> QED
  BY <1>1, <1>2, <1>3, ControlAssumption DEF Slots

\* Filling the first free slot appends.
LEMMA ContentsAppend ==
    ASSUME NEW S, NEW d \in [Slots -> S], NEW c \in Slots, NEW n \in Slots, NEW r \in S,
           c # NextSlot(n)
    PROVE  Contents([d EXCEPT ![n] = r], c, NextSlot(n)) = Append(Contents(d, c, n), r)
<1> DEFINE e == [d EXCEPT ![n] = r]
           m == NextSlot(n)
           size == (n - c) % RingSize
           old == Contents(d, c, n)
           new == Contents(e, c, m)
<1>1. e \in [Slots -> S] /\ m \in Slots
  BY NextSlotValue
<1>2. /\ (m - c) % RingSize = size + 1
      /\ (c + (size + 1) - 1) % RingSize = n
      /\ size \in Nat
  BY LongerDistance, Distance, ControlAssumption
<1>3. /\ old \in Seq(S)
      /\ Len(old) = size
      /\ \A k \in 1 .. size : old[k] = d[(c + k - 1) % RingSize]
  BY ContentsType
<1>4. /\ new \in Seq(S)
      /\ Len(new) = (m - c) % RingSize
      /\ \A k \in 1 .. ((m - c) % RingSize) : new[k] = e[(c + k - 1) % RingSize]
  <2> HIDE DEF m, e
  <2>1. new \in Seq(S)
    BY <1>1, ContentsType
  <2>2. Len(new) = (m - c) % RingSize
    BY <1>1, ContentsType
  <2>3. \A k \in 1 .. ((m - c) % RingSize) : new[k] = e[(c + k - 1) % RingSize]
    BY <1>1, ContentsType, ZenonT(60)
  <2> QED
    BY <2>1, <2>2, <2>3
<1>5. \A k \in 1 .. size : e[(c + k - 1) % RingSize] = d[(c + k - 1) % RingSize]
  BY UsedSlot
<1>6. e[n] = r
  OBVIOUS
<1> HIDE DEF e, m, size, old, new
<1>7. /\ Append(old, r) \in Seq(S)
      /\ Len(Append(old, r)) = size + 1
      /\ \A k \in 1 .. size : Append(old, r)[k] = old[k]
      /\ Append(old, r)[size + 1] = r
  BY <1>2, <1>3, AppendProperties
<1>8. \A k \in 1 .. size + 1 : new[k] = Append(old, r)[k]
  <2> SUFFICES ASSUME NEW k \in 1 .. size + 1
               PROVE  new[k] = Append(old, r)[k]
    OBVIOUS
  <2>1. new[k] = e[(c + k - 1) % RingSize]
    BY <1>2, <1>4
  <2>2. CASE k = size + 1
    BY <1>2, <1>6, <1>7, <2>1, <2>2
  <2>3. CASE k \in 1 .. size
    BY <1>3, <1>5, <1>7, <2>1, <2>3
  <2>4. size \in Nat
    BY <1>2
  <2>5. k = size + 1 \/ k \in 1 .. size
    BY <2>4
  <2> QED
    BY <2>2, <2>3, <2>5
<1>9. new = Append(old, r)
  BY <1>2, <1>4, <1>7, <1>8, SeqEqual
<1> QED
  BY <1>9 DEF new, old, e, m

\* The distance and the positions from the second slot on.
LEMMA ShorterDistance ==
    ASSUME NEW c \in Slots, NEW n \in Slots, c # n
    PROVE  /\ (n - c) % RingSize \in Nat \ {0}
           /\ (n - NextSlot(c)) % RingSize = ((n - c) % RingSize) - 1
           /\ \A k \in 1 .. (((n - c) % RingSize) - 1) :
                  /\ (NextSlot(c) + k - 1) % RingSize = (c + (k + 1) - 1) % RingSize
                  /\ (NextSlot(c) + k - 1) % RingSize \in Slots \ {c}
<1> DEFINE b == NextSlot(c)
<1>1. /\ b \in Slots
      /\ b = IF c = RingSize - 1 THEN 0 ELSE c + 1
  BY NextSlotValue
<1>2. (n - c) % RingSize = IF c <= n THEN n - c ELSE n - c + RingSize
  BY Distance
<1> HIDE DEF b
<1>3. (n - b) % RingSize = IF b <= n THEN n - b ELSE n - b + RingSize
  BY <1>1, Distance
<1>4. /\ (n - c) % RingSize \in Nat \ {0}
      /\ (n - c) % RingSize < RingSize
      /\ (n - b) % RingSize = ((n - c) % RingSize) - 1
  BY <1>1, <1>2, <1>3, ControlAssumption DEF Slots
<1>5. ASSUME NEW k \in 1 .. (((n - c) % RingSize) - 1)
      PROVE  /\ (b + k - 1) % RingSize = (c + (k + 1) - 1) % RingSize
             /\ (b + k - 1) % RingSize \in Slots \ {c}
  <2>1. k \in 1 .. RingSize /\ k + 1 \in 1 .. RingSize /\ k < RingSize - 1
    BY <1>4, <1>5, ControlAssumption
  <2>2. /\ (b + k - 1) % RingSize = IF b + k - 1 < RingSize THEN b + k - 1 ELSE b + k - 1 - RingSize
        /\ (b + k - 1) % RingSize \in Slots
    BY <1>1, <2>1, Position
  <2>3. (c + (k + 1) - 1) % RingSize =
            IF c + (k + 1) - 1 < RingSize THEN c + (k + 1) - 1 ELSE c + (k + 1) - 1 - RingSize
    BY <2>1, Position
  <2> QED
    BY <1>1, <2>1, <2>2, <2>3, ControlAssumption DEF Slots
<1> QED
  BY <1>4, <1>5 DEF b

\* Giving the first slot back, whatever is left in it, removes the first request.
LEMMA ContentsTail ==
    ASSUME NEW S, NEW d \in [Slots -> S], NEW e \in [Slots -> S],
           NEW c \in Slots, NEW n \in Slots,
           c # n, \A s \in Slots \ {c} : e[s] = d[s]
    PROVE  Contents(e, NextSlot(c), n) = Tail(Contents(d, c, n))
<1> DEFINE b == NextSlot(c)
           size == (n - c) % RingSize
           old == Contents(d, c, n)
           new == Contents(e, b, n)
<1>1. b \in Slots
  BY NextSlotValue
<1>2. /\ size \in Nat \ {0}
      /\ (n - b) % RingSize = size - 1
      /\ \A k \in 1 .. size - 1 : /\ (b + k - 1) % RingSize = (c + (k + 1) - 1) % RingSize
                                  /\ (b + k - 1) % RingSize \in Slots \ {c}
  BY ShorterDistance
<1>3. /\ old \in Seq(S)
      /\ Len(old) = size
      /\ \A k \in 1 .. size : old[k] = d[(c + k - 1) % RingSize]
  BY ContentsType
<1>4. /\ new \in Seq(S)
      /\ Len(new) = (n - b) % RingSize
      /\ \A k \in 1 .. ((n - b) % RingSize) : new[k] = e[(b + k - 1) % RingSize]
  <2> HIDE DEF b, size, old
  <2>1. new \in Seq(S)
    BY <1>1, ContentsType
  <2>2. Len(new) = (n - b) % RingSize
    BY <1>1, ContentsType
  <2>3. \A k \in 1 .. ((n - b) % RingSize) : new[k] = e[(b + k - 1) % RingSize]
    BY <1>1, ContentsType, ZenonT(40)
  <2> QED
    BY <2>1, <2>2, <2>3
<1> HIDE DEF b, size, old, new
<1>5. /\ Tail(old) \in Seq(S)
      /\ Len(Tail(old)) = size - 1
      /\ \A k \in 1 .. size - 1 : Tail(old)[k] = old[k + 1]
  <2>1. old # <<>>
    BY <1>2, <1>3
  <2> QED
    BY <1>3, <2>1, HeadTailProperties
<1>6. \A k \in 1 .. size - 1 : new[k] = Tail(old)[k]
  <2> SUFFICES ASSUME NEW k \in 1 .. size - 1
               PROVE  new[k] = Tail(old)[k]
    OBVIOUS
  <2>1. new[k] = e[(b + k - 1) % RingSize]
    BY <1>2, <1>4
  <2>2. e[(b + k - 1) % RingSize] = d[(c + (k + 1) - 1) % RingSize]
    BY <1>2
  <2>3. k + 1 \in 1 .. size
    BY <1>2
  <2>4. old[k + 1] = d[(c + (k + 1) - 1) % RingSize]
    BY <1>3, <2>3
  <2> QED
    BY <1>5, <2>1, <2>2, <2>4
<1>7. new = Tail(old)
  BY <1>2, <1>4, <1>5, <1>6, SeqEqual
<1> QED
  BY <1>7 DEF new, old, b
-----------------------------------------------------------------------------
(* The refinement.                                                         *)

\* What a slot of the ring may hold.
Cells == [mode : Modes \cup {"NULL"}, config : Configs \cup {NoConfig}]

LEMMA PendingIsContents == Pending = Contents(data, current_index, nb_event)
  BY DEF Pending, Contents

LEMMA RefinesInit == Init => Manager!Init
<1> SUFFICES ASSUME Init
             PROVE  Manager!Init
  OBVIOUS
<1>1. (nb_event - current_index) % RingSize = 0
  BY Remainder, ControlAssumption DEF Init, ControlInit
<1>2. Pending = <<>>
  BY <1>1 DEF Pending
<1> QED
  BY <1>2 DEF Init, ControlInit, Manager!Init

\* Accepting a request.
LEMMA RefinesAdd ==
    ASSUME IInv, NEW r \in Requests, AddEvent(r)
    PROVE  Manager!Add(r)
<1>1. /\ data \in [Slots -> Cells] /\ r \in Cells
      /\ current_index \in Slots /\ nb_event \in Slots
      /\ current_index # NextSlot(nb_event)
  BY ControlAssumption
     DEF IInv, TypeOK, AddEvent, RingFull, Cells, Request, Modes, GetModes
<1>2. Contents([data EXCEPT ![nb_event] = r], current_index, NextSlot(nb_event))
        = Append(Contents(data, current_index, nb_event), r)
  BY <1>1, ContentsAppend, ZenonT(60)
<1>3. Pending' = Contents(data', current_index', nb_event')
  BY DEF Pending, Contents
<1>4. Pending' = Append(Pending, r)
  BY <1>2, <1>3, PendingIsContents DEF AddEvent
<1>5. Len(Pending) < RingSize - 1
  <2>1. Len(Pending) = (nb_event - current_index) % RingSize
    BY <1>1, ContentsType, PendingIsContents
  <2>2. ((nb_event - current_index) % RingSize) + 1 < RingSize
    BY <1>1, LongerDistance
  <2>3. (nb_event - current_index) % RingSize \in Int
    BY <1>1, Distance
  <2> QED
    BY <2>1, <2>2, <2>3, ControlAssumption
<1> QED
  BY <1>4, <1>5 DEF Manager!Add, AddEvent

\* A success.
LEMMA RefinesSucceed ==
    ASSUME IInv, EventSucceeds, TypeOK'
    PROVE  Manager!Succeed
<1> DEFINE cur == current_index
<1>1. /\ data \in [Slots -> Cells] /\ data' \in [Slots -> Cells]
      /\ cur \in Slots /\ nb_event \in Slots
  BY DEF IInv, TypeOK, Cells
<1>2. cur # nb_event
  BY DEF IInv, RunsAnEvent, OneOutstanding, RingEmpty, EventSucceeds
<1>3. /\ data' = [data EXCEPT ![cur].config = NoConfig]
      /\ current_index' = NextSlot(cur)
      /\ nb_event' = nb_event
      /\ report' = [request |-> data[cur], ok |-> TRUE]
  BY DEF EventSucceeds
<1>4. \A s \in Slots \ {cur} : data'[s] = data[s]
  BY <1>1, <1>3
<1>5. Contents(data', NextSlot(cur), nb_event) = Tail(Contents(data, cur, nb_event))
  BY <1>1, <1>2, <1>4, ContentsTail
<1>6. Pending' = Contents(data', current_index', nb_event')
  BY DEF Pending, Contents
<1>7. Pending' = Tail(Pending)
  BY <1>3, <1>5, <1>6, PendingIsContents
<1>8. Pending # <<>> /\ Head(Pending) = data[cur]
  BY <1>1, <1>2, ContentsHead, PendingIsContents
<1> QED
  BY <1>3, <1>7, <1>8 DEF Manager!Succeed

\* A failure.
LEMMA RefinesFail ==
    ASSUME IInv, EventFails
    PROVE  Manager!Fail
<1>1. /\ data \in [Slots -> Cells]
      /\ current_index \in Slots /\ nb_event \in Slots
      /\ current_index # nb_event
  BY DEF IInv, TypeOK, Cells, RunsAnEvent, OneOutstanding, RingEmpty, EventFails
<1>2. Pending # <<>> /\ Head(Pending) = data[current_index]
  BY <1>1, ContentsHead, PendingIsContents
<1>3. Pending' = Pending
  BY DEF Pending, EventFails
<1> QED
  BY <1>2, <1>3 DEF Manager!Fail, EventFails

\* Every other step leaves the queue and its report alone.
LEMMA RefinesStutter ==
    ASSUME UNCHANGED <<data, current_index, nb_event, report>>
    PROVE  UNCHANGED Manager!queueVars
  BY DEF Pending, Manager!queueVars

LEMMA RefinesNext ==
    ASSUME IInv, IInv', [Next]_vars
    PROVE  [Manager!Next]_(Manager!queueVars)
<1>1. ASSUME NEW r \in Requests, AddEvent(r)
      PROVE  Manager!Next
  BY <1>1, RefinesAdd DEF Manager!Next
<1>2. ASSUME EventSucceeds
      PROVE  Manager!Next
  BY <1>2, RefinesSucceed DEF Manager!Next, IInv
<1>3. ASSUME EventFails
      PROVE  Manager!Next
  BY <1>3, RefinesFail DEF Manager!Next
<1>4. ASSUME \/ Wait \/ Leave \/ Snapshot \/ TakeEvent
             \/ Timeout \/ SpuriousWakeup \/ \E ok \in BOOLEAN : Connect(ok)
             \/ RequestExit \/ ShutdownResume \/ ShutdownStop
      PROVE  UNCHANGED <<data, current_index, nb_event, report>>
  BY <1>4 DEF Wait, Leave, Snapshot, TakeEvent, Timeout, SpuriousWakeup, Connect,
              RequestExit, ShutdownResume, ShutdownStop, managerVars
<1>5. ASSUME \/ AwaitMask \/ AwaitReset \/ RequestFile
             \/ ReceiveChunk \/ ReceiveNothing \/ AwaitFileReset
      PROVE  UNCHANGED <<data, current_index, nb_event, report>>
  BY <1>5 DEF AwaitMask, AwaitReset, RequestFile, ReceiveChunk, ReceiveNothing,
              AwaitFileReset, EndStep
<1>6. ASSUME \/ Handle \/ LoseAt \/ EmitNavdata \/ LoseNavdata \/ DeliverNavdata
             \/ UNCHANGED vars
      PROVE  UNCHANGED <<data, current_index, nb_event, report>>
  BY <1>6 DEF Handle, HandleAt, LoseAt, EmitNavdata, LoseNavdata, DeliverNavdata,
              managerVars, vars, controlVars
<1> QED
  BY <1>1, <1>2, <1>3, <1>4, <1>5, <1>6, RefinesStutter
     DEF Next, Client, ControlThread, ThreadStep, Exit

\* The configuration manager is a first-in first-out queue of at most
\* RingSize - 1 requests: only the oldest one is reported on, a success
\* removes it and a failure leaves it (ConfigQueue).  This holds whatever the
\* drone does and the links lose, at the end of the program too.
THEOREM QueueRefinement == Spec => ImplementsConfigQueue
<1>1. IInv /\ IInv' /\ [Next]_vars => [Manager!Next]_(Manager!queueVars)
  BY RefinesNext
<1> QED
  BY RefinesInit, <1>1, Safety, PTL DEF Spec, ImplementsConfigQueue, Manager!Spec
=============================================================================
