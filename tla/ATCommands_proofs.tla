-------------------------- MODULE ATCommands_proofs --------------------------
(***************************************************************************)
(* The AT commands leave in the order of their numbers, for any threads,   *)
(* kinds, sizes and bounds.  SequenceOrder is not inductive: that a new    *)
(* number is above those in the buffer when the command is appended rests  *)
(* on at_mutex, which is held from the number to the append (Exclusion),   *)
(* so that the number is still the last one given (Numbered).              *)
(***************************************************************************)
EXTENDS ATCommands, TLAPS

\* Whoever is in a setter holds at_mutex.
Exclusion == \A t \in Threads : pc[t] # "out" => at_mutex = t

\* A command about to be appended has the last number given and is above
\* everything before it; nothing is above the last number given; there is
\* a length for every command being sent.
Numbered ==
    /\ flushed.seq <= nb_sequence
    /\ \A i \in 1..Len(buffer) : buffer[i].seq <= nb_sequence
    /\ \A t \in Threads : pc[t] # "out" => command[t].kind \in AllKinds
    /\ \A t \in Threads : pc[t] = "append" =>
         /\ command[t].seq = nb_sequence
         /\ flushed.seq < nb_sequence
         /\ \A i \in 1..Len(buffer) : buffer[i].seq < nb_sequence

IInv == TypeOK /\ Exclusion /\ Numbered /\ SequenceOrder

\* What queueing a command does to the buffer: nothing, or one command more at
\* its end.
LEMMA QueueAppends ==
    ASSUME TypeOK, NEW c \in Commands, c.kind \in AllKinds, Queue(c)
    PROVE  /\ buffer' \in Seq(Commands)
           /\ used' \in Nat
           /\ \/ buffer' = buffer
              \/ /\ Len(buffer') = Len(buffer) + 1
                 /\ buffer'[Len(buffer) + 1] = c
                 /\ \A i \in 1..Len(buffer) : buffer'[i] = buffer[i]
<1>1. Size[c.kind] \in Nat
  BY SizeAssumption
<1>2. CASE used + Size[c.kind] < BufferSize
  <2>1. buffer' = Append(buffer, c) /\ used' = used + Size[c.kind]
    BY <1>2 DEF Queue
  <2> QED
    BY <2>1, <1>1 DEF TypeOK
<1>3. CASE ~(used + Size[c.kind] < BufferSize)
  BY <1>3 DEF Queue, TypeOK
<1> QED
  BY <1>2, <1>3

\* Sequence numbers are numbers.
LEMMA SeqNumbers ==
    ASSUME TypeOK
    PROVE  flushed.seq \in Nat /\ \A i \in 1..Len(buffer) : buffer[i].seq \in Nat
<1>1. \A i \in 1..Len(buffer) : buffer[i] \in Commands
  BY DEF TypeOK
<1> QED
  BY <1>1 DEF TypeOK, Commands

\* The invariant holds at the start.
LEMMA InitInv == Init => IInv
  BY ThreadsAssumption DEF Init, IInv, TypeOK, Exclusion, Numbered, SequenceOrder, Commands

\* Every step preserves the invariant.
LEMMA NextInv == IInv /\ [Next]_vars => IInv'
<1> SUFFICES ASSUME IInv, [Next]_vars
             PROVE  IInv'
  OBVIOUS
<1> USE DEF IInv, TypeOK
<1>1. ASSUME NEW t \in Threads, NEW kind \in Kinds \union {"CONFIG_IDS"}, Call(t, kind)
      PROVE  IInv'
  <2>1. kind \in AllKinds
    BY DEF AllKinds
  <2>2. TypeOK'
    BY <1>1, <2>1 DEF Call, Commands
  <2>3. Exclusion'
    BY <1>1, ThreadsAssumption DEF Call, Exclusion
  <2>4. Numbered'
    BY <1>1, <2>1 DEF Call, Numbered
  <2>5. SequenceOrder'
    BY <1>1 DEF Call, SequenceOrder
  <2> QED
    BY <2>2, <2>3, <2>4, <2>5
<1>2. ASSUME NEW t \in Threads, Number(t)
      PROVE  IInv'
  <2> DEFINE c == [command[t] EXCEPT !.seq = nb_sequence + 1]
  <2>1. c \in Commands /\ c.kind = command[t].kind /\ c.seq = nb_sequence + 1
    BY DEF Commands
  <2>2. /\ pc[t] = "number" /\ pc' = [pc EXCEPT ![t] = "append"]
        /\ command' = [command EXCEPT ![t] = c]
        /\ nb_sequence' = nb_sequence + 1
        /\ UNCHANGED <<at_mutex, buffer, used, flushed>>
    BY <1>2 DEF Number
  <2> HIDE DEF c
  <2>3. TypeOK'
    BY <2>1, <2>2
  <2>4. Exclusion'
    BY <2>2 DEF Exclusion
  <2>5. Numbered'
    <3>1. /\ flushed'.seq < nb_sequence'
          /\ \A i \in 1..Len(buffer') : buffer'[i].seq < nb_sequence'
      <4>1. flushed.seq \in Nat /\ \A i \in 1..Len(buffer) : buffer[i].seq \in Nat
        BY SeqNumbers
      <4> QED
        BY <2>2, <4>1 DEF Numbered
    <3>2. /\ flushed'.seq <= nb_sequence'
          /\ \A i \in 1..Len(buffer') : buffer'[i].seq <= nb_sequence'
      <4>1. flushed'.seq \in Nat /\ \A i \in 1..Len(buffer') : buffer'[i].seq \in Nat
        BY SeqNumbers, <2>2
      <4> QED
        BY <3>1, <4>1, <2>3
    <3>3. \A u \in Threads : pc'[u] # "out" => u = t
      BY <2>2 DEF Exclusion
    <3>4. command'[t].kind \in AllKinds /\ command'[t].seq = nb_sequence'
      BY <2>1, <2>2 DEF Numbered
    <3> QED
      BY <3>1, <3>2, <3>3, <3>4 DEF Numbered
  <2>6. SequenceOrder'
    BY <2>2 DEF SequenceOrder
  <2> QED
    BY <2>3, <2>4, <2>5, <2>6
<1>3. ASSUME NEW t \in Threads, AppendCommand(t)
      PROVE  IInv'
  <2> DEFINE c == [command[t] EXCEPT !.kind = "CONFIG"]
  <2>1. c \in Commands /\ c.kind = "CONFIG"
    BY DEF Commands, AllKinds
  <2>2. /\ command[t] \in Commands
        /\ command[t].kind \in AllKinds
        /\ Queue(command[t])
    BY <1>3 DEF AppendCommand, Numbered
  <2>3. /\ buffer' \in Seq(Commands)
        /\ used' \in Nat
        /\ \/ buffer' = buffer
           \/ /\ Len(buffer') = Len(buffer) + 1
              /\ buffer'[Len(buffer) + 1] = command[t]
              /\ \A i \in 1..Len(buffer) : buffer'[i] = buffer[i]
    BY <2>2, QueueAppends
  <2>4. /\ command[t].seq = nb_sequence
        /\ flushed.seq < nb_sequence
        /\ \A i \in 1..Len(buffer) : buffer[i].seq < nb_sequence
    BY <1>3 DEF AppendCommand, Numbered
  <2>5. /\ pc[t] = "append" /\ nb_sequence' = nb_sequence /\ flushed' = flushed
        /\ \/ /\ pc' = [pc EXCEPT ![t] = "number"]
              /\ command' = [command EXCEPT ![t] = c]
              /\ at_mutex' = at_mutex
           \/ /\ pc' = [pc EXCEPT ![t] = "out"]
              /\ command' = command
              /\ at_mutex' = "none"
    BY <1>3 DEF AppendCommand
  <2> HIDE DEF c
  <2>6. TypeOK'
    BY <2>1, <2>3, <2>5
  <2>7. \A u \in Threads : pc'[u] # "out" =>
          u = t /\ at_mutex' = t /\ pc'[u] = "number" /\ command'[t].kind = "CONFIG"
    BY <2>1, <2>5 DEF Exclusion
  <2>8. Exclusion'
    BY <2>7 DEF Exclusion
  <2>9. Numbered'
    <3>1. \A i \in 1..Len(buffer) : buffer[i].seq <= nb_sequence
      BY DEF Numbered
    <3>2. \A i \in 1..Len(buffer') : buffer'[i].seq <= nb_sequence'
      BY <2>3, <2>4, <2>5, <3>1
    <3>3. flushed'.seq <= nb_sequence'
      BY <2>5 DEF Numbered
    <3> QED
      BY <3>2, <3>3, <2>7 DEF Numbered, AllKinds
  <2>10. SequenceOrder'
    <3>1. CASE buffer' = buffer
      BY <3>1, <2>5 DEF SequenceOrder
    <3>2. CASE /\ Len(buffer') = Len(buffer) + 1
               /\ buffer'[Len(buffer) + 1] = command[t]
               /\ \A i \in 1..Len(buffer) : buffer'[i] = buffer[i]
      <4>1. ASSUME NEW i \in 1..Len(buffer'), NEW j \in 1..Len(buffer'), i < j
            PROVE  buffer'[i].seq < buffer'[j].seq
        BY <4>1, <3>2, <2>4 DEF SequenceOrder
      <4>2. ASSUME NEW i \in 1..Len(buffer')
            PROVE  flushed'.seq < buffer'[i].seq
        BY <4>2, <3>2, <2>4, <2>5 DEF SequenceOrder
      <4> QED
        BY <4>1, <4>2 DEF SequenceOrder
    <3> QED
      BY <2>3, <3>1, <3>2
  <2> QED
    BY <2>6, <2>8, <2>9, <2>10
<1>4. ASSUME Send
      PROVE  IInv'
  <2>1. Len(buffer) \in 1..Len(buffer) /\ buffer[Len(buffer)] \in Commands
    BY <1>4 DEF Send
  <2>2. buffer' = <<>> /\ Len(buffer') = 0
    BY <1>4 DEF Send
  <2>3. TypeOK'
    BY <1>4, <2>1, <2>2 DEF Send
  <2>4. Exclusion'
    BY <1>4 DEF Send, Exclusion
  <2>5. Numbered'
    BY <1>4, <2>1, <2>2 DEF Send, Numbered
  <2>6. SequenceOrder'
    BY <2>2 DEF SequenceOrder
  <2> QED
    BY <2>3, <2>4, <2>5, <2>6
<1>5. CASE UNCHANGED vars
  BY <1>5 DEF vars, Exclusion, Numbered, SequenceOrder
<1> QED
  BY <1>1, <1>2, <1>3, <1>4, <1>5 DEF Next

\* The sequence numbers, the buffer and the threads keep their types.
THEOREM TypeCorrect == Spec => []TypeOK
<1>1. IInv => TypeOK
  BY DEF IInv
<1> QED
  BY InitInv, NextInv, <1>1, PTL DEF Spec

\* ardrone_at_set_* and ATcodec_Send_Messages never send a command behind one
\* with a higher number, however the threads interleave and whatever the codec
\* drops.
THEOREM Ordered == Spec => []SequenceOrder
<1>1. IInv => SequenceOrder
  BY DEF IInv
<1> QED
  BY InitInv, NextInv, <1>1, PTL DEF Spec

-----------------------------------------------------------------------------
(* The identifiers of a configuration.                                     *)

\* The last command that was not dropped.
Last == IF buffer = <<>> THEN flushed ELSE buffer[Len(buffer)]

\* While a configuration is being sent, the number before its own is nothing
\* but that of its identifiers.  Sending the buffer leaves Last as it is.
Identified ==
    /\ ConfigIdentified
    /\ \A t \in Threads : command[t].kind = "CONFIG" =>
         /\ pc[t] = "number" /\ Last.seq = nb_sequence => Last.kind = "CONFIG_IDS"
         /\ pc[t] = "append" /\ Last.seq = nb_sequence - 1 => Last.kind = "CONFIG_IDS"

\* The last command has no higher number than the last one given, and a lower
\* one than a command about to be appended.
LEMMA LastNumbered ==
    ASSUME IInv
    PROVE  /\ Last \in Commands /\ Last.seq <= nb_sequence
           /\ \A t \in Threads : pc[t] = "append" => Last.seq < nb_sequence
<1>1. buffer \in Seq(Commands) /\ flushed \in Commands
  BY DEF IInv, TypeOK
<1>2. CASE buffer = <<>>
  BY <1>1, <1>2 DEF IInv, Numbered, Last
<1>3. CASE buffer # <<>>
  <2>1. Len(buffer) \in 1..Len(buffer)
    BY <1>1, <1>3
  <2> QED
    BY <1>1, <1>3, <2>1 DEF IInv, Numbered, Last
<1> QED
  BY <1>2, <1>3

\* Every step keeps a configuration with its identifiers.
LEMMA NextIdentified == IInv /\ Identified /\ [Next]_vars => Identified'
<1> SUFFICES ASSUME IInv, Identified, [Next]_vars
             PROVE  Identified'
  OBVIOUS
<1>0. /\ pc \in [Threads -> {"out", "number", "append"}] /\ command \in [Threads -> Commands]
      /\ buffer \in Seq(Commands) /\ nb_sequence \in Nat
  BY DEF IInv, TypeOK
<1>1. ASSUME NEW t \in Threads, NEW kind \in Kinds \union {"CONFIG_IDS"}, Call(t, kind)
      PROVE  Identified'
  <2>1. kind # "CONFIG"
    BY KindsAssumption
  <2>2. /\ pc' = [pc EXCEPT ![t] = "number"] /\ command' = [command EXCEPT ![t].kind = kind]
        /\ UNCHANGED <<nb_sequence, buffer, flushed>>
    BY <1>1 DEF Call
  <2>3. command'[t].kind = kind /\ \A u \in Threads \ {t} : command'[u] = command[u] /\ pc'[u] = pc[u]
    BY <1>0, <2>2 DEF Commands
  <2>4. Last' = Last /\ ConfigIdentified'
    BY <2>2 DEF Last, Identified, ConfigIdentified, Previous
  <2> QED
    BY <2>1, <2>2, <2>3, <2>4 DEF Identified
<1>2. ASSUME NEW t \in Threads, Number(t)
      PROVE  Identified'
  <2>1. /\ pc[t] = "number" /\ pc' = [pc EXCEPT ![t] = "append"]
        /\ nb_sequence' = nb_sequence + 1
        /\ command' = [command EXCEPT ![t].seq = nb_sequence + 1]
        /\ UNCHANGED <<buffer, flushed>>
    BY <1>2 DEF Number
  <2>2. command'[t].kind = command[t].kind /\ pc'[t] = "append"
    BY <1>0, <2>1 DEF Commands
  <2>3. \A u \in Threads \ {t} : pc'[u] = "out"
    BY <1>0, <2>1 DEF IInv, Exclusion
  <2>4. Last' = Last /\ ConfigIdentified'
    BY <2>1 DEF Last, Identified, ConfigIdentified, Previous
  <2>5. nb_sequence' - 1 = nb_sequence
    BY <1>0, <2>1
  <2> QED
    BY <2>1, <2>2, <2>3, <2>4, <2>5 DEF Identified
<1>3. ASSUME NEW t \in Threads, AppendCommand(t)
      PROVE  Identified'
  <2> DEFINE c == command[t]
  <2>1. /\ pc[t] = "append" /\ Queue(c) /\ UNCHANGED <<nb_sequence, flushed>>
        /\ \/ /\ c.kind = "CONFIG_IDS" /\ pc' = [pc EXCEPT ![t] = "number"]
           \/ pc' = [pc EXCEPT ![t] = "out"]
    BY <1>3 DEF AppendCommand
  <2>2. c \in Commands /\ c.kind \in AllKinds /\ c.seq = nb_sequence
    BY <1>0, <2>1 DEF IInv, Numbered
  <2>3. \A u \in Threads : pc'[u] # "append" /\ (pc'[u] = "number" => c.kind = "CONFIG_IDS")
    BY <1>0, <2>1 DEF IInv, Exclusion
  <2>4. /\ buffer' \in Seq(Commands)
        /\ \/ buffer' = buffer
           \/ /\ Len(buffer') = Len(buffer) + 1
              /\ buffer'[Len(buffer) + 1] = c
              /\ \A i \in 1..Len(buffer) : buffer'[i] = buffer[i]
    BY <2>1, <2>2, QueueAppends DEF IInv
  <2> HIDE DEF c
  <2>5. CASE buffer' = buffer
    <3>1. Last' = Last /\ ConfigIdentified'
      BY <2>1, <2>5 DEF Last, Identified, ConfigIdentified, Previous
    <3>2. Last.seq # nb_sequence'
      BY <1>0, <2>1, LastNumbered DEF Commands
    <3> QED
      BY <2>3, <3>1, <3>2 DEF Identified
  <2>6. CASE /\ Len(buffer') = Len(buffer) + 1
             /\ buffer'[Len(buffer) + 1] = c
             /\ \A i \in 1..Len(buffer) : buffer'[i] = buffer[i]
    <3>1. Last' = c
      <4>1. buffer' # <<>>
        BY <1>0, <2>4, <2>6
      <4> QED
        BY <2>6, <4>1 DEF Last
    <3>2. ASSUME NEW n \in Nat, n = Len(buffer) + 1
          PROVE  Previous(n)' = Last /\ buffer'[n] = c
      <4>1. CASE Len(buffer) = 0
        <5>1. buffer = <<>> /\ n = 1
          BY <1>0, <3>2, <4>1
        <5> QED
          BY <2>1, <2>6, <3>2, <5>1 DEF Previous, Last
      <4>2. CASE Len(buffer) # 0
        <5>1. buffer # <<>> /\ Len(buffer) \in 1..Len(buffer) /\ n # 1 /\ n - 1 = Len(buffer)
          BY <1>0, <3>2, <4>2
        <5> QED
          BY <2>6, <3>2, <5>1 DEF Previous, Last
      <4> QED
        BY <4>1, <4>2
    <3>3. c.kind = "CONFIG" /\ Last.seq = c.seq - 1 => Last.kind = "CONFIG_IDS"
      BY <2>1, <2>2 DEF Identified, c
    <3>4. ASSUME NEW i \in 1..Len(buffer)
          PROVE  Previous(i)' = Previous(i) /\ buffer'[i] = buffer[i]
      <4>1. CASE i = 1
        BY <2>1, <2>6, <4>1 DEF Previous
      <4>2. CASE i # 1
        <5>1. i - 1 \in 1..Len(buffer)
          BY <1>0, <4>2
        <5> QED
          BY <2>6, <4>2, <5>1 DEF Previous
      <4> QED
        BY <4>1, <4>2
    <3>5. ConfigIdentified'
      <4> SUFFICES ASSUME NEW i \in 1..Len(buffer'), buffer'[i].kind = "CONFIG",
                          Previous(i)'.seq = buffer'[i].seq - 1
                   PROVE  Previous(i)'.kind = "CONFIG_IDS"
        BY DEF ConfigIdentified
      <4>1. CASE i \in 1..Len(buffer)
        BY <3>4, <4>1 DEF Identified, ConfigIdentified
      <4>2. CASE i = Len(buffer) + 1
        BY <1>0, <3>2, <3>3, <4>2
      <4> QED
        BY <1>0, <2>6, <4>1, <4>2
    <3> QED
      BY <2>3, <3>1, <3>5 DEF Identified
  <2> QED
    BY <2>4, <2>5, <2>6
<1>4. ASSUME Send
      PROVE  Identified'
  <2>1. /\ buffer # <<>> /\ buffer' = <<>> /\ flushed' = buffer[Len(buffer)]
        /\ UNCHANGED <<nb_sequence, pc, command>>
    BY <1>4 DEF Send
  <2>2. Last' = Last
    BY <2>1 DEF Last
  <2>3. ConfigIdentified'
    BY <2>1 DEF ConfigIdentified
  <2> QED
    BY <2>1, <2>2, <2>3 DEF Identified
<1>5. CASE UNCHANGED vars
  BY <1>5 DEF vars, Identified, ConfigIdentified, Previous, Last
<1> QED
  BY <1>1, <1>2, <1>3, <1>4, <1>5 DEF Next

\* ardrone_at_set_toy_configuration_ids: no command of another thread comes
\* between the identifiers and their configuration, whatever is dropped or sent
\* in between.
THEOREM ConfigurationIdentified == Spec => []ConfigIdentified
<1>1. Init => Identified
  BY DEF Init, Identified, ConfigIdentified
<1>2. Identified => ConfigIdentified
  BY DEF Identified
<1> QED
  BY InitInv, NextInv, NextIdentified, <1>1, <1>2, PTL DEF Spec
=============================================================================
