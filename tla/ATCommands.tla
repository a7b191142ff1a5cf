----------------------------- MODULE ATCommands -----------------------------
(***************************************************************************)
(* The AT commands to the drone (AT/ardrone_at_mutex.c, ATcodec_api.c).    *)
(* Every ardrone_at_set_* function takes at_mutex, gives the command the   *)
(* next sequence number, and has the codec append it to one buffer, for    *)
(* which the codec takes a mutex of its own.  The application's loop sends *)
(* the buffer as one datagram, under the codec's mutex only, so that a     *)
(* datagram may be sent between the two commands of an identified          *)
(* configuration.  A command that does not fit is dropped, and its caller  *)
(* is told that all is well; a datagram that cannot be written is lost.    *)
(*                                                                         *)
(* The codec's mutex is held for one step and is not a variable.  Commands *)
(* are their kinds: nothing here depends on what else they carry.          *)
(***************************************************************************)
EXTENDS Integers, Sequences

CONSTANTS
    Threads,      \* threads that send commands
    App,          \* the one that runs ardrone_tool_update and sends the buffer
    Kinds,        \* commands sent alone
    Size,         \* the length of a command in the buffer
    BufferSize,   \* INTERNAL_BUFFER_SIZE
    MaxSequence   \* bound on the sequence numbers

AllKinds == Kinds \union {"CONFIG_IDS", "CONFIG"}

ASSUME KindsAssumption == Kinds \cap {"CONFIG_IDS", "CONFIG"} = {}
ASSUME ThreadsAssumption == App \in Threads /\ "none" \notin Threads
ASSUME SizeAssumption == Size \in [AllKinds -> Nat] /\ BufferSize \in Nat
ASSUME MaxSequenceAssumption == MaxSequence \in Nat

VARIABLES
    nb_sequence,  \* the last sequence number given
    at_mutex,     \* its holder, or "none"
    pc,           \* where each thread is: "out" of the setters, about to
                  \* "number" a command, about to "append" it
    command,      \* the command each thread is sending: kind and number
    buffer,       \* ATcodec_Message_Buffer
    used,         \* ATcodec_Message_len
    flushed       \* history: the last command that left the buffer

vars == <<nb_sequence, at_mutex, pc, command, buffer, used, flushed>>

Commands == [kind : AllKinds \union {"none"}, seq : Nat]

TypeOK ==
    /\ nb_sequence \in Nat
    /\ at_mutex \in Threads \union {"none"}
    /\ pc \in [Threads -> {"out", "number", "append"}]
    /\ command \in [Threads -> Commands]
    /\ buffer \in Seq(Commands)
    /\ used \in Nat
    /\ flushed \in Commands

Init ==
    /\ nb_sequence = 0
    /\ at_mutex = "none"
    /\ pc = [t \in Threads |-> "out"]
    /\ command = [t \in Threads |-> [kind |-> "none", seq |-> 0]]
    /\ buffer = <<>>
    /\ used = 0
    /\ flushed = [kind |-> "none", seq |-> 0]

\* A setter is called and takes at_mutex; an identified configuration begins
\* with the identifiers.
Call(t, kind) ==
    /\ pc[t] = "out" /\ nb_sequence + 2 <= MaxSequence
    /\ at_mutex = "none"
    /\ at_mutex' = t
    /\ pc' = [pc EXCEPT ![t] = "number"]
    /\ command' = [command EXCEPT ![t].kind = kind]
    /\ UNCHANGED <<nb_sequence, buffer, used, flushed>>

\* Mutant: the mutex is released before the codec is called.
NumberReleases(t) ==
    /\ pc[t] = "number"
    /\ nb_sequence' = nb_sequence + 1
    /\ command' = [command EXCEPT ![t].seq = nb_sequence + 1]
    /\ pc' = [pc EXCEPT ![t] = "append"]
    /\ at_mutex' = "none"
    /\ UNCHANGED <<buffer, used, flushed>>

\* ++nb_sequence
Number(t) ==
    /\ pc[t] = "number"
    /\ nb_sequence' = nb_sequence + 1
    /\ command' = [command EXCEPT ![t].seq = nb_sequence + 1]
    /\ pc' = [pc EXCEPT ![t] = "append"]
    /\ UNCHANGED <<at_mutex, buffer, used, flushed>>

\* Mutant: an overflow takes the size of the buffer off its length.
QueueUnsized(c) ==
    LET fits == used + Size[c.kind] < BufferSize
    IN  /\ buffer' = IF fits THEN Append(buffer, c) ELSE buffer
        /\ used' = IF fits THEN used + Size[c.kind] ELSE used - BufferSize

\* The codec appends the command when it fits.
Queue(c) ==
    LET fits == used + Size[c.kind] < BufferSize
    IN  /\ buffer' = IF fits THEN Append(buffer, c) ELSE buffer
        /\ used' = IF fits THEN used + Size[c.kind] ELSE used

\* Mutant: the mutex is released between the two commands.
AppendReleases(t) ==
    /\ pc[t] = "append"
    /\ Queue(command[t])
    /\ at_mutex' = "none"
    /\ pc' = [pc EXCEPT ![t] = IF command[t].kind = "CONFIG_IDS" THEN "number" ELSE "out"]
    /\ command' = [command EXCEPT ![t].kind = IF @ = "CONFIG_IDS" THEN "CONFIG" ELSE @]
    /\ UNCHANGED <<nb_sequence, flushed>>

\* The command is handed to the codec.  The identifiers are followed by the
\* configuration; after any other command at_mutex is released.
AppendCommand(t) ==
    /\ pc[t] = "append"
    /\ Queue(command[t])
    /\ IF command[t].kind = "CONFIG_IDS"
       THEN /\ pc' = [pc EXCEPT ![t] = "number"]
            /\ command' = [command EXCEPT ![t].kind = "CONFIG"]
            /\ UNCHANGED at_mutex
       ELSE /\ pc' = [pc EXCEPT ![t] = "out"]
            /\ at_mutex' = "none"
            /\ UNCHANGED command
    /\ UNCHANGED <<nb_sequence, flushed>>

\* ATcodec_Send_Messages by the application's loop: the datagram is written or
\* lost, the buffer is empty in both cases.
Send ==
    /\ pc[App] = "out" /\ buffer # <<>>
    /\ flushed' = buffer[Len(buffer)]
    /\ buffer' = <<>>
    /\ used' = 0
    /\ UNCHANGED <<nb_sequence, at_mutex, pc, command>>

Next ==
    \/ \E t \in Threads :
         \/ \E kind \in Kinds \union {"CONFIG_IDS"} : Call(t, kind)
         \/ Number(t)
         \/ AppendCommand(t)
    \/ Send

Spec == Init /\ [][Next]_vars

-----------------------------------------------------------------------------
(* Properties                                                              *)

\* The commands leave in the order of their sequence numbers, whatever thread
\* they come from and whatever was dropped or lost, so that a receiver that
\* takes only numbers above the last one it has seen ignores none of them.
SequenceOrder ==
    /\ \A i, j \in 1..Len(buffer) : i < j => buffer[i].seq < buffer[j].seq
    /\ \A i \in 1..Len(buffer) : flushed.seq < buffer[i].seq

\* A configuration directly follows its identifiers, in the same datagram or
\* as the first command of the next one, unless they were dropped: the number
\* before its own is never that of a command of another thread, which might
\* carry the identifiers of another request.
Previous(i) == IF i = 1 THEN flushed ELSE buffer[i - 1]
ConfigIdentified ==
    \A i \in 1..Len(buffer) :
        buffer[i].kind = "CONFIG" /\ Previous(i).seq = buffer[i].seq - 1
            => Previous(i).kind = "CONFIG_IDS"
=============================================================================
