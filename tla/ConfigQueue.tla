---------------------------- MODULE ConfigQueue ----------------------------
(***************************************************************************)
(* What the configuration manager promises to the rest of the program: a   *)
(* bounded first-in first-out queue of requests.  Only the oldest request  *)
(* is ever reported on; a failure report leaves it in place to be tried    *)
(* again, a success report removes it.                                     *)
(***************************************************************************)
EXTENDS Integers, Sequences

CONSTANTS Requests,   \* the requests the application may queue
          Capacity,   \* how many requests can be pending at once
          NoReport    \* value of report before the first result callback

VARIABLES pending,    \* the requests accepted and not yet successful, oldest first
          report      \* the last invocation of a result callback

queueVars == <<pending, report>>

Init == /\ pending = <<>>
        /\ report = NoReport

\* The application queues a request; a full queue refuses it.
Add(r) == /\ Len(pending) < Capacity
          /\ pending' = Append(pending, r)
          /\ UNCHANGED report

\* The oldest request took effect on the drone.
Succeed == /\ pending # <<>>
           /\ report' = [request |-> Head(pending), ok |-> TRUE]
           /\ pending' = Tail(pending)

\* The oldest request could not be carried out; it stays first in line.
Fail == /\ pending # <<>>
        /\ report' = [request |-> Head(pending), ok |-> FALSE]
        /\ UNCHANGED pending

Next == (\E r \in Requests : Add(r)) \/ Succeed \/ Fail

Spec == Init /\ [][Next]_queueVars
=============================================================================
