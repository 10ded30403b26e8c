------------------------------ MODULE RxQueue -------------------------------
(***************************************************************************)
(* What the receive path of the Ethernet driver promises to the network    *)
(* stack: a bounded queue of frames.  A frame that was accepted is         *)
(* delivered once, unchanged and in the order of arrival.                  *)
(***************************************************************************)
EXTENDS Naturals, Sequences

CONSTANTS Data,         \* contents of a frame
          Capacity      \* frames the queue holds at most

VARIABLES queue,        \* accepted and not delivered
          out           \* contents of the frame delivered last

vars == <<queue, out>>

Init == queue = << >>

Accept == /\ Len(queue) < Capacity
          /\ \E d \in Data : queue' = Append(queue, d)
          /\ UNCHANGED out

Deliver == /\ queue # << >>
           /\ out' = Head(queue)
           /\ queue' = Tail(queue)

Next == Accept \/ Deliver

Spec == Init /\ [][Next]_vars
=============================================================================
