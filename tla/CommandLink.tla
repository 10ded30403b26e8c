---------------------------- MODULE CommandLink -----------------------------
(***************************************************************************)
(* What the KS8851 driver wants of the serial port beneath it: the         *)
(* commands of a call reach the chip one at a time, each as one transfer   *)
(* of the length the chip expects, and in the order they were issued.      *)
(***************************************************************************)
EXTENDS Sequences

CONSTANTS Commands,         \* what the chip can be told
          Bytes(_)          \* bytes of the transfer a command takes

VARIABLES todo,             \* commands issued and not yet carried out
          done              \* the command carried out last, and its bytes

vars == <<todo, done>>

Init == todo = << >>

Issue == /\ todo = << >>
         /\ todo' \in Seq(Commands) \ {<< >>}
         /\ UNCHANGED done

CarryOut == /\ todo # << >>
            /\ done' = [cmd |-> Head(todo), bytes |-> Bytes(Head(todo))]
            /\ todo' = Tail(todo)

Next == Issue \/ CarryOut

Spec == Init /\ [][Next]_vars
=============================================================================
