----------------------------- MODULE PacketPool -----------------------------
(***************************************************************************)
(* What drv/drv_eth.c promises of its packet heap, without the linked      *)
(* list: free packets are handed out oldest first, a packet is held by one *)
(* caller at a time, and giving back a packet nobody holds is refused.     *)
(*                                                                         *)
(* One clause is not what one would wish for.  The driver keeps the list   *)
(* head in next_alloc_item, and a free never sets that head: a pool that   *)
(* was drained once hands out nothing any more, whatever is given back.    *)
(* The abstract pool states it openly (Free appends to a queue that is not *)
(* empty), so that a user of the pool knows to keep one packet unused.     *)
(***************************************************************************)
EXTENDS Sequences

CONSTANTS Items,    \* the packets
          NULL,     \* what an allocation that finds nothing returns
          FAILURE, SUCCESS

VARIABLES queue,    \* the packets an allocation can reach, oldest first
          held,     \* the packets the callers hold
          result    \* what the last call returned

vars == <<queue, held, result>>

Init == /\ queue \in Seq(Items)
        /\ queue # << >>
        /\ held = {}
        /\ result = SUCCESS

Alloc == /\ queue # << >>
         /\ queue' = Tail(queue)
         /\ held' = held \cup {Head(queue)}
         /\ result' = Head(queue)

AllocNone == /\ queue = << >>
             /\ result' = NULL
             /\ UNCHANGED <<queue, held>>

Free(p) == /\ p \in held
           /\ held' = held \ {p}
           /\ queue' = IF queue = << >> THEN queue ELSE Append(queue, p)
           /\ result' = SUCCESS

FreeRefused == /\ result' = FAILURE
               /\ UNCHANGED <<queue, held>>

Next == Alloc \/ AllocNone \/ FreeRefused \/ \E p \in Items : Free(p)

Spec == Init /\ [][Next]_vars
=============================================================================
