----------------------------- MODULE LowestFit ------------------------------
(***************************************************************************)
(* What src/sys/heap/sys_heap.c promises its callers, without blocks and   *)
(* descriptors: the storage is a range of addresses, the allocations in    *)
(* use are disjoint pieces of it, a request gets the lowest free piece of  *)
(* its size, and it is refused only if no free piece is large enough.      *)
(***************************************************************************)
EXTENDS Integers

CONSTANTS Start, End,       \* the storage is Start .. End - 1
          Lengths,          \* lengths that are asked for
          NULL, SUCCESS, FAILURE

VARIABLES inUse,            \* the allocations: records [addr, len]
          result            \* what the last call returned

vars == <<inUse, result>>

Disjoint(a, len, s) == a + len <= s.addr \/ s.addr + s.len <= a

Free(a, len) == a + len <= End /\ \A s \in inUse : Disjoint(a, len, s)
Gaps(len)    == {a \in Start .. End : Free(a, len)}

Init == inUse = {} /\ result = SUCCESS

Alloc(len) ==
  \E a \in Gaps(len) :
    /\ \A b \in Gaps(len) : a <= b
    /\ inUse' = inUse \cup {[addr |-> a, len |-> len]}
    /\ result' = a

AllocRefused(len) == /\ Gaps(len) = {}
                     /\ result' = NULL
                     /\ UNCHANGED inUse

Release(s) == /\ inUse' = inUse \ {s}
              /\ result' = SUCCESS

\* A pointer that is no allocation in use may be refused or ignored.
ReleaseNothing == /\ result' \in {SUCCESS, FAILURE}
                  /\ UNCHANGED inUse

Next == \/ \E len \in Lengths : Alloc(len) \/ AllocRefused(len)
        \/ \E s \in inUse : Release(s)
        \/ ReleaseNothing

Spec == Init /\ [][Next]_vars
=============================================================================
