-------------------------- MODULE MCPowerHandoff --------------------------
(***************************************************************************)
(* The power driver with the currents of the bits of CHARGE_4P2_ILIMIT.    *)
(***************************************************************************)
EXTENDS PowerHandoff

\* In mA, from bit 0.
MCCurrents == [i \in 0 .. 5 |-> CASE i = 0 -> 10 [] i = 1 -> 20 [] i = 2 -> 50
                                  [] i = 3 -> 100 [] i = 4 -> 200 [] OTHER -> 400]
=============================================================================
