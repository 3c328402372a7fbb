----------------------------- MODULE PowersOfTwo -----------------------------
(***************************************************************************)
(* What both queues make of the size they are asked for: the powers of two *)
(* and the rounding up to one.                                             *)
(***************************************************************************)
EXTENDS Naturals

pow2[i \in Nat] == IF i = 0 THEN 1 ELSE 2 * pow2[i - 1]

CeilToPow2(x) == CHOOSE p \in {pow2[i] : i \in 0 .. x} :
                    p >= x /\ \A q \in {pow2[i] : i \in 0 .. x} : q >= x => p <= q
=============================================================================
