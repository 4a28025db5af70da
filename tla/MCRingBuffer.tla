---------------------------- MODULE MCRingBuffer ----------------------------
(***************************************************************************)
(* RingBuffer for TLC: storages of 0 to MaxCap elements, sizes and offsets *)
(* up to one more than they hold, and slices of every length up to one     *)
(* more.  The elements of a slice alternate, so that one that lands in its *)
(* neighbour's cell is seen.                                               *)
(***************************************************************************)
EXTENDS RingBuffer

CONSTANTS a, b, MaxCap

MCCapacities == 0..MaxCap
MCElem == {a, b}
Alternating(n, x, y) == [i \in 1..n |-> IF i % 2 = 1 THEN x ELSE y]
MCSlices ==
    {Alternating(n, a, b) : n \in 0..(MaxCap + 1)} \cup {Alternating(n, b, a) : n \in 1..MaxCap}
MCCounts == 0..(MaxCap + 1)
=============================================================================
