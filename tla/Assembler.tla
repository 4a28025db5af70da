------------------------------ MODULE Assembler ------------------------------
(***************************************************************************)
(* storage/assembler.rs: one assembler and every call on it, in any order. *)
(* TCP sockets track out of order segments with it, and the interface the  *)
(* fragments of a packet.                                                  *)
(***************************************************************************)
EXTENDS AssemblerOps

CONSTANTS MaxSegmentCount,   \* ASSEMBLER_MAX_SEGMENT_COUNT
          Offsets, Sizes,    \* the arguments a caller passes
          MaxSpan            \* bound: no range ends beyond this position

ASSUME AssemblerAssumption ==
    /\ MaxSegmentCount \in Nat \ {0}
    /\ Offsets \subseteq Nat
    /\ Sizes \subseteq Nat
    /\ MaxSpan \in Nat

VARIABLES contigs,
          call,              \* the last call and its arguments: [op, offset, size]
          ret                \* what it returned: [ok, n]

vars == <<contigs, call, ret>>

Call(op, offset, size) == [op |-> op, offset |-> offset, size |-> size]

Init ==
    /\ contigs = new_contigs(MaxSegmentCount)
    /\ call = Call("new", 0, 0)
    /\ ret = [ok |-> TRUE, n |-> 0]

\* An operation leaves the contigs and the return value of its result.
Apply(result) ==
    /\ contigs' = result.contigs
    /\ ret' = [ok |-> result.ok, n |-> result.n]

Clear ==
    /\ call' = Call("clear", 0, 0)
    /\ Apply(Result(TRUE, 0, new_contigs(MaxSegmentCount)))

Add(offset, size) ==
    /\ offset + size <= MaxSpan
    /\ call' = Call("add", offset, size)
    /\ Apply(add(contigs, offset, size))

RemoveFront ==
    /\ call' = Call("remove_front", 0, 0)
    /\ Apply(remove_front(contigs))

AddThenRemoveFront(offset, size) ==
    /\ offset + size <= MaxSpan
    /\ call' = Call("add_then_remove_front", offset, size)
    /\ Apply(add_then_remove_front(contigs, offset, size))

Next ==
    \/ Clear
    \/ \E offset \in Offsets, size \in Sizes : Add(offset, size)
    \/ RemoveFront
    \/ \E offset \in Offsets, size \in Sizes : AddThenRemoveFront(offset, size)

Spec == Init /\ [][Next]_vars
-----------------------------------------------------------------------------
(***************************************************************************)
(* Properties.                                                             *)
(***************************************************************************)
\* The comment above `impl Assembler`: the contigs with data come first, the
\* unused ones are empty, and only the first may have no hole before its data.
RepresentationOK ==
    /\ contigs \in [1..MaxSegmentCount -> [hole_size : Nat, data_size : Nat]]
    /\ \A i \in DOMAIN contigs :
         /\ ~has_data(contigs[i]) => \A j \in i..Len(contigs) : contigs[j] = Empty
         /\ i > 1 /\ has_data(contigs[i]) => has_hole(contigs[i])

\* The positions the contigs say were received.
Received ==
    UNION {LET left == SpanOf(contigs, 1, i - 1) + contigs[i].hole_size
           IN left..(left + contigs[i].data_size - 1) : i \in DOMAIN contigs}

\* Every call records, reports and removes exactly the received positions,
\* and refuses a range only when it would leave more runs than there are
\* contigs; a segment at offset 0 is never refused by add_then_remove_front.
S == INSTANCE ReceivedSet WITH received <- Received, MaxRuns <- MaxSegmentCount
RecordsReceivedSet == S!Spec

\* iter_data yields, in order, the maximal runs of the received positions
\* (the ranges a TCP socket reports in its SACK option).
IterYieldsRuns ==
    LET yielded == iter_data(contigs, 0)
    IN /\ \A k \in 2..Len(yielded) : yielded[k - 1][2] < yielded[k][1]
       /\ {yielded[k][1] : k \in DOMAIN yielded} = S!RunStarts(Received)
       /\ UNION {yielded[k][1]..(yielded[k][2] - 1) : k \in DOMAIN yielded} = Received
=============================================================================
