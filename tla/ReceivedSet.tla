---------------------------- MODULE ReceivedSet ----------------------------
(***************************************************************************)
(* What an assembler promises: it remembers which byte positions, counted  *)
(* from the front of the buffer, have been received, as long as they form  *)
(* at most MaxRuns runs.                                                   *)
(***************************************************************************)
EXTENDS Integers, FiniteSets

CONSTANTS MaxRuns,    \* the discontinuities that can be recorded
          Offsets,    \* the offsets a caller passes
          Sizes       \* the sizes a caller passes

VARIABLES received,   \* the positions received
          call,       \* the last call and its arguments: [op, offset, size]
          ret         \* what it returned: [ok, n]

Call(op, offset, size) == [op |-> op, offset |-> offset, size |-> size]
Ret(ok, n) == [ok |-> ok, n |-> n]

\* A maximal interval of positions is counted at its first one.
RunStarts(S) == {x \in S : x - 1 \notin S}

\* How many positions are present from 0 on, and S without them.
FrontSize(S) == CHOOSE n \in 0..Cardinality(S) : 0..(n - 1) \subseteq S /\ n \notin S
WithoutFront(S) == {x - FrontSize(S) : x \in {y \in S : y > FrontSize(S)}}

Range(offset, size) == offset..(offset + size - 1)
Fits(S) == Cardinality(RunStarts(S)) <= MaxRuns

Init == received = {} /\ call = Call("new", 0, 0) /\ ret = Ret(TRUE, 0)

Clear == call' = Call("clear", 0, 0) /\ received' = {} /\ ret' = Ret(TRUE, 0)

\* The range is recorded unless that would leave too many runs.
Add(offset, size) ==
    /\ call' = Call("add", offset, size)
    /\ LET S == received \cup Range(offset, size)
       IN /\ received' = IF Fits(S) THEN S ELSE received
          /\ ret' = Ret(Fits(S), 0)

RemoveFront ==
    /\ call' = Call("remove_front", 0, 0)
    /\ received' = WithoutFront(received)
    /\ ret' = Ret(TRUE, FrontSize(received))

\* The range is recorded and the front taken at once.  Only what is left is
\* limited, and a range at the front is always accepted.
AddThenRemoveFront(offset, size) ==
    /\ call' = Call("add_then_remove_front", offset, size)
    /\ LET S == received \cup Range(offset, size)
       IN IF offset = 0 \/ Fits(S)
          THEN received' = WithoutFront(S) /\ ret' = Ret(TRUE, FrontSize(S))
          ELSE ret' = Ret(FALSE, 0) /\ UNCHANGED received

Next ==
    \/ Clear
    \/ \E offset \in Offsets, size \in Sizes : Add(offset, size)
    \/ RemoveFront
    \/ \E offset \in Offsets, size \in Sizes : AddThenRemoveFront(offset, size)

Spec == Init /\ [][Next]_<<received, call, ret>>
=============================================================================
