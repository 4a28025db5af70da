-------------------------------- MODULE Fifo --------------------------------
(***************************************************************************)
(* What a ring buffer promises: a bounded first-in first-out queue, and    *)
(* behind its tail a line of spare cells that can be filled in any order   *)
(* before they are made part of the queue.  Cells only ever move from the  *)
(* front of `spare` to the back of `queue` and from the front of `queue`   *)
(* to the back of `spare`, so their number never changes.                  *)
(***************************************************************************)
EXTENDS Integers, Sequences

CONSTANTS Capacities, \* the numbers of cells a queue is created with
          Elem,       \* what a cell holds
          Slices,     \* the slices of elements a caller passes
          Counts      \* the sizes and offsets a caller passes

VARIABLES queue,      \* the allocated elements, oldest first
          spare,      \* the unallocated cells, the next one to allocate first
          call,       \* the last call and its arguments: [op, at, size, slice]
          ret         \* what it returned: [ok, n, data]

fvars == <<queue, spare, call, ret>>

Drop(s, n) == SubSeq(s, n + 1, Len(s))
Take(s, n) == SubSeq(s, 1, n)
Call(op, at, size, slice) == [op |-> op, at |-> at, size |-> size, slice |-> slice]
Ret(ok, n, data) == [ok |-> ok, n |-> n, data |-> data]

Capacity == Len(queue) + Len(spare)

\* Data put over the cells of s from cell offset + 1 on.
Overlay(s, offset, data) ==
    [k \in 1..Len(s) |-> IF k > offset /\ k <= offset + Len(data)
                         THEN data[k - offset] ELSE s[k]]

Init ==
    /\ queue = <<>>
    /\ \E n \in Capacities : spare \in [1..n -> Elem]
    /\ call = Call("new", 0, 0, <<>>)
    /\ ret = Ret(TRUE, 0, <<>>)

\* The queue is emptied; nothing is said of the order of the spare cells.
Clear ==
    /\ call'.op \in {"clear", "reset"}
    /\ ret' = Ret(TRUE, 0, <<>>)
    /\ queue' = <<>>
    /\ spare' \in [1..Capacity -> Elem]

\* One element is appended, unless there is no cell or the caller fails.
EnqueueOne(v, ok) ==
    /\ call' = Call("enqueue_one_with", 0, IF ok THEN 1 ELSE 0, <<v>>)
    /\ IF spare = <<>>
       THEN ret' = Ret(FALSE, 0, <<>>) /\ UNCHANGED <<queue, spare>>
       ELSE /\ ret' = Ret(TRUE, IF ok THEN 1 ELSE 0, <<>>)
            /\ IF ok THEN queue' = Append(queue, v) /\ spare' = Tail(spare)
                     ELSE spare' = Overlay(spare, 0, <<v>>) /\ UNCHANGED queue

\* The oldest element is handed over, unless there is none or the caller fails.
DequeueOne(ok) ==
    /\ call' = Call("dequeue_one_with", 0, IF ok THEN 1 ELSE 0, <<>>)
    /\ IF queue = <<>>
       THEN ret' = Ret(FALSE, 0, <<>>) /\ UNCHANGED <<queue, spare>>
       ELSE /\ ret' = Ret(TRUE, IF ok THEN 1 ELSE 0, <<Head(queue)>>)
            /\ IF ok THEN queue' = Tail(queue) /\ spare' = Append(spare, Head(queue))
                     ELSE UNCHANGED <<queue, spare>>

\* n elements of data are appended.  An empty queue may rearrange its cells.
Appended(data, n) ==
    /\ ret' = Ret(TRUE, n, <<>>)
    /\ queue' = queue \o Take(data, n)
    /\ IF queue = <<>> THEN spare' \in [1..(Capacity - n) -> Elem]
                       ELSE spare' = Drop(spare, n)

\* A contiguous append takes some of the data, and at least one element if it can.
EnqueueMany(data) ==
    /\ call' = Call("enqueue_many_with", 0, 0, data)
    /\ \E n \in 0..Len(data) :
          /\ n <= Len(spare)
          /\ data # <<>> /\ spare # <<>> => n > 0
          /\ Appended(data, n)

\* A slice append takes all the data that fits.
EnqueueSlice(data) ==
    /\ call' = Call("enqueue_slice", 0, 0, data)
    /\ Appended(data, IF Len(data) <= Len(spare) THEN Len(data) ELSE Len(spare))

Removed(n) ==
    /\ queue' = Drop(queue, n)
    /\ spare' = spare \o Take(queue, n)

\* A contiguous removal gives some elements, and at least one if it can.
DequeueMany(max) ==
    /\ call' = Call("dequeue_many_with", 0, max, <<>>)
    /\ \E n \in 0..max :
          /\ n <= Len(queue)
          /\ max > 0 /\ queue # <<>> => n > 0
          /\ ret' = Ret(TRUE, n, Take(queue, n))
          /\ Removed(n)

DequeueSlice(max) ==
    LET n == IF max <= Len(queue) THEN max ELSE Len(queue)
    IN /\ call' = Call("dequeue_slice", 0, max, <<>>)
       /\ ret' = Ret(TRUE, n, Take(queue, n))
       /\ Removed(n)

\* Data is put in spare cells; what does not fit is left out.
WriteUnallocated(offset, data) ==
    LET room == IF offset <= Len(spare) THEN Len(spare) - offset ELSE 0
        n == IF Len(data) <= room THEN Len(data) ELSE room
    IN /\ call' = Call("write_unallocated", offset, 0, data)
       /\ ret' = Ret(TRUE, n, <<>>)
       /\ spare' = Overlay(spare, offset, Take(data, n))
       /\ UNCHANGED queue

EnqueueUnallocated(count) ==
    /\ call' = Call("enqueue_unallocated", 0, count, <<>>)
    /\ count <= Len(spare)
    /\ ret' = Ret(TRUE, count, <<>>)
    /\ queue' = queue \o Take(spare, count)
    /\ spare' = Drop(spare, count)

ReadAllocated(offset, max) ==
    LET rest == IF offset <= Len(queue) THEN Drop(queue, offset) ELSE <<>>
        n == IF max <= Len(rest) THEN max ELSE Len(rest)
    IN /\ call' = Call("read_allocated", offset, max, <<>>)
       /\ ret' = Ret(TRUE, n, Take(rest, n))
       /\ UNCHANGED <<queue, spare>>

DequeueAllocated(count) ==
    /\ call' = Call("dequeue_allocated", 0, count, <<>>)
    /\ count <= Len(queue)
    /\ ret' = Ret(TRUE, count, <<>>)
    /\ Removed(count)

Next ==
    \/ Clear
    \/ \E v \in Elem, ok \in BOOLEAN : EnqueueOne(v, ok)
    \/ \E ok \in BOOLEAN : DequeueOne(ok)
    \/ \E data \in Slices : EnqueueMany(data) \/ EnqueueSlice(data)
    \/ \E max \in Counts : DequeueMany(max) \/ DequeueSlice(max)
    \/ \E offset \in Counts, data \in Slices : WriteUnallocated(offset, data)
    \/ \E count \in Counts : EnqueueUnallocated(count) \/ DequeueAllocated(count)
    \/ \E offset, max \in Counts : ReadAllocated(offset, max)

Spec == Init /\ [][Next]_fvars
=============================================================================
