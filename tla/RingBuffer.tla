----------------------------- MODULE RingBuffer -----------------------------
(***************************************************************************)
(* storage/ring_buffer.rs: one ring buffer and every call that can be made *)
(* on it, in any order.  The calls that panic are made only where their    *)
(* documented precondition holds.                                          *)
(***************************************************************************)
EXTENDS RingOps

CONSTANTS Capacities, \* the lengths of the storage a ring is created over
          Elem,       \* the elements
          Zero,       \* the element Resettable::reset leaves
          Slices,     \* the slices a caller passes
          Counts      \* the sizes and offsets a caller passes

ASSUME RingAssumption ==
    /\ Capacities \subseteq Nat
    /\ Zero \in Elem
    /\ Slices \subseteq Seq(Elem)
    /\ Counts \subseteq Nat

VARIABLES ring,       \* the buffer
          call,       \* the last call and its arguments: [op, at, size, slice]
          ret         \* what it returned: [ok, n, data]

vars == <<ring, call, ret>>

\* The calls, named as in the code.
Ops == {"new", "clear", "reset", "enqueue_one_with", "dequeue_one_with",
        "enqueue_many_with", "enqueue_slice", "dequeue_many_with", "dequeue_slice",
        "write_unallocated", "enqueue_unallocated", "read_allocated", "dequeue_allocated"}

Call(op, at, size, slice) == [op |-> op, at |-> at, size |-> size, slice |-> slice]
Ret(ok, n, data) == [ok |-> ok, n |-> n, data |-> data]

Init ==
    /\ \E n \in Capacities : \E slice \in [0..n-1 -> Elem] : ring = new(slice, n)
    /\ call = Call("new", 0, 0, <<>>)
    /\ ret = Ret(TRUE, 0, <<>>)

Clear ==
    /\ call' = Call("clear", 0, 0, <<>>)
    /\ ring' = clear(ring)
    /\ ret' = Ret(TRUE, 0, <<>>)

Reset ==
    /\ call' = Call("reset", 0, 0, <<>>)
    /\ ring' = reset(ring, Zero)
    /\ ret' = Ret(TRUE, 0, <<>>)

\* The caller's closure writes v and returns Ok (ok) or Err.
EnqueueOneWith(v, ok) ==
    /\ call' = Call("enqueue_one_with", 0, IF ok THEN 1 ELSE 0, <<v>>)
    /\ IF is_full(ring)
       THEN ret' = Ret(FALSE, 0, <<>>) /\ UNCHANGED ring
       ELSE /\ ring' = enqueue_one_with(ring, v, ok)
            /\ ret' = Ret(TRUE, IF ok THEN 1 ELSE 0, <<>>)

\* The caller's closure is shown the oldest element and returns Ok or Err.
DequeueOneWith(ok) ==
    /\ call' = Call("dequeue_one_with", 0, IF ok THEN 1 ELSE 0, <<>>)
    /\ IF is_empty(ring)
       THEN ret' = Ret(FALSE, 0, <<>>) /\ UNCHANGED ring
       ELSE /\ ring' = dequeue_one_with(ring, ok)
            /\ ret' = Ret(TRUE, IF ok THEN 1 ELSE 0, <<ring.storage[ring.read_at]>>)

\* enqueue_many: as much of data as is contiguous.
EnqueueManyWith(data) ==
    /\ call' = Call("enqueue_many_with", 0, 0, data)
    /\ ring' = enqueue_many_with(ring, data)
    /\ ret' = Ret(TRUE, enqueue_many_size(ring, Len(data)), <<>>)

EnqueueSlice(data) ==
    /\ call' = Call("enqueue_slice", 0, 0, data)
    /\ ring' = enqueue_slice(ring, data)
    /\ ret' = Ret(TRUE, ring'.length - ring.length, <<>>)

DequeueManyWith(max) ==
    LET size == dequeue_many_size(ring, max)
    IN /\ call' = Call("dequeue_many_with", 0, max, <<>>)
       /\ ring' = dequeue_many_with(ring, max)
       /\ ret' = Ret(TRUE, size, Slice(ring.storage, ring.read_at, size))

DequeueSlice(max) ==
    /\ call' = Call("dequeue_slice", 0, max, <<>>)
    /\ ring' = dequeue_slice(ring, max)
    /\ ret' = Ret(TRUE, Len(dequeue_slice_data(ring, max)), dequeue_slice_data(ring, max))

WriteUnallocated(offset, data) ==
    /\ call' = Call("write_unallocated", offset, 0, data)
    /\ ring' = write_unallocated(ring, offset, data)
    /\ ret' = Ret(TRUE, write_unallocated_size(ring, offset, Len(data)), <<>>)

EnqueueUnallocated(count) ==
    /\ call' = Call("enqueue_unallocated", 0, count, <<>>)
    /\ count <= window(ring)
    /\ ring' = enqueue_unallocated(ring, count)
    /\ ret' = Ret(TRUE, count, <<>>)

ReadAllocated(offset, max) ==
    /\ call' = Call("read_allocated", offset, max, <<>>)
    /\ ret' = Ret(TRUE, Len(read_allocated(ring, offset, max)),
                  read_allocated(ring, offset, max))
    /\ UNCHANGED ring

DequeueAllocated(count) ==
    /\ call' = Call("dequeue_allocated", 0, count, <<>>)
    /\ count <= ring.length
    /\ ring' = dequeue_allocated(ring, count)
    /\ ret' = Ret(TRUE, count, <<>>)

Next ==
    \/ Clear
    \/ Reset
    \/ \E v \in Elem, ok \in BOOLEAN : EnqueueOneWith(v, ok)
    \/ \E ok \in BOOLEAN : DequeueOneWith(ok)
    \/ \E data \in Slices : EnqueueManyWith(data)
    \/ \E data \in Slices : EnqueueSlice(data)
    \/ \E max \in Counts : DequeueManyWith(max)
    \/ \E max \in Counts : DequeueSlice(max)
    \/ \E offset \in Counts, data \in Slices : WriteUnallocated(offset, data)
    \/ \E count \in Counts : EnqueueUnallocated(count)
    \/ \E offset, max \in Counts : ReadAllocated(offset, max)
    \/ \E count \in Counts : DequeueAllocated(count)

Spec == Init /\ [][Next]_vars
-----------------------------------------------------------------------------
(***************************************************************************)
(* Properties.                                                             *)
(***************************************************************************)
\* The elements a reader would get, oldest first, and the cells behind them.
Queue == [i \in 1..ring.length |-> ring.storage[get_idx(ring, i - 1)]]
Spare == [i \in 1..window(ring) |-> ring.storage[get_idx(ring, ring.length + i - 1)]]

\* `read_at` is a slot of the storage and `length` at most its size: no slice
\* expression of the module, nor `window`'s subtraction, is out of range.
TypeOK ==
    /\ ring.cap \in Capacities
    /\ ring \in Ring(ring.cap, Elem)
    /\ ring.read_at < ring.cap \/ ring.read_at = 0
    /\ call \in [op : Ops, at : Nat, size : Nat, slice : Seq(Elem)]
    /\ ret \in [ok : BOOLEAN, n : Nat, data : Seq(Elem)]

\* Every call behaves, in its effect and in what it returns, as a call of a
\* bounded FIFO with randomly writable spare cells: the wrap around of the
\* storage and the split of a copy in two are not observable.
F == INSTANCE Fifo WITH queue <- Queue, spare <- Spare
ImplementsFifo == F!Spec
=============================================================================
