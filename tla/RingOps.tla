------------------------------- MODULE RingOps -------------------------------
(***************************************************************************)
(* The operations of storage/ring_buffer.rs as operators on a ring value.  *)
(*                                                                         *)
(* A ring is a record [cap, read_at, length, storage]: `storage` is the    *)
(* fixed slice (a function on 0..cap-1), `read_at` the slot of the oldest  *)
(* allocated element and `length` the number of allocated elements.  The   *)
(* allocated elements are followed, circularly, by the unallocated ones.   *)
(* An operation that takes a closure in the code takes here the elements   *)
(* the closure writes, or the number of elements it consumes.  Operators   *)
(* in snake_case have the name of the function they model.                 *)
(***************************************************************************)
EXTENDS Integers, Sequences

\* cmp::min
Min2(a, b) == IF a <= b THEN a ELSE b

\* Rings of capacity n over the elements E.
Ring(n, E) == [cap : {n}, read_at : Nat, length : 0..n, storage : [0..n-1 -> E]]

\* Self::new: an empty ring over the slice it is given.
new(slice, n) == [cap |-> n, read_at |-> 0, length |-> 0, storage |-> slice]

clear(r) == [r EXCEPT !.read_at = 0, !.length = 0]

\* clear, and every element becomes the reset value z.
reset(r, z) == [clear(r) EXCEPT !.storage = [k \in DOMAIN @ |-> z]]

window(r) == r.cap - r.length
is_empty(r) == r.length = 0
is_full(r) == window(r) = 0

\* The slot idx places after the oldest allocated element.
get_idx(r, idx) == IF r.cap > 0 THEN (r.read_at + idx) % r.cap ELSE 0

contiguous_window(r) == Min2(window(r), r.cap - get_idx(r, r.length))

\* copy_from_slice: the slots at, at+1, ... hold `data`.
Copied(storage, at, data) ==
    [k \in DOMAIN storage |->
        IF k >= at /\ k < at + Len(data) THEN data[k - at + 1] ELSE storage[k]]

\* &storage[at .. at + n], as a sequence.
Slice(storage, at, n) == [k \in 1..n |-> storage[at + k - 1]]
-----------------------------------------------------------------------------
(***************************************************************************)
(* The discrete interface.  The closure writes v and then succeeds (ok) or *)
(* fails; only a success is enqueued.                                      *)
(***************************************************************************)
enqueue_one_with(r, v, ok) ==
    [r EXCEPT !.storage = Copied(@, get_idx(r, r.length), <<v>>),
              !.length = IF ok THEN @ + 1 ELSE @]

\* Mutant: the slot of the next element is not taken modulo the capacity.
dequeue_one_without_wrap(r, ok) ==
    IF ok THEN [r EXCEPT !.length = @ - 1, !.read_at = @ + 1] ELSE r

dequeue_one_with(r, ok) ==
    IF ok THEN [r EXCEPT !.length = @ - 1, !.read_at = get_idx(r, 1)] ELSE r
-----------------------------------------------------------------------------
(***************************************************************************)
(* The continuous interface.                                               *)
(***************************************************************************)
\* The first thing enqueue_many_with does: an empty ring starts over at 0.
Rewound(r) == IF r.length = 0 THEN [r EXCEPT !.read_at = 0] ELSE r

\* How many elements of an n element slice one enqueue_many_with call takes.
enqueue_many_size(r, n) == Min2(n, contiguous_window(Rewound(r)))

\* enqueue_many: the elements are enqueued as they are, for the caller to fill.
enqueue_many(r, n) ==
    [Rewound(r) EXCEPT !.length = @ + enqueue_many_size(r, n)]

\* enqueue_many_with, the closure (or the caller of enqueue_many) writing data.
enqueue_many_with(r, data) ==
    LET q == Rewound(r)
        size == enqueue_many_size(r, Len(data))
    IN [q EXCEPT !.storage = Copied(@, get_idx(q, q.length), SubSeq(data, 1, size)),
                 !.length = @ + size]

\* Two calls, the second one for the part past the end of the storage.
enqueue_slice(r, data) ==
    LET size == enqueue_many_size(r, Len(data))
    IN enqueue_many_with(enqueue_many_with(r, data), SubSeq(data, size + 1, Len(data)))

dequeue_many_size(r, n) == Min2(n, Min2(r.length, r.cap - r.read_at))

dequeue_many_with(r, n) ==
    LET size == dequeue_many_size(r, n)
    IN [r EXCEPT !.read_at = get_idx(r, size), !.length = @ - size]

dequeue_slice(r, n) ==
    LET size == dequeue_many_size(r, n)
    IN dequeue_many_with(dequeue_many_with(r, n), n - size)

\* What dequeue_slice copies out, and so how many elements it returns.
dequeue_slice_data(r, n) ==
    LET size == dequeue_many_size(r, n)
        q == dequeue_many_with(r, n)
    IN Slice(r.storage, r.read_at, size)
         \o Slice(q.storage, q.read_at, dequeue_many_size(q, n - size))
-----------------------------------------------------------------------------
(***************************************************************************)
(* The random access interface.                                            *)
(***************************************************************************)
\* The length of the slice get_unallocated(offset, size) returns.
get_unallocated_size(r, offset, size) ==
    IF offset > window(r) THEN 0
    ELSE Min2(Min2(size, window(r) - offset), r.cap - get_idx(r, r.length + offset))

\* One copy into get_unallocated(offset, data.len()).
WrittenAt(r, offset, data) ==
    LET size == get_unallocated_size(r, offset, Len(data))
    IN [r EXCEPT !.storage =
            Copied(@, get_idx(r, r.length + offset), SubSeq(data, 1, size))]

\* Mutant: the second piece is written at the caller's offset again.
write_unallocated_same_offset(r, offset, data) ==
    LET size == get_unallocated_size(r, offset, Len(data))
    IN WrittenAt(WrittenAt(r, offset, data), offset, SubSeq(data, size + 1, Len(data)))

write_unallocated(r, offset, data) ==
    LET size == get_unallocated_size(r, offset, Len(data))
    IN WrittenAt(WrittenAt(r, offset, data), offset + size,
                 SubSeq(data, size + 1, Len(data)))

write_unallocated_size(r, offset, n) ==
    LET size == get_unallocated_size(r, offset, n)
    IN size + get_unallocated_size(r, offset + size, n - size)

enqueue_unallocated(r, count) == [r EXCEPT !.length = @ + count]

get_allocated_size(r, offset, size) ==
    IF offset > r.length THEN 0
    ELSE Min2(Min2(size, r.length - offset), r.cap - get_idx(r, offset))

get_allocated(r, offset, size) ==
    Slice(r.storage, get_idx(r, offset), get_allocated_size(r, offset, size))

read_allocated(r, offset, n) ==
    LET size == get_allocated_size(r, offset, n)
    IN get_allocated(r, offset, n) \o get_allocated(r, offset + size, n - size)

dequeue_allocated(r, count) ==
    [r EXCEPT !.length = @ - count, !.read_at = get_idx(r, count)]
=============================================================================
