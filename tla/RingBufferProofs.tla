-------------------------- MODULE RingBufferProofs --------------------------
(***************************************************************************)
(* Proofs about RingBuffer for storages of every size and slices of every  *)
(* length.  The argument is per operator of RingOps: each one keeps a ring *)
(* well formed, and each action applies one or two of them.                *)
(***************************************************************************)
EXTENDS RingBuffer, SequenceTheorems, TLAPS

\* A well formed ring of capacity n: what TypeOK says of the variable `ring`.
RingOK(r, n) ==
    /\ n \in Nat
    /\ r \in Ring(n, Elem)
    /\ r.read_at < n \/ r.read_at = 0

\* Index arithmetic: the remainder of a number below twice the capacity.
LEMMA ModSplit ==
    ASSUME NEW n \in Nat, n > 0, NEW x \in Nat, x < 2 * n
    PROVE x % n = IF x < n THEN x ELSE x - n
  OBVIOUS

\* A remainder is an index.
LEMMA ModRange ==
    ASSUME NEW n \in Nat, n > 0, NEW x \in Nat
    PROVE x % n \in Nat /\ x % n < n
  OBVIOUS

\* get_idx returns a slot of the storage, or 0 when there is none.
LEMMA GetIdxRange ==
    ASSUME NEW n, NEW r, RingOK(r, n), NEW i \in Nat
    PROVE /\ get_idx(r, i) \in Nat
          /\ get_idx(r, i) < n \/ (n = 0 /\ get_idx(r, i) = 0)
  BY ModRange DEF get_idx, RingOK, Ring

\* copy_from_slice into the storage leaves a storage of the same shape.
LEMMA CopiedType ==
    ASSUME NEW n \in Nat, NEW st \in [0..n-1 -> Elem], NEW at \in Nat, NEW d \in Seq(Elem)
    PROVE Copied(st, at, d) \in [0..n-1 -> Elem]
  <1>1. SUFFICES ASSUME NEW k \in 0..n-1, k >= at, k < at + Len(d)
                 PROVE d[k - at + 1] \in Elem
    BY DEF Copied
  <1>2. k - at + 1 \in 1..Len(d)
    BY <1>1, LenProperties
  <1>3. QED
    BY <1>2, ElementOfSeq

\* A slice of the storage is a sequence of elements.
LEMMA SliceType ==
    ASSUME NEW n, NEW r, RingOK(r, n), NEW at \in Nat, NEW m \in Nat, at + m <= n
    PROVE Slice(r.storage, at, m) \in Seq(Elem) /\ Len(Slice(r.storage, at, m)) = m
  <1>1. \A k \in 1..m : r.storage[at + k - 1] \in Elem
    BY DEF RingOK, Ring
  <1>2. Slice(r.storage, at, m) \in [1..m -> Elem]
    BY <1>1 DEF Slice
  <1>3. QED
    BY <1>2, SeqDef, LenProperties

\* The first and the last elements of a slice.
LEMMA PartType ==
    ASSUME NEW d \in Seq(Elem), NEW n \in Nat, n <= Len(d)
    PROVE /\ SubSeq(d, 1, n) \in Seq(Elem) /\ Len(SubSeq(d, 1, n)) = n
          /\ SubSeq(d, n + 1, Len(d)) \in Seq(Elem)
          /\ Len(SubSeq(d, n + 1, Len(d))) = Len(d) - n
  BY SubSeqProperties, LenProperties

\* A ring whose fields are replaced by values in range is well formed.
LEMMA UpdateOK ==
    ASSUME NEW n, NEW r, RingOK(r, n), NEW at \in Nat, at < n \/ at = 0,
           NEW len \in 0..n, NEW st \in [0..n-1 -> Elem]
    PROVE /\ RingOK([r EXCEPT !.read_at = at], n)
          /\ RingOK([r EXCEPT !.length = len], n)
          /\ RingOK([r EXCEPT !.storage = st], n)
          /\ RingOK([r EXCEPT !.read_at = at, !.length = len], n)
          /\ RingOK([r EXCEPT !.length = len, !.read_at = at], n)
          /\ RingOK([r EXCEPT !.storage = st, !.length = len], n)
  BY Zenon DEF RingOK, Ring

\* clear, reset and rewinding an empty ring keep it well formed.
LEMMA ClearOK ==
    ASSUME NEW n, NEW r, RingOK(r, n)
    PROVE RingOK(clear(r), n) /\ RingOK(reset(r, Zero), n) /\ RingOK(Rewound(r), n)
  <1>1. RingOK(clear(r), n) /\ RingOK(Rewound(r), n)
    <2>1. 0 \in 0..n
      BY DEF RingOK
    <2>2. QED
      BY <2>1, UpdateOK, Zenon DEF RingOK, Ring, clear, Rewound
  <1>2. RingOK(reset(r, Zero), n)
    <2> DEFINE st == [k \in DOMAIN clear(r).storage |-> Zero]
    <2>1. st \in [0..n-1 -> Elem]
      BY <1>1, RingAssumption DEF RingOK, Ring
    <2>2. reset(r, Zero) = [clear(r) EXCEPT !.storage = st]
      BY DEF reset
    <2> HIDE DEF st
    <2>3. QED
      BY <1>1, <2>1, <2>2, SMTT(30) DEF RingOK, Ring
  <1>3. QED
    BY <1>1, <1>2

\* The discrete interface keeps the ring well formed.
LEMMA OneOK ==
    ASSUME NEW n, NEW r, RingOK(r, n), NEW v \in Elem, NEW ok \in BOOLEAN
    PROVE /\ ~is_full(r) => RingOK(enqueue_one_with(r, v, ok), n)
          /\ ~is_empty(r) => RingOK(dequeue_one_with(r, ok), n)
  <1> USE DEF RingOK, Ring
  <1>1. ASSUME ~is_full(r) PROVE RingOK(enqueue_one_with(r, v, ok), n)
    <2> DEFINE at == get_idx(r, r.length)
               st == Copied(r.storage, at, <<v>>)
               len == IF ok THEN r.length + 1 ELSE r.length
    <2>1. at \in Nat /\ <<v>> \in Seq(Elem)
      BY GetIdxRange
    <2>2. st \in [0..n-1 -> Elem]
      BY <2>1, CopiedType, Zenon
    <2>3. len \in 0..n
      BY <1>1 DEF is_full, window
    <2>4. enqueue_one_with(r, v, ok) = [r EXCEPT !.storage = st, !.length = len]
      BY SMTT(30) DEF enqueue_one_with
    <2> HIDE DEF st, len
    <2>5. QED
      BY <2>2, <2>3, <2>4, Zenon
  <1>2. ASSUME ~is_empty(r) PROVE RingOK(dequeue_one_with(r, ok), n)
    <2>1. get_idx(r, 1) \in Nat /\ (get_idx(r, 1) < n \/ get_idx(r, 1) = 0)
      BY GetIdxRange
    <2>2. r.length - 1 \in 0..n
      BY <1>2 DEF is_empty
    <2>3. QED
      BY <2>1, <2>2, UpdateOK, Zenon DEF dequeue_one_with
  <1>3. QED
    BY <1>1, <1>2

\* What one contiguous enqueue takes is in the slice, free, and contiguous.
LEMMA EnqueueManySize ==
    ASSUME NEW n, NEW r, RingOK(r, n), NEW m \in Nat
    PROVE /\ enqueue_many_size(r, m) \in 0..m
          /\ enqueue_many_size(r, m) <= n - Rewound(r).length
          /\ get_idx(Rewound(r), Rewound(r).length) + enqueue_many_size(r, m) <= n
  <1> DEFINE q == Rewound(r)
  <1>1. RingOK(q, n)
    BY ClearOK
  <1> HIDE DEF q
  <1>2. get_idx(q, q.length) \in Nat /\ get_idx(q, q.length) <= n
    <2>1. q.length \in Nat /\ n \in Nat
      BY <1>1 DEF RingOK, Ring
    <2>2. QED
      BY <1>1, <2>1, GetIdxRange
  <1>3. enqueue_many_size(r, m) = Min2(m, Min2(n - q.length, n - get_idx(q, q.length)))
    BY <1>1 DEF enqueue_many_size, contiguous_window, window, q, RingOK, Ring
  <1>4. PICK g \in Nat : g = get_idx(q, q.length) /\ g <= n
    BY <1>2
  <1>5. PICK l \in Nat : l = q.length /\ l <= n /\ n \in Nat
    BY <1>1 DEF RingOK, Ring
  <1>6. PICK e : e = enqueue_many_size(r, m) /\ e = Min2(m, Min2(n - l, n - g))
    BY <1>3, <1>4, <1>5, Zenon
  <1>7. e \in 0..m /\ e <= n - l /\ g + e <= n
    BY <1>4, <1>5, <1>6 DEF Min2
  <1>8. QED
    BY <1>4, <1>5, <1>6, <1>7, Zenon DEF q

\* enqueue_many_with and enqueue_slice keep the ring well formed.
LEMMA EnqueueOK ==
    ASSUME NEW n, NEW r, RingOK(r, n), NEW d \in Seq(Elem)
    PROVE RingOK(enqueue_many_with(r, d), n) /\ RingOK(enqueue_slice(r, d), n)
  <1>1. ASSUME NEW r1, RingOK(r1, n), NEW d1 \in Seq(Elem)
        PROVE RingOK(enqueue_many_with(r1, d1), n)
    <2> DEFINE q == Rewound(r1)
               size == enqueue_many_size(r1, Len(d1))
               st == Copied(q.storage, get_idx(q, q.length), SubSeq(d1, 1, size))
               len == q.length + size
    <2>1. RingOK(q, n)
      BY <1>1, ClearOK
    <2>2. size \in 0..Len(d1) /\ size <= n - q.length
      BY <1>1, EnqueueManySize, LenProperties
    <2>3. SubSeq(d1, 1, size) \in Seq(Elem)
      BY <1>1, <2>2, PartType, LenProperties
    <2>4. q.length \in Nat /\ get_idx(q, q.length) \in Nat
      <3> HIDE DEF q
      <3>1. q.length \in Nat
        BY <2>1 DEF RingOK, Ring
      <3>2. QED
        BY <2>1, <3>1, GetIdxRange, Zenon
    <2>5. st \in [0..n-1 -> Elem]
      BY <2>1, <2>3, <2>4, CopiedType, Zenon DEF RingOK, Ring
    <2>6. len \in 0..n
      BY <2>1, <2>2, LenProperties, SMTT(30) DEF RingOK, Ring
    <2>7. enqueue_many_with(r1, d1) = [q EXCEPT !.storage = st, !.length = len]
      BY DEF enqueue_many_with
    <2> HIDE DEF q, st, len
    <2>8. QED
      BY <2>1, <2>5, <2>6, <2>7, Zenon DEF RingOK, Ring
  <1>2. RingOK(enqueue_many_with(r, d), n)
    BY <1>1
  <1>3. SubSeq(d, enqueue_many_size(r, Len(d)) + 1, Len(d)) \in Seq(Elem)
    BY EnqueueManySize, PartType, LenProperties
  <1>4. QED
    BY <1>1, <1>2, <1>3, Zenon DEF enqueue_slice

\* What one contiguous dequeue takes is allocated and contiguous.
LEMMA DequeueManySize ==
    ASSUME NEW n, NEW r, RingOK(r, n), NEW m \in Nat
    PROVE /\ dequeue_many_size(r, m) \in 0..m
          /\ dequeue_many_size(r, m) <= r.length
          /\ r.read_at + dequeue_many_size(r, m) <= n
  BY DEF dequeue_many_size, Min2, RingOK, Ring

\* Dequeuing keeps the ring well formed and returns elements of it.
LEMMA DequeueOK ==
    ASSUME NEW n, NEW r, RingOK(r, n), NEW m \in Nat
    PROVE /\ RingOK(dequeue_many_with(r, m), n) /\ RingOK(dequeue_slice(r, m), n)
          /\ dequeue_slice_data(r, m) \in Seq(Elem)
          /\ Slice(r.storage, r.read_at, dequeue_many_size(r, m)) \in Seq(Elem)
  <1>1. ASSUME NEW r1, RingOK(r1, n), NEW m1 \in Nat
        PROVE /\ RingOK(dequeue_many_with(r1, m1), n)
              /\ Slice(r1.storage, r1.read_at, dequeue_many_size(r1, m1)) \in Seq(Elem)
    <2> DEFINE size == dequeue_many_size(r1, m1)
    <2>1. size \in Nat /\ size <= r1.length /\ r1.read_at + size <= n
      BY <1>1, DequeueManySize
    <2>2. get_idx(r1, size) \in Nat /\ (get_idx(r1, size) < n \/ get_idx(r1, size) = 0)
      BY <1>1, <2>1, GetIdxRange
    <2>3. r1.length - size \in 0..n
      BY <1>1, <2>1, SMTT(30) DEF RingOK, Ring
    <2>4. RingOK(dequeue_many_with(r1, m1), n)
      BY <1>1, <2>2, <2>3, UpdateOK, Zenon DEF dequeue_many_with, RingOK, Ring
    <2>5. Slice(r1.storage, r1.read_at, size) \in Seq(Elem)
      BY <1>1, <2>1, SliceType, Zenon DEF RingOK, Ring
    <2>6. QED
      BY <2>4, <2>5
  <1>2. m - dequeue_many_size(r, m) \in Nat
    BY DequeueManySize
  <1>3. QED
    BY <1>1, <1>2, ConcatProperties DEF dequeue_slice, dequeue_slice_data

\* get_unallocated returns free, contiguous cells.
LEMMA UnallocatedSize ==
    ASSUME NEW n, NEW r, RingOK(r, n), NEW o \in Nat, NEW m \in Nat
    PROVE /\ get_unallocated_size(r, o, m) \in 0..m
          /\ get_idx(r, r.length + o) + get_unallocated_size(r, o, m) <= n
  <1> DEFINE at == get_idx(r, r.length + o)
  <1>1. r.length + o \in Nat /\ n \in Nat /\ r.length \in 0..n /\ r.cap = n
    BY DEF RingOK, Ring
  <1>2. at \in Nat /\ at <= n
    BY <1>1, GetIdxRange
  <1> HIDE DEF at
  <1>3. get_unallocated_size(r, o, m) =
          IF o > n - r.length THEN 0 ELSE Min2(Min2(m, n - r.length - o), n - at)
    BY <1>1 DEF get_unallocated_size, window, at
  <1>4. QED
    BY <1>1, <1>2, <1>3 DEF Min2, at

\* write_unallocated keeps the ring well formed.
LEMMA WriteOK ==
    ASSUME NEW n, NEW r, RingOK(r, n), NEW o \in Nat, NEW d \in Seq(Elem)
    PROVE /\ RingOK(write_unallocated(r, o, d), n)
          /\ write_unallocated_size(r, o, Len(d)) \in Nat
  <1>1. ASSUME NEW r1, RingOK(r1, n), NEW o1 \in Nat, NEW d1 \in Seq(Elem)
        PROVE RingOK(WrittenAt(r1, o1, d1), n)
    <2> DEFINE at == get_idx(r1, r1.length + o1)
               size == get_unallocated_size(r1, o1, Len(d1))
               part == SubSeq(d1, 1, size)
               st == Copied(r1.storage, at, part)
    <2>1. r1.length + o1 \in Nat /\ n \in Nat /\ r1.storage \in [0..n-1 -> Elem]
      BY <1>1, SMTT(30) DEF RingOK, Ring
    <2>2. at \in Nat
      BY <1>1, <2>1, GetIdxRange, Zenon
    <2>3. part \in Seq(Elem)
      <3>1. Len(d1) \in Nat
        BY <1>1, LenProperties
      <3>2. size \in 0..Len(d1)
        BY <1>1, <3>1, UnallocatedSize, Zenon
      <3> HIDE DEF size
      <3>3. QED
        BY <1>1, <3>1, <3>2, PartType
    <2>4. st \in [0..n-1 -> Elem]
      BY <2>1, <2>2, <2>3, CopiedType, Zenon
    <2>5. WrittenAt(r1, o1, d1) = [r1 EXCEPT !.storage = st]
      BY DEF WrittenAt
    <2> HIDE DEF st
    <2>6. QED
      BY <1>1, <2>4, <2>5, SMTT(30) DEF RingOK, Ring
  <1> DEFINE size == get_unallocated_size(r, o, Len(d))
             rest == SubSeq(d, size + 1, Len(d))
  <1>2. size \in 0..Len(d) /\ Len(d) \in Nat
    BY UnallocatedSize, LenProperties, Zenon
  <1>3. rest \in Seq(Elem)
    BY <1>2, PartType
  <1> HIDE DEF size, rest
  <1>4. RingOK(WrittenAt(r, o, d), n)
    BY <1>1
  <1>5. RingOK(write_unallocated(r, o, d), n)
    <2>1. o + size \in Nat
      BY <1>2
    <2>2. RingOK(WrittenAt(WrittenAt(r, o, d), o + size, rest), n)
      BY <1>1, <1>3, <1>4, <2>1
    <2>3. QED
      BY <2>2 DEF write_unallocated, size, rest
  <1>6. get_unallocated_size(r, o + size, Len(d) - size) \in Nat
    <2>1. o + size \in Nat /\ Len(d) - size \in Nat
      BY <1>2
    <2>2. QED
      BY <2>1, UnallocatedSize
  <1>7. write_unallocated_size(r, o, Len(d)) =
          size + get_unallocated_size(r, o + size, Len(d) - size)
    BY DEF write_unallocated_size, size
  <1>8. QED
    BY <1>2, <1>5, <1>6, <1>7

\* read_allocated returns elements.
LEMMA ReadOK ==
    ASSUME NEW n, NEW r, RingOK(r, n), NEW o \in Nat, NEW m \in Nat
    PROVE read_allocated(r, o, m) \in Seq(Elem)
  <1>1. ASSUME NEW o1 \in Nat, NEW m1 \in Nat
        PROVE /\ get_allocated_size(r, o1, m1) \in 0..m1
              /\ get_allocated(r, o1, m1) \in Seq(Elem)
    <2> DEFINE at == get_idx(r, o1)
               size == get_allocated_size(r, o1, m1)
    <2>1. n \in Nat /\ r.length \in 0..n /\ r.cap = n
      BY DEF RingOK, Ring
    <2>2. at \in Nat /\ at <= n
      BY <2>1, GetIdxRange
    <2>3. size = IF o1 > r.length THEN 0 ELSE Min2(Min2(m1, r.length - o1), n - at)
      BY <2>1 DEF get_allocated_size
    <2> HIDE DEF at, size
    <2>4. size \in 0..m1 /\ at + size <= n
      BY <2>1, <2>2, <2>3 DEF Min2
    <2>5. Slice(r.storage, at, size) \in Seq(Elem)
      BY <2>2, <2>4, SliceType
    <2>6. QED
      BY <2>4, <2>5 DEF get_allocated, at, size
  <1> DEFINE size == get_allocated_size(r, o, m)
  <1>2. size \in 0..m
    BY <1>1
  <1> HIDE DEF size
  <1>3. o + size \in Nat /\ m - size \in Nat
    BY <1>2
  <1>4. get_allocated(r, o, m) \in Seq(Elem) /\ get_allocated(r, o + size, m - size) \in Seq(Elem)
    BY <1>1, <1>3
  <1>5. QED
    BY <1>4, ConcatProperties DEF read_allocated, size
-----------------------------------------------------------------------------
\* The invariant in the form the lemmas use.
LEMMA TypeIsRingOK ==
    ASSUME RingAssumption, TypeOK
    PROVE RingOK(ring, ring.cap) /\ ring.cap \in Capacities
  BY Zenon DEF TypeOK, RingOK, RingAssumption

\* What a call may return.
RetSet == [ok : BOOLEAN, n : Nat, data : Seq(Elem)]

\* Ret builds such a value.
LEMMA RetType ==
    ASSUME NEW ok \in BOOLEAN, NEW m \in Nat
    PROVE /\ Ret(ok, m, <<>>) \in RetSet
          /\ \A d \in Seq(Elem) : Ret(ok, m, d) \in RetSet
  BY EmptySeq DEF Ret, RetSet

\* The calls with their arguments.
CallSet == [op : Ops, at : Nat, size : Nat, slice : Seq(Elem)]

\* The calls the application makes have the type the invariant gives them.
LEMMA CallType ==
    ASSUME NEW op \in Ops, NEW at \in Nat, NEW size \in Nat
    PROVE /\ Call(op, at, size, <<>>) \in CallSet
          /\ \A d \in Seq(Elem) : Call(op, at, size, d) \in CallSet
  BY EmptySeq DEF Call, CallSet

\* A step that leaves a well formed ring of the same capacity keeps TypeOK.
LEMMA RingOKIsType ==
    ASSUME NEW n \in Capacities, RingOK(ring', n), call' \in CallSet, ret' \in RetSet
    PROVE TypeOK'
  BY SMTT(30) DEF TypeOK, RingOK, Ring, CallSet, RetSet

\* Every call of Next is a call with well typed arguments.
LEMMA CallTyped ==
    ASSUME Next PROVE call' \in CallSet
  <1> USE RingAssumption DEF RingAssumption
  <1>1. CASE Clear \/ Reset
    BY <1>1, CallType, Zenon DEF Ops, Clear, Reset
  <1>2. ASSUME NEW v \in Elem, NEW ok \in BOOLEAN, EnqueueOneWith(v, ok) \/ DequeueOneWith(ok)
        PROVE call' \in CallSet
    <2>1. <<v>> \in Seq(Elem) /\ (IF ok THEN 1 ELSE 0) \in Nat
      OBVIOUS
    <2>2. QED
      BY <1>2, <2>1, CallType, Zenon DEF Ops, EnqueueOneWith, DequeueOneWith
  <1>3. ASSUME NEW d \in Slices, EnqueueManyWith(d) \/ EnqueueSlice(d)
        PROVE call' \in CallSet
    BY <1>3, CallType, Zenon DEF Ops, EnqueueManyWith, EnqueueSlice
  <1>4. ASSUME NEW c \in Counts,
               DequeueManyWith(c) \/ DequeueSlice(c) \/ EnqueueUnallocated(c)
                 \/ DequeueAllocated(c)
        PROVE call' \in CallSet
    BY <1>4, CallType, Zenon DEF Ops, DequeueManyWith, DequeueSlice, EnqueueUnallocated, DequeueAllocated
  <1>5. ASSUME NEW o \in Counts, NEW d \in Slices, WriteUnallocated(o, d)
        PROVE call' \in CallSet
    BY <1>5, CallType DEF Ops, WriteUnallocated
  <1>6. ASSUME NEW o \in Counts, NEW m \in Counts, ReadAllocated(o, m)
        PROVE call' \in CallSet
    BY <1>6, CallType DEF Ops, ReadAllocated
  <1>7. QED
    BY <1>1, <1>2, <1>3, <1>4, <1>5, <1>6 DEF Next

\* enqueue_slice only ever adds elements.
LEMMA EnqueueGrows ==
    ASSUME NEW n, NEW r, RingOK(r, n), NEW d \in Seq(Elem)
    PROVE enqueue_many_with(r, d).length >= r.length
  <1> DEFINE q == Rewound(r)
             size == enqueue_many_size(r, Len(d))
  <1>1. size \in Nat
    BY EnqueueManySize, LenProperties
  <1>2. q.length = r.length /\ r.length \in Nat
    BY DEF Rewound, RingOK, Ring
  <1>3. RingOK(q, n)
    BY ClearOK
  <1>4. enqueue_many_with(r, d).length = q.length + size
    <2> HIDE DEF q, size
    <2>1. QED
      BY <1>3 DEF enqueue_many_with, q, size, RingOK, Ring
  <1>5. QED
    BY <1>1, <1>2, <1>4

\* Type correctness of the ring buffer: from any storage and whatever is
\* called, read_at stays a slot of it and length within it, so that no slice
\* of the code is out of range and no subtraction of `window` underflows.
THEOREM TypeCorrect == Spec => []TypeOK
  <1> USE RingAssumption DEF RingAssumption
  <1>1. ASSUME Init PROVE TypeOK
    <2>1. PICK n \in Capacities : \E slice \in [0..n-1 -> Elem] : ring = new(slice, n)
      BY <1>1 DEF Init
    <2>2. PICK slice \in [0..n-1 -> Elem] : ring = new(slice, n)
      BY <2>1
    <2>3. ring \in Ring(n, Elem) /\ ring.cap = n /\ ring.read_at = 0
      BY <2>2 DEF new, Ring
    <2>4. ret \in RetSet /\ call \in CallSet
      BY <1>1, RetType, EmptySeq, Zenon DEF Init, Call, CallSet, Ops
    <2>5. QED
      BY <2>3, <2>4 DEF TypeOK, RetSet, CallSet
  <1>2. ASSUME TypeOK, [Next]_vars PROVE TypeOK'
    <2> DEFINE n == ring.cap
               Kept == RingOK(ring', n) /\ ret' \in RetSet
    <2>1. RingOK(ring, n) /\ n \in Capacities
      BY <1>2, TypeIsRingOK
    <2> HIDE DEF n
    <2>0. call' \in CallSet
      BY <1>2, CallTyped DEF vars, TypeOK, CallSet
    <2> SUFFICES Kept
      BY <2>0, <2>1, RingOKIsType
    <2>2. CASE Clear \/ Reset
      BY <2>1, <2>2, ClearOK, RetType, Zenon DEF Clear, Reset
    <2>3. ASSUME NEW v \in Elem, NEW ok \in BOOLEAN, EnqueueOneWith(v, ok) PROVE Kept
      BY <2>1, <2>3, OneOK, RetType, Zenon DEF EnqueueOneWith
    <2>4. ASSUME NEW ok \in BOOLEAN, DequeueOneWith(ok) PROVE Kept
      <3>1. RingOK(ring', n)
        BY <2>1, <2>4, OneOK, Zenon DEF DequeueOneWith
      <3>2. ~is_empty(ring) => <<ring.storage[ring.read_at]>> \in Seq(Elem)
        BY <2>1 DEF RingOK, Ring, is_empty
      <3>3. QED
        BY <2>4, <3>1, <3>2, RetType, Zenon DEF DequeueOneWith
    <2>5. ASSUME NEW d \in Slices, EnqueueManyWith(d) PROVE Kept
      <3>1. d \in Seq(Elem) /\ Len(d) \in Nat
        BY LenProperties
      <3>2. enqueue_many_size(ring, Len(d)) \in Nat
        BY <2>1, <3>1, EnqueueManySize
      <3>3. QED
        BY <2>1, <2>5, <3>1, <3>2, EnqueueOK, RetType, Zenon DEF EnqueueManyWith
    <2>6. ASSUME NEW d \in Slices, EnqueueSlice(d) PROVE Kept
      <3> DEFINE r1 == enqueue_many_with(ring, d)
                 rest == SubSeq(d, enqueue_many_size(ring, Len(d)) + 1, Len(d))
      <3>1. d \in Seq(Elem) /\ Len(d) \in Nat
        BY LenProperties
      <3>2. rest \in Seq(Elem)
        BY <2>1, <3>1, EnqueueManySize, PartType, SMTT(30)
      <3>3. RingOK(r1, n) /\ RingOK(ring', n) /\ ring' = enqueue_many_with(r1, rest)
        BY <2>1, <2>6, <3>1, EnqueueOK DEF EnqueueSlice, enqueue_slice
      <3> HIDE DEF r1, rest
      <3>4. ring'.length >= r1.length
        BY <3>2, <3>3, EnqueueGrows
      <3>5. r1.length >= ring.length
        BY <2>1, <3>1, EnqueueGrows DEF r1
      <3>6. ring'.length - ring.length \in Nat
        BY <2>1, <3>3, <3>4, <3>5, SMTT(30) DEF RingOK, Ring
      <3>7. QED
        BY <2>6, <3>3, <3>6, RetType, Zenon DEF EnqueueSlice
    <2>7. ASSUME NEW m \in Counts, DequeueManyWith(m) \/ DequeueSlice(m) PROVE Kept
      <3>1. m \in Nat /\ dequeue_many_size(ring, m) \in Nat
        BY <2>1, DequeueManySize
      <3>2. QED
        BY Zenon, <2>1, <2>7, <3>1, DequeueOK, RetType, LenProperties
        DEF DequeueManyWith, DequeueSlice
    <2>8. ASSUME NEW o \in Counts, NEW d \in Slices, WriteUnallocated(o, d) PROVE Kept
      BY <2>1, <2>8, WriteOK, RetType, Zenon DEF WriteUnallocated
    <2>9. ASSUME NEW c \in Counts, EnqueueUnallocated(c) PROVE Kept
      <3>1. ring.length + c \in 0..n /\ c \in Nat
        BY <2>1, <2>9 DEF EnqueueUnallocated, window, RingOK, Ring
      <3>2. QED
        BY <2>1, <2>9, <3>1, RetType, Zenon DEF EnqueueUnallocated, enqueue_unallocated, RingOK, Ring
    <2>10. ASSUME NEW o \in Counts, NEW m \in Counts, ReadAllocated(o, m) PROVE Kept
      BY <2>1, <2>10, ReadOK, RetType, LenProperties, Zenon DEF ReadAllocated
    <2>11. ASSUME NEW c \in Counts, DequeueAllocated(c) PROVE Kept
      <3>1. ring.length - c \in 0..n /\ c \in Nat
        BY <2>1, <2>11 DEF DequeueAllocated, RingOK, Ring
      <3>2. get_idx(ring, c) \in Nat /\ (get_idx(ring, c) < n \/ get_idx(ring, c) = 0)
        BY <2>1, <3>1, GetIdxRange
      <3>3. RingOK(ring', n)
        BY <2>1, <2>11, <3>1, <3>2, UpdateOK, Zenon DEF DequeueAllocated, dequeue_allocated, RingOK, Ring
      <3>4. QED
        BY <2>11, <3>1, <3>3, RetType, Zenon DEF DequeueAllocated
    <2>12. CASE UNCHANGED vars
      BY <1>2, <2>1, <2>12 DEF vars, TypeOK, RetSet
    <2>13. QED
      BY <1>2, <2>2, <2>3, <2>4, <2>5, <2>6, <2>7, <2>8, <2>9, <2>10, <2>11, <2>12, SMTT(30) DEF Next
  <1>3. QED
    BY <1>1, <1>2, PTL DEF Spec
=============================================================================
