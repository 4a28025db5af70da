------------------------ MODULE RingBufferRefinement ------------------------
(***************************************************************************)
(* RingBuffer implements Fifo, for storages of every size and slices of    *)
(* every length: one step per action, by the lemmas of RingEffects.        *)
(***************************************************************************)
EXTENDS RingEffects

\* The mapping of RingBuffer is the one of the lemmas, before a step and after.
LEMMA Mapped ==
    /\ Queue = QueueOf(ring) /\ Spare = SpareOf(ring)
    /\ Queue' = QueueOf(ring') /\ Spare' = SpareOf(ring')
  BY DEF Queue, Spare, QueueOf, SpareOf, Cell, window, get_idx

\* What the lemmas give of the state a step starts from.
StepFrom(n, Q, S) ==
    /\ n \in Nat /\ n \in Capacities /\ RingOK(ring, n) /\ ring.length \in 0..n
    /\ Q \in Seq(Elem) /\ Len(Q) = ring.length
    /\ S \in Seq(Elem) /\ Len(S) = n - ring.length /\ n - ring.length \in Nat
    /\ Q = QueueOf(ring) /\ S = SpareOf(ring) /\ Q = Queue /\ S = Spare
    /\ Q = <<>> <=> ring.length = 0
    /\ S = <<>> <=> n - ring.length = 0

\* TypeOK gives it.
LEMMA StepFromType ==
    ASSUME TypeOK PROVE StepFrom(ring.cap, Queue, Spare)
  <1> DEFINE n == ring.cap
             Q == QueueOf(ring)
             S == SpareOf(ring)
  <1>1. RingOK(ring, n) /\ n \in Capacities
    BY RingAssumption, TypeIsRingOK
  <1> HIDE DEF n
  <1>2. /\ n \in Nat /\ ring.length \in 0..n /\ n - ring.length \in Nat
        /\ Q \in Seq(Elem) /\ Len(Q) = ring.length
        /\ S \in Seq(Elem) /\ Len(S) = n - ring.length
    BY <1>1, MappingType
  <1> HIDE DEF Q, S
  <1>3. (Q = <<>> <=> Len(Q) = 0) /\ (S = <<>> <=> Len(S) = 0)
    BY <1>2, EmptySeq
  <1>4. Q = Queue /\ S = Spare
    BY Mapped, SMTT(30) DEF Q, S
  <1>5. StepFrom(n, Q, S)
    BY <1>1, <1>2, <1>3, <1>4, SMTT(30) DEF StepFrom, Q, S
  <1>6. QED
    BY <1>4, <1>5 DEF n

\* A step of Next is a step of Fifo.
LEMMA StepRefines ==
    ASSUME TypeOK, TypeOK', Next PROVE F!Next
  <1> DEFINE n == ring.cap
             Q == Queue
             S == Spare
  <1>1. StepFrom(n, Q, S)
    BY StepFromType
  <1>2. Queue' = QueueOf(ring') /\ Spare' = SpareOf(ring')
    BY Mapped, SMTT(30)
  <1> HIDE DEF n, Q, S
  <1>3. /\ n \in Nat /\ RingOK(ring, n) /\ ring.length \in 0..n
        /\ Q \in Seq(Elem) /\ Len(Q) = ring.length
        /\ S \in Seq(Elem) /\ Len(S) = n - ring.length /\ n - ring.length \in Nat
    BY <1>1 DEF StepFrom
  <1>4. /\ Q = QueueOf(ring) /\ S = SpareOf(ring) /\ Q = Queue /\ S = Spare
        /\ (Q = <<>> <=> ring.length = 0) /\ (S = <<>> <=> n - ring.length = 0)
    BY <1>1, SMTT(30) DEF StepFrom
  <1>5. F!Capacity = n
    <2> DEFINE a == ring.length
    <2>1. F!Capacity = a + (n - a) /\ a \in Nat
      BY <1>3, <1>4 DEF F!Capacity
    <2> HIDE DEF a
    <2>2. QED
      BY <1>3, <2>1, SMTT(30)
  <1>6. is_full(ring) <=> S = <<>>
    BY <1>3, <1>4, RingShape, SMTT(30) DEF is_full, window
  <1>7. CASE Clear \/ Reset
    <2>1. ring' = clear(ring) \/ ring' = reset(ring, Zero)
      BY <1>7, Zenon DEF Clear, Reset
    <2>2. RingOK(ring', n) /\ ring'.length = 0
      <3>1. clear(ring).length = 0 /\ reset(ring, Zero).length = 0
        BY <1>3, ClearOK, Zenon DEF clear, reset, RingOK, Ring
      <3>2. QED
        BY <1>3, <2>1, <3>1, ClearOK, SMTT(30)
    <2>3. QueueOf(ring') = <<>> /\ SpareOf(ring') \in [1..n -> Elem]
      <3>1. QueueOf(ring') \in Seq(Elem) /\ Len(QueueOf(ring')) = 0
            /\ SpareOf(ring') \in [1..(n - 0) -> Elem]
        BY <2>2, MappingType
      <3>2. n - 0 = n
        BY <1>3
      <3>3. QED
        BY <3>1, <3>2, EmptySeq, SMTT(30)
    <2>4. call'.op \in {"clear", "reset"} /\ ret' = F!Ret(TRUE, 0, <<>>)
      BY <1>7 DEF Clear, Reset, Call, Ret, F!Ret
    <2>5. F!Clear
      BY <1>2, <1>5, <2>3, <2>4, SMTT(30) DEF F!Clear
    <2>6. QED
      BY <2>5 DEF F!Next
  <1>8. ASSUME NEW v \in Elem, NEW ok \in BOOLEAN, EnqueueOneWith(v, ok) PROVE F!Next
    <2>1. call' = F!Call("enqueue_one_with", 0, IF ok THEN 1 ELSE 0, <<v>>)
      BY <1>8 DEF EnqueueOneWith, Call, F!Call
    <2>2. CASE S = <<>>
      <3>1. ret' = F!Ret(FALSE, 0, <<>>) /\ ring' = ring
        BY <1>6, <1>8, <2>2, SMTT(30) DEF EnqueueOneWith, Ret, F!Ret
      <3>2. F!EnqueueOne(v, ok)
        BY <1>2, <1>4, <2>1, <2>2, <3>1, Zenon DEF F!EnqueueOne
      <3>3. QED
        BY <3>2 DEF F!Next
    <2>3. CASE S # <<>>
      <3>1. /\ ret' = F!Ret(TRUE, IF ok THEN 1 ELSE 0, <<>>)
            /\ ring' = enqueue_one_with(ring, v, ok)
        BY <1>6, <1>8, <2>3, SMTT(30) DEF EnqueueOneWith, Ret, F!Ret
      <3>2. /\ ok => Queue' = Cat(Q, <<v>>) /\ Spare' = DropOf(S, 1)
            /\ ~ok => Queue' = Q /\ Spare' = OverlayOf(S, 0, <<v>>)
        BY <1>2, <1>3, <1>4, <1>6, <2>3, <3>1, EnqueueOneEffect, Zenon
      <3>3. Cat(Q, <<v>>) = Append(Q, v) /\ DropOf(S, 1) = Tail(S)
        BY <1>3, <2>3, OneElement, SMTT(30)
      <3>4. OverlayOf(S, 0, <<v>>) = F!Overlay(S, 0, <<v>>)
        BY DEF OverlayOf, F!Overlay
      <3>5. F!EnqueueOne(v, ok)
        BY <1>4, <2>1, <2>3, <3>1, <3>2, <3>3, <3>4, SMTT(30) DEF F!EnqueueOne
      <3>6. QED
        BY <3>5 DEF F!Next
    <2>4. QED
      BY <2>2, <2>3
  <1>9. ASSUME NEW ok \in BOOLEAN, DequeueOneWith(ok) PROVE F!Next
    <2>0. call' = F!Call("dequeue_one_with", 0, IF ok THEN 1 ELSE 0, <<>>)
      BY <1>9 DEF DequeueOneWith, Call, F!Call
    <2>1. is_empty(ring) <=> Q = <<>>
      BY <1>4 DEF is_empty
    <2>2. CASE Q = <<>>
      <3>1. ret' = F!Ret(FALSE, 0, <<>>) /\ ring' = ring
        BY <1>9, <2>1, <2>2, SMTT(30) DEF DequeueOneWith, Ret, F!Ret
      <3>2. F!DequeueOne(ok)
        BY <1>2, <1>4, <2>0, <2>2, <3>1, Zenon DEF F!DequeueOne
      <3>3. QED
        BY <3>2 DEF F!Next
    <2>3. CASE Q # <<>>
      <3>1. /\ ret' = Ret(TRUE, IF ok THEN 1 ELSE 0, <<ring.storage[ring.read_at]>>)
            /\ ring' = dequeue_one_with(ring, ok)
        BY <1>9, <2>1, <2>3, Zenon DEF DequeueOneWith
      <3>2. /\ ring.storage[ring.read_at] = Q[1]
            /\ ok => Queue' = DropOf(Q, 1) /\ Spare' = Cat(S, TakeOf(Q, 1))
        BY <1>2, <1>3, <1>4, <2>1, <2>3, <3>1, DequeueOneEffect, Zenon
      <3>3. ~ok => Queue' = Q /\ Spare' = S
        BY <1>2, <1>4, <3>1, Zenon DEF dequeue_one_with
      <3>4. Tail(Q) = DropOf(Q, 1) /\ TakeOf(Q, 1) = <<Head(Q)>> /\ Head(Q) = Q[1] /\ Q[1] \in Elem
        <4>1. 1 \in 1..Len(Q)
          BY <1>3, <1>4, <2>3, SMTT(30)
        <4>2. QED
          BY <1>3, <2>3, <4>1, OneElement, ElementOfSeq, SMTT(30)
      <3>5. Cat(S, <<Head(Q)>>) = Append(S, Head(Q))
        BY <1>3, <3>4, OneElement, SMTT(30)
      <3>6. ret' = F!Ret(TRUE, IF ok THEN 1 ELSE 0, <<Head(Q)>>)
        BY <3>1, <3>2, <3>4, SMTT(30) DEF Ret, F!Ret
      <3>7. F!DequeueOne(ok)
        BY <1>4, <2>0, <2>3, <3>2, <3>3, <3>4, <3>5, <3>6, SMTT(30) DEF F!DequeueOne
      <3>8. QED
        BY <3>7 DEF F!Next
    <2>4. QED
      BY <2>2, <2>3, SMTT(30)
  <1>10. ASSUME NEW d \in Slices, NEW c \in Nat, c <= Len(d), c <= n - ring.length,
                ring'.length = ring.length + c, RingOK(ring', n), ret' = Ret(TRUE, c, <<>>),
                QueueOf(ring') = Cat(Q, TakeOf(d, c)),
                ring.length # 0 => SpareOf(ring') = DropOf(S, c)
         PROVE F!Appended(d, c)
    <2>1. ret' = F!Ret(TRUE, c, <<>>)
      BY <1>10 DEF Ret, F!Ret
    <2>2. Queue' = Queue \o F!Take(d, c)
      BY <1>2, <1>4, <1>10, SMTT(30) DEF Cat, TakeOf, F!Take
    <2>3. Spare' \in [1..(F!Capacity - c - ring.length) -> Elem]
      <3>1. SpareOf(ring') \in [1..(n - ring'.length) -> Elem]
        BY <1>10, MappingType, SMTT(30)
      <3>2. n - ring'.length = n - c - ring.length
        BY <1>3, <1>10, SMTT(30)
      <3>3. QED
        BY <1>2, <1>5, <3>1, <3>2, SMTT(30)
    <2>4. ring.length = 0 => F!Capacity - c - ring.length = F!Capacity - c
      BY <1>3, <1>5, SMTT(30)
    <2>5. ring.length # 0 => Spare' = F!Drop(Spare, c)
      BY <1>2, <1>4, <1>10, SMTT(30) DEF DropOf, F!Drop
    <2>6. QED
      BY <1>4, <2>1, <2>2, <2>3, <2>4, <2>5, SMTT(30) DEF F!Appended
  <1>11. ASSUME NEW d \in Slices, EnqueueManyWith(d) PROVE F!Next
    <2> DEFINE c == enqueue_many_size(ring, Len(d))
    <2>1. d \in Seq(Elem) /\ Len(d) \in Nat /\ (d # <<>> => Len(d) > 0)
      BY RingAssumption, LenProperties, EmptySeq, SMTT(30) DEF RingAssumption
    <2>2. /\ call' = F!Call("enqueue_many_with", 0, 0, d) /\ ret' = Ret(TRUE, c, <<>>)
          /\ ring' = enqueue_many_with(ring, d)
      BY <1>11 DEF EnqueueManyWith, Call, F!Call
    <2>3. Enqueued(n, ring, d, c, ring')
      BY <1>3, <2>1, <2>2, EnqueueManyEnqueues, SMTT(30)
    <2>4. d # <<>> /\ S # <<>> => c > 0
      <3>1. S # <<>> => n - ring.length > 0
        BY <1>3, <1>4, SMTT(30)
      <3>2. QED
        BY <1>3, <2>1, <3>1, EnqueueManyTakes, SMTT(30)
    <2> HIDE DEF c
    <2>5. c \in 0..Len(d) /\ c <= n - ring.length /\ c \in Nat /\ c <= Len(d)
      BY <2>1, <2>3 DEF Enqueued
    <2>6. F!Appended(d, c)
      BY <1>4, <1>10, <2>2, <2>3, <2>5, Zenon DEF Enqueued
    <2>7. c <= Len(Spare)
      BY <1>3, <1>4, <2>5, SMTT(30)
    <2>8. F!EnqueueMany(d)
      BY <1>4, <2>2, <2>4, <2>5, <2>6, <2>7, SMTT(30) DEF F!EnqueueMany
    <2>9. QED
      BY <2>8 DEF F!Next
  <1>12. ASSUME NEW d \in Slices, EnqueueSlice(d) PROVE F!Next
    <2> DEFINE c == Min2(Len(d), n - ring.length)
    <2>1. d \in Seq(Elem) /\ Len(d) \in Nat
      BY RingAssumption, LenProperties, SMTT(30) DEF RingAssumption
    <2>2. /\ call' = F!Call("enqueue_slice", 0, 0, d)
          /\ ret' = Ret(TRUE, ring'.length - ring.length, <<>>)
          /\ ring' = enqueue_slice(ring, d)
      BY <1>12 DEF EnqueueSlice, Call, F!Call
    <2>3. /\ c \in Nat /\ ring'.length = ring.length + c
          /\ QueueOf(ring') = Cat(Q, TakeOf(d, c))
          /\ ring.length # 0 => SpareOf(ring') = DropOf(S, c)
      <3>1. c = Min2(Len(d), n - ring.length)
        BY SMTT(30)
      <3> HIDE DEF c
      <3>2. QED
        <4>1. RingOK(ring, n) /\ d \in Seq(Elem) /\ ring' = enqueue_slice(ring, d)
          BY <1>3, <2>1, <2>2, SMTT(30)
        <4>2. /\ c \in Nat /\ ring'.length = ring.length + c
              /\ QueueOf(ring') = Cat(QueueOf(ring), TakeOf(d, c))
              /\ ring.length # 0 => SpareOf(ring') = DropOf(SpareOf(ring), c)
          BY <3>1, <4>1, EnqueueSliceEffect, SMTT(30)
        <4>3. QED
          BY <1>4, <4>2, Zenon
    <2>4. c <= Len(d) /\ c <= n - ring.length
      BY <1>3, <2>1, SMTT(30) DEF Min2
    <2>5. ret' = Ret(TRUE, c, <<>>) /\ RingOK(ring', n)
      <3>1. ring'.length - ring.length = c
        BY <1>3, <2>3, SMTT(30)
      <3>2. QED
        BY <1>3, <2>1, <2>2, <3>1, EnqueueOK, Zenon
    <2>6. c = IF Len(d) <= Len(Spare) THEN Len(d) ELSE Len(Spare)
      BY <1>3, <1>4, SMTT(30) DEF Min2
    <2> HIDE DEF c
    <2>7. F!Appended(d, c)
      BY <1>10, <2>3, <2>4, <2>5, Zenon
    <2>8. F!EnqueueSlice(d)
      BY <2>2, <2>6, <2>7, SMTT(30) DEF F!EnqueueSlice
    <2>9. QED
      BY <2>8 DEF F!Next
  <1>13. ASSUME NEW c, QueueOf(ring') = DropOf(Q, c), SpareOf(ring') = Cat(S, TakeOf(Q, c))
         PROVE F!Removed(c)
    BY <1>2, <1>4, <1>13, SMTT(30) DEF F!Removed, F!Drop, F!Take, DropOf, TakeOf, Cat
  <1>14. ASSUME NEW m \in Counts, DequeueManyWith(m) PROVE F!Next
    <2> DEFINE c == dequeue_many_size(ring, m)
    <2>1. m \in Nat
      BY RingAssumption DEF RingAssumption
    <2>2. /\ call' = F!Call("dequeue_many_with", 0, m, <<>>)
          /\ ret' = Ret(TRUE, c, Slice(ring.storage, ring.read_at, c))
          /\ ring' = dequeue_many_with(ring, m)
      BY <1>14 DEF DequeueManyWith, Call, F!Call
    <2>3. Dequeued(n, ring, m, c, ring')
      BY <1>3, <2>1, <2>2, DequeueManyDequeues, SMTT(30)
    <2>4. m > 0 /\ Q # <<>> => c > 0
      <3>1. /\ ring.cap = n /\ ring.read_at \in Nat /\ (ring.read_at < n \/ ring.read_at = 0)
            /\ ring.length \in 0..n /\ n \in Nat
        BY <1>3 DEF RingOK, Ring
      <3>2. ASSUME m > 0, Q # <<>> PROVE c > 0
        <4> DEFINE len == ring.length
                   a == ring.read_at
        <4>1. len > 0 /\ n - a > 0 /\ n - a \in Int /\ len \in Nat
          BY <1>4, <3>1, <3>2, SMTT(30)
        <4>2. c = Min2(m, Min2(len, n - a))
          BY <3>1 DEF dequeue_many_size
        <4> HIDE DEF c, len, a
        <4>3. QED
          BY <2>1, <3>2, <4>1, <4>2, SMTT(30) DEF Min2
      <3>3. QED
        BY <3>2, SMTT(30)
    <2> HIDE DEF c
    <2>5. c \in 0..m /\ c <= Len(Queue) /\ ret' = F!Ret(TRUE, c, F!Take(Queue, c))
      BY <1>3, <1>4, <2>2, <2>3, Zenon DEF Dequeued, Ret, F!Ret, F!Take, TakeOf
    <2>6. F!Removed(c)
      BY <1>4, <1>13, <2>3, Zenon DEF Dequeued
    <2>7. F!DequeueMany(m)
      BY <1>4, <2>2, <2>4, <2>5, <2>6, Zenon DEF F!DequeueMany
    <2>8. QED
      BY <2>7 DEF F!Next
  <1>15. ASSUME NEW m \in Counts, DequeueSlice(m) PROVE F!Next
    <2> DEFINE c == Min2(m, ring.length)
    <2>1. m \in Nat
      BY RingAssumption DEF RingAssumption
    <2>2. /\ call' = F!Call("dequeue_slice", 0, m, <<>>)
          /\ ret' = Ret(TRUE, Len(dequeue_slice_data(ring, m)), dequeue_slice_data(ring, m))
          /\ ring' = dequeue_slice(ring, m)
      BY <1>15 DEF DequeueSlice, Call, F!Call
    <2>3. /\ c \in Nat /\ c <= ring.length
          /\ QueueOf(ring') = DropOf(Q, c) /\ SpareOf(ring') = Cat(S, TakeOf(Q, c))
          /\ dequeue_slice_data(ring, m) = TakeOf(Q, c)
      <3>1. c = Min2(m, ring.length)
        OBVIOUS
      <3> HIDE DEF c
      <3>2. QED
        <4>1. RingOK(ring, n) /\ ring' = dequeue_slice(ring, m)
          BY <1>3, <2>2, SMTT(30)
        <4>2. /\ c \in Nat /\ c <= ring.length
              /\ QueueOf(ring') = DropOf(QueueOf(ring), c)
              /\ SpareOf(ring') = Cat(SpareOf(ring), TakeOf(QueueOf(ring), c))
              /\ dequeue_slice_data(ring, m) = TakeOf(QueueOf(ring), c)
          BY <2>1, <3>1, <4>1, DequeueSliceEffect, SMTT(30)
        <4>3. QED
          BY <1>4, <4>2, Zenon
    <2>4. c = IF m <= Len(Queue) THEN m ELSE Len(Queue)
      BY <1>3, <1>4, SMTT(30) DEF Min2
    <2> HIDE DEF c
    <2>5. Len(TakeOf(Q, c)) = c
      BY <1>3, <2>3, TakeIs, SMTT(30)
    <2>6. ret' = F!Ret(TRUE, c, F!Take(Queue, c))
      BY <1>4, <2>2, <2>3, <2>5, Zenon DEF Ret, F!Ret, F!Take, TakeOf
    <2>7. F!Removed(c)
      BY <1>13, <2>3, SMTT(30)
    <2>8. F!DequeueSlice(m)
      BY <2>2, <2>4, <2>6, <2>7, Zenon DEF F!DequeueSlice
    <2>9. QED
      BY <2>8, SMTT(30) DEF F!Next
  <1>16. ASSUME NEW o \in Counts, NEW d \in Slices, WriteUnallocated(o, d) PROVE F!Next
    <2>1. o \in Nat /\ d \in Seq(Elem) /\ Len(d) \in Nat
      BY RingAssumption, LenProperties, SMTT(30) DEF RingAssumption
    <2>2. /\ call' = F!Call("write_unallocated", o, 0, d)
          /\ ret' = Ret(TRUE, write_unallocated_size(ring, o, Len(d)), <<>>)
          /\ ring' = write_unallocated(ring, o, d)
      BY <1>16, SMTT(30) DEF WriteUnallocated, Call, F!Call
    <2> DEFINE room == IF o <= Len(Spare) THEN Len(Spare) - o ELSE 0
               c == Min2(Len(d), room)
    <2>3. /\ write_unallocated_size(ring, o, Len(d)) = c
          /\ QueueOf(ring') = Q /\ SpareOf(ring') = OverlayOf(S, o, TakeOf(d, c))
      <3>1. CASE o <= n - ring.length
        <4>1. c = Min2(Len(d), n - ring.length - o)
          BY <1>3, <1>4, <3>1, SMTT(30)
        <4> HIDE DEF c
        <4>2. QED
          <5>1. RingOK(ring, n) /\ o \in Nat /\ d \in Seq(Elem)
                /\ ring' = write_unallocated(ring, o, d)
            BY <1>3, <2>1, <2>2, SMTT(30)
          <5>2. /\ write_unallocated_size(ring, o, Len(d)) = c
                /\ QueueOf(ring') = QueueOf(ring)
                /\ SpareOf(ring') = OverlayOf(SpareOf(ring), o, TakeOf(d, c))
            BY <3>1, <4>1, <5>1, WriteEffect, SMTT(30)
          <5>3. QED
            BY <1>4, <5>2, Zenon
      <3>2. CASE o > n - ring.length
        <4>1. c = 0
          BY <1>3, <1>4, <2>1, <3>2, SMTT(30) DEF Min2
        <4> HIDE DEF c
        <4>2. /\ ring' = ring /\ write_unallocated_size(ring, o, Len(d)) = 0
              /\ SpareOf(ring) = OverlayOf(SpareOf(ring), o, TakeOf(d, 0))
          BY <1>3, <2>1, <2>2, <3>2, WriteNothing, SMTT(30)
        <4>3. QED
          BY <1>4, <4>1, <4>2, Zenon
      <3>3. QED
        BY <1>3, <2>1, <3>1, <3>2, SMTT(30)
    <2>4. OverlayOf(S, o, TakeOf(d, c)) = F!Overlay(S, o, F!Take(d, c))
      BY DEF OverlayOf, TakeOf, F!Overlay, F!Take
    <2>5. c = IF Len(d) <= room THEN Len(d) ELSE room
      BY DEF Min2
    <2> HIDE DEF c
    <2>6. /\ Spare' = F!Overlay(Spare, o, F!Take(d, c)) /\ Queue' = Queue
          /\ ret' = F!Ret(TRUE, c, <<>>)
      BY <1>2, <1>4, <2>2, <2>3, <2>4, SMTT(30) DEF Ret, F!Ret
    <2>7. F!WriteUnallocated(o, d)
      <3> DEFINE k == IF Len(d) <= room THEN Len(d) ELSE room
      <3>1. /\ Spare' = F!Overlay(Spare, o, F!Take(d, k)) /\ Queue' = Queue
            /\ ret' = F!Ret(TRUE, k, <<>>)
        BY <2>5, <2>6, SMTT(30)
      <3>2. QED
        BY <2>2, <3>1, Zenon DEF F!WriteUnallocated
    <2>8. QED
      BY <2>7 DEF F!Next
  <1>17. ASSUME NEW c \in Counts, EnqueueUnallocated(c) PROVE F!Next
    <2>1. c \in Nat /\ c <= n - ring.length
      <3>1. ring.cap = n
        BY <1>3, SMTT(30) DEF RingOK, Ring
      <3>2. QED
        BY <1>17, <3>1, RingAssumption, SMTT(30) DEF RingAssumption, EnqueueUnallocated, window
    <2>2. /\ call' = F!Call("enqueue_unallocated", 0, c, <<>>) /\ ret' = F!Ret(TRUE, c, <<>>)
          /\ ring' = enqueue_unallocated(ring, c)
      BY <1>17 DEF EnqueueUnallocated, Call, F!Call, Ret, F!Ret
    <2>3. QueueOf(ring') = Cat(Q, TakeOf(S, c)) /\ SpareOf(ring') = DropOf(S, c)
      <3>1. RingOK(ring, n)
        BY <1>3
      <3>2. QED
        BY <1>4, <2>1, <2>2, <3>1, AllocateEffect, Zenon
    <2>4. Queue' = Queue \o F!Take(Spare, c) /\ Spare' = F!Drop(Spare, c) /\ c <= Len(Spare)
      <3>1. c <= Len(Spare)
        BY <1>3, <1>4, <2>1, SMTT(30)
      <3>2. Queue' = Cat(Queue, TakeOf(Spare, c)) /\ Spare' = DropOf(Spare, c)
        BY <1>2, <1>4, <2>3, SMTT(30)
      <3>3. QED
        BY <3>1, <3>2, SMTT(30) DEF Cat, TakeOf, DropOf, F!Take, F!Drop
    <2>5. F!EnqueueUnallocated(c)
      BY <2>2, <2>4, SMTT(30) DEF F!EnqueueUnallocated
    <2>6. QED
      BY <2>5, SMTT(30) DEF F!Next
  <1>18. ASSUME NEW o \in Counts, NEW m \in Counts, ReadAllocated(o, m) PROVE F!Next
    <2>1. o \in Nat /\ m \in Nat
      BY RingAssumption, SMTT(30) DEF RingAssumption
    <2> DEFINE data == read_allocated(ring, o, m)
               rest == IF o <= Len(Queue) THEN F!Drop(Queue, o) ELSE <<>>
               c == IF m <= Len(rest) THEN m ELSE Len(rest)
    <2>2. /\ call' = F!Call("read_allocated", o, m, <<>>)
          /\ ret' = F!Ret(TRUE, Len(data), data) /\ ring' = ring
      BY <1>18, SMTT(30) DEF ReadAllocated, Call, F!Call, Ret, F!Ret
    <2>3. data = F!Take(rest, c) /\ Len(data) = c
      <3>1. CASE o <= ring.length
        <4> DEFINE k == ring.length - o
                   t == Min2(m, k)
        <4>1. k \in Nat /\ Len(Q) = o + k
          BY <1>3, <2>1, <3>1, SMTT(30)
        <4>2. t \in Nat /\ t <= k /\ data = TakeOf(DropOf(Q, o), t)
          <5>1. t = Min2(m, ring.length - o)
            OBVIOUS
          <5> HIDE DEF t
          <5>2. QED
            <6>1. RingOK(ring, n)
              BY <1>3, SMTT(30)
            <6>2. /\ t \in Nat /\ t <= ring.length - o
                  /\ data = TakeOf(DropOf(QueueOf(ring), o), t)
              BY <2>1, <3>1, <5>1, <6>1, ReadEffect, SMTT(30)
            <6>3. QED
              BY <1>4, <6>2, Zenon
        <4> HIDE DEF k
        <4>3. DropOf(Q, o) \in Seq(Elem) /\ Len(DropOf(Q, o)) = k
          BY <1>3, <2>1, <4>1, DropIs, SMTT(30)
        <4>4. rest = DropOf(Q, o)
          BY <1>3, <1>4, <3>1, Zenon DEF F!Drop, DropOf
        <4> HIDE DEF rest, data
        <4>5. c = t
          BY <4>3, <4>4, SMTT(30) DEF Min2
        <4> HIDE DEF t, c
        <4>6. Len(TakeOf(DropOf(Q, o), t)) = t
          BY <4>2, <4>3, TakeIs, SMTT(30)
        <4>7. QED
          BY <4>2, <4>4, <4>5, <4>6, SMTT(30) DEF F!Take, TakeOf
      <3>2. CASE o > ring.length
        <4>1. data = <<>>
          BY <1>3, <2>1, <3>2, ReadNothing, SMTT(30)
        <4>2. rest = <<>>
          BY <1>3, <1>4, <2>1, <3>2, SMTT(30)
        <4> DEFINE e == <<>>
        <4>3. e \in Seq(Elem) /\ Len(e) = 0
          BY EmptySeq
        <4>4. c = 0
          BY <2>1, <4>2, SMTT(30)
        <4> HIDE DEF c, rest, data
        <4>5. SubSeq(e, 1, 0) = e
          <5> HIDE DEF e
          <5>1. SubSeq(e, 1, 0) \in Seq(Elem) /\ Len(SubSeq(e, 1, 0)) = 0
            BY <4>3, PartType, SMTT(30)
          <5>2. QED
            BY <4>3, <5>1, EmptySeq, SMTT(30)
        <4>6. QED
          BY <4>1, <4>2, <4>3, <4>4, <4>5, SMTT(30) DEF F!Take
      <3>3. QED
        BY <1>3, <2>1, <3>1, <3>2, SMTT(30)
    <2> HIDE DEF data
    <2>4. Queue' = Queue /\ Spare' = Spare
      BY <1>2, <1>4, <2>2, Zenon
    <2>5. F!ReadAllocated(o, m)
      BY <2>2, <2>3, <2>4, Zenon DEF F!ReadAllocated
    <2>6. QED
      BY <2>5 DEF F!Next
  <1>19. ASSUME NEW c \in Counts, DequeueAllocated(c) PROVE F!Next
    <2>1. c \in Nat /\ c <= ring.length
      BY <1>19, RingAssumption, SMTT(30) DEF RingAssumption, DequeueAllocated
    <2>2. /\ call' = F!Call("dequeue_allocated", 0, c, <<>>) /\ ret' = F!Ret(TRUE, c, <<>>)
          /\ ring' = dequeue_allocated(ring, c)
      BY <1>19 DEF DequeueAllocated, Call, F!Call, Ret, F!Ret
    <2>3. QueueOf(ring') = DropOf(Q, c) /\ SpareOf(ring') = Cat(S, TakeOf(Q, c))
      BY <1>3, <1>4, <2>1, <2>2, DeallocateEffect, ZenonT(40)
    <2>4. F!Removed(c) /\ c <= Len(Queue)
      BY <1>3, <1>4, <1>13, <2>1, <2>3
    <2>5. F!DequeueAllocated(c)
      BY <2>2, <2>4 DEF F!DequeueAllocated
    <2>6. QED
      BY <2>5, SMTT(30) DEF F!Next
  <1>20. QED
    BY <1>7, <1>8, <1>9, <1>11, <1>12, <1>14, <1>15, <1>16, <1>17, <1>18, <1>19, SMTT(30) DEF Next

\* The ring buffer implements the bounded FIFO with spare cells, whatever the
\* size of its storage: neither the wrap around of the storage nor the split of
\* a copy in two by enqueue_slice, dequeue_slice, write_unallocated and
\* read_allocated can be observed.
THEOREM Refines == Spec => ImplementsFifo
  <1>1. ASSUME Init PROVE F!Init
    <2>1. PICK n \in Capacities : \E slice \in [0..n-1 -> Elem] : ring = new(slice, n)
      BY <1>1 DEF Init
    <2>2. PICK slice \in [0..n-1 -> Elem] : ring = new(slice, n)
      BY <2>1
    <2>3. RingOK(ring, n) /\ ring.length = 0 /\ n \in Nat
      BY <2>2, RingAssumption, SMTT(30) DEF RingAssumption, new, RingOK, Ring
    <2>4. QueueOf(ring) \in Seq(Elem) /\ Len(QueueOf(ring)) = 0
          /\ SpareOf(ring) \in [1..(n - 0) -> Elem]
      BY <2>3, MappingType
    <2>5. n - 0 = n
      BY <2>3, SMTT(30)
    <2>6. Queue = <<>> /\ Spare \in [1..n -> Elem]
      BY <2>4, <2>5, EmptySeq, Mapped, SMTT(30)
    <2>7. call = F!Call("new", 0, 0, <<>>) /\ ret = F!Ret(TRUE, 0, <<>>)
      BY <1>1 DEF Init, Call, Ret, F!Call, F!Ret
    <2>8. QED
      BY <2>6, <2>7, SMTT(30) DEF F!Init
  <1>2. ASSUME TypeOK, TypeOK', [Next]_vars PROVE [F!Next]_F!fvars
    <2>1. CASE Next
      BY <1>2, <2>1, StepRefines, SMTT(30)
    <2>2. CASE UNCHANGED vars
      <3>1. Queue' = Queue /\ Spare' = Spare /\ call' = call /\ ret' = ret
        BY <2>2, Mapped DEF vars
      <3>2. QED
        BY <3>1, SMTT(30) DEF F!fvars
    <2>3. QED
      BY <1>2, <2>1, <2>2, SMTT(30)
  <1>3. QED
    BY <1>1, <1>2, TypeCorrect, PTL DEF Spec, ImplementsFifo, F!Spec
=============================================================================
