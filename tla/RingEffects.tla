----------------------------- MODULE RingEffects -----------------------------
(***************************************************************************)
(* What each operation of RingOps does to a ring seen as a queue and the   *)
(* spare cells behind it, for storages of every size and slices of every   *)
(* length.  The cells of a ring, numbered from read_at on, are the queue   *)
(* followed by the spare cells.  An operation writes some of them, or      *)
(* moves the border between queue and spare, or rotates them; the first    *)
(* lemmas say so of the storage, the next ones of queue and spare, and the *)
(* last ones of the operations.                                            *)
(***************************************************************************)
EXTENDS RingBufferProofs

\* The cell i places after the oldest allocated one.
Cell(r, i) == r.storage[get_idx(r, i)]

\* The refinement mapping, of any ring.
QueueOf(r) == [i \in 1..r.length |-> Cell(r, i - 1)]
SpareOf(r) == [i \in 1..(r.cap - r.length) |-> Cell(r, r.length + i - 1)]

\* get_idx goes round the end of the storage once.
LEMMA IdxSplit ==
    ASSUME NEW n, NEW r, RingOK(r, n), NEW i \in 0..n
    PROVE n > 0 => get_idx(r, i) = IF r.read_at + i < n THEN r.read_at + i
                                                       ELSE r.read_at + i - n
  <1>1. n \in Nat /\ r.cap = n /\ r.read_at \in Nat /\ (n > 0 => r.read_at < n)
    BY DEF RingOK, Ring
  <1>2. n > 0 => r.read_at + i \in Nat /\ r.read_at + i < 2 * n
    BY <1>1
  <1>3. QED
    BY <1>1, <1>2, ModSplit DEF get_idx

\* Every cell holds an element.
LEMMA CellType ==
    ASSUME NEW n, NEW r, RingOK(r, n), NEW i \in 0..(n - 1)
    PROVE Cell(r, i) \in Elem
  <1>1. n \in Nat /\ n > 0 /\ i \in Nat /\ r.storage \in [0..n-1 -> Elem]
    BY DEF RingOK, Ring
  <1>2. get_idx(r, i) \in Nat /\ get_idx(r, i) < n
    BY <1>1, GetIdxRange, SMTT(30)
  <1>3. get_idx(r, i) \in 0..(n - 1)
    BY <1>1, <1>2
  <1>4. QED
    BY <1>1, <1>3 DEF Cell

\* The capacity and the length of a ring.
LEMMA RingShape ==
    ASSUME NEW n, NEW r, RingOK(r, n)
    PROVE n \in Nat /\ r.cap = n /\ r.length \in 0..n /\ n - r.length \in Nat
  BY DEF RingOK, Ring

\* The queue and the spare cells are sequences that together fill the storage.
LEMMA MappingType ==
    ASSUME NEW n, NEW r, RingOK(r, n)
    PROVE /\ n \in Nat /\ r.length \in 0..n /\ n - r.length \in Nat
          /\ QueueOf(r) \in Seq(Elem) /\ Len(QueueOf(r)) = r.length
          /\ SpareOf(r) \in Seq(Elem) /\ Len(SpareOf(r)) = n - r.length
          /\ SpareOf(r) \in [1..(n - r.length) -> Elem]
  <1>1. n \in Nat /\ r.cap = n /\ r.length \in 0..n /\ n - r.length \in Nat
    BY RingShape
  <1>2. QueueOf(r) \in [1..r.length -> Elem]
    BY <1>1, CellType DEF QueueOf
  <1>3. SpareOf(r) \in [1..(n - r.length) -> Elem]
    BY <1>1, CellType DEF SpareOf
  <1>4. QueueOf(r) \in Seq(Elem) /\ SpareOf(r) \in Seq(Elem)
    BY <1>1, <1>2, <1>3, SeqDef, SMTT(40)
  <1>5. Len(QueueOf(r)) = r.length /\ Len(SpareOf(r)) = n - r.length
    BY <1>1, <1>2, <1>3, <1>4, LenProperties
  <1>6. QED
    BY <1>1, <1>3, <1>4, <1>5

\* The elements of the queue are the first cells.
LEMMA QueueCell ==
    ASSUME NEW r, NEW i \in 1..r.length
    PROVE QueueOf(r)[i] = Cell(r, i - 1)
  BY DEF QueueOf

\* The spare cells are the others.
LEMMA SpareCell ==
    ASSUME NEW n, NEW r, RingOK(r, n), NEW i \in 1..(n - r.length)
    PROVE SpareOf(r)[i] = Cell(r, r.length + i - 1)
  BY RingShape DEF SpareOf

\* The index arithmetic of a contiguous write: Round is where get_idx goes.
Round(a, i, n) == IF a + i < n THEN a + i ELSE a + i - n

\* A contiguous run of cells is a contiguous run of slots.
LEMMA WriteRound ==
    ASSUME NEW n \in Nat, n > 0, NEW a \in 0..(n - 1), NEW i \in 0..(n - 1), NEW j \in 0..n,
           NEW m \in Nat, j + m <= n, Round(a, j, n) + m <= n
    PROVE /\ Round(a, i, n) \in 0..(n - 1) /\ Round(a, j, n) \in 0..(n - 1)
          /\ (Round(a, i, n) >= Round(a, j, n) /\ Round(a, i, n) < Round(a, j, n) + m)
                 <=> (i >= j /\ i < j + m)
          /\ i >= j /\ i < j + m => Round(a, i, n) - Round(a, j, n) = i - j
  BY DEF Round

\* Slots j, j+1, ... of the storage written without going round its end are
\* the cells j, j+1, ... and no others.
LEMMA WriteCells ==
    ASSUME NEW n, NEW r, RingOK(r, n), NEW q, RingOK(q, n), NEW d \in Seq(Elem), NEW j \in Nat,
           q.read_at = r.read_at, q.storage = Copied(r.storage, get_idx(r, j), d),
           j + Len(d) <= n, get_idx(r, j) + Len(d) <= n
    PROVE \A i \in 0..(n - 1) :
             Cell(q, i) = IF i >= j /\ i < j + Len(d) THEN d[i - j + 1] ELSE Cell(r, i)
  <1> SUFFICES ASSUME NEW i \in 0..(n - 1)
               PROVE Cell(q, i) = IF i >= j /\ i < j + Len(d) THEN d[i - j + 1] ELSE Cell(r, i)
    OBVIOUS
  <1> DEFINE at == get_idx(r, j)
             k == get_idx(r, i)
  <1>1. n \in Nat /\ n > 0 /\ r.cap = n /\ q.cap = n /\ Len(d) \in Nat /\ j \in 0..n
    BY LenProperties DEF RingOK, Ring
  <1>2. DOMAIN r.storage = 0..(n - 1) /\ r.read_at \in 0..(n - 1)
    BY <1>1 DEF RingOK, Ring
  <1>3. get_idx(q, i) = k
    BY <1>1 DEF get_idx
  <1>4. k = Round(r.read_at, i, n) /\ at = Round(r.read_at, j, n)
    BY <1>1, IdxSplit, SMTT(30) DEF Round
  <1> HIDE DEF at, k
  <1>5. /\ k \in 0..(n - 1)
        /\ (k >= at /\ k < at + Len(d)) <=> (i >= j /\ i < j + Len(d))
        /\ i >= j /\ i < j + Len(d) => k - at = i - j
    <2>1. Round(r.read_at, j, n) + Len(d) <= n
      BY <1>4 DEF at
    <2>2. QED
      BY <1>1, <1>2, <1>4, <2>1, WriteRound, SMTT(40)
  <1>6. Cell(q, i) = IF k >= at /\ k < at + Len(d) THEN d[k - at + 1] ELSE r.storage[k]
    BY <1>2, <1>3, <1>5 DEF Cell, Copied, at
  <1>7. QED
    BY <1>5, <1>6 DEF Cell, k

\* Moving read_at m cells on rotates the cells.
LEMMA RotateCells ==
    ASSUME NEW n, NEW r, RingOK(r, n), NEW q, RingOK(q, n), NEW m \in 0..n,
           q.storage = r.storage, q.read_at = get_idx(r, m)
    PROVE \A i \in 0..(n - 1) :
             Cell(q, i) = IF i + m < n THEN Cell(r, i + m) ELSE Cell(r, i + m - n)
  <1> SUFFICES ASSUME NEW i \in 0..(n - 1)
               PROVE Cell(q, i) = IF i + m < n THEN Cell(r, i + m) ELSE Cell(r, i + m - n)
    OBVIOUS
  <1>1. n \in Nat /\ n > 0 /\ r.read_at \in 0..(n - 1) /\ q.read_at \in 0..(n - 1)
    BY DEF RingOK, Ring
  <1>2. q.read_at = (IF r.read_at + m < n THEN r.read_at + m ELSE r.read_at + m - n)
    BY <1>1, IdxSplit
  <1>3. get_idx(q, i) = (IF q.read_at + i < n THEN q.read_at + i ELSE q.read_at + i - n)
    BY <1>1, IdxSplit
  <1>4. CASE i + m < n
    <2>1. i + m \in 0..n
      BY <1>1, <1>4
    <2>2. get_idx(r, i + m) = (IF r.read_at + (i + m) < n THEN r.read_at + (i + m)
                                                        ELSE r.read_at + (i + m) - n)
      BY <1>1, <2>1, IdxSplit
    <2>3. get_idx(q, i) = get_idx(r, i + m)
      BY <1>1, <1>2, <1>3, <1>4, <2>2
    <2>4. QED
      BY <1>4, <2>3 DEF Cell
  <1>5. CASE ~(i + m < n)
    <2>1. i + m - n \in 0..n
      BY <1>1, <1>5
    <2>2. get_idx(r, i + m - n) = (IF r.read_at + (i + m - n) < n THEN r.read_at + (i + m - n)
                                                        ELSE r.read_at + (i + m - n) - n)
      BY <1>1, <2>1, IdxSplit
    <2>3. get_idx(q, i) = get_idx(r, i + m - n)
      BY <1>1, <1>2, <1>3, <1>5, <2>2
    <2>4. QED
      BY <1>5, <2>3 DEF Cell
  <1>6. QED
    BY <1>4, <1>5
-----------------------------------------------------------------------------
\* Two sequences that agree everywhere are equal; SeqEqual in the form used here.
LEMMA SameSeq ==
    ASSUME NEW s \in Seq(Elem), NEW t \in Seq(Elem), NEW m \in Nat,
           Len(s) = m, Len(t) = m, \A i \in 1..m : s[i] = t[i]
    PROVE s = t
  BY SeqEqual

\* The parts of a sequence and their elements.
LEMMA Parts ==
    ASSUME NEW s \in Seq(Elem), NEW m \in Nat, m <= Len(s)
    PROVE /\ SubSeq(s, 1, m) \in Seq(Elem) /\ Len(SubSeq(s, 1, m)) = m
          /\ SubSeq(s, m + 1, Len(s)) \in Seq(Elem)
          /\ Len(SubSeq(s, m + 1, Len(s))) = Len(s) - m
          /\ \A i \in 1..m : SubSeq(s, 1, m)[i] = s[i]
          /\ \A i \in 1..(Len(s) - m) : SubSeq(s, m + 1, Len(s))[i] = s[m + i]
  <1>1. Len(s) \in Nat /\ \A i \in 1..Len(s) : s[i] \in Elem
    BY LenProperties
  <1>2. \A i \in 1..m : SubSeq(s, 1, m)[i] = s[i]
    <2>1. \A i \in 1..m : s[i] \in Elem
      BY <1>1
    <2>2. \A i \in 1..(m - 1 + 1) : SubSeq(s, 1, m)[i] = s[1 + i - 1]
      BY <2>1, SubSeqProperties
    <2>3. QED
      BY <2>2
  <1>3. \A i \in 1..(Len(s) - m) : SubSeq(s, m + 1, Len(s))[i] = s[m + i]
    <2>1. \A i \in (m + 1)..Len(s) : s[i] \in Elem
      BY <1>1
    <2>2. m + 1 \in Int /\ Len(s) \in Int
      BY <1>1
    <2>3. \A i \in 1..(Len(s) - (m + 1) + 1) : SubSeq(s, m + 1, Len(s))[i] = s[(m + 1) + i - 1]
      BY <2>1, <2>2, SubSeqProperties
    <2>4. QED
      BY <1>1, <2>3
  <1>4. QED
    BY <1>2, <1>3, PartType, Zenon

\* The same where the lengths are known by other names.
LEMMA Rest ==
    ASSUME NEW s \in Seq(Elem), NEW len \in Nat, Len(s) = len, NEW m \in Nat, m <= len
    PROVE /\ SubSeq(s, m + 1, Len(s)) \in Seq(Elem)
          /\ Len(SubSeq(s, m + 1, Len(s))) = len - m
          /\ \A i \in 1..(len - m) : SubSeq(s, m + 1, Len(s))[i] = s[m + i]
  BY Parts

\* The operators on sequences under names of their own, so that the provers do
\* not expand them.
Cat(s, t) == s \o t
TakeOf(s, m) == SubSeq(s, 1, m)
DropOf(s, m) == SubSeq(s, m + 1, Len(s))

\* The elements of a concatenation.
LEMMA Joined ==
    ASSUME NEW s \in Seq(Elem), NEW t \in Seq(Elem), NEW a \in Nat, NEW b \in Nat,
           Len(s) = a, Len(t) = b
    PROVE /\ Cat(s, t) \in Seq(Elem) /\ Len(Cat(s, t)) = a + b
          /\ \A i \in 1..(a + b) : Cat(s, t)[i] = IF i <= a THEN s[i] ELSE t[i - a]
  BY ConcatProperties, Zenon DEF Cat

\* Cells at the border that hold d join the queue.
LEMMA Grow ==
    ASSUME NEW n, NEW r, RingOK(r, n), NEW q, RingOK(q, n), NEW d \in Seq(Elem),
           q.length = r.length + Len(d),
           \A i \in 0..(n - 1) :
              Cell(q, i) = IF i >= r.length /\ i < r.length + Len(d)
                           THEN d[i - r.length + 1] ELSE Cell(r, i)
    PROVE /\ QueueOf(q) = Cat(QueueOf(r), d)
          /\ SpareOf(q) = DropOf(SpareOf(r), Len(d))
  <1> DEFINE len == r.length
             m == Len(d)
  <1>1. n \in Nat /\ len \in 0..n /\ m \in Nat /\ q.length \in 0..n /\ q.length = len + m
    BY RingShape, LenProperties
  <1>2. QueueOf(q) = QueueOf(r) \o d
    <2> DEFINE t == Cat(QueueOf(r), d)
    <2>1. /\ t \in Seq(Elem) /\ Len(t) = len + m
          /\ \A i \in 1..(len + m) : t[i] = IF i <= len THEN QueueOf(r)[i] ELSE d[i - len]
      <3>1. QueueOf(r) \in Seq(Elem) /\ Len(QueueOf(r)) = len /\ len \in Nat
        BY <1>1, MappingType
      <3>2. Len(d) = m /\ m \in Nat
        BY <1>1
      <3> HIDE DEF len, m
      <3>3. QED
        BY <3>1, <3>2, Joined
    <2>2. QueueOf(q) \in Seq(Elem) /\ Len(QueueOf(q)) = len + m
      BY <1>1, MappingType, SMTT(40)
    <2>3. ASSUME NEW i \in 1..(len + m) PROVE QueueOf(q)[i] = t[i]
      <3>1. QueueOf(q)[i] = Cell(q, i - 1) /\ i - 1 \in 0..(n - 1)
        BY <1>1, QueueCell
      <3>2. i <= len => QueueOf(r)[i] = Cell(r, i - 1)
        BY <1>1, QueueCell
      <3> HIDE DEF t
      <3>3. (i - 1 >= len /\ i - 1 < len + m) <=> ~(i <= len)
        BY <1>1
      <3>4. i - 1 - len + 1 = i - len
        BY <1>1
      <3>5. QED
        BY <2>1, <3>1, <3>2, <3>3, <3>4
    <2> HIDE DEF t
    <2>4. len + m \in Nat
      BY <1>1
    <2>5. QED
      BY <2>1, <2>2, <2>3, <2>4, SameSeq, Zenon DEF t, Cat
  <1>3. SpareOf(q) = SubSeq(SpareOf(r), m + 1, Len(SpareOf(r)))
    <2> DEFINE t == SubSeq(SpareOf(r), m + 1, Len(SpareOf(r)))
               w == n - len - m
    <2>0. w \in Nat
      BY <1>1, SMTT(30)
    <2>1. SpareOf(r) \in Seq(Elem) /\ Len(SpareOf(r)) = n - len /\ m <= Len(SpareOf(r))
      BY <1>1, MappingType, SMTT(30)
    <2>2. /\ t \in Seq(Elem) /\ Len(t) = w
          /\ \A i \in 1..w : t[i] = SpareOf(r)[m + i]
      BY <1>1, <2>1, Parts, SMTT(40)
    <2>3. SpareOf(q) \in Seq(Elem) /\ Len(SpareOf(q)) = w
      BY <1>1, MappingType, SMTT(40)
    <2>4. ASSUME NEW i \in 1..w PROVE SpareOf(q)[i] = t[i]
      <3>1. i \in 1..(n - q.length) /\ m + i \in 1..(n - len) /\ len + m + i - 1 \in 0..(n - 1)
        BY <1>1, SMTT(40)
      <3>2. SpareOf(q)[i] = Cell(q, len + m + i - 1)
        <4>1. SpareOf(q)[i] = Cell(q, q.length + i - 1)
          BY <3>1, SpareCell
        <4>2. q.length + i - 1 = len + m + i - 1
          BY <1>1
        <4>3. QED
          BY <4>1, <4>2
      <3>3. SpareOf(r)[m + i] = Cell(r, len + (m + i) - 1)
        BY <1>1, <3>1, SpareCell
      <3>4. ~(len + m + i - 1 < len + m) /\ len + (m + i) - 1 = len + m + i - 1
        BY <1>1, SMTT(30)
      <3> HIDE DEF t
      <3>5. QED
        BY <2>2, <3>1, <3>2, <3>3, <3>4
    <2> HIDE DEF t, w
    <2>5. QED
      BY <2>0, <2>2, <2>3, <2>4, SameSeq, Zenon DEF t
  <1>4. QED
    BY <1>2, <1>3 DEF Cat, DropOf

\* Rotating the cells by m while the queue gets m shorter moves its oldest m
\* elements behind the spare cells.
LEMMA Shrink ==
    ASSUME NEW n, NEW r, RingOK(r, n), NEW q, RingOK(q, n), NEW m \in 0..r.length,
           q.length = r.length - m, q.storage = r.storage, q.read_at = get_idx(r, m)
    PROVE /\ QueueOf(q) = DropOf(QueueOf(r), m)
          /\ SpareOf(q) = Cat(SpareOf(r), TakeOf(QueueOf(r), m))
  <1> DEFINE len == r.length
  <1>1. n \in Nat /\ len \in 0..n /\ m \in Nat /\ m <= len /\ q.length = len - m
    BY RingShape
  <1>2. \A i \in 0..(n - 1) :
             Cell(q, i) = IF i + m < n THEN Cell(r, i + m) ELSE Cell(r, i + m - n)
    <2>1. m \in 0..n
      BY <1>1
    <2>2. QED
      BY <2>1, RotateCells
  <1>3. /\ QueueOf(r) \in Seq(Elem) /\ Len(QueueOf(r)) = len
        /\ SpareOf(r) \in Seq(Elem) /\ Len(SpareOf(r)) = n - len
        /\ QueueOf(q) \in Seq(Elem) /\ Len(QueueOf(q)) = len - m
        /\ SpareOf(q) \in Seq(Elem) /\ Len(SpareOf(q)) = n - len + m
    <2>1. /\ QueueOf(r) \in Seq(Elem) /\ Len(QueueOf(r)) = len
          /\ SpareOf(r) \in Seq(Elem) /\ Len(SpareOf(r)) = n - len
      BY MappingType
    <2>2. /\ QueueOf(q) \in Seq(Elem) /\ Len(QueueOf(q)) = q.length
          /\ SpareOf(q) \in Seq(Elem) /\ Len(SpareOf(q)) = n - q.length
      BY MappingType, SMTT(30)
    <2>3. q.length = len - m /\ n - q.length = n - len + m
      BY <1>1
    <2>4. QED
      BY <2>1, <2>2, <2>3
  <1>4. QueueOf(q) = SubSeq(QueueOf(r), m + 1, Len(QueueOf(r)))
    <2> DEFINE t == SubSeq(QueueOf(r), m + 1, Len(QueueOf(r)))
    <2>1. /\ t \in Seq(Elem) /\ Len(t) = len - m
          /\ \A i \in 1..(len - m) : t[i] = QueueOf(r)[m + i]
      <3>1. len \in Nat
        BY <1>1
      <3>2. QED
        BY <1>1, <1>3, <3>1, Rest, ZenonT(40)
    <2>2. ASSUME NEW i \in 1..(len - m) PROVE QueueOf(q)[i] = t[i]
      <3>1. QueueOf(q)[i] = Cell(q, i - 1) /\ i - 1 \in 0..(n - 1) /\ (i - 1) + m < n
        BY <1>1, QueueCell
      <3>2. m + i \in 1..len /\ (i - 1) + m = (m + i) - 1
        BY <1>1
      <3>3. QueueOf(r)[m + i] = Cell(r, (m + i) - 1)
        BY <3>2, QueueCell
      <3> HIDE DEF t
      <3>4. QED
        BY <1>2, <2>1, <3>1, <3>2, <3>3
    <2> HIDE DEF t
    <2>3. len - m \in Nat
      BY <1>1
    <2>4. QED
      BY <1>3, <2>1, <2>2, <2>3, SameSeq, Zenon DEF t
  <1>5. SpareOf(q) = SpareOf(r) \o SubSeq(QueueOf(r), 1, m)
    <2> DEFINE f == SubSeq(QueueOf(r), 1, m)
               t == Cat(SpareOf(r), f)
               w == n - len + m
    <2>1. f \in Seq(Elem) /\ Len(f) = m /\ \A i \in 1..m : f[i] = QueueOf(r)[i]
      BY <1>1, <1>3, Parts, SMTT(40)
    <2> HIDE DEF f
    <2>2. /\ t \in Seq(Elem) /\ Len(t) = w
          /\ \A i \in 1..w : t[i] = IF i <= n - len THEN SpareOf(r)[i] ELSE f[i - (n - len)]
      <3> DEFINE a == n - len
      <3>1. a \in Nat /\ w = a + m /\ Len(SpareOf(r)) = a
        BY <1>1, <1>3
      <3> HIDE DEF a, w
      <3>2. /\ t \in Seq(Elem) /\ Len(t) = a + m
            /\ \A i \in 1..(a + m) : t[i] = IF i <= a THEN SpareOf(r)[i] ELSE f[i - a]
        <4>1. SpareOf(r) \in Seq(Elem) /\ f \in Seq(Elem) /\ Len(f) = m /\ m \in Nat
          BY <1>1, <1>3, <2>1
        <4>2. QED
          BY <3>1, <4>1, Joined
      <3>3. QED
        BY <3>1, <3>2 DEF a
    <2> HIDE DEF t
    <2>3. ASSUME NEW i \in 1..w PROVE SpareOf(q)[i] = t[i]
      <3>1. i \in 1..(n - q.length) /\ q.length + i - 1 \in 0..(n - 1)
        BY <1>1
      <3>2. SpareOf(q)[i] = Cell(q, q.length + i - 1)
        BY <3>1, SpareCell
      <3>3. CASE i <= n - len
        <4>1. i \in 1..(n - len) /\ (q.length + i - 1) + m = len + i - 1 /\ len + i - 1 < n
          BY <1>1, <3>3
        <4>2. SpareOf(r)[i] = Cell(r, len + i - 1)
          BY <4>1, SpareCell
        <4>3. QED
          BY <1>2, <2>2, <3>1, <3>2, <3>3, <4>1, <4>2
      <3>4. CASE ~(i <= n - len)
        <4> DEFINE k == i - (n - len)
        <4>1. k \in 1..m /\ k \in 1..len /\ (q.length + i - 1) + m - n = k - 1
              /\ ~((q.length + i - 1) + m < n)
          BY <1>1, <3>4
        <4> HIDE DEF k
        <4>2. QueueOf(r)[k] = Cell(r, k - 1)
          BY <4>1, QueueCell
        <4>3. QED
          BY <1>2, <2>1, <2>2, <3>1, <3>2, <3>4, <4>1, <4>2, SMTT(30) DEF k
      <3>5. QED
        BY <3>3, <3>4
    <2>4. w \in Nat
      BY <1>1
    <2>5. QED
      BY <1>3, <2>2, <2>3, <2>4, SameSeq, Zenon DEF t, f, Cat
  <1>6. QED
    BY <1>4, <1>5, SMTT(30) DEF Cat, DropOf, TakeOf
-----------------------------------------------------------------------------
(***************************************************************************)
(* Copies that go round the end of the storage are made in two pieces.     *)
(***************************************************************************)
\* get_idx, also for a storage without cells.
LEMMA IdxRound ==
    ASSUME NEW n, NEW r, RingOK(r, n), NEW i \in 0..n
    PROVE get_idx(r, i) = Round(r.read_at, i, n)
  <1>1. n \in Nat /\ r.cap = n /\ r.read_at \in Nat /\ (r.read_at < n \/ r.read_at = 0)
    BY DEF RingOK, Ring
  <1>2. CASE n > 0
    BY <1>2, IdxSplit DEF Round
  <1>3. CASE n = 0
    BY <1>1, <1>3 DEF Round, get_idx
  <1>4. QED
    BY <1>1, <1>2, <1>3

\* The lengths of the pieces: of m cells asked for from cell p on, where there
\* are w, the first piece has s1 and the second s2, and together they are all
\* that is asked for or all there is.
TwoPieces(n, a, p, w, m, s1, s2) ==
    /\ n \in Nat /\ a \in Nat /\ (a < n \/ a = 0) /\ p \in Nat /\ w \in Nat
    /\ p + w <= n /\ m \in Nat
    /\ s1 = Min2(Min2(m, w), n - Round(a, p, n))
    /\ s2 = Min2(Min2(m - s1, w - s1), n - Round(a, p + s1, n))

\* The pieces are in range and together what was asked for or what there is.
LEMMA Pieces ==
    ASSUME NEW n, NEW a, NEW p, NEW w, NEW m, NEW s1, NEW s2, TwoPieces(n, a, p, w, m, s1, s2)
    PROVE /\ s1 \in Nat /\ s1 <= m /\ s1 <= w /\ Round(a, p, n) + s1 <= n
          /\ s2 \in Nat /\ s2 <= m - s1 /\ s2 <= w - s1 /\ Round(a, p + s1, n) + s2 <= n
          /\ s1 + s2 = Min2(m, w)
          /\ m > 0 /\ w > 0 => s1 > 0
  <1> DEFINE x == Round(a, p, n)
  <1> USE DEF TwoPieces
  <1>1. x \in Nat /\ x <= n /\ (n > 0 => x < n)
    BY DEF Round
  <1>2. /\ s1 \in Nat /\ s1 <= m /\ s1 <= w /\ x + s1 <= n
        /\ m > 0 /\ w > 0 => s1 > 0
        /\ s1 = m \/ s1 = w \/ s1 = n - x
    BY <1>1 DEF Min2
  <1>3. s1 = n - x => Round(a, p + s1, n) = 0
    BY <1>1, <1>2 DEF Round
  <1>4. Round(a, p + s1, n) \in Nat /\ Round(a, p + s1, n) <= n
    BY <1>2, SMTT(40) DEF Round
  <1> HIDE DEF x
  <1> DEFINE y == Round(a, p + s1, n)
  <1>5. s2 \in Nat /\ s2 <= m - s1 /\ s2 <= w - s1 /\ y + s2 <= n
    <2>1. y \in Nat /\ y <= n /\ s2 = Min2(Min2(m - s1, w - s1), n - y)
      BY <1>4
    <2> HIDE DEF y
    <2>2. QED
      BY <1>2, <2>1 DEF Min2
  <1>6. s1 + s2 = Min2(m, w)
    <2>1. y \in Nat /\ y <= n /\ s2 = Min2(Min2(m - s1, w - s1), n - y) /\ (s1 = n - x => y = 0)
      BY <1>3, <1>4
    <2> HIDE DEF y
    <2>2. QED
      BY <1>2, <2>1 DEF Min2
  <1>7. QED
    BY <1>2, <1>5, <1>6 DEF x, y

\* What TakeOf gives.
LEMMA TakeIs ==
    ASSUME NEW s \in Seq(Elem), NEW m \in Nat, m <= Len(s)
    PROVE /\ TakeOf(s, m) \in Seq(Elem) /\ Len(TakeOf(s, m)) = m
          /\ \A i \in 1..m : TakeOf(s, m)[i] = s[i]
  BY Parts DEF TakeOf

\* What DropOf gives; k is the length of what is left.
LEMMA DropIs ==
    ASSUME NEW s \in Seq(Elem), NEW m \in Nat, NEW k \in Nat, Len(s) = m + k
    PROVE /\ DropOf(s, m) \in Seq(Elem) /\ Len(DropOf(s, m)) = k
          /\ \A i \in 1..k : DropOf(s, m)[i] = s[m + i]
  <1>1. m <= Len(s) /\ Len(s) - m = k
    OBVIOUS
  <1>2. QED
    BY <1>1, Parts DEF DropOf

\* Two pieces of a sequence taken one after the other are one.
LEMMA TakeTwice ==
    ASSUME NEW s \in Seq(Elem), NEW a \in Nat, NEW b \in Nat, a + b <= Len(s)
    PROVE Cat(TakeOf(s, a), TakeOf(DropOf(s, a), b)) = TakeOf(s, a + b)
  <1> DEFINE x == TakeOf(s, a)
             rest == DropOf(s, a)
             y == TakeOf(rest, b)
             z == TakeOf(s, a + b)
             t == Cat(x, y)
             k == Len(s) - a
  <1>1. a <= Len(s) /\ k \in Nat /\ Len(s) = a + k /\ b <= k /\ a + b \in Nat
    BY LenProperties
  <1> HIDE DEF k
  <1>2. x \in Seq(Elem) /\ Len(x) = a /\ \A i \in 1..a : x[i] = s[i]
    BY <1>1, TakeIs
  <1>3. rest \in Seq(Elem) /\ Len(rest) = k /\ \A i \in 1..k : rest[i] = s[a + i]
    BY <1>1, DropIs, ZenonT(40)
  <1>4. z \in Seq(Elem) /\ Len(z) = a + b /\ \A i \in 1..(a + b) : z[i] = s[i]
    BY <1>1, TakeIs
  <1> HIDE DEF x, rest, z
  <1>5. y \in Seq(Elem) /\ Len(y) = b /\ \A i \in 1..b : y[i] = rest[i]
    BY <1>1, <1>3, TakeIs, SMTT(30)
  <1> HIDE DEF y
  <1>6. /\ t \in Seq(Elem) /\ Len(t) = a + b
        /\ \A i \in 1..(a + b) : t[i] = IF i <= a THEN x[i] ELSE y[i - a]
    BY <1>2, <1>5, Joined, SMTT(40)
  <1> HIDE DEF t
  <1>7. ASSUME NEW i \in 1..(a + b) PROVE t[i] = z[i]
    <2>1. CASE i <= a
      <3>1. i \in 1..a
        BY <2>1
      <3>2. QED
        BY <1>2, <1>4, <1>6, <2>1, <3>1, Zenon
    <2>2. CASE ~(i <= a)
      <3>1. i - a \in 1..b /\ i - a \in 1..k /\ a + (i - a) = i
        BY <1>1, <2>2
      <3>2. y[i - a] = s[a + (i - a)]
        BY <1>3, <1>5, <3>1, SMTT(30)
      <3>3. QED
        BY <1>4, <1>6, <2>2, <3>1, <3>2
    <2>3. QED
      BY <2>1, <2>2
  <1>8. QED
    BY <1>1, <1>4, <1>6, <1>7, SameSeq, SMTT(30) DEF t, x, y, z, rest

\* Two pieces dropped one after the other are one.
LEMMA DropTwice ==
    ASSUME NEW s \in Seq(Elem), NEW a \in Nat, NEW b \in Nat, a + b <= Len(s)
    PROVE DropOf(DropOf(s, a), b) = DropOf(s, a + b)
  <1> DEFINE rest == DropOf(s, a)
             y == DropOf(rest, b)
             c == a + b
             z == DropOf(s, c)
             k == Len(s) - a
             w == Len(s) - c
  <1>1. /\ k \in Nat /\ Len(s) = a + k /\ k = b + w
        /\ w \in Nat /\ c \in Nat /\ c = a + b /\ Len(s) = c + w
    <2>1. Len(s) \in Nat
      BY LenProperties
    <2> DEFINE len == Len(s)
    <2>2. len \in Nat /\ a + b <= len
      BY <2>1
    <2> HIDE DEF len
    <2>3. QED
      BY <2>2 DEF len
  <1> HIDE DEF k, w, c
  <1>2. rest \in Seq(Elem) /\ Len(rest) = k /\ \A i \in 1..k : rest[i] = s[a + i]
    <2>1. k \in Nat /\ Len(s) = a + k
      BY <1>1
    <2>2. QED
      BY <2>1, DropIs, Zenon
  <1>3. z \in Seq(Elem) /\ Len(z) = w /\ \A i \in 1..w : z[i] = s[c + i]
    <2>1. c \in Nat /\ w \in Nat /\ Len(s) = c + w
      BY <1>1
    <2>2. QED
      BY <2>1, DropIs, ZenonT(40)
  <1> HIDE DEF rest, z
  <1>4. y \in Seq(Elem) /\ Len(y) = w /\ \A i \in 1..w : y[i] = rest[b + i]
    <2>1. w \in Nat /\ rest \in Seq(Elem) /\ Len(rest) = b + w
      BY <1>1, <1>2
    <2>2. QED
      BY <2>1, DropIs, ZenonT(40)
  <1> HIDE DEF y
  <1>5. ASSUME NEW i \in 1..w PROVE y[i] = z[i]
    <2>1. b + i \in 1..k /\ a + (b + i) = c + i
      BY <1>1
    <2>2. rest[b + i] = s[a + (b + i)]
      BY <1>2, <2>1
    <2>3. QED
      BY <1>3, <1>4, <2>1, <2>2
  <1>6. QED
    BY <1>1, <1>3, <1>4, <1>5, SameSeq, SMTT(30) DEF y, z, rest, c

\* Concatenation is associative.
LEMMA CatCat ==
    ASSUME NEW s \in Seq(Elem), NEW t \in Seq(Elem), NEW u \in Seq(Elem)
    PROVE Cat(Cat(s, t), u) = Cat(s, Cat(t, u))
  BY ConcatAssociative, SMTT(30) DEF Cat

-----------------------------------------------------------------------------
(***************************************************************************)
(* The operations, in terms of queue and spare.                            *)
(***************************************************************************)
\* Data put over the cells of s from cell o + 1 on, as Fifo has it.
OverlayOf(s, o, d) ==
    [k \in 1..Len(s) |-> IF k > o /\ k <= o + Len(d) THEN d[k - o] ELSE s[k]]

\* q is r with d written over its cells j, j + 1, ...
Wrote(n, r, q, d, j) ==
    \A i \in 0..(n - 1) :
        Cell(q, i) = IF i >= j /\ i < j + Len(d) THEN d[i - j + 1] ELSE Cell(r, i)

\* Writing cells behind the queue leaves the queue and overlays the spare cells.
LEMMA Overlaid ==
    ASSUME NEW n, NEW r, RingOK(r, n), NEW q, RingOK(q, n), NEW d \in Seq(Elem), NEW o \in Nat,
           q.length = r.length, NEW j, j = r.length + o, Wrote(n, r, q, d, j)
    PROVE QueueOf(q) = QueueOf(r) /\ SpareOf(q) = OverlayOf(SpareOf(r), o, d)
  <1> DEFINE len == r.length
             m == Len(d)
             w == n - len
  <1>1. n \in Nat /\ len \in 0..n /\ m \in Nat /\ q.length = len /\ w \in Nat
    BY RingShape, LenProperties
  <1>2. QueueOf(q) = QueueOf(r)
    <2>1. /\ QueueOf(q) \in Seq(Elem) /\ Len(QueueOf(q)) = len
          /\ QueueOf(r) \in Seq(Elem) /\ Len(QueueOf(r)) = len
      BY <1>1, MappingType, SMTT(30)
    <2>2. ASSUME NEW i \in 1..len PROVE QueueOf(q)[i] = QueueOf(r)[i]
      <3>1. i - 1 \in 0..(n - 1) /\ ~(i - 1 >= j)
        BY <1>1, SMTT(30)
      <3>2. QueueOf(q)[i] = Cell(q, i - 1) /\ QueueOf(r)[i] = Cell(r, i - 1)
        BY <1>1, QueueCell, SMTT(30)
      <3>3. QED
        BY <3>1, <3>2 DEF Wrote
    <2>3. len \in Nat
      BY <1>1
    <2>4. QED
      BY <2>1, <2>2, <2>3, SameSeq, SMTT(30)
  <1>3. SpareOf(q) = OverlayOf(SpareOf(r), o, d)
    <2>1. SpareOf(q) = [k \in 1..w |-> Cell(q, len + k - 1)]
      BY <1>1, RingShape DEF SpareOf
    <2>2. OverlayOf(SpareOf(r), o, d)
            = [k \in 1..w |-> IF k > o /\ k <= o + m THEN d[k - o] ELSE SpareOf(r)[k]]
      BY <1>1, MappingType, SMTT(30) DEF OverlayOf
    <2>3. ASSUME NEW k \in 1..w
          PROVE Cell(q, len + k - 1)
                  = IF k > o /\ k <= o + m THEN d[k - o] ELSE SpareOf(r)[k]
      <3> DEFINE i == len + k - 1
      <3>1. /\ i \in 0..(n - 1) /\ i - j + 1 = k - o
            /\ (i >= j /\ i < j + m) <=> (k > o /\ k <= o + m)
        <4>1. /\ n \in Nat /\ len \in Nat /\ len <= n /\ m \in Nat
              /\ k \in Nat /\ k >= 1 /\ k <= n - len /\ j = len + o
          BY <1>1
        <4> HIDE DEF len, m
        <4>2. QED
          BY <4>1
      <3>2. SpareOf(r)[k] = Cell(r, i)
        BY <1>1, SpareCell
      <3> HIDE DEF i
      <3>3. Cell(q, i) = IF i >= j /\ i < j + m THEN d[i - j + 1] ELSE Cell(r, i)
        BY <3>1 DEF Wrote
      <3>4. QED
        BY <3>1, <3>2, <3>3 DEF i
    <2>4. QED
      BY <2>1, <2>2, <2>3, SMTT(30)
  <1>4. QED
    BY <1>2, <1>3

\* A slice of the storage that does not go round its end is a piece of the queue.
LEMMA SliceCells ==
    ASSUME NEW n, NEW r, RingOK(r, n), NEW o \in Nat, NEW m \in Nat,
           o + m <= r.length, get_idx(r, o) + m <= n
    PROVE Slice(r.storage, get_idx(r, o), m) = TakeOf(DropOf(QueueOf(r), o), m)
  <1> DEFINE at == get_idx(r, o)
             len == r.length
             k == len - o
             rest == DropOf(QueueOf(r), o)
             z == TakeOf(rest, m)
             t == Slice(r.storage, at, m)
  <1>1. /\ n \in Nat /\ len \in 0..n /\ o \in 0..n /\ k \in Nat /\ len = o + k /\ m <= k
        /\ r.read_at \in Nat /\ (r.read_at < n \/ r.read_at = 0)
    BY DEF RingOK, Ring
  <1>2. at = Round(r.read_at, o, n) /\ at \in Nat /\ at + m <= n
    BY <1>1, IdxRound, GetIdxRange
  <1>3. QueueOf(r) \in Seq(Elem) /\ Len(QueueOf(r)) = o + k
    BY <1>1, MappingType
  <1> HIDE DEF k
  <1>4. rest \in Seq(Elem) /\ Len(rest) = k /\ \A i \in 1..k : rest[i] = QueueOf(r)[o + i]
    <2>1. k \in Nat
      BY <1>1
    <2>2. QED
      BY <1>3, <2>1, DropIs, ZenonT(40)
  <1> HIDE DEF rest
  <1>5. z \in Seq(Elem) /\ Len(z) = m /\ \A i \in 1..m : z[i] = rest[i]
    BY <1>1, <1>4, TakeIs
  <1>6. t \in Seq(Elem) /\ Len(t) = m
    BY <1>2, SliceType
  <1> HIDE DEF at, z
  <1>7. \A i \in 1..m : t[i] = r.storage[at + i - 1]
    BY DEF Slice
  <1> HIDE DEF t
  <1>8. ASSUME NEW i \in 1..m PROVE t[i] = z[i]
    <2>1. o + i - 1 \in 0..n /\ o + i \in 1..len /\ i \in 1..k
      BY <1>1
    <2>2. get_idx(r, o + i - 1) = Round(r.read_at, o + i - 1, n)
      BY <2>1, IdxRound
    <2>3. Round(r.read_at, o + i - 1, n) = at + i - 1
      BY <1>1, <1>2 DEF Round
    <2>4. QueueOf(r)[o + i] = Cell(r, o + i - 1)
      BY <2>1, QueueCell
    <2>5. QED
      BY <1>4, <1>5, <1>7, <2>1, <2>2, <2>3, <2>4, SMTT(30) DEF Cell
  <1>9. QED
    BY <1>5, <1>6, <1>8, SameSeq, SMTT(30) DEF t, z, rest, at

\* A contiguous copy at the border, which then moves past it, appends.
LEMMA AppendCells ==
    ASSUME NEW n, NEW r, RingOK(r, n), NEW q, RingOK(q, n), NEW d \in Seq(Elem),
           q.read_at = r.read_at, q.storage = Copied(r.storage, get_idx(r, r.length), d),
           q.length = r.length + Len(d), get_idx(r, r.length) + Len(d) <= n
    PROVE QueueOf(q) = Cat(QueueOf(r), d) /\ SpareOf(q) = DropOf(SpareOf(r), Len(d))
  <1>1. r.length \in Nat /\ r.length + Len(d) <= n
    <2>1. q.length \in 0..n /\ r.length \in 0..n /\ n \in Nat
      BY RingShape
    <2>2. QED
      BY <2>1
  <1>2. \A i \in 0..(n - 1) :
             Cell(q, i) = IF i >= r.length /\ i < r.length + Len(d)
                          THEN d[i - r.length + 1] ELSE Cell(r, i)
    BY <1>1, WriteCells
  <1>3. QED
    BY <1>2, Grow

\* q is r after a contiguous copy of d to the spare cells from o + 1 on.
CopiedBehind(n, r, q, d, o) ==
    /\ RingOK(r, n) /\ RingOK(q, n) /\ d \in Seq(Elem) /\ o \in Nat
    /\ q.read_at = r.read_at /\ q.length = r.length
    /\ \E j : /\ j = r.length + o /\ j + Len(d) <= n /\ get_idx(r, j) + Len(d) <= n
             /\ q.storage = Copied(r.storage, get_idx(r, j), d)

\* Such a copy overlays.
LEMMA OverlayCells ==
    ASSUME NEW n, NEW r, NEW q, NEW d, NEW o, CopiedBehind(n, r, q, d, o)
    PROVE QueueOf(q) = QueueOf(r) /\ SpareOf(q) = OverlayOf(SpareOf(r), o, d)
  <1>1. PICK j : /\ j = r.length + o /\ j + Len(d) <= n /\ get_idx(r, j) + Len(d) <= n
                 /\ q.storage = Copied(r.storage, get_idx(r, j), d)
    BY DEF CopiedBehind
  <1>2. /\ RingOK(r, n) /\ RingOK(q, n) /\ d \in Seq(Elem) /\ o \in Nat
        /\ q.read_at = r.read_at /\ q.length = r.length
    BY DEF CopiedBehind
  <1>3. j \in Nat
    BY <1>1, <1>2, RingShape, SMTT(30)
  <1>4. Wrote(n, r, q, d, j)
    BY <1>1, <1>2, <1>3, WriteCells, SMTT(30) DEF Wrote
  <1>5. QED
    BY <1>1, <1>2, <1>4, Overlaid, SMTT(30)

\* enqueue_one_with: one element appended, or written for nothing.
LEMMA EnqueueOneEffect ==
    ASSUME NEW n, NEW r, RingOK(r, n), NEW v \in Elem, ~is_full(r)
    PROVE /\ QueueOf(enqueue_one_with(r, v, TRUE)) = Cat(QueueOf(r), <<v>>)
          /\ SpareOf(enqueue_one_with(r, v, TRUE)) = DropOf(SpareOf(r), 1)
          /\ QueueOf(enqueue_one_with(r, v, FALSE)) = QueueOf(r)
          /\ SpareOf(enqueue_one_with(r, v, FALSE)) = OverlayOf(SpareOf(r), 0, <<v>>)
  <1> DEFINE d == <<v>>
             at == get_idx(r, r.length)
             y == enqueue_one_with(r, v, TRUE)
             x == enqueue_one_with(r, v, FALSE)
  <1>1. n \in Nat /\ r.cap = n /\ r.length \in 0..n /\ r.length < n
    BY DEF is_full, window, RingOK, Ring
  <1>2. d \in Seq(Elem) /\ Len(d) = 1
    OBVIOUS
  <1>3. at + 1 <= n /\ at \in Nat
    <2>1. r.length \in Nat /\ n > 0
      BY <1>1
    <2>2. at \in Nat /\ at < n
      BY <2>1, GetIdxRange
    <2>3. QED
      BY <1>1, <2>2
  <1>4. RingOK(x, n) /\ RingOK(y, n)
    BY OneOK, Zenon
  <1>5. /\ y.read_at = r.read_at /\ y.storage = Copied(r.storage, at, d)
        /\ y.length = r.length + 1
        /\ x.read_at = r.read_at /\ x.storage = Copied(r.storage, at, d)
        /\ x.length = r.length
    <2> DEFINE st == Copied(r.storage, at, d)
    <2>1. /\ y = [r EXCEPT !.storage = st, !.length = r.length + 1]
          /\ x = [r EXCEPT !.storage = st, !.length = r.length]
      BY DEF enqueue_one_with
    <2> HIDE DEF st, x, y
    <2>2. QED
      BY <2>1 DEF RingOK, Ring, st
  <1> HIDE DEF d, x, y
  <1>6. QueueOf(y) = Cat(QueueOf(r), d) /\ SpareOf(y) = DropOf(SpareOf(r), 1)
    <2>1. y.length = r.length + Len(d) /\ at + Len(d) <= n
      BY <1>2, <1>3, <1>5
    <2>2. QueueOf(y) = Cat(QueueOf(r), d) /\ SpareOf(y) = DropOf(SpareOf(r), Len(d))
      BY <1>2, <1>4, <1>5, <2>1, AppendCells, Zenon
    <2>3. QED
      BY <1>2, <2>2
  <1>7. QueueOf(x) = QueueOf(r) /\ SpareOf(x) = OverlayOf(SpareOf(r), 0, d)
    <2> DEFINE o == 0
               j == r.length
    <2>1. /\ o \in Nat /\ j = r.length + o /\ j + Len(d) <= n /\ get_idx(r, j) + Len(d) <= n
          /\ x.read_at = r.read_at /\ x.length = r.length
          /\ x.storage = Copied(r.storage, get_idx(r, j), d)
      BY <1>1, <1>2, <1>3, <1>5, SMTT(30)
    <2> HIDE DEF o, j
    <2>2. CopiedBehind(n, r, x, d, o)
      BY <1>2, <1>4, <2>1, SMTT(30) DEF CopiedBehind
    <2>3. QED
      BY <2>2, OverlayCells, SMTT(30) DEF o
  <1>8. QED
    BY <1>6, <1>7, Zenon DEF d, x, y

\* enqueue_many_with: some of the data appended.
LEMMA EnqueueManyEffect ==
    ASSUME NEW n, NEW r, RingOK(r, n), NEW d \in Seq(Elem),
           NEW size, size = enqueue_many_size(r, Len(d)),
           NEW q, q = enqueue_many_with(r, d)
    PROVE /\ RingOK(q, n) /\ size \in 0..Len(d) /\ size <= n - r.length
          /\ q.length = r.length + size
          /\ q.read_at = Rewound(r).read_at
          /\ QueueOf(q) = Cat(QueueOf(r), TakeOf(d, size))
          /\ r.length # 0 => SpareOf(q) = DropOf(SpareOf(r), size)
  <1> DEFINE p == Rewound(r)
             part == TakeOf(d, size)
             at == get_idx(p, p.length)
  <1>1. RingOK(p, n) /\ RingOK(q, n)
    BY ClearOK, EnqueueOK
  <1>2. p.length = r.length /\ (r.length # 0 => p = r) /\ QueueOf(p) = QueueOf(r)
    <2>1. p.length = r.length /\ (r.length # 0 => p = r)
      BY DEF Rewound, RingOK, Ring
    <2>2. QueueOf(p) = QueueOf(r)
      <3>1. CASE r.length = 0
        <4>1. QueueOf(p) \in Seq(Elem) /\ Len(QueueOf(p)) = 0
              /\ QueueOf(r) \in Seq(Elem) /\ Len(QueueOf(r)) = 0
          BY <1>1, <2>1, <3>1, MappingType, SMTT(30)
        <4>2. QED
          BY <4>1, EmptySeq
      <3>2. QED
        BY <2>1, <3>1
    <2>3. QED
      BY <2>1, <2>2
  <1>3. size \in 0..Len(d) /\ size <= n - p.length /\ at + size <= n /\ Len(d) \in Nat
    BY EnqueueManySize, LenProperties, SMTT(30)
  <1>4. part \in Seq(Elem) /\ Len(part) = size
    BY <1>3, TakeIs
  <1>5. /\ q.read_at = p.read_at /\ q.storage = Copied(p.storage, at, part)
        /\ q.length = p.length + size
    <2> HIDE DEF p
    <2>1. q = [p EXCEPT !.storage = Copied(@, at, part), !.length = @ + size]
      BY DEF enqueue_many_with, TakeOf, p
    <2> HIDE DEF part, at
    <2>2. QED
      BY <1>1, <2>1, SMTT(30) DEF RingOK, Ring
  <1> HIDE DEF p, part
  <1>6. QueueOf(q) = Cat(QueueOf(p), part) /\ SpareOf(q) = DropOf(SpareOf(p), size)
    BY <1>1, <1>3, <1>4, <1>5, AppendCells, SMTT(30)
  <1>7. QED
    BY <1>1, <1>2, <1>3, <1>5, <1>6, SMTT(30) DEF part, p

\* cmp::min nests either way.
LEMMA MinMin ==
    ASSUME NEW a \in Int, NEW b \in Int, NEW c \in Int
    PROVE Min2(a, Min2(b, c)) = Min2(Min2(a, b), c)
  BY DEF Min2

\* The oldest element is at read_at.
LEMMA IdxZero ==
    ASSUME NEW n, NEW r, RingOK(r, n)
    PROVE get_idx(r, 0) = r.read_at /\ Round(r.read_at, 0, n) = r.read_at
  <1>1. n \in Nat /\ r.read_at \in Nat /\ (r.read_at < n \/ r.read_at = 0)
    BY DEF RingOK, Ring
  <1>2. Round(r.read_at, 0, n) = r.read_at
    BY <1>1 DEF Round
  <1>3. 0 \in 0..n
    BY <1>1
  <1>4. QED
    BY <1>2, <1>3, IdxRound

\* Nothing dropped.
LEMMA DropNone ==
    ASSUME NEW s \in Seq(Elem)
    PROVE DropOf(s, 0) = s
  <1> DEFINE k == Len(s)
  <1>1. k \in Nat /\ Len(s) = 0 + k
    BY LenProperties
  <1> HIDE DEF k
  <1>2. DropOf(s, 0) \in Seq(Elem) /\ Len(DropOf(s, 0)) = k
        /\ \A i \in 1..k : DropOf(s, 0)[i] = s[0 + i]
    BY <1>1, DropIs, SMTT(40)
  <1>3. Len(s) = k /\ \A i \in 1..k : DropOf(s, 0)[i] = s[i]
    BY <1>1, <1>2
  <1>4. QED
    BY <1>1, <1>2, <1>3, SameSeq, SMTT(30)

\* dequeue_many_with: the oldest elements, as many as are contiguous.
LEMMA DequeueManyEffect ==
    ASSUME NEW n, NEW r, RingOK(r, n), NEW m \in Nat,
           NEW size, size = dequeue_many_size(r, m),
           NEW q, q = dequeue_many_with(r, m)
    PROVE /\ RingOK(q, n) /\ size \in 0..m /\ size <= r.length
          /\ q.length = r.length - size /\ q.storage = r.storage /\ q.read_at = get_idx(r, size)
          /\ QueueOf(q) = DropOf(QueueOf(r), size)
          /\ SpareOf(q) = Cat(SpareOf(r), TakeOf(QueueOf(r), size))
          /\ Slice(r.storage, r.read_at, size) = TakeOf(QueueOf(r), size)
  <1>1. size \in 0..m /\ size <= r.length /\ r.read_at + size <= n /\ RingOK(q, n)
    BY DequeueManySize, DequeueOK, Zenon
  <1>2. q.length = r.length - size /\ q.storage = r.storage /\ q.read_at = get_idx(r, size)
    <2> DEFINE at == get_idx(r, size)
    <2>1. q = [r EXCEPT !.read_at = at, !.length = @ - size]
      BY DEF dequeue_many_with
    <2> HIDE DEF at
    <2>2. QED
      BY <2>1 DEF RingOK, Ring, at
  <1>3. /\ QueueOf(q) = DropOf(QueueOf(r), size)
        /\ SpareOf(q) = Cat(SpareOf(r), TakeOf(QueueOf(r), size))
    <2>1. size \in 0..r.length
      BY <1>1
    <2>2. QED
      BY <1>1, <1>2, <2>1, Shrink, SMTT(30)
  <1>4. Slice(r.storage, r.read_at, size) = TakeOf(QueueOf(r), size)
    <2> DEFINE o == 0
    <2>1. o \in Nat /\ o + size <= r.length /\ get_idx(r, o) + size <= n /\ size \in Nat
      BY <1>1, IdxZero
    <2>2. QueueOf(r) \in Seq(Elem)
      BY MappingType
    <2> HIDE DEF o
    <2>3. Slice(r.storage, get_idx(r, o), size) = TakeOf(DropOf(QueueOf(r), o), size)
      BY <2>1, SliceCells, SMTT(30)
    <2>4. QED
      BY <2>2, <2>3, IdxZero, DropNone, SMTT(30) DEF o
  <1>5. QED
    BY <1>1, <1>2, <1>3, <1>4

\* The same under one name.
Dequeued(n, r, m, size, q) ==
    /\ RingOK(q, n) /\ size \in 0..m /\ size <= r.length
    /\ q.length = r.length - size /\ q.storage = r.storage /\ q.read_at = get_idx(r, size)
    /\ QueueOf(q) = DropOf(QueueOf(r), size)
    /\ SpareOf(q) = Cat(SpareOf(r), TakeOf(QueueOf(r), size))
    /\ Slice(r.storage, r.read_at, size) = TakeOf(QueueOf(r), size)

\* dequeue_many_with does that.
LEMMA DequeueManyDequeues ==
    ASSUME NEW n, NEW r, RingOK(r, n), NEW m \in Nat
    PROVE Dequeued(n, r, m, dequeue_many_size(r, m), dequeue_many_with(r, m))
  BY DequeueManyEffect, SMTT(30) DEF Dequeued

\* dequeue_slice: the oldest elements, as many as are asked for or there are.
LEMMA DequeueSliceEffect ==
    ASSUME NEW n, NEW r, RingOK(r, n), NEW m \in Nat,
           NEW total, total = Min2(m, r.length), NEW q, q = dequeue_slice(r, m)
    PROVE /\ total \in Nat /\ total <= r.length
          /\ QueueOf(q) = DropOf(QueueOf(r), total)
          /\ SpareOf(q) = Cat(SpareOf(r), TakeOf(QueueOf(r), total))
          /\ dequeue_slice_data(r, m) = TakeOf(QueueOf(r), total)
  <1> DEFINE s1 == dequeue_many_size(r, m)
             q1 == dequeue_many_with(r, m)
             m1 == m - s1
             s2 == dequeue_many_size(q1, m1)
             len == r.length
             T1 == TakeOf(QueueOf(r), s1)
             D1 == DropOf(QueueOf(r), s1)
             T2 == TakeOf(D1, s2)
  <1>0. q = dequeue_many_with(q1, m1)
    BY SMTT(30) DEF dequeue_slice
  <1>1. /\ RingOK(q1, n) /\ s1 \in 0..m /\ s1 <= len
        /\ q1.length = len - s1 /\ q1.read_at = get_idx(r, s1)
        /\ QueueOf(q1) = D1 /\ SpareOf(q1) = Cat(SpareOf(r), T1)
        /\ Slice(r.storage, r.read_at, s1) = T1
    BY DequeueManyEffect, SMTT(30)
  <1>2. m1 \in Nat
    BY <1>1
  <1>3. /\ s2 \in 0..m1 /\ s2 <= q1.length
        /\ QueueOf(q) = DropOf(QueueOf(q1), s2)
        /\ SpareOf(q) = Cat(SpareOf(q1), TakeOf(QueueOf(q1), s2))
        /\ Slice(q1.storage, q1.read_at, s2) = TakeOf(QueueOf(q1), s2)
    <2>1. RingOK(q1, n) /\ s2 = dequeue_many_size(q1, m1)
      BY <1>1
    <2> HIDE DEF q1, m1, s2
    <2>2. Dequeued(n, q1, m1, s2, q)
      BY <1>0, <1>2, <2>1, DequeueManyDequeues, SMTT(30)
    <2>3. QED
      BY <2>2 DEF Dequeued
  <1>4. s1 + s2 = total
    <2> DEFINE a == r.read_at
    <2>1. n \in Nat /\ a \in Nat /\ (a < n \/ a = 0) /\ len \in Nat /\ len <= n
          /\ r.cap = n /\ q1.cap = n /\ q1.read_at \in Nat /\ q1.length \in Nat
      BY <1>1 DEF RingOK, Ring
    <2>2. q1.read_at = Round(a, s1, n)
      <3>1. s1 \in 0..n /\ q1.read_at = get_idx(r, s1)
        BY <1>1, <2>1
      <3> HIDE DEF s1, q1
      <3>2. QED
        BY <3>1, IdxRound, SMTT(30)
    <2>3. s1 = Min2(Min2(m, len), n - Round(a, 0, n))
      BY <2>1, IdxZero, MinMin, SMTT(30) DEF dequeue_many_size
    <2>4. s2 = Min2(Min2(m1, len - s1), n - q1.read_at)
      <3> HIDE DEF q1, m1
      <3>1. s2 = Min2(m1, Min2(q1.length, n - q1.read_at))
        BY <2>1 DEF dequeue_many_size
      <3>2. QED
        BY <1>1, <1>2, <2>1, <3>1, MinMin, SMTT(30)
    <2> HIDE DEF q1, s1, s2, len, a
    <2>5. s2 = Min2(Min2(m - s1, len - s1), n - Round(a, 0 + s1, n))
      BY <1>1, <2>2, <2>4, SMTT(30)
    <2>6. s1 + s2 = Min2(m, len)
      <3> DEFINE p == 0
      <3>1. /\ p \in Nat /\ p + len <= n
            /\ s1 = Min2(Min2(m, len), n - Round(a, p, n))
            /\ s2 = Min2(Min2(m - s1, len - s1), n - Round(a, p + s1, n))
        BY <2>1, <2>3, <2>5, SMTT(30)
      <3>2. n \in Nat /\ a \in Nat /\ (a < n \/ a = 0) /\ len \in Nat
        BY <2>1
      <3> HIDE DEF p
      <3>3. TwoPieces(n, a, p, len, m, s1, s2)
        BY <3>1, <3>2 DEF TwoPieces
      <3>4. QED
        BY <3>3, Pieces, SMTT(30)
    <2>7. QED
      BY <2>6 DEF len
  <1>5. /\ QueueOf(r) \in Seq(Elem) /\ Len(QueueOf(r)) = len /\ SpareOf(r) \in Seq(Elem)
        /\ len \in Nat
    BY MappingType, SMTT(30)
  <1>6. s1 \in Nat /\ s2 \in Nat /\ s1 + s2 <= len
    BY <1>1, <1>3, <1>5, SMTT(30)
  <1>7. Cat(T1, T2) = TakeOf(QueueOf(r), s1 + s2) /\ DropOf(D1, s2) = DropOf(QueueOf(r), s1 + s2)
    <2> HIDE DEF s1, s2, len
    <2>1. s1 + s2 <= Len(QueueOf(r))
      BY <1>5, <1>6, SMTT(30)
    <2>2. QED
      BY <1>5, <1>6, <2>1, TakeTwice, DropTwice, SMTT(30)
  <1>8. T1 \in Seq(Elem) /\ T2 \in Seq(Elem)
    <2> HIDE DEF s1, s2, len, q1
    <2>1. D1 \in Seq(Elem) /\ Len(D1) = len - s1
      BY <1>1, MappingType
    <2> HIDE DEF D1
    <2>2. s1 <= Len(QueueOf(r)) /\ s2 <= Len(D1)
      BY <1>5, <1>6, <2>1, SMTT(30)
    <2>3. QED
      BY <1>5, <1>6, <2>1, <2>2, TakeIs, SMTT(40)
  <1>9. SpareOf(q) = Cat(SpareOf(r), Cat(T1, T2))
    <2> HIDE DEF T1, s1, s2, len, q1
    <2>1. SpareOf(q) = Cat(Cat(SpareOf(r), T1), T2)
      BY <1>1, <1>3, SMTT(30)
    <2> HIDE DEF T2
    <2>2. QED
      BY <1>5, <1>8, <2>1, CatCat, SMTT(30)
  <1>10. dequeue_slice_data(r, m) = Cat(T1, T2)
    <2>1. dequeue_slice_data(r, m) = Cat(Slice(r.storage, r.read_at, s1), Slice(q1.storage, q1.read_at, s2))
      BY SMTT(40) DEF dequeue_slice_data, Cat
    <2> HIDE DEF s1, s2, q1
    <2>2. QED
      BY <1>1, <1>3, <2>1
  <1> HIDE DEF s1, s2, len, q1, T1, T2, D1, m1
  <1>11. QED
    BY <1>1, <1>3, <1>4, <1>6, <1>7, <1>9, <1>10, SMTT(30) DEF len

\* EnqueueManyEffect under one name.
Enqueued(n, r, d, size, q) ==
    /\ RingOK(q, n) /\ size \in 0..Len(d) /\ size <= n - r.length
    /\ q.length = r.length + size
    /\ q.read_at = Rewound(r).read_at
    /\ QueueOf(q) = Cat(QueueOf(r), TakeOf(d, size))
    /\ r.length # 0 => SpareOf(q) = DropOf(SpareOf(r), size)

\* enqueue_many_with does that.
LEMMA EnqueueManyEnqueues ==
    ASSUME NEW n, NEW r, RingOK(r, n), NEW d \in Seq(Elem)
    PROVE Enqueued(n, r, d, enqueue_many_size(r, Len(d)), enqueue_many_with(r, d))
  BY EnqueueManyEffect DEF Enqueued

\* How many elements enqueue_many_with takes, in the form of Pieces.
LEMMA EnqueueManySizeIs ==
    ASSUME NEW n, NEW r, RingOK(r, n), NEW m \in Nat
    PROVE /\ enqueue_many_size(r, m)
               = Min2(Min2(m, n - r.length), n - Round(Rewound(r).read_at, r.length, n))
          /\ Rewound(r).read_at \in Nat /\ (Rewound(r).read_at < n \/ Rewound(r).read_at = 0)
  <1> DEFINE p == Rewound(r)
  <1>1. RingOK(p, n) /\ p.length = r.length
    BY ClearOK DEF Rewound, RingOK, Ring
  <1>2. enqueue_many_size(r, m) = Min2(m, Min2(p.cap - p.length, p.cap - get_idx(p, p.length)))
    BY DEF enqueue_many_size, contiguous_window, window
  <1> HIDE DEF p
  <1>3. /\ n \in Nat /\ p.cap = n /\ p.length \in 0..n /\ p.read_at \in Nat
        /\ (p.read_at < n \/ p.read_at = 0)
    BY <1>1 DEF RingOK, Ring
  <1>4. get_idx(p, p.length) = Round(p.read_at, r.length, n)
    BY <1>1, <1>3, IdxRound, SMTT(30)
  <1> DEFINE x == Round(p.read_at, r.length, n)
             w == n - r.length
  <1>5. x \in Int /\ w \in Int
    BY <1>1, <1>3, SMTT(30) DEF Round
  <1>6. enqueue_many_size(r, m) = Min2(m, Min2(w, n - x)) /\ n - x \in Int
    BY <1>1, <1>2, <1>3, <1>4, <1>5, SMTT(30)
  <1> HIDE DEF x, w
  <1>7. enqueue_many_size(r, m) = Min2(Min2(m, w), n - x)
    BY <1>5, <1>6, MinMin, SMTT(30)
  <1>8. QED
    BY <1>3, <1>7 DEF x, w, p

\* A contiguous append takes an element if there is one and room for it.
LEMMA EnqueueManyTakes ==
    ASSUME NEW n, NEW r, RingOK(r, n), NEW m \in Nat, m > 0, n - r.length > 0
    PROVE enqueue_many_size(r, m) > 0
  <1> DEFINE a == Rewound(r).read_at
             len == r.length
             s == enqueue_many_size(r, m)
  <1>1. s = Min2(Min2(m, n - len), n - Round(a, len, n)) /\ a \in Nat /\ (a < n \/ a = 0)
    BY EnqueueManySizeIs
  <1>2. n \in Nat /\ len \in 0..n /\ n - len > 0
    BY RingShape
  <1> HIDE DEF a, len, s
  <1>3. s > 0
    BY <1>1, <1>2, SMTT(30) DEF Min2, Round
  <1>4. QED
    BY <1>3 DEF s

\* enqueue_slice: as much of the data as there is room for.
LEMMA EnqueueSliceEffect ==
    ASSUME NEW n, NEW r, RingOK(r, n), NEW d \in Seq(Elem),
           NEW total, total = Min2(Len(d), n - r.length), NEW q, q = enqueue_slice(r, d)
    PROVE /\ total \in Nat /\ q.length = r.length + total
          /\ QueueOf(q) = Cat(QueueOf(r), TakeOf(d, total))
          /\ r.length # 0 => SpareOf(q) = DropOf(SpareOf(r), total)
  <1> DEFINE s1 == enqueue_many_size(r, Len(d))
             q1 == enqueue_many_with(r, d)
             d1 == DropOf(d, s1)
             s2 == enqueue_many_size(q1, Len(d1))
             len == r.length
             m == Len(d)
             T1 == TakeOf(d, s1)
             T2 == TakeOf(d1, s2)
  <1>0. q = enqueue_many_with(q1, d1) /\ m \in Nat
    BY LenProperties DEF enqueue_slice, DropOf
  <1>1. Enqueued(n, r, d, s1, q1)
    BY EnqueueManyEnqueues, SMTT(30)
  <1> HIDE DEF s1, q1
  <1>2. /\ RingOK(q1, n) /\ s1 \in 0..m /\ s1 <= n - len
        /\ q1.length = len + s1 /\ q1.read_at = Rewound(r).read_at
        /\ QueueOf(q1) = Cat(QueueOf(r), T1)
        /\ len # 0 => SpareOf(q1) = DropOf(SpareOf(r), s1)
    BY <1>1 DEF Enqueued
  <1>3. d1 \in Seq(Elem) /\ Len(d1) = m - s1
    <2> DEFINE k == m - s1
    <2>1. k \in Nat /\ Len(d) = s1 + k /\ s1 \in Nat
      BY <1>0, <1>2, SMTT(30)
    <2> HIDE DEF k, m
    <2>2. d1 \in Seq(Elem) /\ Len(d1) = k
      BY <2>1, DropIs, SMTT(40)
    <2>3. QED
      BY <2>2, SMTT(30) DEF k
  <1> HIDE DEF d1
  <1>4. Enqueued(n, q1, d1, s2, q)
    BY <1>0, <1>2, <1>3, EnqueueManyEnqueues, SMTT(40)
  <1>5. /\ s2 \in 0..(m - s1) /\ s2 <= n - q1.length /\ q.length = q1.length + s2
        /\ QueueOf(q) = Cat(QueueOf(q1), T2)
        /\ q1.length # 0 => SpareOf(q) = DropOf(SpareOf(q1), s2)
    BY <1>3, <1>4, SMTT(30) DEF Enqueued
  <1>6. /\ n \in Nat /\ len \in 0..n /\ QueueOf(r) \in Seq(Elem)
        /\ SpareOf(r) \in Seq(Elem) /\ Len(SpareOf(r)) = n - len
    BY MappingType
  <1>7. s1 + s2 = total
    <2> DEFINE a == Rewound(r).read_at
               w == n - len
               k == m - s1
    <2>1. s1 = Min2(Min2(m, w), n - Round(a, len, n)) /\ a \in Nat /\ (a < n \/ a = 0)
      BY <1>0, EnqueueManySizeIs, SMTT(30) DEF s1
    <2>2. k \in Nat /\ Len(d1) = k
      BY <1>0, <1>2, <1>3, SMTT(30)
    <2> HIDE DEF k, m
    <2>3. s2 = Min2(Min2(k, n - q1.length), n - Round(Rewound(q1).read_at, q1.length, n))
      BY <1>2, <2>2, EnqueueManySizeIs, SMTT(30)
    <2>4. Rewound(q1).read_at = a
      <3>1. len \in Nat /\ s1 \in Nat
        BY <1>2, <1>6, SMTT(30)
      <3>2. q1.length = 0 => len = 0
        BY <1>2, <3>1
      <3>3. len = 0 => a = 0
        BY DEF Rewound, RingOK, Ring
      <3>4. q1.length = 0 => Rewound(q1).read_at = 0
        BY <1>2 DEF Rewound, RingOK, Ring
      <3>5. q1.length # 0 => Rewound(q1).read_at = q1.read_at
        BY SMTT(30) DEF Rewound
      <3>6. QED
        BY <1>2, <3>2, <3>3, <3>4, <3>5, SMTT(40)
    <2>5. n - q1.length = w - s1
      BY <1>2, <1>6, SMTT(30)
    <2>6. s2 = Min2(Min2(m - s1, w - s1), n - Round(a, len + s1, n))
      BY <1>2, <2>3, <2>4, <2>5, SMTT(30) DEF k
    <2>7. w \in Nat /\ len \in Nat /\ len + w <= n /\ m \in Nat /\ n \in Nat
      BY <1>0, <1>6, SMTT(30) DEF m
    <2> HIDE DEF w, a, len, s2
    <2>8. s1 + s2 = Min2(m, w)
      <3>1. TwoPieces(n, a, len, w, m, s1, s2)
        BY <2>1, <2>6, <2>7, SMTT(30) DEF TwoPieces
      <3>2. QED
        BY <3>1, Pieces, SMTT(30)
    <2>9. QED
      BY <2>8, SMTT(30) DEF m, w, len
  <1>8. s1 \in Nat /\ s2 \in Nat /\ s1 + s2 <= m /\ s1 + s2 <= Len(SpareOf(r))
    <2>1. /\ s1 \in 0..m /\ s2 \in 0..(m - s1) /\ s2 <= n - q1.length /\ q1.length = len + s1
          /\ n \in Nat /\ len \in 0..n /\ Len(SpareOf(r)) = n - len
      BY <1>2, <1>5, <1>6, Zenon
    <2>2. m \in Nat /\ len \in Nat
      BY <1>0, <1>6, SMTT(30)
    <2> HIDE DEF s2, len, m
    <2>3. QED
      BY <2>1, <2>2, SMTT(40)
  <1>9. Cat(T1, T2) = TakeOf(d, s1 + s2)
    BY <1>8, TakeTwice, SMTT(30) DEF d1
  <1>10. T1 \in Seq(Elem) /\ T2 \in Seq(Elem)
    <2>1. s1 <= Len(d) /\ s2 <= Len(d1)
      BY <1>0, <1>2, <1>3, <1>5, SMTT(30)
    <2> HIDE DEF s2
    <2>2. QED
      BY <1>3, <1>8, <2>1, TakeIs, SMTT(40)
  <1> HIDE DEF T1, T2, s2
  <1>11. QueueOf(q) = Cat(QueueOf(r), TakeOf(d, total))
    <2>1. QueueOf(q) = Cat(Cat(QueueOf(r), T1), T2)
      BY <1>2, <1>5, SMTT(30)
    <2>2. QueueOf(q) = Cat(QueueOf(r), Cat(T1, T2))
      BY <1>6, <1>10, <2>1, CatCat, SMTT(30)
    <2>3. QED
      BY <1>7, <1>9, <2>2, SMTT(40)
  <1>12. r.length # 0 => SpareOf(q) = DropOf(SpareOf(r), total)
    <2>1. r.length # 0 => SpareOf(q) = DropOf(DropOf(SpareOf(r), s1), s2)
      BY <1>2, <1>5, <1>6, SMTT(40)
    <2>2. DropOf(DropOf(SpareOf(r), s1), s2) = DropOf(SpareOf(r), s1 + s2)
      BY <1>6, <1>8, DropTwice, SMTT(30)
    <2>3. QED
      BY <1>7, <2>1, <2>2, SMTT(40)
  <1>13. q.length = r.length + total
    BY <1>2, <1>5, <1>6, <1>7, <1>8, SMTT(30)
  <1>14. QED
    BY <1>7, <1>8, <1>11, <1>12, <1>13, SMTT(40)

\* Two overlays, the second where the first ends, are one.
LEMMA OverlayTwice ==
    ASSUME NEW s \in Seq(Elem), NEW t \in Seq(Elem), NEW u \in Seq(Elem),
           NEW o \in Nat, NEW a \in Nat, Len(t) = a
    PROVE OverlayOf(OverlayOf(s, o, t), o + a, u) = OverlayOf(s, o, Cat(t, u))
  <1> DEFINE w == Len(s)
             b == Len(u)
             x == OverlayOf(s, o, t)
             v == Cat(t, u)
  <1>1. w \in Nat /\ b \in Nat
    BY LenProperties
  <1>2. x = [k \in 1..w |-> IF k > o /\ k <= o + a THEN t[k - o] ELSE s[k]]
    BY DEF OverlayOf
  <1>3. x \in Seq(Elem) /\ Len(x) = w
    <2>1. \A k \in 1..w : (IF k > o /\ k <= o + a THEN t[k - o] ELSE s[k]) \in Elem
      <3> SUFFICES ASSUME NEW k \in 1..w
                   PROVE (IF k > o /\ k <= o + a THEN t[k - o] ELSE s[k]) \in Elem
        OBVIOUS
      <3>1. s[k] \in Elem
        BY ElementOfSeq
      <3>2. ASSUME k > o, k <= o + a PROVE t[k - o] \in Elem
        <4>1. k - o \in 1..Len(t)
          BY <1>1, <3>2, SMTT(30)
        <4>2. QED
          BY <4>1, ElementOfSeq, SMTT(30)
      <3>3. QED
        BY <3>1, <3>2
    <2>2. x \in [1..w -> Elem]
      BY <1>2, <2>1, SMTT(30)
    <2> HIDE DEF x, w
    <2>3. x \in Seq(Elem)
      BY <1>1, <2>2, SeqDef, SMTT(30)
    <2>4. QED
      BY <1>1, <2>2, <2>3, LenProperties, SMTT(30)
  <1>4. /\ v \in Seq(Elem) /\ Len(v) = a + b
        /\ \A i \in 1..(a + b) : v[i] = IF i <= a THEN t[i] ELSE u[i - a]
    <2>1. Len(u) = b
      OBVIOUS
    <2> HIDE DEF b
    <2>2. QED
      BY <1>1, <2>1, Joined, SMTT(30)
  <1> HIDE DEF x, v
  <1>5. OverlayOf(x, o + a, u)
          = [k \in 1..w |-> IF k > o + a /\ k <= o + a + b THEN u[k - (o + a)] ELSE x[k]]
    BY <1>3 DEF OverlayOf
  <1>6. OverlayOf(s, o, v)
          = [k \in 1..w |-> IF k > o /\ k <= o + (a + b) THEN v[k - o] ELSE s[k]]
    BY <1>4, SMTT(30) DEF OverlayOf
  <1> HIDE DEF w, b
  <1>7. ASSUME NEW k \in 1..w
        PROVE (IF k > o + a /\ k <= o + a + b THEN u[k - (o + a)] ELSE x[k])
                = IF k > o /\ k <= o + (a + b) THEN v[k - o] ELSE s[k]
    <2>0. k \in Nat
      BY <1>1
    <2>1. x[k] = IF k > o /\ k <= o + a THEN t[k - o] ELSE s[k]
      BY <1>2
    <2>2. CASE k <= o
      BY <1>1, <2>0, <2>1, <2>2, SMTT(40)
    <2>3. CASE k > o /\ k <= o + a
      <3>1. k - o \in 1..(a + b) /\ k - o <= a /\ ~(k > o + a) /\ k <= o + (a + b)
        BY <1>1, <2>0, <2>3, SMTT(30)
      <3>2. v[k - o] = t[k - o]
        BY <1>4, <3>1, SMTT(40)
      <3>3. QED
        BY <2>1, <2>3, <3>1, <3>2, SMTT(40)
    <2>4. CASE k > o + a /\ k <= o + a + b
      <3>1. k - o \in 1..(a + b) /\ ~(k - o <= a) /\ k - o - a = k - (o + a) /\ k > o
            /\ k <= o + (a + b)
        BY <1>1, <2>0, <2>4, SMTT(30)
      <3>2. v[k - o] = u[k - o - a]
        BY <1>4, <3>1, SMTT(30)
      <3>3. QED
        BY <2>4, <3>1, <3>2, SMTT(30)
    <2>5. CASE k > o + a + b
      <3>1. ~(k <= o + a) /\ ~(k <= o + (a + b)) /\ ~(k <= o + a + b)
        BY <1>1, <2>0, <2>5, SMTT(30)
      <3>2. QED
        BY <2>1, <3>1, SMTT(30)
    <2>6. QED
      BY <1>1, <2>0, <2>2, <2>3, <2>4, <2>5, SMTT(40)
  <1>8. QED
    BY <1>5, <1>6, <1>7, ZenonT(40) DEF x, v

\* Where get_unallocated_size allows it, WrittenAt is a copy behind the border.
LEMMA WrittenCopies ==
    ASSUME NEW n, NEW r, RingOK(r, n), NEW o \in Nat, NEW d \in Seq(Elem), o <= n - r.length
    PROVE CopiedBehind(n, r, WrittenAt(r, o, d),
                       TakeOf(d, get_unallocated_size(r, o, Len(d))), o)
  <1> DEFINE m == Len(d)
             size == get_unallocated_size(r, o, m)
             part == TakeOf(d, size)
             j == r.length + o
             at == get_idx(r, j)
             q == WrittenAt(r, o, d)
             st == Copied(r.storage, at, part)
  <1>1. n \in Nat /\ r.cap = n /\ r.length \in 0..n /\ r.storage \in [0..n-1 -> Elem] /\ m \in Nat
    BY LenProperties DEF RingOK, Ring
  <1>2. at \in Nat /\ at + size <= n /\ size \in 0..m
    <2>1. j \in Nat
      BY <1>1
    <2>2. get_idx(r, r.length + o) + size <= n /\ size \in 0..m
      BY <1>1, UnallocatedSize, ZenonT(40)
    <2> HIDE DEF j
    <2>3. at \in Nat
      BY <2>1, GetIdxRange, SMTT(40)
    <2>4. QED
      BY <2>2, <2>3 DEF j
  <1>3. size <= n - r.length - o
    <2>1. size = Min2(Min2(m, n - r.length - o), n - at)
      BY <1>1 DEF get_unallocated_size, window
    <2> HIDE DEF size, at, m
    <2>2. QED
      BY <1>1, <1>2, <2>1 DEF Min2
  <1>4. part \in Seq(Elem) /\ Len(part) = size
    <2> HIDE DEF size
    <2>1. QED
      BY <1>2, TakeIs
  <1>5. st \in [0..n-1 -> Elem]
    <2> HIDE DEF part, at
    <2>1. QED
      BY <1>1, <1>2, <1>4, CopiedType, Zenon
  <1>6. q = [r EXCEPT !.storage = st]
    BY DEF WrittenAt, TakeOf
  <1> HIDE DEF st, q, part, size, at, m
  <1>7. RingOK(q, n) /\ q.read_at = r.read_at /\ q.length = r.length /\ q.storage = st
    BY <1>5, <1>6, Zenon DEF RingOK, Ring
  <1>8. /\ j = r.length + o /\ j + Len(part) <= n /\ get_idx(r, j) + Len(part) <= n
        /\ q.storage = Copied(r.storage, get_idx(r, j), part)
    BY <1>1, <1>2, <1>3, <1>4, <1>7, SMTT(40) DEF at, st
  <1> HIDE DEF j
  <1>9. CopiedBehind(n, r, q, part, o)
    BY <1>4, <1>7, <1>8, SMTT(30) DEF CopiedBehind
  <1>10. QED
    BY <1>9 DEF q, part, size, m

\* write_unallocated: data put over the spare cells from offset on, as much as fits.
LEMMA WriteEffect ==
    ASSUME NEW n, NEW r, RingOK(r, n), NEW o \in Nat, NEW d \in Seq(Elem), o <= n - r.length,
           NEW total, total = Min2(Len(d), n - r.length - o), NEW q, q = write_unallocated(r, o, d)
    PROVE /\ total \in Nat /\ write_unallocated_size(r, o, Len(d)) = total
          /\ QueueOf(q) = QueueOf(r)
          /\ SpareOf(q) = OverlayOf(SpareOf(r), o, TakeOf(d, total))
  <1> DEFINE m == Len(d)
             s1 == get_unallocated_size(r, o, m)
             q1 == WrittenAt(r, o, d)
             o1 == o + s1
             d1 == DropOf(d, s1)
             s2 == get_unallocated_size(q1, o1, Len(d1))
             len == r.length
             T1 == TakeOf(d, s1)
             T2 == TakeOf(d1, s2)
  <1>0. q = WrittenAt(q1, o1, d1) /\ m \in Nat
    BY LenProperties DEF write_unallocated, DropOf
  <1>1. CopiedBehind(n, r, q1, T1, o)
    BY WrittenCopies, SMTT(30)
  <1>2. s1 \in 0..m /\ n \in Nat /\ len \in 0..n /\ r.cap = n
    BY <1>0, RingShape, UnallocatedSize, SMTT(30)
  <1>3. RingOK(q1, n) /\ q1.read_at = r.read_at /\ q1.length = len
    BY <1>1, SMTT(30) DEF CopiedBehind
  <1>4. q1.cap = n
    BY <1>3, RingShape, SMTT(30)
  <1>5. d1 \in Seq(Elem) /\ Len(d1) = m - s1 /\ m - s1 \in Nat
    <2> DEFINE k == m - s1
    <2>1. k \in Nat /\ Len(d) = s1 + k /\ s1 \in Nat
      BY <1>0, <1>2, SMTT(30)
    <2> HIDE DEF k, m, s1
    <2>2. d1 \in Seq(Elem) /\ Len(d1) = k
      BY <2>1, DropIs, SMTT(30)
    <2>3. QED
      BY <2>1, <2>2, SMTT(30) DEF k
  <1> DEFINE a == r.read_at
             w == n - len - o
             p == len + o
  <1>6. a \in Nat /\ (a < n \/ a = 0) /\ w \in Nat /\ p \in 0..n /\ p + w <= n
    BY <1>2, SMTT(40) DEF RingOK, Ring
  <1>7. s1 = Min2(Min2(m, w), n - Round(a, p, n))
    <2>1. get_idx(r, p) = Round(a, p, n)
      BY <1>6, IdxRound, SMTT(30)
    <2>2. s1 = Min2(Min2(m, w), n - get_idx(r, p))
      BY <1>2, SMTT(30) DEF get_unallocated_size, window
    <2>3. QED
      BY <2>1, <2>2
  <1>8. s1 \in Nat /\ s1 <= w
    <2>1. Round(a, p, n) \in Nat /\ Round(a, p, n) <= n
      <3> HIDE DEF a, p
      <3>1. QED
        BY <1>2, <1>6, SMTT(30) DEF Round
    <2> HIDE DEF s1, m, w, a, p
    <2>2. QED
      BY <1>0, <1>2, <1>6, <1>7, <2>1, SMTT(40) DEF Min2
  <1> HIDE DEF q1, s1, d1
  <1>9. o1 \in Nat /\ o1 <= n - q1.length /\ p + s1 \in 0..n
    <2>1. /\ n \in Nat /\ len \in Nat /\ s1 \in Nat /\ s1 <= w /\ w = n - len - o
          /\ q1.length = len
      BY <1>2, <1>3, <1>8, SMTT(40)
    <2> HIDE DEF w, len
    <2>2. QED
      BY <2>1, SMTT(30)
  <1>10. s2 = Min2(Min2(m - s1, w - s1), n - Round(a, p + s1, n))
    <2>1. get_idx(q1, p + s1) = Round(a, p + s1, n)
      BY <1>3, <1>9, IdxRound, SMTT(30)
    <2>2. q1.length + o1 = p + s1 /\ n - q1.length - o1 = w - s1
      <3>1. n \in Nat /\ len \in Nat /\ s1 \in Nat /\ q1.length = len
        BY <1>2, <1>3, <1>8, SMTT(30)
      <3> HIDE DEF len
      <3>2. QED
        BY <3>1, SMTT(30)
    <2>3. s2 = Min2(Min2(Len(d1), n - q1.length - o1), n - get_idx(q1, q1.length + o1))
      BY <1>2, <1>3, <1>4, <1>9, SMTT(40) DEF get_unallocated_size, window
    <2>4. QED
      BY <1>5, <2>1, <2>2, <2>3, SMTT(30)
  <1>11. s2 \in Nat /\ s2 <= m - s1 /\ s1 + s2 = Min2(m, w)
    <2> HIDE DEF s2, m, w, a, p, len
    <2>1. /\ n \in Nat /\ a \in Nat /\ (a < n \/ a = 0) /\ p \in Nat /\ w \in Nat
          /\ p + w <= n /\ m \in Nat
      BY <1>0, <1>2, <1>6, SMTT(30)
    <2>2. TwoPieces(n, a, p, w, m, s1, s2)
      BY <1>7, <1>10, <2>1, SMTT(30) DEF TwoPieces
    <2>3. QED
      BY <2>2, Pieces, SMTT(30)
  <1>12. write_unallocated_size(r, o, m) = s1 + s2
    <2>1. write_unallocated_size(r, o, m) = s1 + get_unallocated_size(r, o1, m - s1)
      BY DEF write_unallocated_size, s1
    <2>2. get_idx(r, r.length + o1) = get_idx(q1, q1.length + o1) /\ window(r) = window(q1)
      BY <1>2, <1>3, <1>4, SMTT(40) DEF get_idx, window
    <2>3. get_unallocated_size(r, o1, m - s1) = s2
      BY <1>2, <1>4, <1>5, <2>2, SMTT(40) DEF get_unallocated_size
    <2>4. QED
      BY <2>1, <2>3, SMTT(30)
  <1> HIDE DEF o1
  <1>13. CopiedBehind(n, q1, q, T2, o1)
    BY <1>0, <1>3, <1>5, <1>9, WrittenCopies, SMTT(40)
  <1>14. Cat(T1, T2) = TakeOf(d, s1 + s2) /\ T1 \in Seq(Elem) /\ T2 \in Seq(Elem) /\ Len(T1) = s1
    <2>1. s1 + s2 <= Len(d) /\ s1 <= Len(d) /\ s2 <= Len(d1)
      BY <1>0, <1>2, <1>5, <1>8, <1>11, SMTT(40)
    <2> HIDE DEF s2
    <2>2. Cat(T1, T2) = TakeOf(d, s1 + s2)
      BY <1>8, <1>11, <2>1, TakeTwice, SMTT(40) DEF d1
    <2>3. T1 \in Seq(Elem) /\ T2 \in Seq(Elem) /\ Len(T1) = s1
      BY <1>5, <1>8, <1>11, <2>1, TakeIs, SMTT(40)
    <2>4. QED
      BY <2>2, <2>3, SMTT(30)
  <1> HIDE DEF T1, T2, s2
  <1>15. QueueOf(q) = QueueOf(r) /\ SpareOf(q) = OverlayOf(OverlayOf(SpareOf(r), o, T1), o + s1, T2)
    <2>1. QueueOf(q1) = QueueOf(r) /\ SpareOf(q1) = OverlayOf(SpareOf(r), o, T1)
      BY <1>1, OverlayCells, SMTT(30)
    <2>2. QueueOf(q) = QueueOf(q1) /\ SpareOf(q) = OverlayOf(SpareOf(q1), o1, T2)
      BY <1>13, OverlayCells, SMTT(30)
    <2>3. QED
      BY <2>1, <2>2, SMTT(30) DEF o1
  <1>16. SpareOf(q) = OverlayOf(SpareOf(r), o, Cat(T1, T2))
    <2>1. SpareOf(r) \in Seq(Elem)
      BY MappingType, SMTT(30)
    <2>2. QED
      BY <1>8, <1>14, <1>15, <2>1, OverlayTwice, SMTT(40)
  <1>17. s1 + s2 = total
    BY <1>11 DEF m, w, len
  <1>18. QED
    BY <1>8, <1>11, <1>12, <1>14, <1>15, <1>16, <1>17, SMTT(40) DEF m

\* write_unallocated with an offset beyond the spare cells writes nothing.
LEMMA WriteNothing ==
    ASSUME NEW n, NEW r, RingOK(r, n), NEW o \in Nat, NEW d \in Seq(Elem), o > n - r.length
    PROVE /\ write_unallocated(r, o, d) = r /\ write_unallocated_size(r, o, Len(d)) = 0
          /\ SpareOf(r) = OverlayOf(SpareOf(r), o, TakeOf(d, 0))
  <1>1. n \in Nat /\ r.cap = n /\ r.length \in 0..n /\ Len(d) \in Nat
    BY RingShape, LenProperties, SMTT(30)
  <1>2. TakeOf(d, 0) \in Seq(Elem) /\ Len(TakeOf(d, 0)) = 0
    BY <1>1, TakeIs, SMTT(30)
  <1>3. \A x : get_unallocated_size(r, o, x) = 0
    BY <1>1 DEF get_unallocated_size, window
  <1>4. ASSUME NEW e, SubSeq(e, 1, 0) = <<>> PROVE WrittenAt(r, o, e) = r
    <2> DEFINE st == Copied(r.storage, get_idx(r, r.length + o), <<>>)
    <2>1. r.storage \in [0..n-1 -> Elem]
      BY DEF RingOK, Ring
    <2>2. st = r.storage
      <3> DEFINE at == get_idx(r, r.length + o)
      <3>1. r.length + o \in Nat
        BY <1>1
      <3>2. at \in Nat
        BY <3>1, GetIdxRange, ZenonT(40)
      <3> HIDE DEF at
      <3>3. st = [k \in 0..n-1 |-> IF k >= at /\ k < at + 0 THEN <<>>[k - at + 1] ELSE r.storage[k]]
        BY <2>1, SMTT(30) DEF Copied, at
      <3>4. \A k \in 0..n-1 : ~(k >= at /\ k < at + 0)
        BY <1>1, <3>2
      <3> HIDE DEF st
      <3>5. QED
        BY <2>1, <3>3, <3>4, Zenon
    <2>3. WrittenAt(r, o, e) = [r EXCEPT !.storage = st]
      BY <1>3, <1>4, ZenonT(40) DEF WrittenAt
    <2> HIDE DEF st
    <2>4. QED
      BY <2>2, <2>3, SMTT(30) DEF RingOK, Ring
  <1>5. SubSeq(d, 1, 0) = <<>>
    BY <1>2, EmptySeq, SMTT(30) DEF TakeOf
  <1>6. write_unallocated(r, o, d) = r
    <2> DEFINE rest == SubSeq(d, 0 + 1, Len(d))
    <2>1. rest \in Seq(Elem)
      BY <1>1, PartType
    <2>2. SubSeq(rest, 1, 0) \in Seq(Elem) /\ Len(SubSeq(rest, 1, 0)) = 0
      <3> HIDE DEF rest
      <3>1. Len(rest) \in Nat
        BY <2>1, LenProperties
      <3>2. QED
        BY <2>1, <3>1, PartType, SMTT(30)
    <2>3. SubSeq(rest, 1, 0) = <<>>
      BY <2>2, EmptySeq, SMTT(30)
    <2>4. write_unallocated(r, o, d) = WrittenAt(WrittenAt(r, o, d), o + 0, rest)
      BY <1>3 DEF write_unallocated
    <2> HIDE DEF rest
    <2>5. o + 0 = o
      OBVIOUS
    <2>6. QED
      BY <1>4, <1>5, <2>3, <2>4, <2>5, SMTT(30)
  <1>7. write_unallocated_size(r, o, Len(d)) = 0
    <2>1. write_unallocated_size(r, o, Len(d)) = 0 + get_unallocated_size(r, o + 0, Len(d) - 0)
      BY <1>3 DEF write_unallocated_size
    <2>2. o + 0 = o
      OBVIOUS
    <2>3. QED
      BY <1>3, <2>1, <2>2, SMTT(30)
  <1>8. SpareOf(r) = OverlayOf(SpareOf(r), o, TakeOf(d, 0))
    <2> DEFINE e == TakeOf(d, 0)
               s == SpareOf(r)
               w == n - r.length
    <2>1. s \in [1..w -> Elem] /\ Len(s) = w /\ w \in Nat
      BY MappingType
    <2> HIDE DEF e, s, w
    <2>2. OverlayOf(s, o, e) = [k \in 1..w |-> IF k > o /\ k <= o + 0 THEN e[k - o] ELSE s[k]]
      BY <1>2, <2>1 DEF OverlayOf, e
    <2>3. \A k \in 1..w : ~(k > o /\ k <= o + 0)
      BY <2>1
    <2>4. s = OverlayOf(s, o, e)
      BY <2>1, <2>2, <2>3, SMTT(40)
    <2>5. QED
      BY <2>4, SMTT(30) DEF s, e
  <1>9. QED
    BY <1>6, <1>7, <1>8, SMTT(30)

\* enqueue_unallocated: the next spare cells join the queue as they are.
LEMMA AllocateEffect ==
    ASSUME NEW n, NEW r, RingOK(r, n), NEW c \in Nat, c <= n - r.length,
           NEW q, q = enqueue_unallocated(r, c)
    PROVE /\ QueueOf(q) = Cat(QueueOf(r), TakeOf(SpareOf(r), c))
          /\ SpareOf(q) = DropOf(SpareOf(r), c)
  <1> DEFINE d == TakeOf(SpareOf(r), c)
             len == r.length
  <1>1. /\ n \in Nat /\ len \in 0..n /\ SpareOf(r) \in Seq(Elem) /\ Len(SpareOf(r)) = n - len
        /\ \A i \in 1..(n - len) : SpareOf(r)[i] = Cell(r, len + i - 1)
    BY SpareCell, MappingType, SMTT(40)
  <1>2. d \in Seq(Elem) /\ Len(d) = c /\ \A i \in 1..c : d[i] = SpareOf(r)[i]
    <2>1. c <= Len(SpareOf(r))
      BY <1>1
    <2>2. QED
      BY <1>1, <2>1, TakeIs, SMTT(30)
  <1> HIDE DEF d
  <1>3. q = [r EXCEPT !.length = len + c]
    BY DEF enqueue_unallocated
  <1>4. RingOK(q, n) /\ q.length = len + c /\ q.storage = r.storage /\ q.read_at = r.read_at
        /\ q.cap = r.cap
    <2>1. len + c \in 0..n
      BY <1>1, SMTT(30)
    <2>2. QED
      BY <1>3, <2>1, SMTT(30) DEF RingOK, Ring
  <1>5. \A i \in 0..(n - 1) :
              Cell(q, i) = IF i >= len /\ i < len + c THEN d[i - len + 1] ELSE Cell(r, i)
    <2> SUFFICES ASSUME NEW i \in 0..(n - 1)
                 PROVE Cell(q, i) = IF i >= len /\ i < len + c THEN d[i - len + 1] ELSE Cell(r, i)
      OBVIOUS
    <2>1. Cell(q, i) = Cell(r, i)
      BY <1>4, SMTT(30) DEF Cell, get_idx
    <2>2. ASSUME i >= len, i < len + c PROVE d[i - len + 1] = Cell(r, i)
      <3>1. i - len + 1 \in 1..c /\ i - len + 1 \in 1..(n - len) /\ len + (i - len + 1) - 1 = i
        <4>1. len \in Nat /\ i \in Nat /\ n \in Nat /\ c <= n - len
          BY <1>1, SMTT(30)
        <4> HIDE DEF len
        <4>2. QED
          BY <2>2, <4>1, SMTT(30)
      <3>2. SpareOf(r)[i - len + 1] = Cell(r, len + (i - len + 1) - 1)
        BY <1>1, <3>1, SMTT(40)
      <3>3. QED
        BY <1>2, <3>1, <3>2, SMTT(30)
    <2>3. QED
      BY <2>1, <2>2, SMTT(30)
  <1>6. QueueOf(q) = Cat(QueueOf(r), d) /\ SpareOf(q) = DropOf(SpareOf(r), Len(d))
    BY <1>2, <1>4, <1>5, Grow, SMTT(40)
  <1>7. QED
    BY <1>2, <1>6, SMTT(30) DEF d

\* dequeue_allocated: the oldest count elements are dropped.
LEMMA DeallocateEffect ==
    ASSUME NEW n, NEW r, RingOK(r, n), NEW c \in Nat, c <= r.length,
           NEW q, q = dequeue_allocated(r, c)
    PROVE /\ QueueOf(q) = DropOf(QueueOf(r), c)
          /\ SpareOf(q) = Cat(SpareOf(r), TakeOf(QueueOf(r), c))
  <1> DEFINE at == get_idx(r, c)
  <1>1. at \in Nat /\ (at < n \/ at = 0) /\ r.length - c \in 0..n /\ c \in 0..r.length
    <2>1. at \in Nat /\ (at < n \/ at = 0)
      BY GetIdxRange, SMTT(30)
    <2>2. r.length \in 0..n /\ n \in Nat
      BY RingShape
    <2>3. QED
      BY <2>1, <2>2, SMTT(30)
  <1>2. q = [r EXCEPT !.length = @ - c, !.read_at = at]
    BY DEF dequeue_allocated
  <1> HIDE DEF at
  <1>3. RingOK(q, n) /\ q.length = r.length - c /\ q.storage = r.storage /\ q.read_at = at
    BY <1>1, <1>2, Zenon DEF RingOK, Ring
  <1>4. QED
    BY <1>1, <1>3, Shrink, SMTT(30) DEF at

\* dequeue_one_with: the oldest element is at read_at, and a success removes it.
LEMMA DequeueOneEffect ==
    ASSUME NEW n, NEW r, RingOK(r, n), ~is_empty(r)
    PROVE /\ r.storage[r.read_at] = QueueOf(r)[1]
          /\ QueueOf(dequeue_one_with(r, TRUE)) = DropOf(QueueOf(r), 1)
          /\ SpareOf(dequeue_one_with(r, TRUE)) = Cat(SpareOf(r), TakeOf(QueueOf(r), 1))
  <1>1. r.length >= 1 /\ r.length \in Nat
    BY RingShape, SMTT(30) DEF is_empty
  <1>2. r.storage[r.read_at] = QueueOf(r)[1]
    <2>1. QueueOf(r)[1] = Cell(r, 1 - 1)
      BY <1>1, QueueCell
    <2>2. QED
      BY <2>1, IdxZero, SMTT(30) DEF Cell
  <1>3. dequeue_one_with(r, TRUE) = dequeue_allocated(r, 1)
    BY DEF dequeue_one_with, dequeue_allocated
  <1>4. /\ QueueOf(dequeue_allocated(r, 1)) = DropOf(QueueOf(r), 1)
        /\ SpareOf(dequeue_allocated(r, 1)) = Cat(SpareOf(r), TakeOf(QueueOf(r), 1))
    <2> DEFINE c == 1
               q == dequeue_allocated(r, c)
    <2>1. c \in Nat /\ c <= r.length
      BY <1>1
    <2> HIDE DEF c
    <2>2. q = dequeue_allocated(r, c)
      OBVIOUS
    <2> HIDE DEF q
    <2>3. QueueOf(q) = DropOf(QueueOf(r), c) /\ SpareOf(q) = Cat(SpareOf(r), TakeOf(QueueOf(r), c))
      BY <2>1, <2>2, DeallocateEffect, SMTT(40)
    <2>4. QED
      BY <2>3 DEF c, q
  <1>5. QED
    BY <1>2, <1>3, <1>4, ZenonT(40)

\* read_allocated: elements of the queue from offset on, as many as are asked
\* for or there are.
LEMMA ReadEffect ==
    ASSUME NEW n, NEW r, RingOK(r, n), NEW o \in Nat, NEW m \in Nat, o <= r.length,
           NEW total, total = Min2(m, r.length - o)
    PROVE /\ total \in Nat /\ total <= r.length - o
          /\ read_allocated(r, o, m) = TakeOf(DropOf(QueueOf(r), o), total)
  <1> DEFINE len == r.length
             a == r.read_at
             w == len - o
             s1 == get_allocated_size(r, o, m)
             o1 == o + s1
             m1 == m - s1
             s2 == get_allocated_size(r, o1, m1)
             rest == DropOf(QueueOf(r), o)
  <1>1. /\ n \in Nat /\ len \in 0..n /\ r.cap = n /\ a \in Nat /\ (a < n \/ a = 0)
        /\ w \in Nat /\ o \in 0..n /\ o + w <= n /\ len = o + w
    BY DEF RingOK, Ring
  <1>2. QueueOf(r) \in Seq(Elem) /\ Len(QueueOf(r)) = o + w
    BY <1>1, MappingType, SMTT(30)
  <1>3. s1 = Min2(Min2(m, w), n - Round(a, o, n)) /\ get_idx(r, o) = Round(a, o, n)
    BY <1>1, IdxRound, SMTT(30) DEF get_allocated_size
  <1> HIDE DEF s1, a, w
  <1>4. s1 \in Nat /\ s1 <= m /\ s1 <= w
    <2>1. Round(a, o, n) \in Nat /\ Round(a, o, n) <= n
      BY <1>1 DEF Round
    <2>2. QED
      BY <1>1, <1>3, <2>1, SMTT(40) DEF Min2
  <1>5. o1 \in 0..n /\ o1 <= len /\ len - o1 = w - s1
    <2>1. len \in Nat /\ n \in Nat /\ len <= n
      BY <1>1, SMTT(30)
    <2> HIDE DEF len
    <2>2. QED
      BY <1>1, <1>4, <2>1, SMTT(30)
  <1>6. s2 = Min2(Min2(m1, w - s1), n - Round(a, o + s1, n)) /\ get_idx(r, o1) = Round(a, o + s1, n)
    <2> HIDE DEF m1
    <2>1. get_idx(r, o1) = Round(a, o1, n)
      BY <1>5, IdxRound, SMTT(30) DEF a
    <2>2. s2 = Min2(Min2(m1, len - o1), n - get_idx(r, o1))
      BY <1>1, <1>5, SMTT(30) DEF get_allocated_size
    <2>3. QED
      BY <1>5, <2>1, <2>2, SMTT(30)
  <1> HIDE DEF s2
  <1>7. /\ Round(a, o, n) + s1 <= n /\ Round(a, o + s1, n) + s2 <= n
        /\ s2 \in Nat /\ s2 <= w - s1 /\ s1 + s2 = Min2(m, w)
    <2>1. TwoPieces(n, a, o, w, m, s1, s2)
      BY <1>1, <1>3, <1>6, SMTT(40) DEF TwoPieces
    <2>2. QED
      BY <2>1, Pieces, SMTT(30)
  <1>8. get_allocated(r, o, m) = TakeOf(rest, s1)
    <2>1. o + s1 <= r.length /\ get_idx(r, o) + s1 <= n
      BY <1>3, <1>5, <1>7, SMTT(40)
    <2>2. QED
      BY <1>4, <2>1, SliceCells, SMTT(40) DEF get_allocated, s1
  <1>9. get_allocated(r, o1, m1) = TakeOf(DropOf(QueueOf(r), o1), s2)
    <2>1. o1 \in Nat /\ o1 + s2 <= r.length /\ get_idx(r, o1) + s2 <= n
      <3>1. len \in Nat /\ o1 \in Nat /\ len - o1 = w - s1 /\ s2 <= w - s1 /\ s2 \in Nat
        BY <1>1, <1>5, <1>7, SMTT(30)
      <3> HIDE DEF len, o1
      <3>2. o1 + s2 <= len
        BY <3>1, SMTT(30)
      <3>3. QED
        BY <1>6, <1>7, <3>1, <3>2, SMTT(40) DEF len, o1
    <2> HIDE DEF o1
    <2>2. QED
      BY <1>7, <2>1, SliceCells, SMTT(40) DEF get_allocated, s2
  <1>10. DropOf(QueueOf(r), o1) = DropOf(rest, s1)
    <2>1. o + s1 <= Len(QueueOf(r))
      BY <1>1, <1>2, <1>4, SMTT(30)
    <2>2. QED
      BY <1>2, <1>4, <2>1, DropTwice, SMTT(30)
  <1>11. rest \in Seq(Elem) /\ Len(rest) = w
    BY <1>1, <1>2, DropIs, SMTT(30)
  <1> HIDE DEF rest
  <1>12. Cat(TakeOf(rest, s1), TakeOf(DropOf(rest, s1), s2)) = TakeOf(rest, s1 + s2)
    <2>1. s1 + s2 <= Len(rest)
      BY <1>1, <1>4, <1>7, <1>11, SMTT(30)
    <2>2. QED
      BY <1>4, <1>7, <1>11, <2>1, TakeTwice, SMTT(40)
  <1>13. read_allocated(r, o, m) = Cat(get_allocated(r, o, m), get_allocated(r, o1, m1))
    BY DEF read_allocated, Cat, s1
  <1>14. s1 + s2 = total /\ s1 + s2 \in Nat /\ s1 + s2 <= w
    BY <1>1, <1>4, <1>7, SMTT(30) DEF w
  <1>15. QED
    BY <1>8, <1>9, <1>10, <1>12, <1>13, <1>14, SMTT(40) DEF rest, w

\* read_allocated beyond the queue reads nothing.
LEMMA ReadNothing ==
    ASSUME NEW n, NEW r, RingOK(r, n), NEW o \in Nat, NEW m \in Nat, o > r.length
    PROVE read_allocated(r, o, m) = <<>>
  <1>1. \A x : get_allocated_size(r, o, x) = 0
    BY DEF get_allocated_size
  <1>2. \A x : get_allocated(r, o, x) = <<>>
    <2> DEFINE at == get_idx(r, o)
               e == Slice(r.storage, at, 0)
    <2>1. at \in Nat /\ at + 0 <= n
      <3>1. n \in Nat /\ at \in Nat /\ (at < n \/ (n = 0 /\ at = 0))
        BY GetIdxRange, RingShape, SMTT(30)
      <3> HIDE DEF at
      <3>2. QED
        BY <3>1
    <2> HIDE DEF at
    <2>2. e \in Seq(Elem) /\ Len(e) = 0
      BY <2>1, SliceType, SMTT(30)
    <2> HIDE DEF e
    <2>3. e = <<>>
      BY <2>2, EmptySeq
    <2>4. QED
      BY <1>1, <2>3 DEF get_allocated, e, at
  <1>3. read_allocated(r, o, m) = get_allocated(r, o, m) \o get_allocated(r, o + 0, m - 0)
    BY <1>1, SMTT(30) DEF read_allocated
  <1>4. o + 0 = o
    OBVIOUS
  <1>5. QED
    BY <1>2, <1>3, <1>4, SMTT(30)

\* Append, Head and Tail in terms of Cat, TakeOf and DropOf.
LEMMA OneElement ==
    ASSUME NEW s \in Seq(Elem)
    PROVE /\ \A v \in Elem : Append(s, v) = Cat(s, <<v>>)
          /\ s # <<>> => Tail(s) = DropOf(s, 1) /\ TakeOf(s, 1) = <<s[1]>> /\ Head(s) = s[1]
  <1>1. ASSUME NEW v \in Elem PROVE Append(s, v) = Cat(s, <<v>>)
    BY AppendIsConcat DEF Cat
  <1>2. ASSUME s # <<>> PROVE Tail(s) = DropOf(s, 1) /\ TakeOf(s, 1) = <<s[1]>> /\ Head(s) = s[1]
    <2> DEFINE k == Len(s) - 1
               c == 1
    <2>1. k \in Nat /\ Len(s) = c + k /\ c \in Nat /\ c <= Len(s)
      BY <1>2, LenProperties, EmptySeq, SMTT(30)
    <2>2. Tail(s) \in Seq(Elem) /\ Len(Tail(s)) = k /\ \A i \in 1..k : Tail(s)[i] = s[i + 1]
      BY <1>2, HeadTailProperties, SMTT(30)
    <2>3. Head(s) = s[1] /\ s[1] \in Elem
      BY <1>2, <2>1, HeadTailProperties, ElementOfSeq, SMTT(40)
    <2> HIDE DEF k, c
    <2>4. DropOf(s, c) \in Seq(Elem) /\ Len(DropOf(s, c)) = k
          /\ \A i \in 1..k : DropOf(s, c)[i] = s[c + i]
      BY <2>1, DropIs, ZenonT(40)
    <2>5. \A i \in 1..k : Tail(s)[i] = DropOf(s, c)[i]
      <3>1. \A i \in 1..k : c + i = i + 1
        BY <2>1, SMTT(30) DEF c
      <3>2. QED
        BY <2>2, <2>4, <3>1, SMTT(30)
    <2>6. Tail(s) = DropOf(s, c)
      BY <2>1, <2>2, <2>4, <2>5, SameSeq, SMTT(30)
    <2>7. TakeOf(s, c) \in Seq(Elem) /\ Len(TakeOf(s, c)) = c /\ \A i \in 1..c : TakeOf(s, c)[i] = s[i]
      BY <2>1, TakeIs, SMTT(30)
    <2>8. TakeOf(s, c) = <<s[1]>>
      <3> DEFINE t == <<s[1]>>
      <3>1. t \in Seq(Elem) /\ Len(t) = c /\ t[1] = s[1]
        BY <2>3 DEF c
      <3>2. \A i \in 1..c : i = 1
        BY DEF c
      <3> HIDE DEF t
      <3>3. \A i \in 1..c : TakeOf(s, c)[i] = t[i]
        BY <2>7, <3>1, <3>2
      <3>4. QED
        BY <2>1, <2>7, <3>1, <3>3, SameSeq, SMTT(40) DEF t
    <2>9. QED
      BY <2>3, <2>6, <2>8, SMTT(30) DEF c
  <1>3. QED
    BY <1>1, <1>2
=============================================================================
