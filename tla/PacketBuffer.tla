---------------------------- MODULE PacketBuffer ----------------------------
(***************************************************************************)
(* storage/packet_buffer.rs: packets of varying size in two ring buffers,  *)
(* one of metadata and one of payload bytes.  A packet's payload must be   *)
(* contiguous, so a packet that does not fit before the end of the payload *)
(* storage is preceded by a padding entry that covers the rest of it.      *)
(***************************************************************************)
EXTENDS RingOps, SequencesExt

CONSTANTS Header,           \* packet headers
          NoHeader,         \* None: the header of a padding entry
          Payloads,         \* the payloads a caller passes, sequences of bytes
          Byte0,            \* what the payload storage holds at first
          MetaCap, DataCap  \* the lengths of the two storages

ASSUME PacketAssumption ==
    /\ NoHeader \notin Header
    /\ MetaCap \in Nat /\ DataCap \in Nat

VARIABLES meta,             \* metadata_ring, of [size, header]
          data,             \* payload_ring, of bytes
          ret               \* the last result: [res, packets], with the packet
                            \* that was queued or read

vars == <<meta, data, ret>>

PacketMetadata(size, h) == [size |-> size, header |-> h]
padding(size) == PacketMetadata(size, NoHeader)
is_padding(m) == m.header = NoHeader
Packet(h, p) == [header |-> h, payload |-> p]
Returned(res, ps) == [res |-> res, packets |-> ps]
FirstOf(r) == r.storage[r.read_at]

Init ==
    /\ meta = new([i \in 0..(MetaCap - 1) |-> padding(0)], MetaCap)
    /\ data = new([i \in 0..(DataCap - 1) |-> Byte0], DataCap)
    /\ ret = Returned("reset", <<>>)

\* *metadata_ring.enqueue_one()? = m, where there is room
WithMeta(r, m) == enqueue_one_with(r, m, TRUE)

\* Mutant: the space behind the padding is not checked.
NoRoomIgnoringPadding(d, n) == window(d) < n

\* Whether a packet of n bytes cannot fit, and whether it needs padding before it.
NoRoom(d, n) ==
    \/ window(d) < n
    \/ contiguous_window(d) < n /\ window(d) - contiguous_window(d) < n
Padded(d, n) == contiguous_window(d) < n

\* Mutant: the payload ring is left as it is.
RealignedNever(d) == d

\* Ring is currently empty: clear the ring, so that its window is contiguous.
Realigned(d) == IF is_empty(d) THEN clear(d) ELSE d
-----------------------------------------------------------------------------
\* enqueue, and the caller's copy of the payload p into the slice it returns.
\* A full metadata ring is noticed again only after the padding was added.
Enqueue(h, p) ==
    LET n == Len(p)
        d == Realigned(data)
        meta1 == IF Padded(d, n) THEN WithMeta(meta, padding(contiguous_window(d))) ELSE meta
        data1 == IF Padded(d, n) THEN enqueue_many(d, contiguous_window(d)) ELSE d
    IN IF data.cap < n \/ is_full(meta)
       THEN ret' = Returned("full", <<>>) /\ UNCHANGED <<meta, data>>
       ELSE IF NoRoom(d, n)
       THEN ret' = Returned("full", <<>>) /\ data' = d /\ UNCHANGED meta
       ELSE IF is_full(meta1)
       THEN ret' = Returned("full", <<>>) /\ data' = data1 /\ meta' = meta1
       ELSE /\ meta' = WithMeta(meta1, PacketMetadata(n, h))
            /\ data' = enqueue_many_with(data1, p)
            /\ ret' = Returned("queued", <<Packet(h, p)>>)

\* enqueue_with_infallible: the closure gets max bytes and writes p in them.
\* The payload is enqueued before the metadata, and `?` may leave in between.
EnqueueWithInfallible(max, h, p) ==
    LET meta1 == IF Padded(data, max)
                 THEN WithMeta(meta, padding(contiguous_window(data))) ELSE meta
        data1 == IF Padded(data, max) THEN enqueue_many(data, contiguous_window(data)) ELSE data
    IN /\ Len(p) <= max
       /\ IF data.cap < max \/ is_full(meta) \/ NoRoom(data, max)
          THEN ret' = Returned("full", <<>>) /\ UNCHANGED <<meta, data>>
          ELSE /\ data' = enqueue_many_with(data1, p)
               /\ IF is_full(meta1)
                  THEN meta' = meta1 /\ ret' = Returned("full", <<>>)
                  ELSE /\ meta' = WithMeta(meta1, PacketMetadata(Len(p), h))
                       /\ ret' = Returned("queued", <<Packet(h, p)>>)

\* dequeue_padding, which every read begins with.
AtPadding == ~is_empty(meta) /\ is_padding(FirstOf(meta))
MetaRead == IF AtPadding THEN dequeue_one_with(meta, TRUE) ELSE meta

\* Mutant: padding is skipped in the metadata only.
DataReadWithPadding == data

DataRead == IF AtPadding THEN dequeue_many_with(data, FirstOf(meta).size) ELSE data

\* dequeue_with and dequeue (which always succeeds): the reader is shown the
\* header and the payload.  Both unwrap the header, and slice the contiguous
\* payload to the packet's size: a padding entry or a short slice panics.
DequeueWith(ok) ==
    LET m == FirstOf(MetaRead)
        contiguous == dequeue_many_size(DataRead, DataRead.length)
    IN IF is_empty(MetaRead)
       THEN ret' = Returned("empty", <<>>) /\ meta' = MetaRead /\ data' = DataRead
       ELSE IF is_padding(m) \/ contiguous < m.size
       THEN ret' = Returned("panic", <<>>) /\ meta' = MetaRead /\ data' = DataRead
       ELSE /\ ret' = Returned("read",
                   <<Packet(m.header, Slice(DataRead.storage, DataRead.read_at, m.size))>>)
            /\ meta' = dequeue_one_with(MetaRead, ok)
            /\ data' = IF ok THEN dequeue_many_with(DataRead, m.size) ELSE DataRead

\* peek shows what get_allocated finds; it removes padding only.
Peek ==
    LET m == FirstOf(MetaRead)
    IN /\ meta' = MetaRead /\ data' = DataRead
       /\ ret' = IF is_empty(MetaRead) THEN Returned("empty", <<>>)
                 ELSE IF is_padding(m) THEN Returned("panic", <<>>)
                 ELSE Returned("read", <<Packet(m.header, get_allocated(DataRead, 0, m.size))>>)

Reset ==
    /\ meta' = clear(meta) /\ data' = clear(data)
    /\ ret' = Returned("reset", <<>>)

\* Every use of a receive buffer: sockets fill it with enqueue only.
RxNext ==
    \/ \E h \in Header, p \in Payloads : Enqueue(h, p)
    \/ \E ok \in BOOLEAN : DequeueWith(ok)
    \/ Peek
    \/ Reset

\* A transmit buffer is filled with enqueue_with_infallible as well (send_with).
TxNext ==
    \/ RxNext
    \/ \E max \in 0..(DataCap + 1), h \in Header, p \in Payloads :
          EnqueueWithInfallible(max, h, p)

RxSpec == Init /\ [][RxNext]_vars
TxSpec == Init /\ [][TxNext]_vars
-----------------------------------------------------------------------------
(***************************************************************************)
(* Properties.                                                             *)
(***************************************************************************)
\* The metadata entries queued, oldest first.
Entries == [i \in 1..meta.length |-> meta.storage[get_idx(meta, i - 1)]]

\* The packets in the buffer, oldest first: entries that are not padding, each
\* with the payload bytes that the sizes before it lead to; and `at`, where the
\* payload of the next entry would start.
Contents ==
    LET bytes(at, n) == [b \in 1..n |-> data.storage[get_idx(data, at + b - 1)]]
        step(acc, m) ==
            [at |-> acc.at + m.size,
             packets |-> IF is_padding(m) THEN acc.packets
                         ELSE Append(acc.packets, Packet(m.header, bytes(acc.at, m.size)))]
    IN FoldLeft(step, [at |-> 0, packets |-> <<>>], Entries)
Packets == Contents.packets

\* Both rings stay well formed and the entries account for every byte of the
\* payload ring: no byte is queued that no entry owns, and none is owned twice.
TypeOK ==
    /\ meta \in Ring(MetaCap, [size : 0..DataCap, header : Header \cup {NoHeader}])
    /\ data.read_at <= DataCap /\ data.length \in 0..DataCap
    /\ data.length = Contents.at

\* Packets come out whole and in order, each with the payload that was
\* enqueued with its header, however padding and wrapping place them.
Q == INSTANCE PacketQueue WITH packets <- Packets
ImplementsPacketQueue == Q!Spec

\* No read meets a padding entry where a packet must be, nor a payload that is
\* not contiguous: the unwrap and the slice in dequeue_with never panic.
NeverPanics == ret.res # "panic"

\* A buffer that holds nothing takes every packet that fits its storage.
EnqueueFitsWhenEmpty ==
    [][\A h \in Header, p \in Payloads :
         is_empty(meta) /\ MetaCap > 0 /\ Len(p) <= DataCap /\ Enqueue(h, p)
           => ret'.res = "queued"]_vars
=============================================================================
