# smoltcp in TLA+

A verification development for the smoltcp TCP/IP stack: TLA+ modules translated from the Rust
source, TLC configurations that check them on small instances, and TLAPS proofs. `PROJECT.json`
maps every definition to the lines it models and lists the runs, the hazards and the theorems.

## The system

smoltcp is a single-threaded, poll-driven stack. The application owns an `Interface`, a `Device`
and a `SocketSet`, and calls `Interface::poll`; all concurrency is between the application's calls
on its sockets, the order in which frames arrive, the clock, and the peer.

| Layer | Source | What it does |
|---|---|---|
| storage | `src/storage/` | ring buffer, packet buffer (packets of varying size in two rings), assembler (which offsets of a stream were received) |
| TCP | `src/socket/tcp.rs`, `src/socket/tcp/`, `wire/tcp.rs` | state machine, timers, retransmission, RTT estimate, congestion control |
| datagram sockets | `src/socket/{udp,icmp,raw}.rs` | bound endpoints over packet buffers |
| clients | `src/socket/{dhcpv4,dns}.rs` | DHCP lease, DNS queries with retries |
| interface | `src/iface/` | poll loop, neighbor cache, routes, fragmentation, IGMP, socket set and metadata |
| RPL | `src/iface/rpl/` | trickle timer, lollipop counter, parents and relations; not called by the interface yet |
| wire | `src/wire/` | stateless parsing and emission of packets |
| phy | `src/phy/` | device traits, fault injection, tracing, system devices |
| programs | `examples/`, `benches/`, `fuzz/`, `utils/` | demonstrations (a switch, a bridge), drivers |

The sockets keep their data in the storage types. TCP reads and writes a ring buffer at both
ends and uses the unallocated cells behind the receive queue for bytes that arrive out of order;
the assembler says which of those cells are filled. The interface calls `process` of the socket a
packet is for and sends its reply, then `dispatch` of each socket in turn; `poll_at` of the
sockets tells the application when to poll again.

## Modules

**Ring buffer.** `RingOps` has the operations of `storage/ring_buffer.rs` as operators on a record
`[storage, cap, read_at, length]`, under the names of the functions. `RingBuffer` is one ring
buffer and every call on it. `Fifo` is what it promises: a bounded queue followed by spare cells
that can be written and later allocated. `RingBuffer` maps its cells, from `read_at` on, to the
queue and the spare cells of `Fifo`.

**Assembler.** `AssemblerOps` and `Assembler` model `storage/assembler.rs`. `ReceivedSet` is the
promise: the set of received positions, refused only when it would take more runs than contigs.

**Packet buffer.** `PacketBuffer` models `storage/packet_buffer.rs` over two rings of `RingOps`,
padding included; `PacketQueue` is a bounded queue of packets. `RxSpec` has the calls of a receive
buffer (`enqueue`), `TxSpec` those of a transmit buffer (`enqueue_with_infallible`).

**TCP.** `TcpSeq` is `SeqNumber` over a circular space of `SeqSpace` numbers. `TcpSocket` is one
socket as a record, and `process`, `dispatch`, `poll_at` and the application calls as operators on
it. `process` keeps the order of the checks of the code; where the code changes the socket before
an early return, so does the operator. A buffer is what `Fifo` promises of a ring buffer. The
clock is abstracted to the set of deadlines it has passed: the code asks nothing else of it. Byte
*i* of a stream is the number *i*, so that a misplaced byte shows. `TcpPair` joins two sockets by a
network that loses, repeats and reorders segments; `ByteStream` is the promise of one direction.

| Actions of `TcpPair` | Code |
|---|---|
| `Deliver`, `DeliverAndKeep`, `Lose` | the network; `iface/interface/tcp.rs` with `accepts` and `process` |
| `Egress` | the TCP branch of `socket_egress` for one socket, with a device that takes or refuses the packet |
| `Listen`, `Connect`, `Send`, `Recv`, `Close`, `Abort`, `SetKeepAlive` | the application's calls |

The order in which `Interface::poll` visits devices and sockets is not modelled here: the actions
interleave freely, and the clock may have passed any deadline that is set (`Passed`).

`MC*` modules give the constants their values; each `.cfg` is one run.

## Runs

| Run | Result | What it shows |
|---|---|---|
| `ring_buffer` | holds | storages of 0 to 3 elements: every sequence of calls stays in range and refines `Fifo` |
| `assembler` | holds | three contigs, positions up to 8: the layout the comments describe, `iter_data` yields the maximal runs, refinement of `ReceivedSet` |
| `packet_buffer_rx` | holds | 3 entries, 4 bytes: whole packets in order through padding and wrapping, no panic, and an empty buffer takes any packet that fits |
| `packet_buffer_tx_roomy` | holds | 3 entries, 4 bytes, no empty packet: padding never takes the entry a packet needs, and `enqueue_with_infallible` refines `PacketQueue` too |
| `packet_buffer_tx_orphan` | violated | the same with 2 entries; see findings |
| `tcp_transfer` | holds | three bytes in segments of one or two, one fault, one retransmission, numbers that wrap, sockets that may be closed before the peer is heard from: `StreamIntegrity`, `AckedIsReceived`, `SubtractionsOK`, `InFlightIsTimed` |
| `tcp_close` | holds | both ends write (two bytes and one) and close in turn, or close in either order or at once with a byte in flight and a retransmission; with reordering, but no counted loss: `FinishedIsComplete`, `FinAckedIsFinReceived`, `ImplementsByteStream` |
| `tcp_options` | holds | user timeout, delayed ACK, Nagle, keep-alive, window scale, abort, a device that refuses packets: `PollAtMirrorsDispatch`. The stream is not checked with keep-alive on: see `tcp_keep_alive_data` |
| `tcp_live` | holds | every byte written is read in the end |
| `tcp_closing_untimed`, `tcp_keep_alive_data`, `tcp_early_close` | violated | see findings |

**Bounds.** A ring of 3 has every relation of `read_at`, length and end of storage, the empty and
the full ring among them; slices and counts go one beyond the capacity. Three contigs are the
fewest with one that is neither first nor last. The packet buffer has room for a packet, padding
and a second packet. TCP: buffers of 1 or 2 bytes and segments of at most 1 or 2 make every window
boundary near; 16 sequence numbers are more than twice any window, as 2^32 is, so that the signed
comparison is meaningful; the client's initial number makes its stream wrap. `MaxInFlight` bounds
the segments under way to one end, `MaxFaults` losses and duplications, `MaxRetransmits` expiries of the retransmit
timer. Reordering is not bounded otherwise: any segment under way may be next.
A reply for which the network has no room is lost, which is not counted among the faults. The TCP runs switch
deadlock checking off because a connection that is closed, or has nothing more to do, stops.

**Fairness** (`FairSpec`, only for `tcp_live`). Strong for `Egress`: `socket_egress` visits every
socket on each poll, so a socket with something to send is not passed over for ever while the device
has room again and again. Weak for the arrival of a segment that is not lost, and for the
application's reads. Nothing is assumed of writes. There is one fault and no bound on
retransmissions. The run writes no more bytes than the receive buffer holds: the code does not probe
zero windows (`README.md:138` of the repository), so a lost window update may stop a longer transfer.

## Findings

Each is a violation run with a trace.

* `packet_buffer_tx_orphan`: when padding takes the last metadata slot, `enqueue_with_infallible`
  has enqueued the payload when it returns `Full`; the next packet is read at the wrong offset.
* `tcp_closing_untimed`: in CLOSE-WAIT, CLOSING and LAST-ACK any acceptable segment sets the timer
  to idle, also with data or the FIN in flight, which is then not retransmitted.
* `tcp_keep_alive_data`: a keep-alive sent with data in flight has the number of a byte the peer
  may lack, and the peer takes its zero for data. It is sent in ESTABLISHED when a window that
  shrinks interrupts a burst, and in CLOSE-WAIT after the timer was cleared.
* `tcp_early_close`: after `close()` in SYN-RECEIVED the acknowledgement of the SYN|ACK counts as
  that of a FIN that was never sent.

Three more were seen while the modules were built and are not kept as runs:

* A burst of segments interrupted by a closing window leaves what was sent untimed, since the
  timer starts only when nothing more can be sent *after* a segment. `InFlightIsTimed` says
  that no other step does (`Interrupted`).
* `enqueue_with_infallible` does not clear an empty payload ring as `enqueue` does, and may refuse a
  packet that fits.
* `enqueue` may leave a padding entry and return `Full`; `is_empty` is then false with no packet.

## Proofs

`RingBufferProofs` proves `TypeCorrect`, `Spec => []TypeOK` of `RingBuffer`, for every set of
capacities, elements, slices and counts that satisfies `RingAssumption`. `TypeOK` says that
`read_at` is a slot of the storage and `length` at most its size: what keeps the code's indices in
range and its `usize` subtractions from wrapping. It is inductive as it stands (`RingOK` is its
part about a ring). The work is in the operations that go round the end of the storage: they run
twice what `get_idx` and `contiguous_window` bound, so a lemma about `(read_at + i) % cap`
(`ModSplit`) comes first, then one lemma per operation that it preserves `RingOK`, and the
theorem has one step per action.

`RingBufferRefinement` proves `Refines`, `Spec => ImplementsFifo`, from the same assumptions: the
ring buffer is a bounded queue with spare cells for every size of storage. Its lemmas are in
`RingEffects`. The cells of a ring are numbered from `read_at` on; `QueueOf` and `SpareOf` are the
refinement mapping as operators on any ring. Three facts are about the storage: a copy that does not
go round its end writes exactly the cells it names (`WriteCells`), moving `read_at` rotates the cells
(`RotateCells`), and moving the border turns spare cells into the tail of the queue (`Grow`,
`Shrink`). `Pieces` is the arithmetic of the operations that copy in two pieces: the two are in
range, and together are all that was asked for or all there is. From these follows one lemma per
operation on what it does to queue and spare and what it returns (`EnqueueSliceEffect`,
`DequeueSliceEffect`, `WriteEffect`, `ReadEffect`, ...). `TypeOK` is the only invariant needed.

All else is model-checked only. Liveness (`EventuallyRead`) is out of the prover's reach, and so
is what a recursive definition computes.

## Not modelled

`PROJECT.json` lists every part with its reason. Out of scope for good: system devices (I/O),
byte-level emission, text parsers, logging, Cubic (floating point), async wakers (the executor is
not here). In TCP: SACK ranges, the values of the RTT estimate and of the congestion window (they
change only lengths of deadlines and of bursts, and every deadline may pass at any time; the burst is
limited by the remote window alone, as with `NoControl`), and reuse of a socket.

## Plan

1. *Interface core*: neighbor cache, socket metadata, socket set and `socket_egress` in one
   composition (a socket waiting for a neighbor is served in the end, no discovery storm, no socket
   starves on `Exhausted`); routes as a pure algorithm against longest-prefix match.
2. *Fragmentation*: reassembly over `AssemblerOps`, refining "a packet is delivered whole or not at
   all"; the IPv4 fragmenter and its inverse.
3. *DHCP client and DNS resolver* against a lossy network: lease times, retries, `poll_at`.
4. *IGMP*, UDP/ICMP/raw sockets over `PacketQueue`, trickle timer and lollipop counter, the RTT
   estimator and Reno; length checks of the wire formats as pure algorithms.
5. *Reuse of a TCP socket* and `reset()`.
6. *Theorems*: order lemmas of `TcpSeq`; the
   invariant of `ByteStream`; the type and safety invariants of the modules of steps 1 to 3.

Related questions are to share a run: the packet buffer runs can be merged, the pure algorithms
checked in one run, `tcp_options` folded into `tcp_transfer`.
