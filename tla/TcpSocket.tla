------------------------------ MODULE TcpSocket ------------------------------
(***************************************************************************)
(* socket/tcp.rs: one TCP socket as a record, and its operations as        *)
(* operators from records to records.                                      *)
(*                                                                         *)
(* The only thing the code asks of the clock is which deadlines it has     *)
(* passed: `now` is a set of Deadlines, an input of every operation that   *)
(* reads the clock.  A buffer is what Fifo promises of a ring buffer: its  *)
(* queue and its spare cells.                                              *)
(***************************************************************************)
EXTENDS TcpSeq, AssemblerOps

CONSTANTS RxCap, TxCap,    \* the sizes of the receive and the transmit buffer
          Mss,             \* the payload that fits the MTU of both ends' links
          WinShift,        \* the window scale that RxCap calls for
          MaxSegmentCount  \* ASSEMBLER_MAX_SEGMENT_COUNT

ASSUME SocketAssumption ==
    /\ RxCap \in Nat /\ TxCap \in Nat /\ Mss \in Nat \ {0} /\ WinShift \in Nat
    /\ MaxSegmentCount \in Nat \ {0}
    /\ 2 * RxCap < SeqSpace /\ 2 * (TxCap + 1) < SeqSpace

DupAckLimit == 4           \* local_rx_dup_acks saturates; the code tells 3 from more
MaxWindow == 2^16 - 1      \* the window field of a segment
DEFAULT_MSS == 536
KeepAliveByte == 0         \* the payload of a keep-alive packet
NoByte == -1               \* a spare cell that holds nothing of the stream

States == {"Closed", "Listen", "SynSent", "SynReceived", "Established", "FinWait1",
           "FinWait2", "CloseWait", "Closing", "LastAck", "TimeWait"}
Controls == {"None", "Psh", "Syn", "Fin", "Rst"}
Deadlines == {"timer", "timeout", "ack", "challenge"}
Timers == {"Idle", "KeepAlive", "Retransmit", "FastRetransmit", "Close"}

\* A segment (TcpRepr) without options: the window scale and the maximum
\* segment size are NoSeq when absent.
Segment(control, seq, ack, win, payload) ==
    [control |-> control, seq |-> seq, ack |-> ack, win |-> win, payload |-> payload,
     scale |-> NoSeq, mss |-> NoSeq]

control_len(control) == IF control \in {"Syn", "Fin"} THEN 1 ELSE 0
segment_len(seg) == Len(seg.payload) + control_len(seg.control)
repr_is_empty(seg) == seg.payload = <<>> /\ seg.control \in {"None", "Psh"}
-----------------------------------------------------------------------------
(***************************************************************************)
(* Timer and AckDelayTimer.                                                *)
(***************************************************************************)
\* "KeepAlive" is Timer::Idle with the time of the next keep-alive packet.
is_idle(s) == s.timer \in {"Idle", "KeepAlive"}
is_retransmit(s) == s.timer \in {"Retransmit", "FastRetransmit"}
should_keep_alive(s, now) == s.timer = "KeepAlive" /\ "timer" \in now
should_retransmit(s, now) ==
    s.timer = "FastRetransmit" \/ (s.timer = "Retransmit" /\ "timer" \in now)
should_close(s, now) == s.timer = "Close" /\ "timer" \in now

set_for_idle(s) == [s EXCEPT !.timer = IF s.keep_alive THEN "KeepAlive" ELSE "Idle"]
set_for_close(s) == [s EXCEPT !.timer = "Close"]
set_for_fast_retransmit(s) == [s EXCEPT !.timer = "FastRetransmit"]
rewind_keep_alive(s) == IF is_idle(s) THEN set_for_idle(s) ELSE s
set_for_retransmit(s) == [s EXCEPT !.timer = IF @ = "Close" THEN @ ELSE "Retransmit"]
-----------------------------------------------------------------------------
(***************************************************************************)
(* The socket.                                                             *)
(***************************************************************************)
\* What reset() leaves: everything but the options, and but the record of
\* the last acknowledgement, which it does not touch.
reset(s) ==
    [s EXCEPT !.state = "Closed", !.timer = "Idle",
              !.assembler = new_contigs(MaxSegmentCount),
              !.tx = <<>>, !.rx = <<>>, !.spare = [i \in 1..RxCap |-> NoByte],
              !.rx_fin_received = FALSE, !.tuple = FALSE,
              !.local_seq_no = 0, !.remote_seq_no = 0, !.remote_last_seq = 0,
              !.remote_last_ack = NoSeq, !.remote_last_win = 0, !.remote_win_len = 0,
              !.remote_win_scale = NoSeq, !.remote_win_shift = WinShift,
              !.remote_mss = DEFAULT_MSS, !.remote_last_ts = FALSE,
              !.ack_delay_timer = "Idle"]

\* Options: keep_alive, timeout, ack_delay (each set or not) and nagle.
new(keep_alive, timeout, ack_delay, nagle) ==
    [state |-> "Closed", timer |-> "Idle",
     assembler |-> new_contigs(MaxSegmentCount),
     tx |-> <<>>,                                    \* tx_buffer
     rx |-> <<>>,                                    \* rx_buffer: the queue ...
     spare |-> [i \in 1..RxCap |-> NoByte],          \* ... and the cells behind it
     rx_fin_received |-> FALSE, tuple |-> FALSE,
     local_seq_no |-> 0, remote_seq_no |-> 0, remote_last_seq |-> 0,
     remote_last_ack |-> NoSeq, remote_last_win |-> 0, remote_win_len |-> 0,
     remote_win_scale |-> NoSeq, remote_win_shift |-> WinShift,
     remote_mss |-> DEFAULT_MSS,
     remote_last_ts |-> FALSE,                       \* whether it is set
     local_rx_last_ack |-> NoSeq, local_rx_dup_acks |-> 0,
     ack_delay_timer |-> "Idle",
     keep_alive |-> keep_alive, timeout |-> timeout, ack_delay |-> ack_delay, nagle |-> nagle]

rx_window(s) == RxCap - Len(s.rx)
scaled_window(s) == Min({rx_window(s) \div 2^s.remote_win_shift, MaxWindow})
rcv_nxt(s) == seq_add(s.remote_seq_no, Len(s.rx))

is_open(s) == s.state \notin {"Closed", "TimeWait"}
may_send(s) == s.state \in {"Established", "CloseWait"}
may_recv(s) == s.state \in {"Established", "FinWait1", "FinWait2"} \/ s.rx # <<>>
-----------------------------------------------------------------------------
(***************************************************************************)
(* Replies to a segment: the socket after it, and the segment if any.      *)
(***************************************************************************)
Reply(s, segs) == [sock |-> s, out |-> segs]

rst_reply(seg) ==
    Segment("Rst", IF seg.ack = NoSeq THEN 0 ELSE seg.ack,
            IF seg.control = "Syn" /\ seg.ack = NoSeq
            THEN seq_add(seg.seq, segment_len(seg)) ELSE NoSeq,
            0, <<>>)

ack_reply(s) ==
    Reply([s EXCEPT !.remote_last_ack = rcv_nxt(s), !.remote_last_win = scaled_window(s)],
          <<Segment("None", s.remote_last_seq, rcv_nxt(s), scaled_window(s), <<>>)>>)

\* At most one in a second: the deadline is the end of that second.
challenge_ack_reply(s, now) ==
    IF "challenge" \in now THEN ack_reply(s) ELSE Reply(s, <<>>)

\* Every segment is for this socket's one peer: what is left of accepts() is
\* the state, and that a listening socket takes no acknowledgement.
accepts(s, seg) == s.state # "Closed" /\ ~(s.state = "Listen" /\ seg.ack # NoSeq)
-----------------------------------------------------------------------------
(***************************************************************************)
(* process, in the order of the code.                                      *)
(***************************************************************************)
sent_syn(s) == IF s.state \in {"SynSent", "SynReceived"} THEN 1 ELSE 0
sent_fin(s) == IF s.state \in {"FinWait1", "LastAck", "Closing"} THEN 1 ELSE 0

\* What becomes of a segment because of its acknowledgement: it goes on
\* ("ok"), or is dropped, or answered with a RST or a challenge ACK.
AckVerdict(s, seg) ==
    LET exact == seg.ack = seq_add(s.local_seq_no, 1)
        ack_max == seq_add(s.local_seq_no, Len(s.tx) + sent_fin(s))
    IN CASE seg.control = "Rst" ->
              IF s.state = "SynSent" /\ ~exact THEN "drop" ELSE "ok"
         [] seg.control # "Rst" /\ s.state = "Listen" -> "ok"
         [] seg.control # "Rst" /\ s.state # "Listen" /\ seg.ack = NoSeq -> "drop"
         [] seg.control # "Rst" /\ s.state = "SynSent" /\ seg.ack # NoSeq ->
              IF seg.control \notin {"Syn", "None"} THEN "drop"
              ELSE IF ~exact THEN "rst"
              ELSE IF seg.control = "Syn" THEN "ok" ELSE "drop"
         [] seg.control # "Rst" /\ s.state = "SynReceived" /\ seg.ack # NoSeq ->
              IF exact THEN "ok" ELSE "rst"
         [] OTHER ->
              IF seq_lt(seg.ack, s.local_seq_no) THEN "drop"
              ELSE IF seq_gt(seg.ack, ack_max) THEN "challenge" ELSE "ok"

window_start(s) == rcv_nxt(s)
window_end(s) == seq_add(s.remote_seq_no, RxCap)
segment_end(seg) == seq_add(seg.seq, Len(seg.payload))
Unsynchronized(s) == s.state \in {"Listen", "SynSent"}

\* RFC 9293's acceptability test, as the code has it.
segment_in_window(s, seg) ==
    LET start == window_start(s)
        end == window_end(s)
        inside(x) == seq_le(start, x) /\ seq_lt(x, end)
    IN IF seg.payload = <<>>
       THEN /\ segment_end(seg) # seq_sub(start, 1)
            /\ IF start = end THEN seg.seq = start ELSE inside(seg.seq)
       ELSE /\ start # end
            /\ \/ inside(seg.seq)
               \/ seq_lt(start, segment_end(seg)) /\ seq_le(segment_end(seg), end)

\* The part of the payload inside the window, and where in the window it goes.
Overlap(s, seg) ==
    LET from == seq_max(window_start(s), seg.seq)
        to == seq_min(window_end(s), segment_end(seg))
    IN IF Unsynchronized(s) THEN [payload |-> <<>>, offset |-> 0]
       ELSE [payload |-> SubSeq(seg.payload, wrapping_sub(from, seg.seq) + 1,
                                wrapping_sub(to, seg.seq)),
             offset |-> wrapping_sub(from, window_start(s))]

\* Whether the segment acknowledges our FIN, everything sent so far, and how
\* many bytes of the transmit buffer.
Acknowledges(s, seg) == seg.control # "Rst" /\ seg.ack # NoSeq
AckedSeq(s, seg) == wrapping_sub(seg.ack, seq_add(s.local_seq_no, sent_syn(s)))
\* Mutant: the acknowledgement of the last byte is taken for that of the FIN.
ack_of_fin_one_early(s, seg) ==
    Acknowledges(s, seg) /\ sent_fin(s) = 1 /\ AckedSeq(s, seg) >= Len(s.tx)

ack_of_fin(s, seg) ==
    Acknowledges(s, seg) /\ sent_fin(s) = 1 /\ AckedSeq(s, seg) = Len(s.tx) + 1
\* Mutant: any acknowledgement counts as one of everything sent.
ack_all_any(s, seg) == Acknowledges(s, seg) /\ AckedSeq(s, seg) >= 0

ack_all(s, seg) ==
    Acknowledges(s, seg) /\ AckedSeq(s, seg) >= 0 /\ s.remote_last_seq = seg.ack
\* Mutant: an acknowledgement frees the whole transmit buffer.
ack_len_whole(s, seg) ==
    IF ~Acknowledges(s, seg) \/ AckedSeq(s, seg) <= 0 THEN 0 ELSE Len(s.tx)

ack_len(s, seg) ==
    IF ~Acknowledges(s, seg) \/ AckedSeq(s, seg) < 0 THEN 0
    ELSE IF ack_of_fin(s, seg) THEN Len(s.tx) ELSE AckedSeq(s, seg)

\* Mutant: a FIN counts even when bytes before it are missing.
EffectiveControlUnchecked(s, seg) == IF seg.control = "Psh" THEN "None" ELSE seg.control

\* PSH counts for nothing, and a FIN is disregarded behind a gap.
EffectiveControl(s, seg) ==
    IF seg.control = "Psh" \/ (seg.control = "Fin" /\ window_start(s) # seg.seq)
    THEN "None" ELSE seg.control

\* The rows of the match on the state and the control flag.  A row that
\* returns early stops; after the others processing goes on.
Go(s) == [sock |-> s, go |-> TRUE]
Stop(s) == [sock |-> s, go |-> FALSE]
set_state(s, state) == [s EXCEPT !.state = state]
FinReceived(s, state) ==
    [s EXCEPT !.state = state, !.remote_seq_no = seq_add(@, 1), !.rx_fin_received = TRUE]
Negotiated(s, seg) ==
    [s EXCEPT !.remote_mss = IF seg.mss = NoSeq THEN @ ELSE seg.mss,
              !.remote_win_scale = seg.scale,
              !.remote_win_shift = IF seg.scale = NoSeq THEN 0 ELSE @]

Transition(s, seg, iss) ==
    LET control == EffectiveControl(s, seg)
        at(state, c) == s.state = state /\ control = c
    IN CASE at("Listen", "Rst") -> Stop(s)
         [] at("SynReceived", "Rst") -> Stop([s EXCEPT !.tuple = FALSE, !.state = "Listen"])
         [] control = "Rst" /\ s.state \notin {"Listen", "SynReceived"} ->
              Stop([s EXCEPT !.state = "Closed", !.tuple = FALSE])
         [] (at("Listen", "Syn") \/ at("SynSent", "Syn")) /\ seg.mss = 0 -> Stop(s)
         [] at("Listen", "Syn") /\ seg.mss # 0 ->
              Go(set_for_idle(Negotiated(
                   [s EXCEPT !.tuple = TRUE, !.state = "SynReceived",
                             !.local_seq_no = iss, !.remote_last_seq = iss,
                             !.remote_seq_no = seq_add(seg.seq, 1)], seg)))
         [] at("SynReceived", "None") -> Go(set_for_idle(set_state(s, "Established")))
         [] at("SynReceived", "Fin") -> Go(set_for_idle(FinReceived(s, "CloseWait")))
         [] at("SynSent", "Syn") /\ seg.mss # 0 ->
              Go(set_for_idle(Negotiated(
                   [s EXCEPT !.state = "Established",
                             !.remote_seq_no = seq_add(seg.seq, 1),
                             !.remote_last_seq = seq_add(s.local_seq_no, 1),
                             !.remote_last_ack = seg.seq], seg)))
         [] at("Established", "None") ->
              Go(IF ~is_retransmit(s) \/ ack_all(s, seg) THEN set_for_idle(s) ELSE s)
         [] at("Established", "Fin") -> Go(set_for_idle(FinReceived(s, "CloseWait")))
         [] at("FinWait1", "None") ->
              LET t == IF ack_of_fin(s, seg) THEN set_state(s, "FinWait2") ELSE s
              IN Go(IF ack_all(s, seg) THEN set_for_idle(t) ELSE t)
         [] at("FinWait1", "Fin") ->
              Go(IF ack_of_fin(s, seg) THEN set_for_close(FinReceived(s, "TimeWait"))
                                       ELSE set_for_idle(FinReceived(s, "Closing")))
         [] at("FinWait2", "None") -> Go(set_for_idle(s))
         [] at("FinWait2", "Fin") -> Go(set_for_close(FinReceived(s, "TimeWait")))
         [] at("Closing", "None") ->
              Go(IF ack_of_fin(s, seg) THEN set_for_close(set_state(s, "TimeWait"))
                                       ELSE set_for_idle(s))
         [] at("CloseWait", "None") -> Go(set_for_idle(s))
         [] at("LastAck", "None") ->
              Go(IF ack_of_fin(s, seg) THEN [s EXCEPT !.state = "Closed", !.tuple = FALSE]
                                       ELSE set_for_idle(s))
         [] OTHER -> Stop(s)

\* Mutant: an acknowledgement past what was sent again does not move it on.
AdvancedNever(ack, last) == last

\* The next number to send, once everything before ack is acknowledged.
Advanced(ack, last) == IF seq_lt(last, ack) THEN ack ELSE last

\* The remote window and the transmit buffer, from which acked bytes leave.
WindowUpdated(s, win, acked) ==
    [s EXCEPT !.remote_last_ts = TRUE, !.remote_win_len = win,
              !.tx = SubSeq(@, acked + 1, Len(@))]

is_duplicate(s, seg, win) ==
    /\ seg.payload = <<>> /\ s.local_rx_last_ack = seg.ack
    /\ seq_lt(seg.ack, s.remote_last_seq) /\ win = s.remote_win_len

\* The send sequence numbers; the third duplicate starts a fast retransmit.
AckRecorded(s, seg, dups) ==
    [(IF dups = 3 THEN set_for_fast_retransmit(s) ELSE s) EXCEPT
        !.local_rx_dup_acks = dups, !.local_rx_last_ack = seg.ack,
        !.local_seq_no = seg.ack, !.remote_last_seq = Advanced(seg.ack, @)]

\* All of this, for a segment that announces the window win.
RemoteUpdatedTo(s, seg, acked, win) ==
    IF seg.ack = NoSeq THEN WindowUpdated(s, win, acked)
    ELSE AckRecorded(WindowUpdated(s, win, acked), seg,
                     IF is_duplicate(s, seg, win)
                     THEN Min({DupAckLimit, s.local_rx_dup_acks + 1}) ELSE 0)

RemoteUpdated(s, seg, acked) ==
    RemoteUpdatedTo(s, seg, acked,
                    seg.win * 2^(IF seg.control = "Syn" \/ s.remote_win_scale = NoSeq
                                 THEN 0 ELSE s.remote_win_scale))

\* ack_to_transmit and window_to_update.
ack_to_transmit(s) == s.remote_last_ack # NoSeq /\ seq_lt(s.remote_last_ack, rcv_nxt(s))
window_to_update(s) ==
    /\ s.state \in {"SynSent", "SynReceived", "Established", "FinWait1", "FinWait2"}
    /\ scaled_window(s) > s.remote_last_win

\* Mutant: the payload is written to the first spare cells.
PlacedAtFront(s, payload, offset) ==
    [s EXCEPT !.spare = [i \in DOMAIN @ |-> IF i <= Len(payload) THEN payload[i] ELSE @[i]]]

\* Out-of-order payload waits in the spare cells until the assembler has all
\* that comes before it; what it would need a new hole for is dropped.
Placed(s, payload, offset) ==
    [s EXCEPT !.spare = [i \in DOMAIN @ |->
                           IF i \in (offset + 1)..(offset + Len(payload))
                           THEN payload[i - offset] ELSE @[i]]]
Allocated(s, added) ==
    [s EXCEPT !.assembler = added.contigs,
              !.rx = @ \o SubSeq(s.spare, 1, added.n),
              !.spare = SubSeq(@, added.n + 1, Len(@))]

\* The first segment to acknowledge starts the delay, the second ends it.
AckDelayed(s) ==
    IF ~s.ack_delay \/ ~(ack_to_transmit(s) \/ window_to_update(s)) THEN s
    ELSE [s EXCEPT !.ack_delay_timer = IF @ = "Idle" THEN "Waiting" ELSE "Immediate"]

\* A segment that leaves or fills a hole is acknowledged at once.
AckOutOfOrder(s, before) ==
    IF no_data(s.assembler) /\ no_data(before) THEN Reply(s, <<>>) ELSE ack_reply(s)

Assembled(s, payload, offset, added) ==
    IF ~added.ok THEN Reply(s, <<>>)
    ELSE AckOutOfOrder(AckDelayed(Allocated(Placed(s, payload, offset), added)), s.assembler)

DataReceived(s, payload, offset) ==
    IF payload = <<>> THEN Reply(s, <<>>)
    ELSE Assembled(s, payload, offset, add_then_remove_front(s.assembler, offset, Len(payload)))

\* From the match on: s is the socket before it, `moved` after it.
ProcessAccepted(s, seg, moved, data) ==
    IF ~moved.go THEN Reply(moved.sock, <<>>)
    ELSE DataReceived(RemoteUpdated(moved.sock, seg, ack_len(s, seg)), data.payload, data.offset)

process(s, seg, iss, now) ==
    LET verdict == AckVerdict(s, seg)
    IN IF verdict = "drop" THEN Reply(s, <<>>)
       ELSE IF verdict = "rst" THEN Reply(s, <<rst_reply(seg)>>)
       ELSE IF verdict = "challenge" THEN challenge_ack_reply(s, now)
       ELSE IF ~Unsynchronized(s) /\ ~segment_in_window(s, seg)
       THEN challenge_ack_reply(IF s.state = "TimeWait" THEN set_for_close(s) ELSE s, now)
       ELSE ProcessAccepted(s, seg, Transition(s, seg, iss), Overlap(s, seg))

\* process_tcp: a segment that no socket accepts is answered with a RST.
process_tcp(s, seg, iss, now) ==
    IF accepts(s, seg) THEN process(s, seg, iss, now)
    ELSE Reply(s, IF seg.control = "Rst" THEN <<>> ELSE <<rst_reply(seg)>>)
-----------------------------------------------------------------------------
(***************************************************************************)
(* dispatch and poll_at.                                                   *)
(***************************************************************************)
timed_out(s, now) == s.timeout /\ s.remote_last_ts /\ "timeout" \in now
\* Mutant: a delayed acknowledgement that is forced goes on waiting.
delayed_ack_expired_not_forced(s, now) == s.ack_delay_timer = "Idle" \/ "ack" \in now

delayed_ack_expired(s, now) == s.ack_delay_timer # "Waiting" \/ "ack" \in now

\* The congestion window is never the limit (NoControl).
effective_mss(s) == Min({Mss, s.remote_mss})
seq_to_transmit(s) ==
    LET in_flight == s.remote_last_seq # s.local_seq_no
        max_send_seq == seq_add(s.local_seq_no, Min({s.remote_win_len, Len(s.tx)}))
        max_send == Max({0, wrapping_sub(max_send_seq, s.remote_last_seq)})
        want_fin == s.state \in {"FinWait1", "Closing", "LastAck"}
        held_back == s.nagle /\ in_flight /\ max_send < effective_mss(s) /\ ~want_fin
    IN \/ s.state \in {"SynSent", "SynReceived"} /\ ~in_flight
       \/ max_send # 0 /\ ~held_back
       \/ want_fin /\ s.remote_last_seq = seq_add(s.local_seq_no, Len(s.tx))

\* Mutant: nothing is sent again.
RewoundNever(s, now) ==
    IF ~seq_to_transmit(s) /\ should_retransmit(s, now) THEN set_for_idle(s) ELSE s

\* A retransmission is due: rewind to the last acknowledgement.
Rewound(s, now) ==
    IF ~seq_to_transmit(s) /\ should_retransmit(s, now)
    THEN set_for_idle([s EXCEPT !.remote_last_seq = s.local_seq_no])
    ELSE s

\* What dispatch does before it decides whether to send: start the timeout,
\* abort on it, or rewind.
Prepared(s, now) ==
    IF timed_out(s, now) THEN set_state(s, "Closed")
    ELSE Rewound([s EXCEPT !.remote_last_ts = TRUE], now)

HasToSend(s, now) ==
    \/ seq_to_transmit(s)
    \/ (ack_to_transmit(s) \/ window_to_update(s)) /\ delayed_ack_expired(s, now)
    \/ s.state = "Closed"
    \/ should_keep_alive(s, now)

\* The payload starts where we last stopped, within the remote window and one
\* segment; get_allocated also stops at the end of the storage, `contig` away.
PayloadToSend(s, contig) ==
    LET offset == wrapping_sub(s.remote_last_seq, s.local_seq_no)
        win_right_edge == seq_add(s.local_seq_no, s.remote_win_len)
        win_limit == Max({0, wrapping_sub(win_right_edge, s.remote_last_seq)})
        size == Min({win_limit, effective_mss(s), contig, Max({0, Len(s.tx) - offset})})
    IN SubSeq(s.tx, offset + 1, offset + size)

SegmentToSend(s, contig) ==
    LET base == Segment("None", s.remote_last_seq, rcv_nxt(s), scaled_window(s), <<>>)
        unscaled == Min({rx_window(s), MaxWindow})
        payload == PayloadToSend(s, contig)
        sent == wrapping_sub(s.remote_last_seq, s.local_seq_no) + Len(payload)
        last == IF s.state \in {"FinWait1", "LastAck", "Closing"} THEN "Fin"
                ELSE IF payload # <<>> THEN "Psh" ELSE "None"
    IN CASE s.state = "Closed" -> [base EXCEPT !.control = "Rst"]
         [] s.state = "SynSent" ->
              [base EXCEPT !.control = "Syn", !.win = unscaled, !.ack = NoSeq,
                           !.mss = Mss, !.scale = s.remote_win_shift]
         [] s.state = "SynReceived" ->
              [base EXCEPT !.control = "Syn", !.win = unscaled, !.mss = Mss,
                           !.scale = IF s.remote_win_scale = NoSeq THEN NoSeq
                                     ELSE s.remote_win_shift]
         [] s.state \in {"Established", "FinWait1", "Closing", "CloseWait", "LastAck"} ->
              [base EXCEPT !.payload = payload,
                           !.control = IF sent = Len(s.tx) THEN last ELSE "None"]
         [] OTHER -> base

\* Mutant: a keep-alive takes the next sequence number.
WithKeepAliveAtNext(seg) == [seg EXCEPT !.payload = <<KeepAliveByte>>]

\* A keep-alive takes the sequence number before the one to be sent.
WithKeepAlive(seg) ==
    [seg EXCEPT !.seq = seq_sub(@, 1), !.payload = <<KeepAliveByte>>]

\* What dispatch changes once the segment is in the device buffer.
TimerStarted(s, seg) ==
    IF ~seq_to_transmit(s) /\ segment_len(seg) > 0 THEN set_for_retransmit(s) ELSE s

Sent(s, seg) ==
    TimerStarted([s EXCEPT !.remote_last_seq = seq_add(seg.seq, segment_len(seg)),
                           !.remote_last_ack = seg.ack, !.remote_last_win = seg.win,
                           !.tuple = @ /\ s.state # "Closed"], seg)

Transmitted(s, seg, is_keep_alive) ==
    IF is_keep_alive THEN Reply(s, <<WithKeepAlive(seg)>>) ELSE Reply(Sent(s, seg), <<seg>>)

EmitSegment(s, seg, now) ==
    Transmitted([rewind_keep_alive(s) EXCEPT !.ack_delay_timer = "Idle"], seg,
                should_keep_alive(s, now) /\ repr_is_empty(seg))

\* emitted: the device takes the packet; otherwise only the preparation stays.
DispatchPrepared(s, now, emitted, contig) ==
    IF ~HasToSend(s, now) THEN Reply(IF should_close(s, now) THEN reset(s) ELSE s, <<>>)
    ELSE IF ~emitted THEN Reply(s, <<>>)
    ELSE EmitSegment(s, SegmentToSend(s, contig), now)

dispatch(s, now, emitted, contig) ==
    IF ~s.tuple THEN Reply(s, <<>>)
    ELSE DispatchPrepared(Prepared(s, now), now, emitted, contig)

\* When dispatch is to be called again: at the first of a set of deadlines,
\* at once if "now" is among them, and only after a packet if there is none.
poll_at(s) ==
    LET delayed_ack == IF ~(ack_to_transmit(s) \/ window_to_update(s)) THEN {}
                       ELSE IF s.ack_delay_timer = "Waiting" THEN {"ack"} ELSE {"now"}
        timer == CASE s.timer = "Idle" -> {}
                   [] s.timer = "FastRetransmit" -> {"now"}
                   [] OTHER -> {"timer"}
    IN IF ~s.tuple THEN {}
       ELSE IF ~s.remote_last_ts \/ s.state = "Closed" \/ seq_to_transmit(s) THEN {"now"}
       ELSE timer \cup (IF s.timeout THEN {"timeout"} ELSE {}) \cup delayed_ack
-----------------------------------------------------------------------------
(***************************************************************************)
(* The calls of the application.  Each returns the socket; a call that the *)
(* code refuses with an error leaves it as it was.                         *)
(***************************************************************************)
listen(s) == IF is_open(s) THEN s ELSE set_state(reset(s), "Listen")

connect(s, iss) ==
    IF is_open(s) THEN s
    ELSE [reset(s) EXCEPT !.tuple = TRUE, !.state = "SynSent",
                          !.local_seq_no = iss, !.remote_last_seq = iss]

close(s) ==
    CASE s.state \in {"Listen", "SynSent"} -> set_state(s, "Closed")
      [] s.state \in {"SynReceived", "Established"} -> set_state(s, "FinWait1")
      [] s.state = "CloseWait" -> set_state(s, "LastAck")
      [] OTHER -> s

abort(s) == set_state(s, "Closed")

\* Mutant: the room in the buffer is not looked at.
send_slice_unbounded(s, data) ==
    IF ~may_send(s) \/ data = <<>> THEN s
    ELSE [s EXCEPT !.remote_last_ts = @ /\ s.tx # <<>>, !.tx = @ \o data]

\* send_slice of data, of which as much is taken as there is room for.
send_slice(s, data) ==
    LET size == Min({Len(data), TxCap - Len(s.tx)})
    IN IF ~may_send(s) \/ size = 0 THEN s
       ELSE [s EXCEPT !.remote_last_ts = @ /\ s.tx # <<>>,
                      !.tx = @ \o SubSeq(data, 1, size)]

\* Mutant: the sequence number of the first byte does not follow the reader.
recv_slice_unadvanced(s, n) ==
    LET size == Min({n, Len(s.rx)})
    IN IF ~may_recv(s) THEN s
       ELSE [s EXCEPT !.rx = SubSeq(@, size + 1, Len(@)),
                      !.spare = @ \o [i \in 1..size |-> NoByte]]

\* recv_slice into a buffer of n bytes; the freed cells become spare.
recv_slice(s, n) ==
    LET size == Min({n, Len(s.rx)})
    IN IF ~may_recv(s) THEN s
       ELSE [s EXCEPT !.remote_seq_no = seq_add(@, size),
                      !.rx = SubSeq(@, size + 1, Len(@)),
                      !.spare = @ \o [i \in 1..size |-> NoByte]]

\* Mutant: the end is announced before the last bytes are read.
recv_result_at_fin(s) ==
    IF s.rx_fin_received THEN "Finished" ELSE IF may_recv(s) THEN "Ok" ELSE "InvalidState"

\* recv_error_check: Ok, or the error that ends the stream.
recv_result(s) ==
    IF may_recv(s) THEN "Ok" ELSE IF s.rx_fin_received THEN "Finished" ELSE "InvalidState"

set_keep_alive(s, on) ==
    [s EXCEPT !.keep_alive = on,
              !.timer = IF on /\ @ = "Idle" THEN "KeepAlive" ELSE @]
-----------------------------------------------------------------------------
\* The shape of a socket: the spare cells are what the queue leaves of the
\* receive buffer, and the assembler's ranges lie in them.
SocketTypeOK(s) ==
    /\ s.state \in States /\ s.timer \in Timers
    /\ Len(s.tx) <= TxCap /\ Len(s.rx) + Len(s.spare) = RxCap
    /\ Len(s.assembler) = MaxSegmentCount
    /\ SpanOf(s.assembler, 1, MaxSegmentCount) <= Len(s.spare)
    /\ {s.local_seq_no, s.remote_seq_no, s.remote_last_seq} \subseteq SeqNumber
    /\ {s.remote_last_ack, s.local_rx_last_ack} \subseteq SeqNumber \cup {NoSeq}
    /\ {s.remote_last_win, s.remote_win_len} \subseteq 0..RxCap
    /\ s.remote_win_scale \in {NoSeq, WinShift} /\ s.remote_win_shift \in {0, WinShift}
    /\ s.local_rx_dup_acks \in 0..DupAckLimit /\ s.remote_mss \in Nat \ {0}
    /\ s.ack_delay_timer \in {"Idle", "Waiting", "Immediate"}
    /\ {s.tuple, s.rx_fin_received, s.remote_last_ts} \subseteq BOOLEAN
=============================================================================
