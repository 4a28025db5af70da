------------------------------ MODULE TcpPair ------------------------------
(***************************************************************************)
(* Two sockets of socket/tcp.rs, each polled by its own interface, and a   *)
(* network between them that loses, duplicates and reorders segments.      *)
(* Byte number i of an application's stream is the number i.               *)
(***************************************************************************)
EXTENDS TcpSocket, SequencesExt

CONSTANTS Client, Server,    \* the end that connects and the end that listens
          Iss,               \* random_seq_no: the initial number of each end
          Bytes,             \* how many bytes each application writes at most
          Chunks,            \* how many bytes they write or read at a time
          Options,           \* the options of each socket
          Closable,          \* the states in which each application calls close
          MayKeepAlive,      \* whether they call set_keep_alive
          MayAbort,          \* whether the applications call abort
          EmitFails,         \* whether the device may refuse a packet
          MaxInFlight,       \* segments under way to one end at most
          MaxFaults,         \* losses and duplications; no limit if negative
          MaxRetransmits     \* retransmissions; no limit if negative

VARIABLES sock,              \* the sockets
          net,               \* the segments on their way to each end
          wrote,             \* how many bytes each application has written
          got,               \* what each application has read
          opened,            \* the ends that have called connect or listen
          faults,            \* losses and duplications so far
          retransmits        \* retransmissions so far

vars == <<sock, net, wrote, got, opened, faults, retransmits>>

Ends == {Client, Server}
Peer(e) == CHOOSE p \in Ends : p # e
Stream(n) == [i \in 1..n |-> i]

Init ==
    /\ sock = [e \in Ends |-> new(Options[e].keep_alive, Options[e].timeout,
                                  Options[e].ack_delay, Options[e].nagle)]
    /\ net = [e \in Ends |-> {}]
    /\ wrote = [e \in Ends |-> 0]
    /\ got = [e \in Ends |-> <<>>]
    /\ opened = {}
    /\ faults = 0
    /\ retransmits = 0
-----------------------------------------------------------------------------
(***************************************************************************)
(* The network.                                                            *)
(***************************************************************************)
\* segs join those under way to e.
Carry(n, e, segs) == [n EXCEPT ![e] = @ \cup Range(segs)]
HasRoom(n) == \A e \in Ends : Cardinality(n[e]) <= MaxInFlight

\* One more of what is counted, within its bound if it has one.
Counted(n, max) == IF max < 0 THEN n ELSE n + 1
Fault ==
    /\ MaxFaults < 0 \/ faults < MaxFaults
    /\ faults' = Counted(faults, MaxFaults)

Lose(e, seg) ==
    /\ Fault
    /\ net' = [net EXCEPT ![e] = @ \ {seg}]
    /\ UNCHANGED <<sock, wrote, got, opened, retransmits>>
-----------------------------------------------------------------------------
(***************************************************************************)
(* The interface: segments that arrive, and the socket's turn to send.     *)
(***************************************************************************)
\* The socket of e replies r to a segment; `left` stay under way to e.  A reply
\* for which the network has no room is lost.
Ingress(e, r, left) ==
    LET n == Carry([net EXCEPT ![e] = left], Peer(e), r.out)
    IN /\ sock' = [sock EXCEPT ![e] = r.sock]
       /\ net' = IF HasRoom(n) THEN n ELSE [net EXCEPT ![e] = left]
       /\ UNCHANGED <<wrote, got, opened, retransmits>>

Deliver(e, seg, now) ==
    Ingress(e, process_tcp(sock[e], seg, Iss[e], now), net[e] \ {seg}) /\ UNCHANGED faults
DeliverAndKeep(e, seg, now) ==
    Fault /\ Ingress(e, process_tcp(sock[e], seg, Iss[e], now), net[e])

\* The clock may have passed any of the deadlines that are set.
Passed(s) ==
    SUBSET ((IF s.timer \in {"KeepAlive", "Retransmit", "Close"} THEN {"timer"} ELSE {})
            \cup (IF s.timeout /\ s.remote_last_ts THEN {"timeout"} ELSE {})
            \cup (IF s.ack_delay_timer = "Waiting" THEN {"ack"} ELSE {}))

\* The socket of e has sent what r says.
Dispatched(e, r) ==
    /\ sock' = [sock EXCEPT ![e] = r.sock]
    /\ net' = Carry(net, Peer(e), r.out)
    /\ HasRoom(net')
    /\ UNCHANGED <<wrote, got, opened, faults>>

Egress(e, now, emitted, contig) ==
    /\ Dispatched(e, dispatch(sock[e], now, emitted, contig))
    /\ IF should_retransmit(sock[e], now)
       THEN /\ MaxRetransmits < 0 \/ retransmits < MaxRetransmits
            /\ retransmits' = Counted(retransmits, MaxRetransmits)
       ELSE UNCHANGED retransmits
-----------------------------------------------------------------------------
(***************************************************************************)
(* The applications.                                                       *)
(***************************************************************************)
Listen(e) ==
    /\ e = Server /\ e \notin opened
    /\ sock' = [sock EXCEPT ![e] = listen(@)]
    /\ opened' = opened \cup {e}
    /\ UNCHANGED <<net, wrote, got, faults, retransmits>>

Connect(e) ==
    /\ e = Client /\ e \notin opened
    /\ sock' = [sock EXCEPT ![e] = connect(@, Iss[e])]
    /\ opened' = opened \cup {e}
    /\ UNCHANGED <<net, wrote, got, faults, retransmits>>

\* n bytes, or as many as are left to write or have room.
Send(e, n) ==
    LET s == send_slice(sock[e], SubSeq(Stream(Bytes[e]), wrote[e] + 1,
                                        Min({wrote[e] + n, Bytes[e]})))
    IN /\ s # sock[e]
       /\ sock' = [sock EXCEPT ![e] = s]
       /\ wrote' = [wrote EXCEPT ![e] = @ + Len(s.tx) - Len(sock[e].tx)]
       /\ UNCHANGED <<net, got, opened, faults, retransmits>>

\* n bytes, or as many as there are.
Recv(e, n) ==
    LET s == recv_slice(sock[e], n)
    IN /\ s # sock[e]
       /\ sock' = [sock EXCEPT ![e] = s]
       /\ got' = [got EXCEPT ![e] = @ \o SubSeq(sock[e].rx, 1, Len(sock[e].rx) - Len(s.rx))]
       /\ UNCHANGED <<net, wrote, opened, faults, retransmits>>

Close(e) ==
    /\ sock[e].state \in Closable[e]
    /\ sock' = [sock EXCEPT ![e] = close(@)]
    /\ UNCHANGED <<net, wrote, got, opened, faults, retransmits>>

Abort(e) ==
    /\ MayAbort /\ sock[e].state # "Closed"
    /\ sock' = [sock EXCEPT ![e] = abort(@)]
    /\ UNCHANGED <<net, wrote, got, opened, faults, retransmits>>

SetKeepAlive(e) ==
    /\ MayKeepAlive /\ ~sock[e].keep_alive
    /\ sock' = [sock EXCEPT ![e] = set_keep_alive(@, TRUE)]
    /\ UNCHANGED <<net, wrote, got, opened, faults, retransmits>>
-----------------------------------------------------------------------------
Next ==
    \E e \in Ends :
        \/ \E seg \in net[e], now \in {{}, {"challenge"}} :
              Deliver(e, seg, now) \/ DeliverAndKeep(e, seg, now)
        \/ \E seg \in net[e] : Lose(e, seg)
        \/ \E now \in Passed(sock[e]), contig \in 1..Mss : Egress(e, now, TRUE, contig)
        \/ EmitFails /\ \E now \in Passed(sock[e]) : Egress(e, now, FALSE, Mss)
        \/ Listen(e)
        \/ Connect(e)
        \/ \E n \in Chunks : Send(e, n) \/ Recv(e, n)
        \/ Close(e)
        \/ Abort(e)
        \/ SetKeepAlive(e)

Spec == Init /\ [][Next]_vars

\* Fairness, with what is enabled and what is a step written as formulas of the
\* state.  Strong for the interface, which polls its sockets in turn: one with
\* something to send is not passed over each time the device has room.  Weak
\* for the rest: a segment arrives unless it is lost, and the applications read.
IsStep(e, r) ==
    LET n == Carry(net, Peer(e), r.out)
    IN HasRoom(n) /\ <<r.sock, n>> # <<sock[e], net>>
CanPoll(e) == \E now \in Passed(sock[e]) : IsStep(e, dispatch(sock[e], now, TRUE, Mss))
Polled(e) ==
    /\ <<net[e], sock[Peer(e)], wrote, got>>' = <<net[e], sock[Peer(e)], wrote, got>>
    /\ net[Peer(e)] \subseteq net'[Peer(e)]

Fairness ==
    \A e \in Ends :
        /\ <>[](~CanPoll(e)) \/ []<><<Polled(e)>>_vars
        /\ []<>(net[e] = {}) \/ []<><<\E seg \in net[e] : seg \notin net'[e]>>_vars
        /\ []<>(sock[e].rx = <<>>) \/ []<><<got'[e] # got[e]>>_vars

FairSpec == Spec /\ Fairness
-----------------------------------------------------------------------------
(***************************************************************************)
(* Properties.                                                             *)
(***************************************************************************)
\* The sockets keep their shape (their buffers within capacity, the sequence
\* numbers in the sequence space), and so do the segments they send.
TypeOK ==
    /\ \A e \in Ends : SocketTypeOK(sock[e])
    /\ \A e \in Ends : \A seg \in net[e] :
          /\ seg.control \in Controls /\ seg.seq \in SeqNumber
          /\ seg.ack \in SeqNumber \cup {NoSeq} /\ seg.win \in 0..RxCap
          /\ seg.mss \in {NoSeq, Mss}
          /\ seg.payload \in BoundedSeq(0..Max({Bytes[Client], Bytes[Server]}), Mss)
    /\ wrote \in [Ends -> Nat] /\ opened \subseteq Ends
    /\ faults \in Nat /\ retransmits \in Nat

\* What an application has read and can read is a prefix of what its peer
\* wrote, and a byte that waits in a spare cell for those before it (the
\* assembler says which do) is the byte of that position: process cuts,
\* places and joins segments rightly whatever their order and overlap.
StreamIntegrity ==
    \A e \in Ends :
        LET s == sock[e]
            have == got[e] \o s.rx
        IN /\ IsPrefix(have, Stream(wrote[Peer(e)]))
           /\ \A r \in Range(iter_data(s.assembler, 0)) : \A i \in r[1]..(r[2] - 1) :
                  s.spare[i + 1] = Len(have) + i + 1 /\ Len(have) + i < wrote[Peer(e)]

\* An application that is told the stream is Finished (rx_fin_received) has
\* read every byte its peer wrote.
FinishedIsComplete ==
    \A e \in Ends : recv_result(sock[e]) = "Finished" => got[e] = Stream(wrote[Peer(e)])

Connected == {"Established", "FinWait1", "FinWait2", "CloseWait", "Closing", "LastAck", "TimeWait"}

\* No byte leaves a transmit buffer before the peer has it in its receive
\* buffer or has read it, whatever acknowledgements are lost, repeated or
\* overtaken; a peer that has forgotten the connection is not asked.
AckedIsReceived ==
    \A e \in Ends :
        sock[Peer(e)].state \in Connected =>
            wrote[e] - Len(sock[e].tx) <= Len(got[Peer(e)]) + Len(sock[Peer(e)].rx)

\* The next number to send lies between the first unacknowledged one and the
\* end of the buffer and the SYN or FIN: dispatch's offset would panic below,
\* and get_allocated be empty for ever above.
SendWindowOK(s) ==
    s.tuple /\ s.state # "Closed" =>
        wrapping_sub(s.remote_last_seq, s.local_seq_no)
            \in 0..(Len(s.tx) + sent_syn(s) + sent_fin(s))

\* A segment that passes the checks of process is cut at two places of its
\* payload, in order, what is left fits the spare cells, and no more is freed
\* than the transmit buffer holds (the debug_asserts of process).
CutsOK(s, seg) ==
    LET from == seq_max(window_start(s), seg.seq)
        to == seq_min(window_end(s), segment_end(seg))
    IN accepts(s, seg) /\ AckVerdict(s, seg) = "ok" =>
          /\ ack_len(s, seg) <= Len(s.tx)
          /\ ~Unsynchronized(s) /\ segment_in_window(s, seg) =>
                /\ 0 <= wrapping_sub(from, seg.seq)
                /\ wrapping_sub(from, seg.seq) <= wrapping_sub(to, seg.seq)
                /\ wrapping_sub(to, seg.seq) <= Len(seg.payload)
                /\ wrapping_sub(from, window_start(s)) >= 0
                /\ wrapping_sub(to, window_start(s)) <= Len(s.spare)

\* Whatever is under way, no subtraction of sequence numbers in process and in
\* dispatch underflows, which would panic (SeqNumber's Sub), and no slice is
\* out of range.
SubtractionsOK ==
    \A e \in Ends :
        SendWindowOK(sock[e]) /\ \A seg \in net[e] : CutsOK(sock[e], seg)

\* The comments of process: "In FIN-WAIT-1, LAST-ACK, or CLOSING, we've just
\* sent a FIN".  A step into FIN-WAIT-2 or TIME-WAIT, or from LAST-ACK to
\* CLOSED, takes it for acknowledged: the peer has received it.
FinAckedIsFinReceived ==
    [][\A e \in Ends :
         LET from == sock[e].state
             to == sock'[e].state
         IN /\ from # to /\ (to \in {"FinWait2", "TimeWait"} \/ from = "LastAck")
            /\ sock[Peer(e)].state \in Connected
            => sock[Peer(e)].rx_fin_received]_vars

\* dispatch: a keep-alive packet carries "a fake segment"; its byte is never
\* taken for data.
KeepAliveIsNoData ==
    \A e \in Ends : KeepAliveByte \notin Range(got[e] \o sock[e].rx)

\* Something is in flight that no timer will repeat: the retransmit timer does
\* not run, and nothing is left to be sent after which it would be wound up.
Untimed(s) ==
    /\ s.tuple /\ s.remote_last_seq # s.local_seq_no
    /\ ~is_retransmit(s) /\ ~seq_to_transmit(s)

\* A burst of segments is interrupted: more was about to be sent, and a segment
\* arrives with a window whose right edge is before the one announced earlier.
Interrupted(s, t) ==
    /\ seq_to_transmit(s)
    /\ seq_lt(seq_add(t.local_seq_no, t.remote_win_len),
              seq_add(s.local_seq_no, s.remote_win_len))

\* Until the peer's FIN arrives, no step leaves untimed what is in flight,
\* whether it sends, acknowledges, rewinds or closes, except one that
\* interrupts a burst.
InFlightIsTimed ==
    [][\A e \in Ends :
         /\ Untimed(sock'[e]) /\ ~Untimed(sock[e])
         /\ sock'[e].state \in {"SynSent", "SynReceived", "Established", "FinWait1", "FinWait2"}
         => Interrupted(sock[e], sock'[e])]_vars

\* CHANGELOG: "Only clear retransmit timer when all packets are acked": it is
\* not cleared in CLOSE-WAIT, CLOSING and LAST-ACK while they are not.
ClosingIsTimed ==
    \A e \in Ends :
        sock[e].state \in {"CloseWait", "Closing", "LastAck"} => ~Untimed(sock[e])

\* "The logic here mirrors the beginning of dispatch() closely": whatever
\* deadlines have passed, dispatch does something exactly when poll_at said
\* it is to be called, so that no wakeup is missed and no poll spins.
PollAtMirrorsDispatch ==
    \A e \in Ends : \A now \in Passed(sock[e]) :
        (poll_at(sock[e]) \cap ({"now"} \cup now) # {})
            <=> (dispatch(sock[e], now, TRUE, Mss) # Reply(sock[e], <<>>))

\* Each direction is a ByteStream: from an application that writes to the one
\* that reads, and is told of the end by recv.
ToServer == INSTANCE ByteStream WITH
    written <- wrote[Client], read <- got[Server], told <- recv_result(sock[Server])
ToClient == INSTANCE ByteStream WITH
    written <- wrote[Server], read <- got[Client], told <- recv_result(sock[Client])
ImplementsByteStream == ToServer!Spec /\ ToClient!Spec

\* Every byte written is read in the end: losses are made up for, and no
\* exchange of segments goes on for ever without it.
EventuallyRead ==
    \A e \in Ends : \A n \in 1..Bytes[e] :
        wrote[e] >= n ~> Len(got[Peer(e)]) >= n
=============================================================================
