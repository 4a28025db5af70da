----------------------------- MODULE PacketQueue -----------------------------
(***************************************************************************)
(* What a packet buffer promises: whole packets come out in the order in   *)
(* which they went in, each with its own header and payload.  An enqueue   *)
(* may be refused; a refused packet leaves the queue as it was.            *)
(***************************************************************************)
EXTENDS Sequences

CONSTANTS Header, Payloads

VARIABLES packets,    \* the packets queued: [header, payload]
          ret         \* the last result: [res, packets], with the packet
                      \* that was queued or read

Packet(h, p) == [header |-> h, payload |-> p]
Returned(res, ps) == [res |-> res, packets |-> ps]

Init == packets = <<>> /\ ret = Returned("reset", <<>>)

Enqueue(h, p) ==
    \/ /\ ret' = Returned("queued", <<Packet(h, p)>>)
       /\ packets' = Append(packets, Packet(h, p))
    \/ ret' = Returned("full", <<>>) /\ UNCHANGED packets

\* The oldest packet is shown, and removed when the reader succeeds.
Dequeue(ok) ==
    IF packets = <<>> THEN ret' = Returned("empty", <<>>) /\ UNCHANGED packets
    ELSE /\ ret' = Returned("read", <<Head(packets)>>)
         /\ packets' = IF ok THEN Tail(packets) ELSE packets

Reset == ret' = Returned("reset", <<>>) /\ packets' = <<>>

Next ==
    \/ \E h \in Header, p \in Payloads : Enqueue(h, p)
    \/ \E ok \in BOOLEAN : Dequeue(ok)
    \/ Reset

Spec == Init /\ [][Next]_<<packets, ret>>
=============================================================================
