----------------------------- MODULE MCTcpClose -----------------------------
(***************************************************************************)
(* Connections that are closed, for TLC.  A behaviour is one of:           *)
(*   writing   both ends write, the client more than one byte, and then    *)
(*             close one after the other (the constants of this module);   *)
(*   closing   both ends close, in either order or at once, with a byte in *)
(*             flight and a retransmission.                                *)
(***************************************************************************)
EXTENDS MCTcpPair

VARIABLE part

Simultaneous == INSTANCE TcpPair WITH
    TxCap <- 1, Bytes <- ServerWrites1, Closable <- BothClose, MaxRetransmits <- 1

CloseInit ==
    \/ part = "writing" /\ Init
    \/ part = "closing" /\ Simultaneous!Init

CloseNext ==
    /\ \/ part = "writing" /\ Next
       \/ part = "closing" /\ Simultaneous!Next
    /\ UNCHANGED part

CloseSpec == CloseInit /\ [][CloseNext]_<<vars, part>>
=============================================================================
