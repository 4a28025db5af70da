----------------------------- MODULE ByteStream -----------------------------
(***************************************************************************)
(* What a TCP connection promises in one direction: the reader gets the    *)
(* bytes 1, 2, ... in the order they were written, and is told the stream  *)
(* is Finished only once it has them all and no more will be written.  The *)
(* connection may break at any time (InvalidState).                        *)
(***************************************************************************)
EXTENDS Integers, Sequences

CONSTANT TxCap       \* the most one write takes

VARIABLES written,   \* how many bytes have been written
          read,      \* the bytes read
          told       \* what recv answers: "Ok", "Finished" or "InvalidState"

Bytes1To(n) == [i \in 1..n |-> i]
Answers == {"Ok", "Finished", "InvalidState"}

Init == written = 0 /\ read = <<>> /\ told = "InvalidState"

Write ==
    /\ told # "Finished"
    /\ \E n \in 1..TxCap : written' = written + n
    /\ UNCHANGED <<read, told>>

\* The last byte may be followed at once by the end.
Read ==
    /\ told = "Ok"
    /\ \E n \in 1..(written - Len(read)) : read' = Bytes1To(Len(read) + n)
    /\ told' \in Answers /\ (told' = "Finished" => Len(read') = written)
    /\ UNCHANGED written

\* The connection opens, ends or breaks.
Turn ==
    /\ told' \in Answers /\ (told' = "Finished" => Len(read) = written)
    /\ UNCHANGED <<written, read>>

Next == Write \/ Read \/ Turn

Spec == Init /\ [][Next]_<<written, read, told>>
=============================================================================
