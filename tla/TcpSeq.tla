------------------------------- MODULE TcpSeq -------------------------------
(***************************************************************************)
(* wire/tcp.rs: sequence numbers.  The code keeps one in an i32 and        *)
(* compares by the sign of the wrapping difference; here it is its bit     *)
(* pattern, a number below SeqSpace (2^32 in the code).                      *)
(***************************************************************************)
EXTENDS Integers

CONSTANT SeqSpace

ASSUME SeqAssumption == SeqSpace \in Nat \ {0} /\ SeqSpace % 2 = 0

SeqNumber == 0..(SeqSpace - 1)
NoSeq == -1                        \* None, where a number is optional

seq_add(a, n) == (a + n) % SeqSpace
seq_sub(a, n) == (a - n) % SeqSpace

\* self.0.wrapping_sub(other.0): negative when other is ahead.  The operator
\* - of two numbers panics then; see SubtractionsOK of TcpPair.
wrapping_sub(a, b) ==
    LET d == (a - b) % SeqSpace IN IF 2 * d < SeqSpace THEN d ELSE d - SeqSpace

\* Half the space apart, each of two numbers is less than the other: a > b and
\* b < a are different conditions, written here as the code has them.
seq_lt(a, b) == wrapping_sub(a, b) < 0
seq_le(a, b) == wrapping_sub(a, b) <= 0
seq_gt(a, b) == wrapping_sub(a, b) > 0
seq_ge(a, b) == wrapping_sub(a, b) >= 0

seq_max(a, b) == IF seq_gt(a, b) THEN a ELSE b
seq_min(a, b) == IF seq_lt(a, b) THEN a ELSE b
=============================================================================
