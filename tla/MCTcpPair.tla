------------------------------ MODULE MCTcpPair ------------------------------
(***************************************************************************)
(* Instances of TcpPair for TLC.                                           *)
(***************************************************************************)
EXTENDS TcpPair

OptionSet(keep_alive, timeout, ack_delay, nagle) ==
    [e \in Ends |-> [keep_alive |-> keep_alive, timeout |-> timeout,
                     ack_delay |-> ack_delay, nagle |-> nagle]]
PlainOptions == OptionSet(FALSE, FALSE, FALSE, FALSE)
KeepAliveOptions == OptionSet(TRUE, FALSE, FALSE, FALSE)
LateOptions == OptionSet(FALSE, TRUE, TRUE, TRUE)   \* and keep-alive set later

\* The client's numbers wrap round in the middle of its stream.
WrappingIss == [e \in Ends |-> IF e = Client THEN SeqSpace - 2 ELSE 3]

ClientWrites(n) == [e \in Ends |-> IF e = Client THEN n ELSE 0]
ClientWrites2 == ClientWrites(2)
ClientWrites3 == ClientWrites(3)
BothClose == [e \in Ends |-> {"Established", "CloseWait"}]
ClientCloses == [e \in Ends |-> IF e = Client THEN {"Established"} ELSE {"CloseWait"}]
EarlyClose == [e \in Ends |-> {"SynReceived", "Established", "CloseWait"}]
NeverClosed == [e \in Ends |-> {}]
GivenUp == [e \in Ends |-> {"Listen", "SynSent"}]  \* closed before the peer is heard from
NobodyWrites == [e \in Ends |-> 0]
BothWrite == [e \in Ends |-> IF e = Client THEN 2 ELSE 1]
NoLimit == -1
ServerWrites1 == [e \in Ends |-> IF e = Client THEN 0 ELSE 1]
=============================================================================
