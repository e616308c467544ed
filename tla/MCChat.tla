-------------------------------- MODULE MCChat --------------------------------
(* Instances of Chat for TLC.                                              *)
EXTENDS Chat

CONSTANTS c1, c2

Own == [c \in Conn |-> IF c = c1 THEN {"ann"} ELSE {"bob"}]   \* each client its own name
Same == [c \in Conn |-> {"ann"}]   \* all the same

(* Of a leftover CLIENT_TO_ONE the handler reads the receiver only.        *)
Anything == {Msg(t, n) : t \in ClientType, n \in Names} \cup {NoMsg}
Nothing  == {NoMsg}

=============================================================================
