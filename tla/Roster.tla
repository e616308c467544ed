-------------------------------- MODULE Roster --------------------------------
(***************************************************************************)
(* What the client table of cw11/server.c promises: a name belongs to the  *)
(* connection that registered it until it is given up, and nobody else     *)
(* gets it meanwhile.  Names come and go one at a time, but for the end of *)
(* the server.                                                             *)
(***************************************************************************)
CONSTANTS Names, Owners, None

VARIABLES up, owner

Init == up = TRUE /\ owner = [n \in Names |-> None]

Join(n, o) ==
  /\ up /\ owner[n] = None
  /\ owner' = [owner EXCEPT ![n] = o]
  /\ UNCHANGED up

Leave(n) ==
  /\ up /\ owner[n] # None
  /\ owner' = [owner EXCEPT ![n] = None]
  /\ UNCHANGED up

Shutdown ==
  /\ up /\ up' = FALSE
  /\ owner' = [n \in Names |-> None]

Next ==
  \/ \E n \in Names : Leave(n) \/ \E o \in Owners : Join(n, o)
  \/ Shutdown

Spec == Init /\ [][Next]_<<up, owner>>

=============================================================================
