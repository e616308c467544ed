------------------------------ MODULE Broadcast -------------------------------
(***************************************************************************)
(* What the message-queue chat of cw07 promises: the texts have one order, *)
(* and what a client is shown is a stretch of it without a gap, from some  *)
(* text on.                                                                *)
(***************************************************************************)
EXTENDS Naturals, Sequences

CONSTANTS Clients, Texts

VARIABLES
  log,    (* the texts in the order the server has got them                 *)
  shown   (* what each client's listener has printed                        *)

Init == log = <<>> /\ shown = [c \in Clients |-> <<>>]

Post(t) ==
  /\ \A i \in DOMAIN log : log[i] # t
  /\ log' = Append(log, t)
  /\ UNCHANGED shown

(* The first text shown may be any; from then on it is the next in order.  *)
Show(c, i) ==
  /\ LET n == Len(shown[c]) IN n > 0 => i > 1 /\ shown[c][n] = log[i - 1]
  /\ shown' = [shown EXCEPT ![c] = Append(@, log[i])]
  /\ UNCHANGED log

Next ==
  \/ \E t \in Texts : Post(t)
  \/ \E c \in Clients, i \in DOMAIN log : Show(c, i)

Spec == Init /\ [][Next]_<<log, shown>>

=============================================================================
