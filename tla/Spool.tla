-------------------------------- MODULE Spool ---------------------------------
(***************************************************************************)
(* What the print queue of cw08 promises: a bounded first-in first-out     *)
(* queue.  Every job put in is handed, once and in order, to one printer.  *)
(***************************************************************************)
EXTENDS Integers, Sequences

CONSTANTS Texts, Printers, MaxJobs, None

VARIABLES
  queue,    (* the jobs waiting                                             *)
  printing  (* the job a printer has been handed and not finished           *)

Init == queue = <<>> /\ printing = [p \in Printers |-> None]

Put(j) ==
  /\ Len(queue) < MaxJobs
  /\ queue' = Append(queue, j)
  /\ UNCHANGED printing

Hand(p) ==
  /\ queue # <<>> /\ printing[p] = None
  /\ printing' = [printing EXCEPT ![p] = Head(queue)]
  /\ queue' = Tail(queue)

Finish(p) ==
  /\ printing[p] # None
  /\ printing' = [printing EXCEPT ![p] = None]
  /\ UNCHANGED queue

Next ==
  \/ \E j \in Texts : Put(j)
  \/ \E p \in Printers : Hand(p) \/ Finish(p)

Spec == Init /\ [][Next]_<<queue, printing>>

=============================================================================
