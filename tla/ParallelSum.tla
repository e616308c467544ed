------------------------------ MODULE ParallelSum ------------------------------
(***************************************************************************)
(* cw06/zad1/main.c: an integral summed by child processes, each of which  *)
(* writes its part to a pipe of its own that the parent reads in turn.     *)
(*                                                                         *)
(* A part is the set of the intervals it stands for, and the sum says how  *)
(* often each interval is in it; rounding is left out.                     *)
(***************************************************************************)
EXTENDS Integers

CONSTANTS
  NProcesses,    (* n_processes                                             *)
  NIntervals,    (* n_intervals                                             *)
  MayKillChild   (* children somebody may kill                              *)

Child     == 0 .. NProcesses - 1
Intervals == 0 .. NIntervals - 1
Parent    == -1

ASSUME ParallelSumAssumption ==
  /\ NProcesses \in Nat \ {0} /\ NIntervals \in Nat
  /\ NIntervals >= NProcesses   \* main.c:91
  /\ MayKillChild \subseteq Child

VARIABLES
  nth,       (* the i of the parent's loop                                  *)
  parent,    (* which loop it is in                                         *)
  child,     (* where each child is                                         *)
  pipe,      (* what is in each pipe: a part, or nothing                    *)
  writers,   (* the processes that hold the write end of each pipe          *)
  sum        (* how often the parent has added each interval                *)

sumVars == <<nth, parent, child, pipe, writers, sum>>

SumInit ==
  /\ nth = 0 /\ parent = "fork"
  /\ child = [i \in Child |-> "none"]
  /\ pipe = [i \in Child |-> {}]
  /\ writers = [i \in Child |-> {Parent}]
  /\ sum = [k \in Intervals |-> 0]

StepsPerProcess == NIntervals \div NProcesses

(* Faulty variant of Steps: what the division leaves over is forgotten.    *)
StepsEqual(i) == StepsPerProcess

Steps(i) ==
  IF i = NProcesses - 1 THEN StepsPerProcess + (NIntervals % NProcesses)
                        ELSE StepsPerProcess

Share(i) ==
  {k \in Intervals : i * StepsPerProcess <= k /\ k < i * StepsPerProcess + Steps(i)}

-----------------------------------------------------------------------------
(* distribute_calculations                                                 *)

(* Faulty variant of Fork: the parent keeps the write end.                 *)
ForkAndKeep ==
  /\ parent = "fork" /\ nth < NProcesses
  /\ child' = [child EXCEPT ![nth] = "work"]
  /\ writers' = [i \in Child |-> IF Parent \in writers[i] THEN writers[i] \cup {nth}
                                                          ELSE writers[i]]
  /\ nth' = nth + 1
  /\ UNCHANGED <<parent, pipe, sum>>

(* The child inherits every end the parent still has, and closes no write  *)
(* end; the parent closes its end of this child's pipe.                    *)
Fork ==
  /\ parent = "fork" /\ nth < NProcesses
  /\ child' = [child EXCEPT ![nth] = "work"]
  /\ writers' =
       [i \in Child |->
          (IF Parent \in writers[i] THEN writers[i] \cup {nth} ELSE writers[i])
             \ (IF i = nth THEN {Parent} ELSE {})]
  /\ nth' = nth + 1
  /\ UNCHANGED <<parent, pipe, sum>>

Without(p) == [i \in Child |-> writers[i] \ {p}]

(* fork fails: main gives up, and leaves the children it has to themselves.*)
ForkFails ==
  /\ parent = "fork" /\ nth < NProcesses
  /\ parent' = "failed" /\ writers' = Without(Parent)
  /\ UNCHANGED <<nth, child, pipe, sum>>

Write(i) ==
  /\ child[i] = "work"
  /\ child' = [child EXCEPT ![i] = "written"]
  /\ pipe' = [pipe EXCEPT ![i] = Share(i)]
  /\ UNCHANGED <<nth, parent, writers, sum>>

ChildEnds(i, state) ==
  /\ child' = [child EXCEPT ![i] = state] /\ writers' = Without(i)
  /\ UNCHANGED <<nth, parent, pipe, sum>>

ChildExit(i) == child[i] = "written" /\ ChildEnds(i, "gone")

(* A result is written whole or not at all.                                *)
ChildKilled(i) ==
  /\ i \in MayKillChild
  /\ \/ child[i] = "work" /\ ChildEnds(i, "killed")
     \/ child[i] = "written" /\ ChildEnds(i, "gone")

-----------------------------------------------------------------------------
(* main                                                                    *)

Distributed ==
  /\ parent = "fork" /\ nth = NProcesses
  /\ parent' = "read" /\ nth' = 0
  /\ UNCHANGED <<child, pipe, writers, sum>>

(* read() waits while the pipe is empty and somebody could write to it; at *)
(* the end of the file result keeps its 0.                                 *)
Read ==
  /\ parent = "read" /\ nth < NProcesses
  /\ pipe[nth] # {} \/ writers[nth] = {}
  /\ sum' = [k \in Intervals |-> IF k \in pipe[nth] THEN sum[k] + 1 ELSE sum[k]]
  /\ pipe' = [pipe EXCEPT ![nth] = {}]
  /\ nth' = nth + 1
  /\ UNCHANGED <<parent, child, writers>>

PrintSum ==
  /\ parent = "read" /\ nth = NProcesses /\ parent' = "done"
  /\ UNCHANGED <<nth, child, pipe, writers, sum>>

-----------------------------------------------------------------------------

ParentStep  == Fork \/ ForkFails \/ Distributed \/ Read \/ PrintSum
ChildStep(i) == Write(i) \/ ChildExit(i)

SumNext ==
  \/ ParentStep
  \/ \E i \in Child : ChildStep(i) \/ ChildKilled(i)

SumSpec == SumInit /\ [][SumNext]_sumVars

-----------------------------------------------------------------------------

(* "final result" (main.c:118-129) has every interval in it once, but for  *)
(* those of children killed before they wrote: none is left out when the   *)
(* intervals do not divide evenly (main.c:31-33), and none added twice.    *)
SumIsWhole ==
  parent = "done" =>
    \A k \in Intervals :
      sum[k] = IF \E i \in Child : k \in Share(i) /\ child[i] = "killed" THEN 0 ELSE 1

(* The parent does not wait for ever on the pipe of a child that was       *)
(* killed: every copy of the write end goes in the end (main.c:42, 118).   *)
ParentEnds == <>(parent \in {"done", "failed"})

=============================================================================
