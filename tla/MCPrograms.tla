------------------------------ MODULE MCPrograms -------------------------------
(***************************************************************************)
(* The small programs of cw02, cw03, cw05, cw06, cw09 and cw10, which      *)
(* share nothing, checked in one run: each behaviour is one of one of      *)
(* them, and the others stay as they begin.                                *)
(***************************************************************************)
EXTENDS Santa, LifeThreads, ParallelSum, Calculator, Reversal, Catcher,
  Collatz

VARIABLE program  (* the one that runs                                      *)

MCLengths == 0 .. 9
MCBlocks  == 0 .. 5
MCStarts  == 1 .. 9
MCLimits  == 0 .. 20

ThreadVars  == <<santaVars, lifeVars>>
ProcessVars == <<sumVars, calculatorVars, catcherVars>>
PureVars    == <<reversalVars, collatzVars>>
programVars == <<program, ThreadVars, ProcessVars, PureVars>>

Solo(name, Step) == program = name /\ UNCHANGED program /\ Step

SantaAlone(Step) ==
  Solo("santa", Step) /\ UNCHANGED <<lifeVars, ProcessVars, PureVars>>
LifeAlone(Step) ==
  Solo("life", Step) /\ UNCHANGED <<santaVars, ProcessVars, PureVars>>
SumAlone(Step) ==
  Solo("sum", Step) /\ UNCHANGED <<ThreadVars, calculatorVars, catcherVars, PureVars>>
CalculatorAlone(Step) ==
  Solo("calculator", Step) /\ UNCHANGED <<ThreadVars, sumVars, catcherVars, PureVars>>
CatcherAlone(Step) ==
  Solo("catcher", Step) /\ UNCHANGED <<ThreadVars, sumVars, calculatorVars, PureVars>>
ReversalAlone(Step) ==
  Solo("reversal", Step) /\ UNCHANGED <<ThreadVars, ProcessVars, collatzVars>>
CollatzAlone(Step) ==
  Solo("collatz", Step) /\ UNCHANGED <<ThreadVars, ProcessVars, reversalVars>>

(* The grid, the file, the number and the old FIFOs are of every kind      *)
(* where they matter, and of one kind where they do not.                   *)
Init ==
  /\ program \in {"santa", "life", "sum", "calculator", "catcher",
                 "reversal", "collatz"}
  /\ SantaInit /\ LifeInit /\ SumInit /\ CalculatorInit
  /\ CatcherInit /\ ReversalInit /\ CollatzInit
  /\ program # "life" => screen = [k \in Cells |-> FALSE]
  /\ program # "calculator" => fifos = "absent"
  /\ program # "reversal" => length = 0 /\ block = 0
  /\ program # "collatz" => begun = <<1, 0>>

Next ==
  \/ SantaAlone(SantaNext) \/ LifeAlone(LifeNext) \/ SumAlone(SumNext)
  \/ CalculatorAlone(CalculatorNext) \/ CatcherAlone(CatcherNext)
  \/ ReversalAlone(ReversalNext) \/ CollatzAlone(CollatzNext)

(* The scheduler runs every thread and process that can go on: not asked   *)
(* are spurious wakeups, kills, errors, and anything a user does.          *)
FairSpec ==
  /\ Init /\ [][Next]_programVars
  /\ WF_programVars(SantaAlone(SantaStep))
  /\ \A r \in Reindeer : WF_programVars(SantaAlone(ReindeerStep(r)))
  /\ WF_programVars(SumAlone(ParentStep))
  /\ \A i \in Child : WF_programVars(SumAlone(ChildStep(i)))
  /\ WF_programVars(CalculatorAlone(CalculatorStep))
  /\ \A c \in Callers : WF_programVars(CalculatorAlone(ReadIntegral(c)))
  /\ WF_programVars(CatcherAlone(CatcherStep))
  /\ \A s \in Senders : WF_programVars(CatcherAlone(SenderStep(s)))
  /\ WF_programVars(ReversalAlone(ReversalStep))

(* AllDelivered (cw10/main.c:47-92) where Santa's program is the one that  *)
(* runs.                                                                   *)
SantaDelivers == program = "santa" => AllDelivered

(* ParentEnds (cw06/zad1/main.c:118) where the sum is the one that runs.   *)
SumEnds == program = "sum" => ParentEnds

(* ReversalEnds (reverse.c:19, 62) where the reversal is.                  *)
FileEnds == program = "reversal" => ReversalEnds

=============================================================================
