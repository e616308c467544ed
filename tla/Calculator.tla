------------------------------ MODULE Calculator -------------------------------
(***************************************************************************)
(* cw06/zad2: callers (caller.c) that send ranges to a calculator          *)
(* (calculator.c) through one FIFO and take integrals from another.        *)
(*                                                                         *)
(* An integral carries nothing that says whose it is: the FIFOs are        *)
(* counters.                                                               *)
(***************************************************************************)
EXTENDS Integers, FiniteSets

CONSTANTS
  Callers,
  MaxRanges,       (* bound: ranges typed in at a caller                    *)
  MayKillCaller    (* callers somebody may kill                             *)

ASSUME CalculatorAssumption ==
  /\ IsFiniteSet(Callers) /\ MaxRanges \in Nat
  /\ MayKillCaller \subseteq Callers

VARIABLES
  fifos,       (* the names integral_input and integral_output              *)
  calculator,  (* where the calculator is                                   *)
  caller,      (* where each caller is                                      *)
  ranges,      (* in the input pipe                                         *)
  integrals,   (* in the output pipe                                        *)
  typed,       (* ranges typed in so far                                    *)
  abandoned    (* callers killed while they waited for an integral          *)

calculatorVars ==
  <<fifos, calculator, caller, ranges, integrals, typed, abandoned>>

CalculatorTypeOK ==
  /\ fifos \in {"stale", "absent", "made"}
  /\ calculator \in {"start", "remove", "made", "opening_in", "opened_in", "opening_out",
                     "read", "write", "eof", "closed_in", "over"}
  /\ caller \in [Callers -> {"start", "stranded", "opening_in", "opened_in", "opening_out",
                             "idle", "waiting", "closed_in", "gone"}]
  /\ ranges \in Nat /\ integrals \in Nat
  /\ typed \in [Callers -> 0 .. MaxRanges] /\ abandoned \in Nat

(* The calculator leaves its FIFOs behind when it ends: those of an        *)
(* earlier run may be there.                                               *)
CalculatorInit ==
  /\ fifos \in {"stale", "absent"}
  /\ calculator = "start"
  /\ caller = [c \in Callers |-> "start"]
  /\ ranges = 0 /\ integrals = 0
  /\ typed = [c \in Callers |-> 0] /\ abandoned = 0

(* Who holds an end of a FIFO; a process blocked in open() does already.   *)
CalculatorReads  == calculator \in {"opening_in", "opened_in", "opening_out", "read", "write", "eof"}
CalculatorWrites == calculator \in {"opening_out", "read", "write", "eof", "closed_in"}
CallersAt(labels) == {c \in Callers : caller[c] \in labels}
InputWriters  == CallersAt({"opening_in", "opened_in", "opening_out", "idle", "waiting"})
OutputReaders == CallersAt({"opening_out", "idle", "waiting", "closed_in"})

-----------------------------------------------------------------------------
(* calculator.c                                                            *)

RemovePipes ==
  /\ calculator = "start" /\ calculator' = "remove" /\ fifos' = "absent"
  /\ UNCHANGED <<caller, ranges, integrals, typed, abandoned>>

MakePipes ==
  /\ calculator = "remove" /\ calculator' = "made" /\ fifos' = "made"
  /\ UNCHANGED <<caller, ranges, integrals, typed, abandoned>>

(* open() of a FIFO waits for a process that opens the other end, and lets *)
(* those go that wait for this one.                                        *)
CalculatorOpens(from, blocked, opened) ==
  /\ calculator = from
  /\ calculator' = IF CallersAt({blocked}) = {} THEN blocked ELSE opened
  /\ UNCHANGED <<fifos, ranges, integrals, typed, abandoned>>

CalculatorOpensInput ==
  /\ CalculatorOpens("made", "opening_in", "opened_in")
  /\ caller' = [c \in Callers |-> IF caller[c] = "opening_in" THEN "opened_in" ELSE caller[c]]

CalculatorOpensOutput ==
  /\ CalculatorOpens("opened_in", "opening_out", "read")
  /\ caller' = [c \in Callers |-> IF caller[c] = "opening_out" THEN "idle" ELSE caller[c]]

ReadRange ==
  /\ calculator = "read" /\ ranges > 0
  /\ calculator' = "write" /\ ranges' = ranges - 1
  /\ UNCHANGED <<fifos, caller, integrals, typed, abandoned>>

(* No caller has the input open: read() returns 0.                         *)
ReadEof ==
  /\ calculator = "read" /\ ranges = 0 /\ InputWriters = {}
  /\ calculator' = "eof"
  /\ UNCHANGED <<fifos, caller, ranges, integrals, typed, abandoned>>

(* Faulty variant of WriteIntegral: an integral is computed, not written.  *)
WriteNothing ==
  /\ calculator = "write" /\ calculator' = IF OutputReaders = {} THEN "over" ELSE "read"
  /\ UNCHANGED <<fifos, caller, ranges, integrals, typed, abandoned>>

(* With nobody left to read it SIGPIPE ends the calculator.                *)
WriteIntegral ==
  /\ calculator = "write"
  /\ \/ OutputReaders = {} /\ calculator' = "over" /\ UNCHANGED integrals
     \/ OutputReaders # {} /\ calculator' = "read" /\ integrals' = integrals + 1
  /\ UNCHANGED <<fifos, caller, ranges, typed, abandoned>>

CalculatorCloses ==
  /\ \/ calculator = "eof" /\ calculator' = "closed_in"
     \/ calculator = "closed_in" /\ calculator' = "over"
  /\ UNCHANGED <<fifos, caller, ranges, integrals, typed, abandoned>>

-----------------------------------------------------------------------------
(* caller.c                                                                *)

CallerGoes(c, from, to) == caller[c] = from /\ caller' = [caller EXCEPT ![c] = to]

(* The FIFO of an earlier calculator has no reader any more.               *)
CallerFindsNone(c) ==
  /\ \/ fifos = "absent" /\ CallerGoes(c, "start", "gone")
     \/ fifos = "stale" /\ CallerGoes(c, "start", "stranded")
  /\ UNCHANGED <<fifos, calculator, ranges, integrals, typed, abandoned>>

CallerOpensInput(c) ==
  /\ fifos = "made"
  /\ CallerGoes(c, "start", IF CalculatorReads THEN "opened_in" ELSE "opening_in")
  /\ calculator' = IF calculator = "opening_in" THEN "opened_in" ELSE calculator
  /\ UNCHANGED <<fifos, ranges, integrals, typed, abandoned>>

CallerOpensOutput(c) ==
  /\ CallerGoes(c, "opened_in", IF CalculatorWrites THEN "idle" ELSE "opening_out")
  /\ calculator' = IF calculator = "opening_out" THEN "read" ELSE calculator
  /\ UNCHANGED <<fifos, ranges, integrals, typed, abandoned>>

(* A range is typed in and written; SIGPIPE when the calculator has gone.  *)
WriteRange(c) ==
  /\ typed[c] < MaxRanges /\ typed' = [typed EXCEPT ![c] = @ + 1]
  /\ \/ CalculatorReads /\ CallerGoes(c, "idle", "waiting") /\ ranges' = ranges + 1
     \/ ~CalculatorReads /\ CallerGoes(c, "idle", "gone") /\ UNCHANGED ranges
  /\ UNCHANGED <<fifos, calculator, integrals, abandoned>>

(* Faulty variant of ReadIntegral: the caller does not wait.               *)
ReadAtOnce(c) ==
  /\ CallerGoes(c, "waiting", "idle") /\ integrals' = integrals - 1
  /\ UNCHANGED <<fifos, calculator, ranges, typed, abandoned>>

(* The end of the output is read as an integral of 0.                      *)
ReadIntegral(c) ==
  /\ CallerGoes(c, "waiting", "idle")
  /\ \/ integrals > 0 /\ integrals' = integrals - 1
     \/ integrals = 0 /\ ~CalculatorWrites /\ UNCHANGED integrals
  /\ UNCHANGED <<fifos, calculator, ranges, typed, abandoned>>

(* scanf fails or the range is no good.                                    *)
CallerLeaves(c) ==
  /\ CallerGoes(c, "idle", "closed_in") \/ CallerGoes(c, "closed_in", "gone")
  /\ UNCHANGED <<fifos, calculator, ranges, integrals, typed, abandoned>>

CallerKilled(c) ==
  /\ c \in MayKillCaller /\ caller[c] # "gone"
  /\ caller' = [caller EXCEPT ![c] = "gone"]
  /\ abandoned' = IF caller[c] = "waiting" THEN abandoned + 1 ELSE abandoned
  /\ UNCHANGED <<fifos, calculator, ranges, integrals, typed>>

-----------------------------------------------------------------------------

CalculatorStep ==
  \/ RemovePipes \/ MakePipes \/ CalculatorOpensInput \/ CalculatorOpensOutput
  \/ ReadRange \/ ReadEof \/ WriteIntegral \/ CalculatorCloses

CallerStep(c) ==
  \/ CallerFindsNone(c) \/ CallerOpensInput(c) \/ CallerOpensOutput(c)
  \/ WriteRange(c) \/ ReadIntegral(c) \/ CallerLeaves(c)

CalculatorNext ==
  \/ CalculatorStep
  \/ \E c \in Callers : CallerStep(c) \/ CallerKilled(c)

CalculatorSpec == CalculatorInit /\ [][CalculatorNext]_calculatorVars

-----------------------------------------------------------------------------

(* While the calculator serves, every caller that waits has an integral    *)
(* under way, and every integral is waited for, or was by a caller that    *)
(* has been killed (calculator.c:57-62, caller.c:46-52).  After such a     *)
(* kill the callers left take integrals that are not theirs.               *)
IntegralsAccounted ==
  calculator \in {"read", "write"} =>
    Cardinality(CallersAt({"waiting"})) + abandoned
      = ranges + integrals + (IF calculator = "write" THEN 1 ELSE 0)

(* A caller does not wait for ever for an integral (caller.c:52): it gets  *)
(* one, if not its own, or finds the output closed, even if it came when   *)
(* the calculator was about to end.                                        *)
CallersAnswered == \A c \in Callers : caller[c] = "waiting" ~> caller[c] # "waiting"

=============================================================================
