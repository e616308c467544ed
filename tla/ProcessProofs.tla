----------------------------- MODULE ProcessProofs -----------------------------
(***************************************************************************)
(* Theorems about the callers and the calculator of cw06/zad2, and about   *)
(* the senders and the catcher of cw05/zad2, for every number of callers,  *)
(* ranges and senders.                                                     *)
(***************************************************************************)
EXTENDS Calculator, Catcher, FiniteSetTheorems, TLAPS

-----------------------------------------------------------------------------
(* The calculator.                                                         *)

(* What a caller does keeps the types.                                     *)
LEMMA CallerTypes ==
  ASSUME CalculatorTypeOK, NEW c \in Callers, CallerStep(c) \/ CallerKilled(c)
  PROVE  CalculatorTypeOK'
<1> USE DEF CalculatorTypeOK, CallerGoes
<1>1. CASE CallerFindsNone(c) \/ CallerLeaves(c)
  BY <1>1 DEF CallerFindsNone, CallerLeaves
<1>2. CASE CallerOpensInput(c)
  BY <1>2 DEF CallerOpensInput
<1>3. CASE CallerOpensOutput(c)
  BY <1>3 DEF CallerOpensOutput
<1>4. CASE WriteRange(c)
  <2>1. typed' \in [Callers -> 0 .. MaxRanges]
    <3>1. typed[c] < MaxRanges /\ typed' = [typed EXCEPT ![c] = typed[c] + 1]
      BY <1>4 DEF WriteRange
    <3>2. typed[c] \in 0 .. MaxRanges /\ MaxRanges \in Nat
      BY CalculatorAssumption
    <3>3. typed[c] + 1 \in 0 .. MaxRanges
      BY <3>1, <3>2
    <3> QED  BY <3>1, <3>3
  <2>2. UNCHANGED <<fifos, calculator, integrals, abandoned>>
    BY <1>4 DEF WriteRange
  <2>3. CASE CallerGoes(c, "idle", "waiting") /\ ranges' = ranges + 1
    BY <2>1, <2>2, <2>3
  <2>4. CASE CallerGoes(c, "idle", "gone") /\ UNCHANGED ranges
    BY <2>1, <2>2, <2>4
  <2> QED  BY <1>4, <2>3, <2>4 DEF WriteRange
<1>5. CASE ReadIntegral(c)
  <2>1. UNCHANGED <<fifos, calculator, ranges, typed, abandoned>> /\ CallerGoes(c, "waiting", "idle")
    BY <1>5 DEF ReadIntegral
  <2>2. integrals' \in Nat
    BY <1>5 DEF ReadIntegral
  <2> QED  BY <2>1, <2>2
<1>6. CASE CallerKilled(c)
  <2>1. UNCHANGED <<fifos, calculator, ranges, integrals, typed>>
    BY <1>6 DEF CallerKilled
  <2>2. abandoned' \in Nat
    BY <1>6 DEF CallerKilled
  <2>3. caller' = [caller EXCEPT ![c] = "gone"]
    BY <1>6 DEF CallerKilled
  <2> QED  BY <2>1, <2>2, <2>3
<1> QED  BY <1>1, <1>2, <1>3, <1>4, <1>5, <1>6 DEF CallerStep

(* So does what the calculator does.                                       *)
LEMMA CalculatorTypes ==
  ASSUME CalculatorTypeOK, CalculatorStep
  PROVE  CalculatorTypeOK'
<1> USE DEF CalculatorTypeOK
<1>1. CASE CalculatorOpensInput
  BY <1>1 DEF CalculatorOpensInput, CalculatorOpens
<1>2. CASE CalculatorOpensOutput
  BY <1>2 DEF CalculatorOpensOutput, CalculatorOpens
<1>3. CASE RemovePipes \/ MakePipes \/ ReadEof \/ CalculatorCloses
  BY <1>3 DEF RemovePipes, MakePipes, ReadEof, CalculatorCloses
<1>4. CASE ReadRange \/ WriteIntegral
  <2>1. /\ UNCHANGED <<fifos, caller, typed, abandoned>>
        /\ calculator' \in {"read", "write", "over"}
    BY <1>4 DEF ReadRange, WriteIntegral
  <2>2. ranges' \in Nat /\ integrals' \in Nat
    BY <1>4 DEF ReadRange, WriteIntegral
  <2> QED  BY <2>1, <2>2
<1> QED  BY <1>1, <1>2, <1>3, <1>4 DEF CalculatorStep

(* The two programs stay within the places they have, and the pipes never  *)
(* hold less than nothing (calculator.c:39-74, caller.c:19-61).            *)
THEOREM PipesTypeCorrect == CalculatorSpec => []CalculatorTypeOK
<1>1. CalculatorInit => CalculatorTypeOK
  BY CalculatorAssumption DEF CalculatorInit, CalculatorTypeOK
<1>2. CalculatorTypeOK /\ [CalculatorNext]_calculatorVars => CalculatorTypeOK'
  <2>1. CalculatorTypeOK /\ UNCHANGED calculatorVars => CalculatorTypeOK'
    BY DEF CalculatorTypeOK, calculatorVars
  <2> QED  BY <2>1, CallerTypes, CalculatorTypes DEF CalculatorNext
<1> QED  BY <1>1, <1>2, PTL DEF CalculatorSpec

(* Until it has opened both FIFOs nobody waits for an integral, or has, and *)
(* the pipes are empty; from then on the account is kept.                  *)
Opening == calculator \in {"start", "remove", "made", "opening_in", "opened_in", "opening_out"}
Waiting == Cardinality(CallersAt({"waiting"}))

Accounted ==
  calculator \in {"read", "write"} =>
    Waiting + abandoned = ranges + integrals + (IF calculator = "write" THEN 1 ELSE 0)

AccountInv ==
  /\ Opening => /\ \A c \in Callers : caller[c] \notin {"idle", "waiting", "closed_in"}
                /\ ranges = 0 /\ integrals = 0 /\ abandoned = 0
  /\ Accounted

LEMMA WaitingFinite == IsFiniteSet(CallersAt({"waiting"})) /\ Waiting \in Nat
  BY CalculatorAssumption, FS_Subset, FS_CardinalityType DEF CallersAt, Waiting

(* One caller goes from here to there.                                     *)
LEMMA CallerMoved ==
  ASSUME CalculatorTypeOK, NEW c \in Callers, NEW from, NEW to, CallerGoes(c, from, to)
  PROVE  /\ from # "waiting" /\ to # "waiting" => Waiting' = Waiting
         /\ from # "waiting" /\ to = "waiting" => Waiting' = Waiting + 1
         /\ from = "waiting" /\ to # "waiting" => Waiting' = Waiting - 1
<1> DEFINE W == CallersAt({"waiting"})
<1>1. W' = IF to = "waiting" THEN W \cup {c} ELSE W \ {c}
  BY DEF CallersAt, CallerGoes, CalculatorTypeOK
<1>2. c \in W <=> from = "waiting"
  BY DEF CallersAt, CallerGoes
<1>3. /\ Cardinality(W \cup {c}) = IF c \in W THEN Cardinality(W) ELSE Cardinality(W) + 1
      /\ Cardinality(W \ {c}) = IF c \in W THEN Cardinality(W) - 1 ELSE Cardinality(W)
  BY WaitingFinite, FS_AddElement, FS_RemoveElement
<1>4. Waiting = Cardinality(W) /\ Waiting' = Cardinality(W')
  BY DEF Waiting
<1> HIDE DEF W
<1> QED  BY <1>1, <1>2, <1>3, <1>4

(* Those let go by open() did not wait for an integral.                    *)
LEMMA CallersLetGo ==
  ASSUME CalculatorTypeOK, NEW from, NEW to, from # "waiting", to # "waiting",
         caller' = [c \in Callers |-> IF caller[c] = from THEN to ELSE caller[c]]
  PROVE  Waiting' = Waiting
<1>1. CallersAt({"waiting"})' = CallersAt({"waiting"})
  BY DEF CallersAt, CalculatorTypeOK
<1> QED  BY <1>1 DEF Waiting

(* A step of the calculator keeps the account.                             *)
LEMMA CalculatorAccount ==
  ASSUME CalculatorTypeOK, AccountInv, CalculatorStep
  PROVE  AccountInv'
<1> USE DEF AccountInv, Opening, Accounted
<1>0. Waiting \in Nat /\ ranges \in Nat /\ integrals \in Nat /\ abandoned \in Nat
  BY WaitingFinite DEF CalculatorTypeOK
<1>1. CASE RemovePipes \/ MakePipes \/ ReadEof \/ CalculatorCloses
  <2>1. /\ caller' = caller /\ ranges' = ranges /\ integrals' = integrals /\ abandoned' = abandoned
        /\ calculator' \in {"remove", "made"} => calculator \in {"start", "remove"}
        /\ calculator' \in {"remove", "made", "eof", "closed_in", "over"}
    BY <1>1 DEF RemovePipes, MakePipes, ReadEof, CalculatorCloses
  <2> QED  BY <2>1
<1>2. CASE CalculatorOpensInput
  BY <1>2 DEF CalculatorOpensInput, CalculatorOpens, CalculatorTypeOK
<1>3. CASE CalculatorOpensOutput
  <2>1. /\ calculator = "opened_in" /\ calculator' \in {"opening_out", "read"}
        /\ ranges' = ranges /\ integrals' = integrals /\ abandoned' = abandoned
        /\ caller' = [c \in Callers |-> IF caller[c] = "opening_out" THEN "idle" ELSE caller[c]]
        /\ calculator' = "opening_out" => \A c \in Callers : caller[c] # "opening_out"
    BY <1>3 DEF CalculatorOpensOutput, CalculatorOpens, CallersAt
  <2>2. Waiting' = Waiting
    BY <2>1, CallersLetGo
  <2>3. Waiting = 0
    <3>1. CallersAt({"waiting"}) = {}
      BY <2>1 DEF CallersAt
    <3> QED  BY <3>1, FS_EmptySet DEF Waiting
  <2>4. Accounted'
    BY <2>1, <2>2, <2>3
  <2> QED  BY <2>1, <2>4
<1>4. CASE ReadRange
  <2>1. /\ calculator = "read" /\ calculator' = "write" /\ ranges' = ranges - 1
        /\ caller' = caller /\ integrals' = integrals /\ abandoned' = abandoned
    BY <1>4 DEF ReadRange
  <2>2. Waiting' = Waiting /\ Waiting + abandoned = ranges + integrals
    BY <2>1, <1>0 DEF Waiting, CallersAt
  <2>3. Waiting' + abandoned' = ranges' + integrals' + 1
    BY <1>0, <2>1, <2>2
  <2> QED  BY <2>1, <2>3
<1>5. CASE WriteIntegral
  <2>1. /\ calculator = "write" /\ ranges' = ranges /\ caller' = caller /\ abandoned' = abandoned
        /\ calculator' = "over" \/ (calculator' = "read" /\ integrals' = integrals + 1)
    BY <1>5 DEF WriteIntegral
  <2>2. Waiting' = Waiting /\ Waiting + abandoned = ranges + integrals + 1
    BY <2>1 DEF Waiting, CallersAt
  <2>3. calculator' = "read" => Waiting' + abandoned' = ranges' + integrals' + 0
    BY <1>0, <2>1, <2>2
  <2> QED  BY <2>1, <2>3
<1> QED  BY <1>1, <1>2, <1>3, <1>4, <1>5 DEF CalculatorStep

(* A step of a caller, or its end, does.                                   *)
LEMMA CallerAccount ==
  ASSUME CalculatorTypeOK, AccountInv, NEW c \in Callers, CallerStep(c) \/ CallerKilled(c)
  PROVE  AccountInv'
<1> USE DEF AccountInv, Opening, Accounted
<1> DEFINE busy == IF calculator = "write" THEN 1 ELSE 0
<1>0. /\ Waiting \in Nat /\ ranges \in Nat /\ integrals \in Nat /\ abandoned \in Nat /\ busy \in Nat
      /\ Waiting' \in Nat
      /\ calculator \in {"read", "write"} => Waiting + abandoned = ranges + integrals + busy
  <2>1. Waiting \in Nat
    BY WaitingFinite
  <2>2. Waiting' \in Nat
    BY CalculatorAssumption, FS_Subset, FS_CardinalityType DEF CallersAt, Waiting
  <2> QED  BY <2>1, <2>2 DEF CalculatorTypeOK
<1>1. CASE CallerFindsNone(c) \/ CallerOpensInput(c) \/ CallerOpensOutput(c) \/ CallerLeaves(c)
  <2>1. PICK from, to :
          /\ CallerGoes(c, from, to) /\ from # "waiting" /\ to # "waiting"
          /\ \/ from \in {"idle", "closed_in"}
             \/ to \notin {"idle", "closed_in"}
             \/ CalculatorWrites /\ (calculator = "opening_out" => calculator' = "read")
    BY <1>1 DEF CallerFindsNone, CallerOpensInput, CallerOpensOutput, CallerLeaves, CallerGoes
  <2>2. /\ ranges' = ranges /\ integrals' = integrals /\ abandoned' = abandoned
        /\ \/ calculator' = calculator
           \/ calculator = "opening_in" /\ calculator' = "opened_in"
           \/ calculator = "opening_out" /\ calculator' = "read"
    BY <1>1 DEF CallerFindsNone, CallerOpensInput, CallerOpensOutput, CallerLeaves
  <2>3. Waiting' = Waiting
    BY <2>1, CallerMoved
  <2>4. calculator \in {"opening_out"} => Waiting = 0 /\ ranges = 0 /\ integrals = 0 /\ abandoned = 0
    <3>1. calculator = "opening_out" => CallersAt({"waiting"}) = {}
      BY DEF CallersAt
    <3> QED  BY <3>1, FS_EmptySet DEF Waiting
  <2>5. Accounted'
    BY <1>0, <2>2, <2>3, <2>4
  <2>6. ASSUME Opening' PROVE \A d \in Callers : caller'[d] \notin {"idle", "waiting", "closed_in"}
    <3>1. Opening
      BY <2>2, <2>6
    <3>2. from \notin {"idle", "closed_in"} /\ (CalculatorWrites => calculator = "opening_out")
      BY <2>1, <3>1 DEF CallerGoes, CalculatorWrites
    <3>3. to \notin {"idle", "waiting", "closed_in"}
      BY <2>1, <2>6, <3>2
    <3> QED  BY <2>1, <3>1, <3>3 DEF CallerGoes, CalculatorTypeOK
  <2> QED  BY <2>2, <2>5, <2>6
<1>2. CASE WriteRange(c)
  <2>1. /\ caller[c] = "idle" /\ calculator' = calculator /\ integrals' = integrals
        /\ abandoned' = abandoned
        /\ \/ CallerGoes(c, "idle", "waiting") /\ ranges' = ranges + 1
           \/ ~CalculatorReads /\ CallerGoes(c, "idle", "gone")
    BY <1>2 DEF WriteRange, CallerGoes
  <2>2. ~Opening
    BY <2>1
  <2>3. calculator \in {"read", "write"} => CallerGoes(c, "idle", "waiting") /\ ranges' = ranges + 1
    BY <2>1 DEF CalculatorReads
  <2>4. calculator \in {"read", "write"} => Waiting' = Waiting + 1
    BY <2>3, CallerMoved
  <2>5. calculator \in {"read", "write"} => Waiting' + abandoned' = ranges' + integrals' + busy
    BY <1>0, <2>1, <2>3, <2>4
  <2> QED  BY <2>1, <2>2, <2>5
<1>3. CASE ReadIntegral(c)
  <2>1. /\ CallerGoes(c, "waiting", "idle") /\ calculator' = calculator /\ ranges' = ranges
        /\ abandoned' = abandoned
        /\ \/ integrals' = integrals - 1
           \/ ~CalculatorWrites
    BY <1>3 DEF ReadIntegral
  <2>2. ~Opening /\ Waiting' = Waiting - 1
    <3>1. caller[c] = "waiting"
      BY <2>1 DEF CallerGoes
    <3>2. Waiting' = Waiting - 1
      BY <2>1, CallerMoved
    <3> QED  BY <3>1, <3>2
  <2>3. calculator \in {"read", "write"} => integrals' = integrals - 1
    BY <2>1 DEF CalculatorWrites
  <2>4. calculator \in {"read", "write"} => Waiting' + abandoned' = ranges' + integrals' + busy
    BY <1>0, <2>1, <2>2, <2>3
  <2> QED  BY <2>1, <2>2, <2>4
<1>4. CASE CallerKilled(c)
  <2>1. /\ CallerGoes(c, caller[c], "gone") /\ calculator' = calculator /\ ranges' = ranges
        /\ integrals' = integrals
        /\ abandoned' = IF caller[c] = "waiting" THEN abandoned + 1 ELSE abandoned
    BY <1>4 DEF CallerKilled, CallerGoes
  <2>2. Waiting' = IF caller[c] = "waiting" THEN Waiting - 1 ELSE Waiting
    BY <2>1, CallerMoved
  <2>3. calculator \in {"read", "write"} => Waiting' + abandoned' = ranges' + integrals' + busy
    BY <1>0, <2>1, <2>2
  <2>4. Opening => \A d \in Callers : caller'[d] \notin {"idle", "waiting", "closed_in"}
    BY <2>1 DEF CallerGoes, CalculatorTypeOK
  <2> QED  BY <2>1, <2>3, <2>4
<1> QED  BY <1>1, <1>2, <1>3, <1>4 DEF CallerStep

(* While the calculator serves, as many integrals are under way as callers *)
(* wait, or were killed while they did, whatever order the callers open    *)
(* the FIFOs, write, read and end in                                       *)
(* (calculator.c:57-62, caller.c:46-52).                                   *)
THEOREM NoIntegralIsLost == CalculatorSpec => []IntegralsAccounted
<1>1. CalculatorInit => AccountInv
  BY DEF CalculatorInit, AccountInv, Opening, Accounted
<1>2. CalculatorTypeOK /\ AccountInv /\ [CalculatorNext]_calculatorVars => AccountInv'
  <2>1. AccountInv /\ UNCHANGED calculatorVars => AccountInv'
    BY DEF AccountInv, Opening, Accounted, Waiting, CallersAt, calculatorVars
  <2> QED  BY <2>1, CallerAccount, CalculatorAccount DEF CalculatorNext
<1>3. AccountInv => IntegralsAccounted
  BY DEF AccountInv, Accounted, Waiting, IntegralsAccounted
<1> QED  BY <1>1, <1>2, <1>3, PipesTypeCorrect, PTL DEF CalculatorSpec

-----------------------------------------------------------------------------
(* The catcher.                                                            *)

(* The catcher confirms only what it has worked on, and a confirmation     *)
(* stays with the sender it was meant for.                                 *)
ConfirmInv ==
  /\ sender \in [Senders -> {"start", "sent", "waiting", "success", "gone"}]
  /\ catcher = "confirm" => serving \subseteq worked
  /\ confirmed \subseteq worked
  /\ SuccessIsWorked

(* A sender that ends with success has had its work done, whichever orders *)
(* were dropped, and whoever came too early, was interrupted or is gone    *)
(* (catcher.c:28-35, sender.c:52).                                         *)
THEOREM ConfirmationIsForIt == CatcherSpec => []SuccessIsWorked
<1>1. CatcherInit => ConfirmInv
  BY DEF CatcherInit, ConfirmInv, SuccessIsWorked
<1>2. ConfirmInv /\ [CatcherNext]_catcherVars => ConfirmInv'
  <2> SUFFICES ASSUME ConfirmInv, [CatcherNext]_catcherVars PROVE ConfirmInv'
    OBVIOUS
  <2> USE DEF ConfirmInv, SuccessIsWorked, CatcherGoes, SenderGoes
  <2>1. CASE UNCHANGED catcherVars
    BY <2>1 DEF catcherVars
  <2>2. CASE InstallHandler \/ TakeOrder \/ Work
    BY <2>2 DEF InstallHandler, TakeOrder, Work
  <2>3. CASE Confirm
    BY <2>3 DEF Confirm
  <2>4. ASSUME NEW s \in Senders, Order(s) PROVE ConfirmInv'
    BY <2>4 DEF Order
  <2>5. ASSUME NEW s \in Senders, SenderStep(s) PROVE ConfirmInv'
    BY <2>5 DEF SenderStep, TooEarly, Sigsuspend, Return
  <2>6. ASSUME NEW s \in Senders, SenderInterrupted(s) PROVE ConfirmInv'
    BY <2>6 DEF SenderInterrupted
  <2> QED  BY <2>1, <2>2, <2>3, <2>4, <2>5, <2>6 DEF CatcherNext, CatcherStep
<1>3. ConfirmInv => SuccessIsWorked
  BY DEF ConfirmInv
<1> QED  BY <1>1, <1>2, <1>3, PTL DEF CatcherSpec

=============================================================================
