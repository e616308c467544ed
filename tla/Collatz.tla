-------------------------------- MODULE Collatz --------------------------------
(***************************************************************************)
(* cw02/collatz: how many steps a number takes to 1, up to a limit.  For   *)
(* the inputs of main.c, and those checked, no value overflows an int.     *)
(***************************************************************************)
EXTENDS Integers

CONSTANTS
  Starts,  (* the numbers asked about                                       *)
  Limits   (* the limits given: max_iter                                    *)

ASSUME CollatzAssumption == Starts \subseteq Nat \ {0} /\ Limits \subseteq Nat

VARIABLES
  begun,       (* the number asked about, and the limit                     *)
  input,       (* the number as it goes                                     *)
  iter_count,
  answer       (* what it returns, once it does                             *)

collatzVars == <<begun, input, iter_count, answer>>

CollatzInit ==
  /\ begun \in Starts \X Limits
  /\ input = begun[1] /\ iter_count = 0 /\ answer = <<>>

CollatzConjecture(n) == IF n % 2 = 0 THEN n \div 2 ELSE 3 * n + 1

Iterate ==
  /\ answer = <<>> /\ input # 1 /\ iter_count < begun[2]
  /\ input' = CollatzConjecture(input) /\ iter_count' = iter_count + 1
  /\ UNCHANGED <<begun, answer>>

(* Faulty variant of GiveAnswer: at the limit the number is not looked at. *)
GiveAnswerAtLimit ==
  /\ answer = <<>> /\ ~(input # 1 /\ iter_count < begun[2])
  /\ answer' = <<IF iter_count = begun[2] THEN -1 ELSE iter_count>>
  /\ UNCHANGED <<begun, input, iter_count>>

GiveAnswer ==
  /\ answer = <<>> /\ ~(input # 1 /\ iter_count < begun[2])
  /\ answer' = <<IF input # 1 /\ iter_count = begun[2] THEN -1 ELSE iter_count>>
  /\ UNCHANGED <<begun, input, iter_count>>

CollatzNext == Iterate \/ GiveAnswer
CollatzSpec == CollatzInit /\ [][CollatzNext]_collatzVars

-----------------------------------------------------------------------------

(* The number after so many steps, from its definition.                    *)
Orbit ==
  LET orbit[k \in 0 .. begun[2]] ==
        IF k = 0 THEN begun[1] ELSE CollatzConjecture(orbit[k - 1])
  IN  orbit

(* The answer is the first time the number is 1, and -1 only if it is not  *)
(* 1 within the limit: also when it gets there with the last step allowed, *)
(* as main.c's 9 does with 19 (collatz.c:13-22).                           *)
FirstArrival ==
  answer # <<>> =>
    LET arrivals == {k \in 0 .. begun[2] : Orbit[k] = 1}
    IN  IF arrivals = {} THEN answer[1] = -1
        ELSE answer[1] \in arrivals /\ \A k \in arrivals : answer[1] <= k

=============================================================================
