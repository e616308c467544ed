-------------------------------- MODULE Santa ---------------------------------
(***************************************************************************)
(* The Santa Claus problem of cw10/main.c: one mutex, a counter, a         *)
(* condition on which Santa sleeps and one on which the reindeer wait.     *)
(*                                                                         *)
(* A step is what happens between two calls on the mutex or a condition.   *)
(* pthread_cond_wait gives the mutex back and sleeps in one step; it may   *)
(* return without a signal.                                                *)
(***************************************************************************)
EXTENDS Integers, FiniteSets

CONSTANTS
  ReindeerCount,    (* REINDEER_COUNT                                       *)
  TotalDeliveries,  (* TOTAL_DELIVARIES                                     *)
  MaxSpurious       (* bound: wakeups without a signal                      *)

ASSUME SantaAssumption ==
  /\ ReindeerCount \in Nat \ {0} /\ TotalDeliveries \in Nat \ {0}
  /\ MaxSpurious \in Nat

VARIABLES
  mutex,      (* who holds reindeer_ready_count_mutex                       *)
  ready,      (* reindeer_ready_count                                       *)
  reindeer,   (* where each reindeer is                                     *)
  santa,      (* where Santa is                                             *)
  delivery,   (* the i of santa: deliveries made                            *)
  cancelled,  (* reindeer pthread_cancel has been called for                *)
  spurious,   (* wakeups without a signal so far                            *)
  broken,     (* a cancelled reindeer has left something main waits for     *)
  over        (* main has returned                                          *)

santaVars ==
  <<mutex, ready, reindeer, santa, delivery, cancelled, spurious, broken, over>>

Reindeer == 0 .. ReindeerCount - 1
Claus  == -1   \* as a holder of the mutex
Nobody == -2

SantaTypeOK ==
  /\ mutex \in Reindeer \cup {Claus, Nobody}
  /\ ready \in Nat
  /\ reindeer \in [Reindeer -> {"start", "top", "away", "count", "wait", "waiting",
                                "woken", "leaving", "gone"}]
  /\ santa \in {"lock", "check", "asleep", "woken", "deliver", "cancel", "done"}
  /\ delivery \in 0 .. TotalDeliveries
  /\ cancelled \subseteq Reindeer
  /\ spurious \in 0 .. MaxSpurious
  /\ broken \in BOOLEAN /\ over \in BOOLEAN

SantaInit ==
  /\ mutex = Nobody /\ ready = 0
  /\ reindeer = [r \in Reindeer |-> "start"]
  /\ santa = "lock" /\ delivery = 0
  /\ cancelled = {} /\ spurious = 0 /\ broken = FALSE /\ over = FALSE

-----------------------------------------------------------------------------
(* reindeer                                                                *)

ReindeerGoes(r, from, to) ==
  /\ ~over /\ reindeer[r] = from
  /\ reindeer' = [reindeer EXCEPT ![r] = to]
  /\ UNCHANGED <<delivery, cancelled, broken, over>>

(* pthread_mutex_lock, at the start and after the holiday; and what        *)
(* pthread_cond_wait does before it returns.                               *)
ReindeerLock(r) ==
  /\ ReindeerGoes(r, "start", "top") \/ ReindeerGoes(r, "woken", "top")
       \/ ReindeerGoes(r, "away", "count")
  /\ mutex = Nobody /\ mutex' = r
  /\ UNCHANGED <<ready, santa, spurious>>

FlyAway(r) ==
  /\ ReindeerGoes(r, "top", "away")
  /\ mutex' = Nobody
  /\ UNCHANGED <<ready, santa, spurious>>

(* Faulty variant of CountIn: the signal comes one reindeer late.          *)
CountInLate(r) ==
  /\ ReindeerGoes(r, "count", "wait")
  /\ ready' = ready + 1
  /\ santa' = IF ready = ReindeerCount /\ santa = "asleep" THEN "woken" ELSE santa
  /\ UNCHANGED <<mutex, spurious>>

CountIn(r) ==
  /\ ReindeerGoes(r, "count", "wait")
  /\ ready' = ready + 1
  /\ santa' = IF ready' = ReindeerCount /\ santa = "asleep" THEN "woken" ELSE santa
  /\ UNCHANGED <<mutex, spurious>>

WaitForSanta(r) ==
  /\ ReindeerGoes(r, "wait", "waiting")
  /\ mutex' = Nobody
  /\ UNCHANGED <<ready, santa, spurious>>

(* There is no loop around the wait (main.c:39).                           *)
WakeSpuriously(r) ==
  /\ spurious < MaxSpurious /\ spurious' = spurious + 1
  /\ ReindeerGoes(r, "waiting", "woken")
  /\ UNCHANGED <<mutex, ready, santa>>

(* Cancellation is asynchronous: it takes a thread wherever it is, with    *)
(* the mutex if it has it.  That is undefined in most calls of the library *)
(* and may leave behind a use of the condition, or a lock of stdio, that   *)
(* the end of the program waits for.                                       *)
Cancelled(r) ==
  /\ r \in cancelled /\ ~over
  /\ reindeer[r] \in {"start", "top", "away", "count", "wait"}
  /\ reindeer' = [reindeer EXCEPT ![r] = "gone"]
  /\ broken' \in {broken, TRUE}
  /\ UNCHANGED <<mutex, ready, santa, delivery, cancelled, spurious, over>>

(* Asleep in pthread_cond_wait it leaves the condition, and takes the      *)
(* mutex before it ends.                                                   *)
CancelledAsleep(r) ==
  /\ r \in cancelled /\ ~over
  /\ \/ /\ reindeer[r] \in {"waiting", "woken"} /\ UNCHANGED mutex
        /\ reindeer' = [reindeer EXCEPT ![r] = "leaving"]
     \/ /\ reindeer[r] = "leaving" /\ mutex = Nobody /\ mutex' = r
        /\ reindeer' = [reindeer EXCEPT ![r] = "gone"]
  /\ UNCHANGED <<ready, santa, delivery, cancelled, spurious, broken, over>>

-----------------------------------------------------------------------------
(* santa and main                                                          *)

SantaGoes(from, to) ==
  ~over /\ santa = from /\ santa' = to /\ UNCHANGED <<broken, over>>

SantaLock ==
  /\ SantaGoes("lock", "check") \/ SantaGoes("woken", "check")
  /\ mutex = Nobody /\ mutex' = Claus
  /\ UNCHANGED <<ready, reindeer, delivery, cancelled, spurious>>

FallAsleep ==
  /\ ready < ReindeerCount
  /\ SantaGoes("check", "asleep") /\ mutex' = Nobody
  /\ UNCHANGED <<ready, reindeer, delivery, cancelled, spurious>>

SantaWakesSpuriously ==
  /\ spurious < MaxSpurious /\ spurious' = spurious + 1
  /\ SantaGoes("asleep", "woken")
  /\ UNCHANGED <<mutex, ready, reindeer, delivery, cancelled>>

(* Off with the toys, the mutex held.                                      *)
SetOut ==
  /\ ready >= ReindeerCount
  /\ SantaGoes("check", "deliver")
  /\ UNCHANGED <<mutex, ready, reindeer, delivery, cancelled, spurious>>

Broadcast == [r \in Reindeer |-> IF reindeer[r] = "waiting" THEN "woken" ELSE reindeer[r]]

(* Faulty variant of Deliver: the count is not reset.                      *)
DeliverUncounted ==
  /\ SantaGoes("deliver", IF delivery = TotalDeliveries - 1 THEN "cancel" ELSE "lock")
  /\ reindeer' = IF delivery = TotalDeliveries - 1 THEN reindeer ELSE Broadcast
  /\ delivery' = delivery + 1 /\ mutex' = Nobody
  /\ UNCHANGED <<ready, cancelled, spurious>>

(* After the last delivery the reindeer are not woken.                     *)
Deliver ==
  /\ SantaGoes("deliver", IF delivery = TotalDeliveries - 1 THEN "cancel" ELSE "lock")
  /\ ready' = 0
  /\ reindeer' = IF delivery = TotalDeliveries - 1 THEN reindeer ELSE Broadcast
  /\ delivery' = delivery + 1 /\ mutex' = Nobody
  /\ UNCHANGED <<cancelled, spurious>>

(* Faulty variant of CancelNext: one reindeer too many.                    *)
CancelTooMany ==
  LET n == Cardinality(cancelled) IN
  /\ SantaGoes("cancel", IF n = ReindeerCount THEN "done" ELSE "cancel")
  /\ cancelled' = cancelled \cup {n}
  /\ UNCHANGED <<mutex, ready, reindeer, delivery, spurious>>

(* pthread_cancel, one reindeer after the other.                           *)
CancelNext ==
  LET n == Cardinality(cancelled) IN
  /\ SantaGoes("cancel", IF n = ReindeerCount - 1 THEN "done" ELSE "cancel")
  /\ cancelled' = cancelled \cup {n}
  /\ UNCHANGED <<mutex, ready, reindeer, delivery, spurious>>

(* pthread_join; the mutex and the conditions are destroyed, which waits   *)
(* for the reindeer still in pthread_cond_wait, and the process ends.      *)
MainReturns ==
  /\ ~over /\ santa = "done" /\ over' = TRUE
  /\ ~broken /\ \A r \in Reindeer : reindeer[r] # "waiting"
  /\ UNCHANGED <<mutex, ready, reindeer, santa, delivery, cancelled, spurious, broken>>

-----------------------------------------------------------------------------

ReindeerStep(r) ==
  ReindeerLock(r) \/ FlyAway(r) \/ CountIn(r) \/ WaitForSanta(r)
  \/ Cancelled(r) \/ CancelledAsleep(r)

SantaStep ==
  SantaLock \/ FallAsleep \/ SetOut \/ Deliver \/ CancelNext \/ MainReturns

SpuriousStep == SantaWakesSpuriously \/ \E r \in Reindeer : WakeSpuriously(r)

SantaNext ==
  \/ \E r \in Reindeer : ReindeerStep(r)
  \/ SantaStep \/ SpuriousStep

SantaSpec == SantaInit /\ [][SantaNext]_santaVars

-----------------------------------------------------------------------------

(* Santa never sleeps on with all reindeer counted: the signal             *)
(* (main.c:34-36) comes only when the count is exactly REINDEER_COUNT, and *)
(* nobody waits for it again.                                              *)
NoLostWakeup == santa = "asleep" => ready < ReindeerCount

(* Santa sets out with all the reindeer waiting (main.c:50-57), but for as *)
(* many as were woken by nothing: one that leaves its wait early is        *)
(* counted twice (main.c:30, 39).                                          *)
AllHarnessed ==
  santa = "deliver" => Cardinality({r \in Reindeer : reindeer[r] # "waiting"}) <= spurious

(* All deliveries are made and the program ends, however often threads     *)
(* wake for nothing, and though the mutex may die with a reindeer          *)
(* (main.c:68-70, 86-92); unless the reindeer broke what main waits for.   *)
AllDelivered == <>(delivery = TotalDeliveries /\ (over \/ broken))

=============================================================================
