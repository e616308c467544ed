----------------------------- MODULE SantaProofs ------------------------------
(***************************************************************************)
(* Theorems about the Santa Claus problem of cw10, for every number of     *)
(* reindeer and of deliveries, and any number of wakeups without a signal. *)
(***************************************************************************)
EXTENDS Santa, FiniteSetTheorems, TLAPS

(* The reindeer that are in the count: they have raised it and not been    *)
(* woken.                                                                  *)
Counted == {r \in Reindeer : reindeer[r] \in {"wait", "waiting"}}

(* The mutex is held by whoever is in a critical section.                  *)
MutexInv ==
  /\ \A r \in Reindeer : reindeer[r] \in {"top", "count", "wait"} => mutex = r
  /\ santa \in {"check", "deliver"} => mutex = Claus

(* The count is too high by no more than were woken without a signal.      *)
CountInv ==
  /\ santa \notin {"cancel", "done"} => ready <= Cardinality(Counted) + spurious
  /\ santa = "deliver" => ready >= ReindeerCount

(* How far the deliveries and the cancelling have come.                    *)
ProgressInv ==
  CASE santa = "cancel" -> /\ delivery = TotalDeliveries
                           /\ \E n \in 0 .. ReindeerCount - 1 : cancelled = 0 .. n - 1
    [] santa = "done"   -> delivery = TotalDeliveries /\ cancelled = Reindeer
    [] OTHER            -> delivery < TotalDeliveries /\ cancelled = {}

SantaInv ==
  SantaTypeOK /\ NoLostWakeup /\ MutexInv /\ CountInv /\ ProgressInv

(* Sets of reindeer are finite.                                            *)
LEMMA ReindeerFinite ==
  /\ IsFiniteSet(Reindeer) /\ Cardinality(Reindeer) = ReindeerCount
  /\ \A S \in SUBSET Reindeer : IsFiniteSet(S) /\ Cardinality(S) \in Nat
<1>1. IsFiniteSet(Reindeer) /\ Cardinality(Reindeer) = ReindeerCount
  BY SantaAssumption, FS_Interval DEF Reindeer
<1> QED  BY <1>1, FS_Subset, FS_CardinalityType

(* No two of the possible holders of the mutex are the same.               *)
LEMMA Holders == Claus # Nobody /\ \A r \in Reindeer : r # Claus /\ r # Nobody
  BY SantaAssumption DEF Reindeer, Claus, Nobody

(* One reindeer that changes its place changes the count by one at most.   *)
LEMMA CountedByOne ==
  ASSUME SantaTypeOK, NEW r \in Reindeer, NEW to,
         reindeer' = [reindeer EXCEPT ![r] = to]
  PROVE  /\ Cardinality(Counted) \in Nat /\ Cardinality(Counted') \in Nat
         /\ Cardinality(Counted') >= Cardinality(Counted) - 1
         /\ to \in {"wait", "waiting"} \/ reindeer[r] \notin {"wait", "waiting"} =>
              Cardinality(Counted') >= Cardinality(Counted)
         /\ to \in {"wait", "waiting"} /\ reindeer[r] \notin {"wait", "waiting"} =>
              Cardinality(Counted') = Cardinality(Counted) + 1
<1>1. IsFiniteSet(Counted) /\ Cardinality(Counted) \in Nat
  BY ReindeerFinite DEF Counted
<1>2. Counted' = IF to \in {"wait", "waiting"} THEN Counted \cup {r} ELSE Counted \ {r}
  BY DEF Counted, SantaTypeOK
<1>3. r \in Counted <=> reindeer[r] \in {"wait", "waiting"}
  BY DEF Counted
<1>4. /\ Cardinality(Counted \cup {r}) =
           IF r \in Counted THEN Cardinality(Counted) ELSE Cardinality(Counted) + 1
      /\ Cardinality(Counted \ {r}) =
           IF r \in Counted THEN Cardinality(Counted) - 1 ELSE Cardinality(Counted)
  BY <1>1, FS_AddElement, FS_RemoveElement
<1>5. Cardinality(Counted') \in Nat
  BY ReindeerFinite DEF Counted
<1> HIDE DEF Counted
<1> QED  BY <1>1, <1>2, <1>3, <1>4, <1>5

(* Santa and the reindeer start with everything put back.                  *)
LEMMA SantaStart == SantaInit => SantaInv
<1> SUFFICES ASSUME SantaInit PROVE SantaInv
  OBVIOUS
<1> USE DEF SantaInit
<1>1. Cardinality(Counted) \in Nat
  BY ReindeerFinite DEF Counted
<1>2. SantaTypeOK
  <2>1. delivery \in 0 .. TotalDeliveries /\ spurious \in 0 .. MaxSpurious
    BY SantaAssumption
  <2> QED  BY <2>1, SantaAssumption DEF SantaTypeOK
<1>3. NoLostWakeup /\ MutexInv /\ ProgressInv
  BY SantaAssumption DEF NoLostWakeup, MutexInv, ProgressInv
<1>4. CountInv
  BY <1>1 DEF CountInv
<1> QED  BY <1>2, <1>3, <1>4 DEF SantaInv

(* A reindeer at work (main.c:18-46) keeps the invariant: what it adds to  *)
(* the count it adds to those who are in it.                               *)
LEMMA ReindeerKeeps ==
  ASSUME SantaInv, NEW r \in Reindeer,
         ReindeerLock(r) \/ FlyAway(r) \/ CountIn(r) \/ WaitForSanta(r) \/ WakeSpuriously(r)
  PROVE  SantaInv'
<1>1. SantaTypeOK /\ NoLostWakeup /\ MutexInv /\ CountInv /\ ProgressInv
  BY DEF SantaInv
<1> USE DEF ReindeerGoes
<1>2. CASE ReindeerLock(r)
  <2> USE <1>2 DEF ReindeerLock
  <2>1. SantaTypeOK'
    BY <1>1 DEF SantaTypeOK
  <2>2. MutexInv'
    BY <1>1, Holders DEF SantaTypeOK, MutexInv
  <2>3. NoLostWakeup' /\ ProgressInv'
    BY <1>1, SantaAssumption DEF NoLostWakeup, ProgressInv, SantaTypeOK
  <2>4. PICK to \in {"top", "count"} :
          reindeer' = [reindeer EXCEPT ![r] = to] /\ reindeer[r] \notin {"wait", "waiting"}
    BY <1>1
  <2>5. Cardinality(Counted) \in Nat /\ Cardinality(Counted') \in Nat
        /\ Cardinality(Counted') >= Cardinality(Counted)
    BY <1>1, <2>4, CountedByOne
  <2>6. CountInv'
    BY <1>1, <2>5 DEF CountInv, SantaTypeOK
  <2> QED  BY <2>1, <2>2, <2>3, <2>6 DEF SantaInv
<1>3. CASE FlyAway(r)
  <2> USE <1>3 DEF FlyAway
  <2>1. SantaTypeOK'
    BY <1>1 DEF SantaTypeOK
  <2>2. MutexInv'
    BY <1>1, Holders DEF SantaTypeOK, MutexInv
  <2>3. NoLostWakeup' /\ ProgressInv'
    BY <1>1, SantaAssumption DEF NoLostWakeup, ProgressInv, SantaTypeOK
  <2>4. reindeer' = [reindeer EXCEPT ![r] = "away"] /\ reindeer[r] \notin {"wait", "waiting"}
    BY <1>1
  <2>5. Cardinality(Counted) \in Nat /\ Cardinality(Counted') \in Nat
        /\ Cardinality(Counted') >= Cardinality(Counted)
    BY <1>1, <2>4, CountedByOne
  <2>6. CountInv'
    BY <1>1, <2>5 DEF CountInv, SantaTypeOK
  <2> QED  BY <2>1, <2>2, <2>3, <2>6 DEF SantaInv
<1>4. CASE CountIn(r)
  <2> USE <1>4 DEF CountIn
  <2>1. SantaTypeOK'
    BY <1>1 DEF SantaTypeOK
  <2>2. MutexInv'
    BY <1>1, Holders DEF SantaTypeOK, MutexInv
  <2>3. NoLostWakeup' /\ ProgressInv'
    BY <1>1, SantaAssumption DEF NoLostWakeup, ProgressInv, SantaTypeOK
  <2>4. reindeer' = [reindeer EXCEPT ![r] = "wait"] /\ reindeer[r] \notin {"wait", "waiting"}
    BY <1>1
  <2>5. Cardinality(Counted) \in Nat /\ Cardinality(Counted') \in Nat
        /\ Cardinality(Counted') = Cardinality(Counted) + 1
    BY <1>1, <2>4, CountedByOne
  <2>6. santa' # "deliver" /\ (santa' \notin {"cancel", "done"} => santa \notin {"cancel", "done"})
    BY <1>1, Holders DEF MutexInv
  <2>7. CountInv'
    BY <1>1, <2>5, <2>6 DEF CountInv, SantaTypeOK
  <2> QED  BY <2>1, <2>2, <2>3, <2>7 DEF SantaInv
<1>5. CASE WaitForSanta(r)
  <2> USE <1>5 DEF WaitForSanta
  <2>1. SantaTypeOK'
    BY <1>1 DEF SantaTypeOK
  <2>2. MutexInv'
    BY <1>1, Holders DEF SantaTypeOK, MutexInv
  <2>3. NoLostWakeup' /\ ProgressInv'
    BY <1>1, SantaAssumption DEF NoLostWakeup, ProgressInv, SantaTypeOK
  <2>4. reindeer' = [reindeer EXCEPT ![r] = "waiting"]
    BY <1>1
  <2>5. Cardinality(Counted) \in Nat /\ Cardinality(Counted') \in Nat
        /\ Cardinality(Counted') >= Cardinality(Counted)
    BY <1>1, <2>4, CountedByOne
  <2>6. CountInv'
    BY <1>1, <2>5 DEF CountInv, SantaTypeOK
  <2> QED  BY <2>1, <2>2, <2>3, <2>6 DEF SantaInv
<1>6. CASE WakeSpuriously(r)
  <2> USE <1>6 DEF WakeSpuriously
  <2>1. SantaTypeOK'
    BY <1>1, SantaAssumption DEF SantaTypeOK
  <2>2. MutexInv'
    BY <1>1, Holders DEF SantaTypeOK, MutexInv
  <2>3. NoLostWakeup' /\ ProgressInv'
    BY <1>1, SantaAssumption DEF NoLostWakeup, ProgressInv, SantaTypeOK
  <2>4. reindeer' = [reindeer EXCEPT ![r] = "woken"]
    BY <1>1
  <2>5. Cardinality(Counted) \in Nat /\ Cardinality(Counted') \in Nat
        /\ Cardinality(Counted') >= Cardinality(Counted) - 1
    BY <1>1, <2>4, CountedByOne
  <2>6. CountInv'
    BY <1>1, <2>5 DEF CountInv, SantaTypeOK
  <2> QED  BY <2>1, <2>2, <2>3, <2>6 DEF SantaInv
<1> QED  BY <1>2, <1>3, <1>4, <1>5, <1>6

(* The end of a cancelled reindeer (main.c:68-70) is past all deliveries.  *)
LEMMA CancelledKeeps ==
  ASSUME SantaInv, NEW r \in Reindeer, Cancelled(r) \/ CancelledAsleep(r)
  PROVE  SantaInv'
<1>1. SantaTypeOK /\ NoLostWakeup /\ MutexInv /\ CountInv /\ ProgressInv
  BY DEF SantaInv
<1>2. r \in cancelled /\ santa \in {"cancel", "done"}
  BY <1>1 DEF ProgressInv, SantaTypeOK, Cancelled, CancelledAsleep
<1>3. SantaTypeOK'
  BY <1>1 DEF SantaTypeOK, Cancelled, CancelledAsleep
<1>4. MutexInv'
  BY <1>1, <1>2, Holders DEF SantaTypeOK, MutexInv, Cancelled, CancelledAsleep
<1>5. NoLostWakeup' /\ CountInv' /\ ProgressInv'
  BY <1>1, <1>2 DEF NoLostWakeup, CountInv, ProgressInv, Cancelled, CancelledAsleep
<1> QED  BY <1>3, <1>4, <1>5 DEF SantaInv

(* Santa (main.c:48-71) keeps it: he sets out only with the count full.    *)
LEMMA SantaKeeps ==
  ASSUME SantaInv,
         SantaLock \/ FallAsleep \/ SantaWakesSpuriously \/ SetOut \/ MainReturns
  PROVE  SantaInv'
<1>1. SantaTypeOK /\ NoLostWakeup /\ MutexInv /\ CountInv /\ ProgressInv
  BY DEF SantaInv
<1>2. Counted' = Counted /\ Cardinality(Counted) \in Nat
  BY ReindeerFinite
  DEF Counted, SantaLock, FallAsleep, SantaWakesSpuriously, SetOut, MainReturns
<1> USE DEF SantaGoes
<1>3. CASE SantaLock
  <2> USE <1>3 DEF SantaLock
  <2>1. SantaTypeOK' /\ NoLostWakeup'
    BY <1>1 DEF SantaTypeOK, NoLostWakeup
  <2>2. MutexInv'
    BY <1>1, Holders DEF SantaTypeOK, MutexInv
  <2>3. CountInv' /\ ProgressInv'
    BY <1>1, <1>2, SantaAssumption DEF CountInv, ProgressInv, SantaTypeOK
  <2> QED  BY <2>1, <2>2, <2>3 DEF SantaInv
<1>4. CASE FallAsleep
  <2> USE <1>4 DEF FallAsleep
  <2>1. SantaTypeOK' /\ NoLostWakeup'
    BY <1>1 DEF SantaTypeOK, NoLostWakeup
  <2>2. MutexInv'
    BY <1>1, Holders DEF SantaTypeOK, MutexInv
  <2>3. CountInv' /\ ProgressInv'
    BY <1>1, <1>2, SantaAssumption DEF CountInv, ProgressInv, SantaTypeOK
  <2> QED  BY <2>1, <2>2, <2>3 DEF SantaInv
<1>5. CASE SantaWakesSpuriously
  <2> USE <1>5 DEF SantaWakesSpuriously
  <2>1. SantaTypeOK' /\ NoLostWakeup'
    BY <1>1, SantaAssumption DEF SantaTypeOK, NoLostWakeup
  <2>2. MutexInv'
    BY <1>1, Holders DEF SantaTypeOK, MutexInv
  <2>3. CountInv' /\ ProgressInv'
    BY <1>1, <1>2, SantaAssumption DEF CountInv, ProgressInv, SantaTypeOK
  <2> QED  BY <2>1, <2>2, <2>3 DEF SantaInv
<1>6. CASE SetOut
  <2> USE <1>6 DEF SetOut
  <2>1. SantaTypeOK' /\ NoLostWakeup'
    BY <1>1 DEF SantaTypeOK, NoLostWakeup
  <2>2. MutexInv'
    BY <1>1, Holders DEF SantaTypeOK, MutexInv
  <2>3. CountInv' /\ ProgressInv'
    BY <1>1, <1>2, SantaAssumption DEF CountInv, ProgressInv, SantaTypeOK
  <2> QED  BY <2>1, <2>2, <2>3 DEF SantaInv
<1>7. CASE MainReturns
  <2> USE <1>7 DEF MainReturns
  <2>1. SantaTypeOK' /\ NoLostWakeup'
    BY <1>1 DEF SantaTypeOK, NoLostWakeup
  <2>2. MutexInv'
    BY <1>1, Holders DEF SantaTypeOK, MutexInv
  <2>3. CountInv' /\ ProgressInv'
    BY <1>1, <1>2, SantaAssumption DEF CountInv, ProgressInv, SantaTypeOK
  <2> QED  BY <2>1, <2>2, <2>3 DEF SantaInv
<1> QED  BY <1>3, <1>4, <1>5, <1>6, <1>7

(* A delivery (main.c:57-66) ends with nobody counted.                     *)
LEMMA DeliverKeeps ==
  ASSUME SantaInv, Deliver PROVE SantaInv'
<1>1. SantaTypeOK /\ NoLostWakeup /\ MutexInv /\ CountInv /\ ProgressInv
  BY DEF SantaInv
<1>2. /\ santa = "deliver" /\ delivery < TotalDeliveries /\ cancelled = {}
      /\ \A r \in Reindeer : reindeer[r] \notin {"top", "count", "wait"}
  BY <1>1, Holders DEF Deliver, SantaGoes, ProgressInv, MutexInv
<1>3. \A r \in Reindeer : reindeer'[r] = reindeer[r] \/ reindeer'[r] = "woken"
  BY <1>1 DEF Deliver, Broadcast, SantaTypeOK
<1>4. SantaTypeOK' /\ NoLostWakeup'
  BY <1>1, <1>2, SantaAssumption DEF SantaTypeOK, NoLostWakeup, Deliver, SantaGoes, Broadcast
<1>5. MutexInv'
  BY <1>1, <1>2, <1>3 DEF MutexInv, Deliver, SantaGoes
<1>6. CountInv'
  <2>1. Cardinality(Counted') \in Nat
    BY ReindeerFinite DEF Counted
  <2> QED  BY <1>1, <2>1 DEF CountInv, Deliver, SantaGoes, SantaTypeOK
<1>7. ProgressInv'
  <2>1. CASE delivery = TotalDeliveries - 1
    <3>1. santa' = "cancel" /\ delivery' = TotalDeliveries /\ cancelled' = {}
      BY <1>1, <1>2, <2>1, SantaAssumption DEF Deliver, SantaGoes
    <3>2. 0 \in 0 .. ReindeerCount - 1 /\ {} = 0 .. 0 - 1
      BY SantaAssumption
    <3> QED  BY <3>1, <3>2 DEF ProgressInv
  <2>2. CASE delivery # TotalDeliveries - 1
    BY <1>1, <1>2, <2>2, SantaAssumption DEF Deliver, SantaGoes, ProgressInv, SantaTypeOK
  <2> QED  BY <2>1, <2>2
<1> QED  BY <1>4, <1>5, <1>6, <1>7 DEF SantaInv

(* The reindeer are cancelled in their order, and no more than there are.  *)
LEMMA CancelKeeps ==
  ASSUME SantaInv, CancelNext PROVE SantaInv'
<1>1. SantaTypeOK /\ NoLostWakeup /\ MutexInv /\ CountInv /\ ProgressInv
  BY DEF SantaInv
<1>2. santa = "cancel" /\ delivery = TotalDeliveries
  BY <1>1 DEF CancelNext, SantaGoes, ProgressInv
<1>3. PICK n \in 0 .. ReindeerCount - 1 : cancelled = 0 .. n - 1
  BY <1>1, <1>2 DEF ProgressInv
<1>4. Cardinality(cancelled) = n
  BY <1>3, FS_Interval, SantaAssumption
<1>5. /\ santa' = (IF n = ReindeerCount - 1 THEN "done" ELSE "cancel")
      /\ cancelled' = 0 .. n
  BY <1>3, <1>4, SantaAssumption DEF CancelNext, SantaGoes
<1>6. cancelled' \subseteq Reindeer
  BY <1>5, SantaAssumption DEF Reindeer
<1>7. SantaTypeOK' /\ NoLostWakeup' /\ MutexInv' /\ CountInv'
  BY <1>1, <1>2, <1>5, <1>6
  DEF SantaTypeOK, NoLostWakeup, MutexInv, CountInv, CancelNext, SantaGoes
<1>8. ProgressInv'
  <2>1. delivery' = TotalDeliveries
    BY <1>2 DEF CancelNext
  <2>2. CASE n = ReindeerCount - 1
    BY <1>5, <2>1, <2>2 DEF ProgressInv, Reindeer
  <2>3. CASE n # ReindeerCount - 1
    <3>1. n + 1 \in 0 .. ReindeerCount - 1 /\ cancelled' = 0 .. (n + 1) - 1 /\ santa' = "cancel"
      BY <1>5, <2>3, SantaAssumption
    <3> QED  BY <2>1, <3>1 DEF ProgressInv
  <2> QED  BY <2>2, <2>3
<1> QED  BY <1>7, <1>8 DEF SantaInv

(* Every step keeps the invariant.                                         *)
LEMMA SantaInvariant == SantaSpec => []SantaInv
<1>1. SantaInv /\ [SantaNext]_santaVars => SantaInv'
  <2> SUFFICES ASSUME SantaInv, [SantaNext]_santaVars PROVE SantaInv'
    OBVIOUS
  <2>1. CASE UNCHANGED santaVars
    BY <2>1 DEF santaVars, SantaInv, SantaTypeOK, NoLostWakeup, MutexInv, CountInv, ProgressInv,
       Counted
  <2>2. CASE SantaNext
    BY <2>2, ReindeerKeeps, CancelledKeeps, SantaKeeps, DeliverKeeps, CancelKeeps
    DEF SantaNext, ReindeerStep, SantaStep, SpuriousStep
  <2> QED  BY <2>1, <2>2
<1> QED  BY <1>1, SantaStart, PTL DEF SantaSpec

(* Every value stays of its type; no thread is cancelled that is not a     *)
(* reindeer (main.c:68-70).                                                *)
THEOREM SantaTypeCorrect == SantaSpec => []SantaTypeOK
BY SantaInvariant, PTL DEF SantaInv

(* However many reindeer there are and threads wake for nothing, Santa     *)
(* does not sleep on with all of them counted (main.c:33-36, 50-54).       *)
THEOREM NoWakeupIsLost == SantaSpec => []NoLostWakeup
BY SantaInvariant, PTL DEF SantaInv

(* Santa never sets out with fewer reindeer than there are, but for those  *)
(* woken by nothing (main.c:30-39, 50-57).                                 *)
THEOREM ReindeerHarnessed == SantaSpec => []AllHarnessed
<1>1. ASSUME SantaInv, santa = "deliver"
      PROVE  Cardinality({r \in Reindeer : reindeer[r] # "waiting"}) <= spurious
  <2> DEFINE away == {r \in Reindeer : reindeer[r] # "waiting"}
  <2>1. ReindeerCount <= Cardinality(Counted) + spurious /\ spurious \in Nat
    BY <1>1, SantaAssumption, ReindeerFinite
    DEF SantaInv, CountInv, SantaTypeOK, Counted
  <2>2. Counted = Reindeer \ away
    BY <1>1, Holders DEF SantaInv, MutexInv, Counted
  <2>3. away \subseteq Reindeer
    OBVIOUS
  <2>4. Cardinality(Counted) = ReindeerCount - Cardinality(away)
    <3>1. Reindeer \cap away = away
      BY <2>3
    <3>2. Cardinality(Reindeer \ away) = Cardinality(Reindeer) - Cardinality(Reindeer \cap away)
      BY ReindeerFinite, FS_Difference
    <3> QED  BY <2>2, <3>1, <3>2, ReindeerFinite
  <2>5. Cardinality(away) \in Nat
    BY <2>3, ReindeerFinite
  <2> HIDE DEF away
  <2>6. Cardinality(away) <= spurious
    BY <2>1, <2>4, <2>5, SantaAssumption
  <2> QED  BY <2>6 DEF away
<1> QED  BY <1>1, SantaInvariant, PTL DEF AllHarnessed

=============================================================================
