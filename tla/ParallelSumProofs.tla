-------------------------- MODULE ParallelSumProofs ---------------------------
(***************************************************************************)
(* Theorems about the parallel integral of cw06/zad1, for every number of  *)
(* processes and of intervals.                                             *)
(***************************************************************************)
EXTENDS ParallelSum, TLAPS

SumTypeOK ==
  /\ nth \in 0 .. NProcesses
  /\ parent \in {"fork", "read", "done", "failed"}
  /\ child \in [Child -> {"none", "work", "written", "gone", "killed"}]
  /\ pipe \in [Child -> SUBSET Intervals]
  /\ writers \in [Child -> SUBSET (Child \cup {Parent})]
  /\ sum \in [Intervals -> Nat]

(* The write end of a pipe is held by its child until the child ends, and  *)
(* by the parent until it forks that child.                                *)
WritersInv ==
  \A i \in Child :
    /\ child[i] \in {"work", "written"} => i \in writers[i]
    /\ parent = "fork" /\ i >= nth => Parent \in writers[i] /\ child[i] = "none"
    /\ child[i] = "none" => parent = "failed" \/ (parent = "fork" /\ i >= nth)

(* Children whose pipes the parent has read.                               *)
Seen(i) == parent \in {"read", "done"} /\ i < nth

(* A part is in the pipe from when it is written to when it is read, and   *)
(* then in the sum.                                                        *)
PipeInv ==
  \A i \in Child :
    /\ ~Seen(i) => pipe[i] = IF child[i] \in {"written", "gone"} THEN Share(i) ELSE {}
    /\ Seen(i) => child[i] \in {"written", "gone", "killed"}
    /\ \A k \in Share(i) : sum[k] = IF Seen(i) /\ child[i] # "killed" THEN 1 ELSE 0

DoneInv == parent = "done" => nth = NProcesses

SumInv == SumTypeOK /\ WritersInv /\ PipeInv /\ DoneInv

(* Every interval is in the share of exactly one child, also where their   *)
(* number does not divide the intervals (main.c:31-33).                    *)
THEOREM IntervalsDivided ==
  \A k \in Intervals :
    \E i \in Child : k \in Share(i) /\ \A j \in Child \ {i} : k \notin Share(j)
<1> SUFFICES ASSUME NEW k \in Intervals
             PROVE  \E i \in Child : k \in Share(i) /\ \A j \in Child \ {i} : k \notin Share(j)
  OBVIOUS
<1> DEFINE s == StepsPerProcess
           n == NProcesses - 1
<1>1. /\ NProcesses \in Nat \ {0} /\ NIntervals \in Nat /\ k \in Nat /\ k < NIntervals
      /\ n \in Nat /\ NProcesses = n + 1
  BY ParallelSumAssumption DEF Intervals
<1>2. /\ s \in Nat \ {0} /\ NIntervals % NProcesses \in Nat
      /\ NIntervals = NProcesses * s + (NIntervals % NProcesses)
  BY <1>1, ParallelSumAssumption DEF StepsPerProcess
<1>3. NIntervals = n * s + (s + (NIntervals % NProcesses))
  BY <1>1, <1>2
<1>4. \A i \in Child : k \in Share(i) <=> /\ i * s <= k
                                          /\ i = n \/ k < i * s + s
  <2> SUFFICES ASSUME NEW i \in Child
               PROVE  k \in Share(i) <=> i * s <= k /\ (i = n \/ k < i * s + s)
    OBVIOUS
  <2>1. i \in Nat
    BY <1>1 DEF Child
  <2>2. CASE i = n
    BY <1>1, <1>2, <1>3, <2>1, <2>2 DEF Share, Steps
  <2>3. CASE i # n
    BY <1>1, <1>2, <2>1, <2>3 DEF Share, Steps
  <2> QED  BY <2>2, <2>3
<1> HIDE DEF s
<1>5. \A i, j \in Child : i < j => i * s + s <= j * s
  <2> SUFFICES ASSUME NEW i \in Child, NEW j \in Child, i < j PROVE i * s + s <= j * s
    OBVIOUS
  <2>1. i \in Nat /\ j \in Nat /\ i + 1 <= j
    BY <1>1 DEF Child
  <2>2. (i + 1) * s <= j * s
    BY <1>2, <2>1
  <2> QED  BY <1>2, <2>1, <2>2
<1>6. \E i \in Child : i * s <= k /\ (i = n \/ k < i * s + s)
  <2>1. CASE k >= n * s
    <3>1. n \in Child
      BY <1>1 DEF Child
    <3> QED  BY <2>1, <3>1
  <2>2. CASE k < n * s
    <3> DEFINE i == k \div s
    <3>1. i \in Int /\ s * i <= k /\ k < s * i + s
      BY <1>1, <1>2
    <3> HIDE DEF i
    <3>2. i >= 0 /\ i < n
      BY <1>1, <1>2, <2>2, <3>1
    <3>3. i \in Child
      BY <1>1, <3>1, <3>2 DEF Child
    <3>4. i * s <= k /\ k < i * s + s
      BY <1>2, <3>1
    <3> QED  BY <3>3, <3>4
  <2>3. n * s \in Int
    BY <1>1, <1>2
  <2> QED  BY <1>1, <2>1, <2>2, <2>3
<1>7. ASSUME NEW i \in Child, NEW j \in Child, i < j
      PROVE  ~(k \in Share(i) /\ k \in Share(j))
  <2>1. i \in Int /\ j \in Int /\ j <= n /\ i * s \in Int /\ j * s \in Int /\ i # n
    BY <1>1, <1>2, <1>7 DEF Child
  <2> QED  BY <1>1, <1>2, <1>4, <1>5, <1>7, <2>1
<1>8. ASSUME NEW i \in Child, NEW j \in Child, i # j
      PROVE  ~(k \in Share(i) /\ k \in Share(j))
  <2>1. i < j \/ j < i
    BY <1>8 DEF Child
  <2> QED  BY <1>7, <2>1
<1> QED  BY <1>4, <1>6, <1>8

LEMMA SumStart == SumInit => SumInv
<1> SUFFICES ASSUME SumInit PROVE SumInv
  OBVIOUS
<1>1. SumTypeOK
  BY ParallelSumAssumption DEF SumInit, SumTypeOK
<1>2. WritersInv /\ PipeInv /\ DoneInv
  BY DEF SumInit, WritersInv, PipeInv, DoneInv, Seen, Child, Share
<1> QED  BY <1>1, <1>2 DEF SumInv

(* What the parent does before it reads (main.c:20-60) leaves pipes and    *)
(* sum as they are.                                                        *)
LEMMA ForkStep ==
  ASSUME SumInv, Fork \/ ForkFails \/ Distributed PROVE SumInv'
<1>1. SumTypeOK /\ WritersInv /\ PipeInv /\ DoneInv
  BY DEF SumInv
<1>2. parent = "fork" /\ pipe' = pipe /\ sum' = sum /\ \A i \in Child : ~Seen(i)
  BY DEF Fork, ForkFails, Distributed, Seen
<1>3. CASE Fork
  <2>1. /\ nth \in Child /\ child[nth] = "none" /\ nth' = nth + 1 /\ parent' = parent
        /\ child' = [child EXCEPT ![nth] = "work"]
        /\ writers' = [i \in Child |->
             (IF Parent \in writers[i] THEN writers[i] \cup {nth} ELSE writers[i])
                \ (IF i = nth THEN {Parent} ELSE {})]
    BY <1>1, <1>2, <1>3, ParallelSumAssumption DEF Fork, Child, WritersInv, SumTypeOK
  <2>2. SumTypeOK'
    BY <1>1, <1>2, <2>1, ParallelSumAssumption DEF SumTypeOK, Child
  <2>3. \A i \in Child : /\ i # nth => child'[i] = child[i]
                         /\ i = nth => child'[i] = "work"
                         /\ i >= nth' <=> i >= nth /\ i # nth
    BY <1>1, <2>1 DEF SumTypeOK, Child
  <2>4. Parent \notin Child
    BY DEF Parent, Child
  <2>5. WritersInv'
    BY <1>1, <1>2, <2>1, <2>3, <2>4 DEF WritersInv
  <2>6. PipeInv' /\ DoneInv'
    BY <1>1, <1>2, <2>1, <2>3 DEF PipeInv, DoneInv, Seen
  <2> QED  BY <2>2, <2>5, <2>6 DEF SumInv
<1>4. CASE ForkFails
  <2>1. /\ parent' = "failed" /\ UNCHANGED <<nth, child>>
        /\ writers' = [i \in Child |-> writers[i] \ {Parent}]
    BY <1>4 DEF ForkFails, Without
  <2>2. Parent \notin Child
    BY DEF Parent, Child
  <2>3. SumTypeOK'
    BY <1>1, <1>2, <2>1 DEF SumTypeOK
  <2>4. WritersInv' /\ PipeInv' /\ DoneInv'
    BY <1>1, <1>2, <2>1, <2>2 DEF WritersInv, PipeInv, DoneInv, Seen
  <2> QED  BY <2>3, <2>4 DEF SumInv
<1>5. CASE Distributed
  <2>1. nth = NProcesses /\ parent' = "read" /\ nth' = 0 /\ UNCHANGED <<child, writers>>
    BY <1>5 DEF Distributed
  <2>2. \A i \in Child : ~(i >= nth) /\ ~(i < 0)
    BY <2>1, ParallelSumAssumption DEF Child
  <2>3. SumTypeOK'
    BY <1>1, <1>2, <2>1, ParallelSumAssumption DEF SumTypeOK
  <2>4. WritersInv'
    BY <1>1, <1>2, <2>1, <2>2 DEF WritersInv
  <2>5. PipeInv' /\ DoneInv'
    BY <1>1, <1>2, <2>1, <2>2 DEF PipeInv, DoneInv, Seen
  <2> QED  BY <2>3, <2>4, <2>5 DEF SumInv
<1> QED  BY <1>3, <1>4, <1>5

(* A child writes its part once and whole, or not at all (main.c:36-48).   *)
LEMMA ChildKeeps ==
  ASSUME SumInv, NEW i \in Child, ChildStep(i) \/ ChildKilled(i) PROVE SumInv'
<1>1. SumTypeOK /\ WritersInv /\ PipeInv /\ DoneInv
  BY DEF SumInv
<1>2. UNCHANGED <<nth, parent, sum>>
  BY DEF ChildStep, ChildKilled, Write, ChildExit, ChildEnds
<1>3. Share(i) \in SUBSET Intervals
  BY DEF Share
<1>4. CASE Write(i)
  <2>1. /\ child[i] = "work" /\ child' = [child EXCEPT ![i] = "written"]
        /\ pipe' = [pipe EXCEPT ![i] = Share(i)] /\ writers' = writers
    BY <1>4 DEF Write
  <2>2. SumTypeOK'
    BY <1>1, <1>2, <1>3, <2>1 DEF SumTypeOK
  <2>3. WritersInv' /\ DoneInv'
    BY <1>1, <1>2, <2>1 DEF WritersInv, DoneInv, SumTypeOK
  <2>4. PipeInv'
    BY <1>1, <1>2, <2>1 DEF PipeInv, Seen, SumTypeOK
  <2> QED  BY <2>2, <2>3, <2>4 DEF SumInv
<1>5. ASSUME NEW state \in {"gone", "killed"}, ChildEnds(i, state),
             (child[i] = "work" /\ state = "killed") \/ (child[i] = "written" /\ state = "gone")
      PROVE  SumInv'
  <2>1. /\ child' = [child EXCEPT ![i] = state] /\ pipe' = pipe
        /\ writers' = [j \in Child |-> writers[j] \ {i}]
    BY <1>5 DEF ChildEnds, Without
  <2>2. SumTypeOK'
    BY <1>1, <1>2, <2>1 DEF SumTypeOK
  <2>3. /\ Parent \notin Child
        /\ \/ child[i] = "work" /\ state = "killed"
           \/ child[i] = "written" /\ state = "gone"
    BY <1>5, ParallelSumAssumption DEF Parent, Child
  <2>4. \A j \in Child : child'[j] = IF j = i THEN state ELSE child[j]
    BY <1>1, <2>1 DEF SumTypeOK
  <2>5. WritersInv' /\ DoneInv'
    BY <1>1, <1>2, <2>1, <2>3, <2>4 DEF WritersInv, DoneInv
  <2>6. PipeInv'
    BY <1>1, <1>2, <2>1, <2>3, <2>4 DEF PipeInv, Seen
  <2> QED  BY <2>2, <2>5, <2>6 DEF SumInv
<1> QED  BY <1>4, <1>5 DEF ChildStep, ChildExit, ChildKilled

(* The parent finds a part in the pipe, or the end of it only where the    *)
(* child wrote nothing (main.c:118-121).                                   *)
LEMMA ReadStep ==
  ASSUME SumInv, Read PROVE SumInv'
<1>1. SumTypeOK /\ WritersInv /\ PipeInv /\ DoneInv
  BY DEF SumInv
<1>2. /\ parent = "read" /\ nth \in Child /\ UNCHANGED <<parent, child, writers>>
      /\ nth' = nth + 1 /\ pipe' = [pipe EXCEPT ![nth] = {}]
      /\ pipe[nth] # {} \/ writers[nth] = {}
      /\ sum' = [k \in Intervals |-> IF k \in pipe[nth] THEN sum[k] + 1 ELSE sum[k]]
  BY <1>1, ParallelSumAssumption DEF Read, SumTypeOK, Child
<1>3. ~Seen(nth) /\ \A i \in Child : Seen(i)' <=> Seen(i) \/ i = nth
  BY <1>1, <1>2 DEF Seen, SumTypeOK, Child
<1>4. child[nth] \in {"written", "gone", "killed"}
  <2>1. child[nth] # "none"
    BY <1>1, <1>2 DEF WritersInv
  <2>2. child[nth] # "work"
    BY <1>1, <1>2, <1>3 DEF WritersInv, PipeInv
  <2> QED  BY <1>1, <1>2, <2>1, <2>2 DEF SumTypeOK
<1>5. pipe[nth] = IF child[nth] = "killed" THEN {} ELSE Share(nth)
  BY <1>1, <1>2, <1>3, <1>4 DEF PipeInv
<1>6. SumTypeOK'
  <2>1. sum' \in [Intervals -> Nat]
    BY <1>1, <1>2 DEF SumTypeOK
  <2>2. nth' \in 0 .. NProcesses
    BY <1>2, ParallelSumAssumption DEF Child
  <2> QED  BY <1>1, <1>2, <2>1, <2>2 DEF SumTypeOK
<1>7. WritersInv' /\ DoneInv'
  BY <1>1, <1>2 DEF WritersInv, DoneInv
<1>8. PipeInv'
  <2> SUFFICES ASSUME NEW i \in Child
               PROVE  /\ ~Seen(i)' => pipe'[i] = IF child'[i] \in {"written", "gone"}
                                                 THEN Share(i) ELSE {}
                      /\ Seen(i)' => child'[i] \in {"written", "gone", "killed"}
                      /\ \A k \in Share(i) :
                           sum'[k] = IF Seen(i)' /\ child'[i] # "killed" THEN 1 ELSE 0
    BY DEF PipeInv
  <2>1. \A k \in Share(i) : k \in Intervals /\ sum[k] \in Nat
    BY <1>1 DEF Share, SumTypeOK
  <2>2. CASE i = nth
    <3>1. \A k \in Share(i) : sum[k] = 0
      BY <1>1, <1>3, <2>2 DEF PipeInv
    <3>2. \A k \in Share(i) : sum'[k] = IF child[i] # "killed" THEN 1 ELSE 0
      BY <1>2, <1>5, <2>1, <2>2, <3>1
    <3> QED  BY <1>2, <1>3, <1>4, <2>2, <3>2
  <2>3. CASE i # nth
    <3>1. \A k \in Share(i) : k \notin pipe[nth]
      BY <1>2, <1>5, <2>1, <2>3, IntervalsDivided
    <3>2. \A k \in Share(i) : sum'[k] = sum[k]
      BY <1>2, <2>1, <3>1
    <3>3. pipe'[i] = pipe[i]
      BY <1>1, <1>2, <2>3 DEF SumTypeOK
    <3> QED  BY <1>1, <1>2, <1>3, <2>3, <3>2, <3>3 DEF PipeInv
  <2> QED  BY <2>2, <2>3
<1> QED  BY <1>6, <1>7, <1>8 DEF SumInv

LEMMA SumInvariant == SumSpec => []SumInv
<1>1. SumInv /\ [SumNext]_sumVars => SumInv'
  <2> SUFFICES ASSUME SumInv, [SumNext]_sumVars PROVE SumInv'
    OBVIOUS
  <2>1. CASE PrintSum
    <3>1. parent = "read" /\ parent' = "done" /\ nth = NProcesses
          /\ UNCHANGED <<nth, child, pipe, writers, sum>>
      BY <2>1 DEF PrintSum
    <3>2. \A i \in Child : Seen(i)' <=> Seen(i)
      BY <3>1 DEF Seen
    <3> QED  BY <3>1, <3>2 DEF SumInv, SumTypeOK, WritersInv, PipeInv, DoneInv
  <2>2. CASE UNCHANGED sumVars
    BY <2>2 DEF sumVars, SumInv, SumTypeOK, WritersInv, PipeInv, DoneInv, Seen
  <2> QED  BY <2>1, <2>2, ForkStep, ReadStep, ChildKeeps DEF SumNext, ParentStep
<1> QED  BY <1>1, SumStart, PTL DEF SumSpec

(* The sum has every interval in it once, but for those of children that   *)
(* were killed before they wrote, for whichever division of intervals      *)
(* among processes (main.c:31-33, 118-129).                                *)
THEOREM WholeSum == SumSpec => []SumIsWhole
<1>1. SumInv => SumIsWhole
  <2> SUFFICES ASSUME SumInv, parent = "done", NEW k \in Intervals
               PROVE  sum[k] = IF \E i \in Child : k \in Share(i) /\ child[i] = "killed" THEN 0 ELSE 1
    BY DEF SumIsWhole
  <2>1. PICK i \in Child : k \in Share(i) /\ \A j \in Child \ {i} : k \notin Share(j)
    BY IntervalsDivided
  <2>2. Seen(i)
    <3>1. parent = "done" /\ nth = NProcesses
      BY DEF SumInv, DoneInv
    <3> QED  BY <3>1, ParallelSumAssumption DEF Seen, Child
  <2>3. sum[k] = IF child[i] # "killed" THEN 1 ELSE 0
    BY <2>1, <2>2 DEF SumInv, PipeInv
  <2> QED  BY <2>1, <2>3
<1> QED  BY <1>1, SumInvariant, PTL

=============================================================================
