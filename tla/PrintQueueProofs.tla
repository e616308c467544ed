--------------------------- MODULE PrintQueueProofs ---------------------------
(***************************************************************************)
(* Theorems about the print queue of cw08, for every number of printers    *)
(* and users and every size of the ring.                                   *)
(***************************************************************************)
EXTENDS PrintQueue, FiniteSetTheorems, SequenceTheorems, TLAPS

(* An index of the ring, moved on by one, is an index of the ring.         *)
LEMMA SuccType == ASSUME NEW i \in Index PROVE Succ(i) \in Index
  BY PrintQueueAssumption DEF Index, Succ

(* The semaphores start within their range.                                *)
LEMMA NewSemType == NewSem \in [{"mutex", "empty", "full"} -> Nat] /\ NewSem["mutex"] = 1
<1>1. \A s \in {"mutex", "empty", "full"} :
        (CASE s = "mutex" -> 1 [] s = "empty" -> MaxJobs [] s = "full" -> 0) \in Nat
  BY PrintQueueAssumption
<1> QED  BY <1>1 DEF NewSem

(* So does everything else.                                                *)
LEMMA InitType == Init => TypeOK
<1> SUFFICES ASSUME Init PROVE TypeOK
  OBVIOUS
<1>1. 0 \in Index
  BY PrintQueueAssumption DEF Index
<1>2. sem \in [{"mutex", "empty", "full"} -> Nat]
  BY NewSemType DEF Init
<1>3. jobs \in [Index -> Texts \cup {Blank}] /\ head \in Index /\ tail \in Index
  BY <1>1 DEF Init
<1>4. /\ pc \in [Procs -> Labels] /\ job \in [Procs -> Texts \cup {Blank}]
      /\ next \in [Procs -> Index]
  BY <1>1 DEF Init, Labels
<1>5. running \in [Procs -> BOOLEAN] /\ restarted \in BOOLEAN /\ overtaken \subseteq Procs
  BY DEF Init
<1> QED  BY <1>2, <1>3, <1>4, <1>5 DEF TypeOK

(* Every value stays of its type, whatever signals do: head and tail are   *)
(* indices of the ring (printers_server.c:57, users_client.c:39), and no   *)
(* semaphore goes below zero, as a sem_wait that fails takes nothing.      *)
THEOREM TypeCorrect == Spec => []TypeOK
<1>1. Init => TypeOK
  BY InitType
<1>2. TypeOK /\ [Next]_vars => TypeOK'
  <2> SUFFICES ASSUME TypeOK, [Next]_vars PROVE TypeOK'
    OBVIOUS
  <2> USE DEF TypeOK, Goto, shared, locals, history
  <2>1. CASE UNCHANGED vars
    BY <2>1 DEF vars
  <2>2. ASSUME NEW p \in Procs, Lock(p) PROVE TypeOK'
    BY <2>2 DEF Lock, Wait, Labels
  <2>3. ASSUME NEW p \in Printers, Printer(p) PROVE TypeOK'
    <3> p \in Procs
      BY DEF Procs
    <3>1. CASE PrinterLoop(p)  BY <3>1 DEF PrinterLoop, Labels
    <3>2. CASE WaitFull(p)  BY <3>2 DEF WaitFull, Wait, Labels
    <3>3. CASE CopyJob(p)  BY <3>3 DEF CopyJob, Labels
    <3>4. CASE LoadHead(p)  BY <3>4, SuccType DEF LoadHead, Labels
    <3>5. CASE StoreHead(p)  BY <3>5 DEF StoreHead, Labels
    <3>6. CASE PrinterUnlock(p)  BY <3>6 DEF PrinterUnlock, Post, Labels
    <3>7. CASE PostEmpty(p)  BY <3>7 DEF PostEmpty, Post, Labels
    <3>8. CASE PrintJob(p)  BY <3>8 DEF PrintJob, Labels
    <3> QED  BY <2>2, <2>3, <3>1, <3>2, <3>3, <3>4, <3>5, <3>6, <3>7, <3>8 DEF Printer
  <2>4. ASSUME NEW u \in Users, User(u) PROVE TypeOK'
    <3> u \in Procs
      BY DEF Procs
    <3>1. CASE UserLoop(u)  BY <3>1 DEF UserLoop, Labels
    <3>2. CASE WaitEmpty(u)  BY <3>2 DEF WaitEmpty, Wait, Labels
    <3>3. CASE WriteJob(u)  BY <3>3 DEF WriteJob, Labels
    <3>4. CASE LoadTail(u)  BY <3>4, SuccType DEF LoadTail, Labels
    <3>5. CASE StoreTail(u)  BY <3>5 DEF StoreTail, Labels
    <3>6. CASE PostFull(u)  BY <3>6 DEF PostFull, Post, Labels
    <3>7. CASE UserUnlock(u)  BY <3>7 DEF UserUnlock, Post, Labels
    <3>8. CASE Sleep(u)  BY <3>8 DEF Sleep, Labels
    <3> QED  BY <2>2, <2>4, <3>1, <3>2, <3>3, <3>4, <3>5, <3>6, <3>7, <3>8 DEF User
  <2>5. ASSUME NEW p \in Procs, Disturb(p) PROVE TypeOK'
    <3>1. CASE Signal(p)  BY <3>1 DEF Signal
    <3>2. CASE Interrupt(p)  BY <3>2 DEF Interrupt, Labels
    <3>3. CASE Leave(p)  BY <3>3 DEF Leave, Labels
    <3>4. CASE Kill(p)  BY <3>4 DEF Kill, Labels
    <3> QED  BY <2>5, <3>1, <3>2, <3>3, <3>4 DEF Disturb
  <2>6. CASE Restart
    <3>1. pc' \in [Procs -> Labels]
      BY <2>6 DEF Restart, Labels
    <3>2. sem' \in [{"mutex", "empty", "full"} -> Nat]
      BY <2>6, NewSemType DEF Restart
    <3>3. jobs' \in [Index -> Texts \cup {Blank}] /\ head' \in Index /\ tail' \in Index
      BY <2>6, PrintQueueAssumption DEF Restart, Index
    <3> QED  BY <2>6, <3>1, <3>2, <3>3 DEF Restart
  <2> QED  BY <2>1, <2>3, <2>4, <2>5, <2>6 DEF Next
<1> QED  BY <1>1, <1>2, PTL DEF Spec

-----------------------------------------------------------------------------
(* Without signals the semaphore mutex is a lock: it is 0 or 1, and 1 only *)
(* when nobody is inside.  A process killed inside leaves it 0 for good.   *)

LockInv ==
  /\ TypeOK
  /\ sem["mutex"] \in {0, 1}
  /\ sem["mutex"] = 1 => Inside = {}
  /\ MutualExclusion

(* A step that leaves mutex alone and brings nobody in keeps the lock's    *)
(* invariant.                                                              *)
LEMMA LockKept ==
  ASSUME LockInv, TypeOK', sem'["mutex"] = sem["mutex"], Inside' \subseteq Inside
  PROVE  LockInv'
  BY DEF LockInv, MutualExclusion

(* So does giving mutex back from inside.                                  *)
LEMMA LockReturned ==
  ASSUME LockInv, TypeOK', NEW p \in Inside,
         sem'["mutex"] = sem["mutex"] + 1, Inside' \subseteq Inside \ {p}
  PROVE  LockInv'
<1>1. sem["mutex"] = 0 /\ Inside = {p}
  BY DEF LockInv, MutualExclusion
<1> QED
  BY <1>1 DEF LockInv, MutualExclusion

LEMMA LockInvariant ==
  ASSUME MaySignal = {}, ~MayRestart
  PROVE  Spec => []LockInv
<1>1. Init => LockInv
  <2> SUFFICES ASSUME Init PROVE LockInv
    OBVIOUS
  <2>1. TypeOK
    BY InitType
  <2>2. Inside = {}
    BY DEF Init, Inside, At, Procs
  <2>3. sem["mutex"] = 1
    BY NewSemType DEF Init
  <2> QED  BY <2>1, <2>2, <2>3 DEF LockInv, MutualExclusion
<1>2. LockInv /\ TypeOK' /\ [Next]_vars => LockInv'
  <2> SUFFICES ASSUME LockInv, TypeOK', [Next]_vars PROVE LockInv'
    OBVIOUS
  <2> TypeOK
    BY DEF LockInv
  <2> USE DEF Goto, shared, locals, history
  <2>1. CASE UNCHANGED vars
    <3>1. Inside' = Inside
      BY <2>1 DEF vars, Inside, At
    <3> QED  BY <2>1, <3>1, LockKept DEF vars
  <2>2. ASSUME NEW p \in Procs, Lock(p) PROVE LockInv'
    <3>1. Inside = {} /\ sem'["mutex"] = 0
      BY <2>2 DEF Lock, Wait, LockInv, TypeOK
    <3>2. Inside' \subseteq {p}
      BY <2>2, <3>1 DEF Lock, Inside, At, Procs, TypeOK
    <3> QED  BY <3>1, <3>2 DEF LockInv, MutualExclusion
  <2>3. ASSUME NEW p \in Printers, Printer(p) PROVE LockInv'
    <3> p \in Procs /\ p \notin Users
      BY PrintQueueAssumption DEF Procs
    <3>1. CASE PrinterUnlock(p)
      <4>1. p \in Inside /\ Inside' \subseteq Inside \ {p}
        BY <3>1 DEF PrinterUnlock, TypeOK, Inside, At, Procs
      <4>2. sem'["mutex"] = sem["mutex"] + 1
        BY <3>1 DEF PrinterUnlock, Post, TypeOK
      <4> QED  BY <4>1, <4>2, LockReturned
    <3>2. CASE Lock(p)
      BY <2>2, <3>2
    <3>3. CASE \/ PrinterLoop(p) \/ WaitFull(p) \/ CopyJob(p) \/ LoadHead(p)
               \/ StoreHead(p) \/ PostEmpty(p) \/ PrintJob(p)
      <4>1. Inside' \subseteq Inside
        BY <3>3 DEF PrinterLoop, WaitFull, CopyJob, LoadHead, StoreHead, PostEmpty,
                    PrintJob, TypeOK, Inside, At, Procs
      <4>2. sem'["mutex"] = sem["mutex"]
        BY <3>3 DEF PrinterLoop, WaitFull, CopyJob, LoadHead, StoreHead, PostEmpty,
                    PrintJob, Wait, Post, TypeOK
      <4> QED  BY <4>1, <4>2, LockKept
    <3> QED  BY <2>3, <3>1, <3>2, <3>3 DEF Printer
  <2>4. ASSUME NEW u \in Users, User(u) PROVE LockInv'
    <3> u \in Procs
      BY DEF Procs
    <3>1. CASE UserUnlock(u)
      <4>1. u \in Inside /\ Inside' \subseteq Inside \ {u}
        BY <3>1 DEF UserUnlock, TypeOK, Inside, At, Procs
      <4>2. sem'["mutex"] = sem["mutex"] + 1
        BY <3>1 DEF UserUnlock, Post, TypeOK
      <4> QED  BY <4>1, <4>2, LockReturned
    <3>2. CASE Lock(u)
      BY <2>2, <3>2
    <3>3. CASE \/ UserLoop(u) \/ WaitEmpty(u) \/ WriteJob(u) \/ LoadTail(u)
               \/ StoreTail(u) \/ PostFull(u) \/ Sleep(u)
      <4>1. Inside' \subseteq Inside
        BY <3>3 DEF UserLoop, WaitEmpty, WriteJob, LoadTail, StoreTail, PostFull,
                    Sleep, TypeOK, Inside, At, Procs
      <4>2. sem'["mutex"] = sem["mutex"]
        BY <3>3 DEF UserLoop, WaitEmpty, WriteJob, LoadTail, StoreTail, PostFull,
                    Sleep, Wait, Post, TypeOK
      <4> QED  BY <4>1, <4>2, LockKept
    <3> QED  BY <2>4, <3>1, <3>2, <3>3 DEF User
  <2>5. ASSUME NEW p \in Procs, Disturb(p) PROVE LockInv'
    <3>1. CASE Leave(p) \/ Kill(p)
      <4>1. Inside' \subseteq Inside /\ sem'["mutex"] = sem["mutex"]
        BY <3>1 DEF Leave, Kill, TypeOK, Inside, At, Procs
      <4> QED  BY <4>1, LockKept
    <3> QED  BY <2>5, <3>1 DEF Disturb, Signal, Interrupt
  <2> QED  BY <2>1, <2>3, <2>4, <2>5 DEF Next, Restart
<1> QED  BY <1>1, <1>2, TypeCorrect, PTL DEF Spec

(* Two processes are never in the critical section at once, as long as no  *)
(* signal is handled and no second server started; processes may be killed *)
(* at any point                                                            *)
(* (printers_server.c:52-59 and 135-139, users_client.c:36-42).            *)
THEOREM LockHeldByOne ==
  ASSUME MaySignal = {}, ~MayRestart
  PROVE  Spec => []MutualExclusion
BY LockInvariant, PTL DEF LockInv

-----------------------------------------------------------------------------
(* Undisturbed, the semaphores and the places of the processes account for *)
(* every slot, and what is between head and tail are the jobs sent.        *)

Undisturbed == MaySignal = {} /\ MayKill = {} /\ ~MayRestart

(* Nobody has stopped.                                                     *)
CalmInv == \A p \in Procs : running[p] /\ pc[p] \notin {"leave", "gone"}

(* The index somebody is about to store is still the right one.            *)
IndexInv ==
  /\ \A p \in Printers : pc[p] = "store" => next[p] = Succ(head)
  /\ \A u \in Users : pc[u] = "store" => next[u] = Succ(tail)

LEMMA ModUnique ==
  ASSUME NEW m \in Nat \ {0}, NEW q \in Int, NEW r \in 0 .. m - 1
  PROVE  (m * q + r) % m = r
<1> DEFINE a == m * q + r
           p == a \div m
<1>1. a \in Int /\ p \in Int /\ a = m * p + (a % m) /\ (a % m) \in 0 .. m - 1
  BY SMT
<1> HIDE DEF p
<1>2. m * (q - p) = (a % m) - r
  BY <1>1
<1> HIDE DEF a
<1>3. q - p < 1 /\ q - p > -1
  BY <1>1, <1>2
<1>4. q = p
  BY <1>1, <1>3
<1> QED  BY <1>1, <1>2, <1>4 DEF a

(* Counting on in the ring from an index is counting on from where the     *)
(* index came from.                                                        *)
LEMMA ModPlus ==
  ASSUME NEW m \in Nat \ {0}, NEW a \in Nat, NEW b \in Nat
  PROVE  ((a % m) + b) % m = (a + b) % m
<1> DEFINE q == a \div m
           c == (a % m) + b
           d == c \div m
<1>1. q \in Int /\ a = m * q + (a % m) /\ (a % m) \in 0 .. m - 1
  BY SMT
<1>2. c \in Int /\ d \in Int /\ c = m * d + (c % m) /\ (c % m) \in 0 .. m - 1
  BY <1>1
<1> HIDE DEF q, d
<1>3. a + b = m * (q + d) + (c % m)
  <2>1. a + b = m * q + c
    BY <1>1
  <2>2. m * (q + d) = m * q + m * d
    BY <1>1, <1>2
  <2> HIDE DEF c
  <2> QED  BY <1>1, <1>2, <2>1, <2>2
<1>4. (m * (q + d) + (c % m)) % m = c % m
  <2> DEFINE e == q + d
             r == c % m
  <2>1. e \in Int /\ r \in 0 .. m - 1
    BY <1>1, <1>2
  <2> HIDE DEF e, r
  <2>2. (m * e + r) % m = r
    BY <2>1, ModUnique
  <2> QED  BY <2>2 DEF e, r
<1> QED  BY <1>3, <1>4

(* Less than a round apart, two indices differ.                            *)
LEMMA ModDiffers ==
  ASSUME NEW m \in Nat \ {0}, NEW a \in Nat, NEW d \in 1 .. m - 1
  PROVE  a % m # (a + d) % m
<1> DEFINE r == a % m
<1>1. r \in 0 .. m - 1
  BY SMT
<1>2. (a + d) % m = (r + d) % m
  <2>1. d \in Nat
    OBVIOUS
  <2> HIDE DEF r
  <2>2. ((a % m) + d) % m = (a + d) % m
    BY <2>1, ModPlus
  <2> QED  BY <2>2 DEF r
<1> HIDE DEF r
<1>3. CASE r + d < m
  <2>1. (m * 0 + (r + d)) % m = r + d
    BY <1>1, <1>3, ModUnique
  <2> QED  BY <1>1, <1>2, <2>1 DEF r
<1>4. CASE r + d >= m
  <2>1. r + d - m \in 0 .. m - 1
    BY <1>1, <1>4
  <2>2. (m * 1 + (r + d - m)) % m = r + d - m
    BY <2>1, ModUnique
  <2>3. m * 1 + (r + d - m) = r + d
    BY <1>1
  <2> QED  BY <1>1, <1>2, <2>2, <2>3 DEF r
<1> QED  BY <1>1, <1>3, <1>4

(* One process that moves changes the number of those at some places by    *)
(* one at most.                                                            *)
LEMMA AtMoved ==
  ASSUME TypeOK, NEW p \in Procs, NEW from, NEW to, Goto(p, from, to),
         NEW P \in SUBSET Procs, NEW L
  PROVE  /\ Cardinality(At(P, L)) \in Nat
         /\ p \in P /\ from \in L => Cardinality(At(P, L)) > 0
         /\ Cardinality(At(P, L)') =
              Cardinality(At(P, L)) + (IF p \in P /\ to \in L THEN 1 ELSE 0)
                                    - (IF p \in P /\ from \in L THEN 1 ELSE 0)
<1>1. IsFiniteSet(At(P, L)) /\ Cardinality(At(P, L)) \in Nat
  BY PrintQueueAssumption, FS_Subset, FS_CardinalityType DEF At
<1>2. At(P, L)' = IF p \in P /\ to \in L THEN At(P, L) \cup {p} ELSE At(P, L) \ {p}
  BY DEF At, Goto, TypeOK
<1>3. p \in At(P, L) <=> p \in P /\ from \in L
  BY DEF At, Goto
<1>4. /\ Cardinality(At(P, L) \cup {p}) =
           IF p \in At(P, L) THEN Cardinality(At(P, L)) ELSE Cardinality(At(P, L)) + 1
      /\ Cardinality(At(P, L) \ {p}) =
           IF p \in At(P, L) THEN Cardinality(At(P, L)) - 1 ELSE Cardinality(At(P, L))
  BY <1>1, FS_AddElement, FS_RemoveElement
<1>5. p \in At(P, L) => Cardinality(At(P, L)) > 0
  BY <1>1, FS_EmptySet
<1> HIDE DEF At
<1> QED  BY <1>1, <1>2, <1>3, <1>4, <1>5

(* The counts Stored and Reserved are made of.                             *)
Taking   == Cardinality(At(Printers, {"lock", "copy", "load", "store"}))
Passed   == Cardinality(At(Printers, {"unlock", "post"}))
Putting  == Cardinality(At(Users, {"lock", "copy", "load", "store"}))
Uncounted == Cardinality(At(Users, {"post"}))

LEMMA PrinterMoved ==
  ASSUME TypeOK, NEW p \in Printers, NEW from, NEW to, Goto(p, from, to)
  PROVE  /\ Taking \in Nat /\ Passed \in Nat /\ Putting \in Nat /\ Uncounted \in Nat
         /\ from \in {"lock", "copy", "load", "store"} => Taking > 0
         /\ Taking' = Taking + (IF to \in {"lock", "copy", "load", "store"} THEN 1 ELSE 0)
                             - (IF from \in {"lock", "copy", "load", "store"} THEN 1 ELSE 0)
         /\ Passed' = Passed + (IF to \in {"unlock", "post"} THEN 1 ELSE 0)
                             - (IF from \in {"unlock", "post"} THEN 1 ELSE 0)
         /\ Putting' = Putting /\ Uncounted' = Uncounted
<1> p \in Procs /\ p \notin Users /\ Printers \in SUBSET Procs /\ Users \in SUBSET Procs
  BY PrintQueueAssumption DEF Procs
<1>1. \A P \in {Printers, Users} : \A L :
        /\ Cardinality(At(P, L)) \in Nat
        /\ p \in P /\ from \in L => Cardinality(At(P, L)) > 0
        /\ Cardinality(At(P, L)') =
              Cardinality(At(P, L)) + (IF p \in P /\ to \in L THEN 1 ELSE 0)
                                    - (IF p \in P /\ from \in L THEN 1 ELSE 0)
  BY AtMoved
<1> QED  BY <1>1 DEF Taking, Passed, Putting, Uncounted

LEMMA UserMoved ==
  ASSUME TypeOK, NEW u \in Users, NEW from, NEW to, Goto(u, from, to)
  PROVE  /\ Taking \in Nat /\ Passed \in Nat /\ Putting \in Nat /\ Uncounted \in Nat
         /\ from \in {"lock", "copy", "load", "store"} => Putting > 0
         /\ Putting' = Putting + (IF to \in {"lock", "copy", "load", "store"} THEN 1 ELSE 0)
                               - (IF from \in {"lock", "copy", "load", "store"} THEN 1 ELSE 0)
         /\ Uncounted' = Uncounted + (IF to = "post" THEN 1 ELSE 0) - (IF from = "post" THEN 1 ELSE 0)
         /\ Taking' = Taking /\ Passed' = Passed
<1> u \in Procs /\ u \notin Printers /\ Printers \in SUBSET Procs /\ Users \in SUBSET Procs
  BY PrintQueueAssumption DEF Procs
<1>1. \A P \in {Printers, Users} : \A L :
        /\ Cardinality(At(P, L)) \in Nat
        /\ u \in P /\ from \in L => Cardinality(At(P, L)) > 0
        /\ Cardinality(At(P, L)') =
              Cardinality(At(P, L)) + (IF u \in P /\ to \in L THEN 1 ELSE 0)
                                    - (IF u \in P /\ from \in L THEN 1 ELSE 0)
  BY AtMoved
<1> QED  BY <1>1 DEF Taking, Passed, Putting, Uncounted


LEMMA Accounts ==
  /\ Stored = sem["full"] + Taking + Uncounted /\ Reserved = sem["empty"] + Putting + Passed
  /\ Stored' = sem'["full"] + Taking' + Uncounted'
  /\ Reserved' = sem'["empty"] + Putting' + Passed'
  BY DEF Stored, Reserved, Taking, Passed, Putting, Uncounted

(* What a process at l adds to the counts.                                 *)
InTurn(l)   == IF l \in {"lock", "copy", "load", "store"} THEN 1 ELSE 0
InReturn(l) == IF l \in {"unlock", "post"} THEN 1 ELSE 0
InPost(l)   == IF l = "post" THEN 1 ELSE 0

LEMMA Weights ==
  /\ \A l \in {"lock", "copy", "load", "store"} : InTurn(l) = 1 /\ InReturn(l) = 0 /\ InPost(l) = 0
  /\ \A l \in {"top", "wait", "done"} : InTurn(l) = 0 /\ InReturn(l) = 0 /\ InPost(l) = 0
  /\ InTurn("unlock") = 0 /\ InReturn("unlock") = 1 /\ InPost("unlock") = 0
  /\ InTurn("post") = 0 /\ InReturn("post") = 1 /\ InPost("post") = 1
  BY DEF InTurn, InReturn, InPost

(* What a printer's move does to the account.                              *)
LEMMA PrinterCounts ==
  ASSUME TypeOK, NEW p \in Printers, NEW from \in Labels, NEW to \in Labels, Goto(p, from, to),
         NEW f \in Int, NEW e \in Int,
         sem'["full"] = sem["full"] + f, sem'["empty"] = sem["empty"] + e
  PROVE  /\ Stored \in Nat /\ Reserved \in Nat
         /\ from \in {"lock", "copy", "load", "store"} => Stored > 0
         /\ Stored' = Stored + f + InTurn(to)
                                 - InTurn(from)
         /\ Reserved' = Reserved + e + InReturn(to)
                                     - InReturn(from)
<1>1. sem["full"] \in Nat /\ sem["empty"] \in Nat
  BY DEF TypeOK
<1>2. /\ Taking \in Nat /\ Passed \in Nat /\ Putting \in Nat /\ Uncounted \in Nat
      /\ from \in {"lock", "copy", "load", "store"} => Taking > 0
      /\ Taking' = Taking + InTurn(to)
                          - InTurn(from)
      /\ Passed' = Passed + InReturn(to)
                          - InReturn(from)
      /\ Putting' = Putting /\ Uncounted' = Uncounted
  BY PrinterMoved DEF InTurn, InReturn
<1>3. InTurn(to) \in Int /\ InTurn(from) \in Int /\ InReturn(to) \in Int /\ InReturn(from) \in Int
  BY DEF InTurn, InReturn
<1>4. Stored \in Nat /\ Reserved \in Nat
  BY <1>1, <1>2, Accounts
<1>5. Stored' = Stored + f + InTurn(to) - InTurn(from) /\ Reserved' = Reserved + e + InReturn(to) - InReturn(from)
  BY <1>1, <1>2, <1>3, Accounts
<1>6. from \in {"lock", "copy", "load", "store"} => Stored > 0
  BY <1>1, <1>2, Accounts
<1> QED  BY <1>4, <1>5, <1>6

(* What a user's does.                                                     *)
LEMMA UserCounts ==
  ASSUME TypeOK, NEW u \in Users, NEW from \in Labels, NEW to \in Labels, Goto(u, from, to),
         NEW f \in Int, NEW e \in Int,
         sem'["full"] = sem["full"] + f, sem'["empty"] = sem["empty"] + e
  PROVE  /\ Stored \in Nat /\ Reserved \in Nat
         /\ from \in {"lock", "copy", "load", "store"} => Reserved > 0
         /\ Stored' = Stored + f + InPost(to) - InPost(from)
         /\ Reserved' = Reserved + e
                           + InTurn(to)
                           - InTurn(from)
<1>1. sem["full"] \in Nat /\ sem["empty"] \in Nat
  BY DEF TypeOK
<1>2. /\ Taking \in Nat /\ Passed \in Nat /\ Putting \in Nat /\ Uncounted \in Nat
      /\ from \in {"lock", "copy", "load", "store"} => Putting > 0
      /\ Putting' = Putting + InTurn(to)
                            - InTurn(from)
      /\ Uncounted' = Uncounted + InPost(to) - InPost(from)
      /\ Taking' = Taking /\ Passed' = Passed
  BY UserMoved DEF InTurn, InPost
<1>3. InTurn(to) \in Int /\ InTurn(from) \in Int /\ InPost(to) \in Int /\ InPost(from) \in Int
  BY DEF InTurn, InPost
<1>4. Stored \in Nat /\ Reserved \in Nat
  BY <1>1, <1>2, Accounts
<1>5. Stored' = Stored + f + InPost(to) - InPost(from) /\ Reserved' = Reserved + e + InTurn(to) - InTurn(from)
  BY <1>1, <1>2, <1>3, Accounts
<1>6. from \in {"lock", "copy", "load", "store"} => Reserved > 0
  BY <1>1, <1>2, Accounts
<1> QED  BY <1>4, <1>5, <1>6

(* The indices agree with the account.                                     *)
CountInv == CalmInv /\ RingAccounted /\ IndexInv

LEMMA InitCount == Init => CountInv
<1> SUFFICES ASSUME Init PROVE CountInv
  OBVIOUS
<1>1. At(Printers, {"lock", "copy", "load", "store"}) = {} /\ At(Users, {"post"}) = {}
  BY DEF Init, At, Procs
<1>2. At(Users, {"lock", "copy", "load", "store"}) = {} /\ At(Printers, {"unlock", "post"}) = {}
  BY DEF Init, At, Procs
<1>3. sem["full"] = 0 /\ sem["empty"] = MaxJobs
  BY DEF Init, NewSem
<1>4. Stored = 0 /\ Reserved = MaxJobs
  BY <1>1, <1>2, <1>3, FS_EmptySet, PrintQueueAssumption DEF Stored, Reserved
<1>5. head = 0 /\ tail = 0
  BY DEF Init
<1>6. 0 % MaxJobs = 0
  BY PrintQueueAssumption
<1>7. RingAccounted
  BY <1>4, <1>5, <1>6, PrintQueueAssumption DEF RingAccounted
<1>8. CalmInv /\ IndexInv
  BY DEF Init, CalmInv, IndexInv, Procs
<1> QED  BY <1>7, <1>8 DEF CountInv

(* The index is kept as long as the ring and the account are.              *)
LEMMA RingStill ==
  ASSUME RingAccounted, Stored' = Stored, Reserved' = Reserved, head' = head, tail' = tail
  PROVE  RingAccounted'
  BY DEF RingAccounted

LEMMA HeadStored ==
  ASSUME TypeOK, RingAccounted, Stored \in Nat, Stored > 0, Reserved \in Nat, head' = Succ(head), tail' = tail,
         Stored' = Stored - 1, Reserved' = Reserved + 1
  PROVE  RingAccounted'
<1>1. MaxJobs \in Nat \ {0} /\ head \in Nat
  BY PrintQueueAssumption DEF TypeOK, Index
<1>2. Stored - 1 \in Nat /\ head + 1 \in Nat
  BY <1>1
<1>3. (((head + 1) % MaxJobs) + (Stored - 1)) % MaxJobs = ((head + 1) + (Stored - 1)) % MaxJobs
  BY <1>1, <1>2, ModPlus
<1>4. (head + 1) + (Stored - 1) = head + Stored
  BY <1>1
<1>5. tail' = (head' + Stored') % MaxJobs
  BY <1>3, <1>4 DEF Succ, RingAccounted
<1>6. Stored' + Reserved' = MaxJobs
  BY <1>1 DEF RingAccounted
<1> QED  BY <1>5, <1>6 DEF RingAccounted

LEMMA TailStored ==
  ASSUME TypeOK, RingAccounted, Stored \in Nat, Reserved \in Nat, head' = head, tail' = Succ(tail),
         Stored' = Stored + 1, Reserved' = Reserved - 1
  PROVE  RingAccounted'
<1>1. MaxJobs \in Nat \ {0} /\ head \in Nat
  BY PrintQueueAssumption DEF TypeOK, Index
<1>2. (((head + Stored) % MaxJobs) + 1) % MaxJobs = ((head + Stored) + 1) % MaxJobs
  <2>1. head + Stored \in Nat /\ 1 \in Nat
    BY <1>1
  <2> QED  BY <1>1, <2>1, ModPlus
<1>3. (head + Stored) + 1 = head + (Stored + 1)
  BY <1>1
<1>4. tail' = (head' + Stored') % MaxJobs
  BY <1>2, <1>3 DEF Succ, RingAccounted
<1>5. Stored' + Reserved' = MaxJobs
  BY <1>1 DEF RingAccounted
<1> QED  BY <1>4, <1>5 DEF RingAccounted

(* A printer's steps keep the index of every other process.                *)
LEMMA CalmKept ==
  ASSUME TypeOK, CalmInv, NEW p \in Procs, NEW from, NEW to \in Labels \ {"leave", "gone"},
         Goto(p, from, to), running' = running
  PROVE  CalmInv'
  BY DEF CalmInv, Goto, TypeOK

(* A process in the critical section is there alone.                       *)
LEMMA Alone ==
  ASSUME LockInv, NEW p \in Procs, NEW q \in Procs,
         pc[p] \in {"copy", "load", "store", "unlock"}, pc[q] \in {"copy", "load", "store", "unlock"}
  PROVE  p = q
  BY DEF LockInv, MutualExclusion, Inside, At

(* A printer's turn moves one slot from the jobs to the free slots, when   *)
(* it stores head.                                                         *)
LEMMA PrinterAccount ==
  ASSUME TypeOK, CalmInv, NEW p \in Printers, Printer(p)
  PROVE  /\ Stored \in Nat /\ Reserved \in Nat
         /\ pc[p] = "store" => Stored > 0 /\ Stored' = Stored - 1 /\ Reserved' = Reserved + 1
         /\ pc[p] # "store" => Stored' = Stored /\ Reserved' = Reserved
<1>0. sem["full"] \in Nat /\ sem["empty"] \in Nat /\ 0 \in Int /\ 1 \in Int /\ -1 \in Int
  BY DEF TypeOK
<1> p \in Procs
  BY DEF Procs
<1>1. CASE PrinterLoop(p)
  <2>1. Goto(p, "top", "wait") /\ "top" \in Labels /\ "wait" \in Labels
    BY <1>1 DEF PrinterLoop, Labels, CalmInv
  <2>2. sem'["full"] = sem["full"] + 0 /\ sem'["empty"] = sem["empty"] + 0
    BY <1>1, <1>0 DEF PrinterLoop, Wait, Post, TypeOK, shared
  <2>3. Stored \in Nat /\ Reserved \in Nat /\ Stored' = Stored /\ Reserved' = Reserved
    BY <1>0, <2>1, <2>2, PrinterCounts, Weights
  <2> QED  BY <2>1, <2>3 DEF Goto
<1>2. CASE WaitFull(p)
  <2>1. Goto(p, "wait", "lock") /\ "wait" \in Labels /\ "lock" \in Labels
    BY <1>2 DEF WaitFull, Labels
  <2>2. sem'["full"] = sem["full"] + -1 /\ sem'["empty"] = sem["empty"] + 0
    BY <1>2, <1>0 DEF WaitFull, Wait, Post, TypeOK, shared
  <2>3. Stored \in Nat /\ Reserved \in Nat /\ Stored' = Stored /\ Reserved' = Reserved
    BY <1>0, <2>1, <2>2, PrinterCounts, Weights
  <2> QED  BY <2>1, <2>3 DEF Goto
<1>3. CASE Lock(p)
  <2>1. Goto(p, "lock", "copy") /\ "lock" \in Labels /\ "copy" \in Labels
    BY <1>3 DEF Lock, Labels
  <2>2. sem'["full"] = sem["full"] + 0 /\ sem'["empty"] = sem["empty"] + 0
    BY <1>3, <1>0 DEF Lock, Wait, Post, TypeOK, shared
  <2>3. Stored \in Nat /\ Reserved \in Nat /\ Stored' = Stored /\ Reserved' = Reserved
    BY <1>0, <2>1, <2>2, PrinterCounts, Weights
  <2> QED  BY <2>1, <2>3 DEF Goto
<1>4. CASE CopyJob(p)
  <2>1. Goto(p, "copy", "load") /\ "copy" \in Labels /\ "load" \in Labels
    BY <1>4 DEF CopyJob, Labels
  <2>2. sem'["full"] = sem["full"] + 0 /\ sem'["empty"] = sem["empty"] + 0
    BY <1>4, <1>0 DEF CopyJob, Wait, Post, TypeOK, shared
  <2>3. Stored \in Nat /\ Reserved \in Nat /\ Stored' = Stored /\ Reserved' = Reserved
    BY <1>0, <2>1, <2>2, PrinterCounts, Weights
  <2> QED  BY <2>1, <2>3 DEF Goto
<1>5. CASE LoadHead(p)
  <2>1. Goto(p, "load", "store") /\ "load" \in Labels /\ "store" \in Labels
    BY <1>5 DEF LoadHead, Labels
  <2>2. sem'["full"] = sem["full"] + 0 /\ sem'["empty"] = sem["empty"] + 0
    BY <1>5, <1>0 DEF LoadHead, Wait, Post, TypeOK, shared
  <2>3. Stored \in Nat /\ Reserved \in Nat /\ Stored' = Stored /\ Reserved' = Reserved
    BY <1>0, <2>1, <2>2, PrinterCounts, Weights
  <2> QED  BY <2>1, <2>3 DEF Goto
<1>6. CASE StoreHead(p)
  <2>1. Goto(p, "store", "unlock") /\ "store" \in Labels /\ "unlock" \in Labels
    BY <1>6 DEF StoreHead, Labels
  <2>2. sem'["full"] = sem["full"] + 0 /\ sem'["empty"] = sem["empty"] + 0
    BY <1>6, <1>0 DEF StoreHead, Wait, Post, TypeOK, shared
  <2>3. /\ Stored \in Nat /\ Reserved \in Nat /\ Stored > 0
        /\ Stored' = Stored - 1 /\ Reserved' = Reserved + 1
    BY <1>0, <2>1, <2>2, PrinterCounts, Weights
  <2> QED  BY <2>1, <2>3 DEF Goto
<1>7. CASE PrinterUnlock(p)
  <2>1. Goto(p, "unlock", "post") /\ "unlock" \in Labels /\ "post" \in Labels
    BY <1>7 DEF PrinterUnlock, Labels
  <2>2. sem'["full"] = sem["full"] + 0 /\ sem'["empty"] = sem["empty"] + 0
    BY <1>7, <1>0 DEF PrinterUnlock, Wait, Post, TypeOK, shared
  <2>3. Stored \in Nat /\ Reserved \in Nat /\ Stored' = Stored /\ Reserved' = Reserved
    BY <1>0, <2>1, <2>2, PrinterCounts, Weights
  <2> QED  BY <2>1, <2>3 DEF Goto
<1>8. CASE PostEmpty(p)
  <2>1. Goto(p, "post", "done") /\ "post" \in Labels /\ "done" \in Labels
    BY <1>8 DEF PostEmpty, Labels
  <2>2. sem'["full"] = sem["full"] + 0 /\ sem'["empty"] = sem["empty"] + 1
    BY <1>8, <1>0 DEF PostEmpty, Wait, Post, TypeOK, shared
  <2>3. Stored \in Nat /\ Reserved \in Nat /\ Stored' = Stored /\ Reserved' = Reserved
    BY <1>0, <2>1, <2>2, PrinterCounts, Weights
  <2> QED  BY <2>1, <2>3 DEF Goto
<1>9. CASE PrintJob(p)
  <2>1. Goto(p, "done", "top") /\ "done" \in Labels /\ "top" \in Labels
    BY <1>9 DEF PrintJob, Labels
  <2>2. sem'["full"] = sem["full"] + 0 /\ sem'["empty"] = sem["empty"] + 0
    BY <1>9, <1>0 DEF PrintJob, Wait, Post, TypeOK, shared
  <2>3. Stored \in Nat /\ Reserved \in Nat /\ Stored' = Stored /\ Reserved' = Reserved
    BY <1>0, <2>1, <2>2, PrinterCounts, Weights
  <2> QED  BY <2>1, <2>3 DEF Goto
<1> QED  BY <1>1, <1>2, <1>3, <1>4, <1>5, <1>6, <1>7, <1>8, <1>9 DEF Printer

(* A user's moves one the other way, when it stores tail.                  *)
LEMMA UserAccount ==
  ASSUME TypeOK, CalmInv, NEW u \in Users, User(u)
  PROVE  /\ Stored \in Nat /\ Reserved \in Nat
         /\ pc[u] \in {"copy", "store"} => Reserved > 0
         /\ pc[u] = "store" => Stored' = Stored + 1 /\ Reserved' = Reserved - 1
         /\ pc[u] # "store" => Stored' = Stored /\ Reserved' = Reserved
<1>0. sem["full"] \in Nat /\ sem["empty"] \in Nat /\ 0 \in Int /\ 1 \in Int /\ -1 \in Int
  BY DEF TypeOK
<1> u \in Procs
  BY DEF Procs
<1>1. CASE UserLoop(u)
  <2>1. Goto(u, "top", "wait") /\ "top" \in Labels /\ "wait" \in Labels
    BY <1>1 DEF UserLoop, Labels, CalmInv
  <2>2. sem'["full"] = sem["full"] + 0 /\ sem'["empty"] = sem["empty"] + 0
    BY <1>1, <1>0 DEF UserLoop, Wait, Post, TypeOK, shared
  <2>3. Stored \in Nat /\ Reserved \in Nat /\ Stored' = Stored /\ Reserved' = Reserved
    BY <1>0, <2>1, <2>2, UserCounts, Weights
  <2> QED  BY <2>1, <2>3 DEF Goto
<1>2. CASE WaitEmpty(u)
  <2>1. Goto(u, "wait", "lock") /\ "wait" \in Labels /\ "lock" \in Labels
    BY <1>2 DEF WaitEmpty, Labels
  <2>2. sem'["full"] = sem["full"] + 0 /\ sem'["empty"] = sem["empty"] + -1
    BY <1>2, <1>0 DEF WaitEmpty, Wait, Post, TypeOK, shared
  <2>3. Stored \in Nat /\ Reserved \in Nat /\ Stored' = Stored /\ Reserved' = Reserved
    BY <1>0, <2>1, <2>2, UserCounts, Weights
  <2> QED  BY <2>1, <2>3 DEF Goto
<1>3. CASE Lock(u)
  <2>1. Goto(u, "lock", "copy") /\ "lock" \in Labels /\ "copy" \in Labels
    BY <1>3 DEF Lock, Labels
  <2>2. sem'["full"] = sem["full"] + 0 /\ sem'["empty"] = sem["empty"] + 0
    BY <1>3, <1>0 DEF Lock, Wait, Post, TypeOK, shared
  <2>3. Stored \in Nat /\ Reserved \in Nat /\ Stored' = Stored /\ Reserved' = Reserved
    BY <1>0, <2>1, <2>2, UserCounts, Weights
  <2> QED  BY <2>1, <2>3 DEF Goto
<1>4. CASE WriteJob(u)
  <2>1. Goto(u, "copy", "load") /\ "copy" \in Labels /\ "load" \in Labels
    BY <1>4 DEF WriteJob, Labels
  <2>2. sem'["full"] = sem["full"] + 0 /\ sem'["empty"] = sem["empty"] + 0
    BY <1>4, <1>0 DEF WriteJob, Wait, Post, TypeOK, shared
  <2>3. Stored \in Nat /\ Reserved \in Nat /\ Stored' = Stored /\ Reserved' = Reserved /\ Reserved > 0
    BY <1>0, <2>1, <2>2, UserCounts, Weights
  <2> QED  BY <2>1, <2>3 DEF Goto
<1>5. CASE LoadTail(u)
  <2>1. Goto(u, "load", "store") /\ "load" \in Labels /\ "store" \in Labels
    BY <1>5 DEF LoadTail, Labels
  <2>2. sem'["full"] = sem["full"] + 0 /\ sem'["empty"] = sem["empty"] + 0
    BY <1>5, <1>0 DEF LoadTail, Wait, Post, TypeOK, shared
  <2>3. Stored \in Nat /\ Reserved \in Nat /\ Stored' = Stored /\ Reserved' = Reserved
    BY <1>0, <2>1, <2>2, UserCounts, Weights
  <2> QED  BY <2>1, <2>3 DEF Goto
<1>6. CASE StoreTail(u)
  <2>1. Goto(u, "store", "post") /\ "store" \in Labels /\ "post" \in Labels
    BY <1>6 DEF StoreTail, Labels
  <2>2. sem'["full"] = sem["full"] + 0 /\ sem'["empty"] = sem["empty"] + 0
    BY <1>6, <1>0 DEF StoreTail, Wait, Post, TypeOK, shared
  <2>3. /\ Stored \in Nat /\ Reserved \in Nat /\ Reserved > 0
        /\ Stored' = Stored + 1 /\ Reserved' = Reserved - 1
    BY <1>0, <2>1, <2>2, UserCounts, Weights
  <2> QED  BY <2>1, <2>3 DEF Goto
<1>7. CASE PostFull(u)
  <2>1. Goto(u, "post", "unlock") /\ "post" \in Labels /\ "unlock" \in Labels
    BY <1>7 DEF PostFull, Labels
  <2>2. sem'["full"] = sem["full"] + 1 /\ sem'["empty"] = sem["empty"] + 0
    BY <1>7, <1>0 DEF PostFull, Wait, Post, TypeOK, shared
  <2>3. Stored \in Nat /\ Reserved \in Nat /\ Stored' = Stored /\ Reserved' = Reserved
    BY <1>0, <2>1, <2>2, UserCounts, Weights
  <2> QED  BY <2>1, <2>3 DEF Goto
<1>8. CASE UserUnlock(u)
  <2>1. Goto(u, "unlock", "done") /\ "unlock" \in Labels /\ "done" \in Labels
    BY <1>8 DEF UserUnlock, Labels
  <2>2. sem'["full"] = sem["full"] + 0 /\ sem'["empty"] = sem["empty"] + 0
    BY <1>8, <1>0 DEF UserUnlock, Wait, Post, TypeOK, shared
  <2>3. Stored \in Nat /\ Reserved \in Nat /\ Stored' = Stored /\ Reserved' = Reserved
    BY <1>0, <2>1, <2>2, UserCounts, Weights
  <2> QED  BY <2>1, <2>3 DEF Goto
<1>9. CASE Sleep(u)
  <2>1. Goto(u, "done", "top") /\ "done" \in Labels /\ "top" \in Labels
    BY <1>9 DEF Sleep, Labels
  <2>2. sem'["full"] = sem["full"] + 0 /\ sem'["empty"] = sem["empty"] + 0
    BY <1>9, <1>0 DEF Sleep, Wait, Post, TypeOK, shared
  <2>3. Stored \in Nat /\ Reserved \in Nat /\ Stored' = Stored /\ Reserved' = Reserved
    BY <1>0, <2>1, <2>2, UserCounts, Weights
  <2> QED  BY <2>1, <2>3 DEF Goto
<1> QED  BY <1>1, <1>2, <1>3, <1>4, <1>5, <1>6, <1>7, <1>8, <1>9 DEF User

(* Undisturbed, a process goes on to a place of its turn.                  *)
LEMMA PrinterCalm ==
  ASSUME TypeOK, CalmInv, NEW p \in Printers, Printer(p)
  PROVE  CalmInv'
<1>1. PICK from, to \in Labels \ {"leave", "gone"} : Goto(p, from, to)
  BY DEF Printer, PrinterLoop, WaitFull, Lock, CopyJob, LoadHead, StoreHead, PrinterUnlock,
         PostEmpty, PrintJob, Goto, CalmInv, Labels, Procs
<1>2. running' = running
  BY DEF Printer, PrinterLoop, WaitFull, Lock, CopyJob, LoadHead, StoreHead, PrinterUnlock,
         PostEmpty, PrintJob, locals
<1> QED  BY <1>1, <1>2, CalmKept DEF Procs

LEMMA UserCalm ==
  ASSUME TypeOK, CalmInv, NEW u \in Users, User(u)
  PROVE  CalmInv'
<1>1. PICK from, to \in Labels \ {"leave", "gone"} : Goto(u, from, to)
  BY DEF User, UserLoop, WaitEmpty, Lock, WriteJob, LoadTail, StoreTail, PostFull, UserUnlock,
         Sleep, Goto, CalmInv, Labels, Procs
<1>2. running' = running
  BY DEF User, UserLoop, WaitEmpty, Lock, WriteJob, LoadTail, StoreTail, PostFull, UserUnlock,
         Sleep, locals
<1> QED  BY <1>1, <1>2, CalmKept DEF Procs

(* A step of a printer keeps the account.                                  *)
LEMMA PrinterCount ==
  ASSUME LockInv, CountInv, NEW p \in Printers, Printer(p)
  PROVE  CountInv'
<1> TypeOK /\ CalmInv /\ RingAccounted /\ IndexInv /\ p \in Procs /\ p \notin Users
  BY PrintQueueAssumption DEF LockInv, CountInv, Procs
<1>1. CASE StoreHead(p)
  <2>1. /\ Goto(p, "store", "unlock")
        /\ head' = next[p] /\ tail' = tail /\ running' = running /\ next' = next
    BY <1>1 DEF StoreHead, locals
  <2>2. /\ Stored \in Nat /\ Reserved \in Nat /\ Stored > 0
        /\ Stored' = Stored - 1 /\ Reserved' = Reserved + 1
    BY <2>1, PrinterAccount DEF Goto
  <2>3. head' = Succ(head)
    BY <2>1 DEF IndexInv, Goto
  <2>4. RingAccounted'
    BY <2>1, <2>2, <2>3, HeadStored
  <2>5. \A q \in Printers : pc'[q] # "store"
    BY <2>1, Alone DEF Goto, TypeOK, Procs
  <2>6. IndexInv'
    BY <2>1, <2>5 DEF IndexInv, Goto, TypeOK, Succ
  <2> QED  BY <2>4, <2>6, PrinterCalm DEF CountInv
<1>2. CASE LoadHead(p)
  <2>1. /\ Goto(p, "load", "store") /\ head' = head /\ tail' = tail
        /\ next' = [next EXCEPT ![p] = Succ(head)]
    BY <1>2 DEF LoadHead, shared
  <2>2. RingAccounted'
    BY <2>1, PrinterAccount, RingStill DEF Goto
  <2>3. IndexInv'
    BY <2>1 DEF IndexInv, Goto, TypeOK, Succ
  <2> QED  BY <2>2, <2>3, PrinterCalm DEF CountInv
<1>3. CASE \/ PrinterLoop(p) \/ WaitFull(p) \/ Lock(p) \/ CopyJob(p) \/ PrinterUnlock(p)
           \/ PostEmpty(p) \/ PrintJob(p)
  <2>1. PICK from, to \in Labels \ {"store"} : Goto(p, from, to)
    BY <1>3 DEF PrinterLoop, WaitFull, Lock, CopyJob, PrinterUnlock, PostEmpty, PrintJob,
                Goto, Labels
  <2>2. head' = head /\ tail' = tail /\ next' = next
    BY <1>3 DEF PrinterLoop, WaitFull, Lock, CopyJob, PrinterUnlock, PostEmpty, PrintJob,
                shared, locals
  <2>3. RingAccounted'
    BY <2>1, <2>2, PrinterAccount, RingStill DEF Goto
  <2>4. IndexInv'
    BY <2>1, <2>2 DEF IndexInv, Goto, TypeOK, Succ
  <2> QED  BY <2>3, <2>4, PrinterCalm DEF CountInv
<1> QED  BY <1>1, <1>2, <1>3 DEF Printer

(* So does a step of a user.                                               *)
LEMMA UserCount ==
  ASSUME LockInv, CountInv, NEW u \in Users, User(u)
  PROVE  CountInv'
<1> TypeOK /\ CalmInv /\ RingAccounted /\ IndexInv /\ u \in Procs /\ u \notin Printers
  BY PrintQueueAssumption DEF LockInv, CountInv, Procs
<1>1. CASE StoreTail(u)
  <2>1. /\ Goto(u, "store", "post")
        /\ head' = head /\ tail' = next[u] /\ running' = running /\ next' = next
    BY <1>1 DEF StoreTail, locals
  <2>2. /\ Stored \in Nat /\ Reserved \in Nat
        /\ Stored' = Stored + 1 /\ Reserved' = Reserved - 1
    BY <2>1, UserAccount DEF Goto
  <2>3. tail' = Succ(tail)
    BY <2>1 DEF IndexInv, Goto
  <2>4. RingAccounted'
    BY <2>1, <2>2, <2>3, TailStored
  <2>5. \A v \in Users : pc'[v] # "store"
    BY <2>1, Alone DEF Goto, TypeOK, Procs
  <2>6. IndexInv'
    BY <2>1, <2>5 DEF IndexInv, Goto, TypeOK, Succ
  <2> QED  BY <2>4, <2>6, UserCalm DEF CountInv
<1>2. CASE LoadTail(u)
  <2>1. /\ Goto(u, "load", "store") /\ head' = head /\ tail' = tail
        /\ next' = [next EXCEPT ![u] = Succ(tail)]
    BY <1>2 DEF LoadTail, shared
  <2>2. RingAccounted'
    BY <2>1, UserAccount, RingStill DEF Goto
  <2>3. IndexInv'
    BY <2>1 DEF IndexInv, Goto, TypeOK, Succ
  <2> QED  BY <2>2, <2>3, UserCalm DEF CountInv
<1>3. CASE \/ UserLoop(u) \/ WaitEmpty(u) \/ Lock(u) \/ WriteJob(u) \/ PostFull(u)
           \/ UserUnlock(u) \/ Sleep(u)
  <2>1. PICK from, to \in Labels \ {"store"} : Goto(u, from, to)
    BY <1>3 DEF UserLoop, WaitEmpty, Lock, WriteJob, PostFull, UserUnlock, Sleep, Goto, Labels
  <2>2. head' = head /\ tail' = tail /\ next' = next
    BY <1>3 DEF UserLoop, WaitEmpty, Lock, WriteJob, PostFull, UserUnlock, Sleep, shared, locals
  <2>3. RingAccounted'
    BY <2>1, <2>2, UserAccount, RingStill DEF Goto
  <2>4. IndexInv'
    BY <2>1, <2>2 DEF IndexInv, Goto, TypeOK, Succ
  <2> QED  BY <2>3, <2>4, UserCalm DEF CountInv
<1> QED  BY <1>1, <1>2, <1>3 DEF User

(* Undisturbed, nobody does anything else.                                 *)
LEMMA NobodyDisturbs ==
  ASSUME Undisturbed, CalmInv, NEW p \in Procs, Disturb(p)
  PROVE  FALSE
  BY DEF Undisturbed, CalmInv, Disturb, Signal, Interrupt, Leave, Kill

LEMMA CountInvariant ==
  ASSUME Undisturbed
  PROVE  Spec => []CountInv
<1>1. Init => CountInv
  BY InitCount
<1>2. LockInv /\ CountInv /\ [Next]_vars => CountInv'
  <2> SUFFICES ASSUME LockInv, CountInv, [Next]_vars PROVE CountInv'
    OBVIOUS
  <2>1. CASE UNCHANGED vars
    BY <2>1 DEF CountInv, CalmInv, RingAccounted, IndexInv, Stored, Reserved, At, Succ, vars,
                shared, locals
  <2>2. CASE \E p \in Procs : Disturb(p)
    BY <2>2, NobodyDisturbs DEF CountInv
  <2>3. ~Restart
    BY DEF Undisturbed, Restart
  <2> QED  BY <2>1, <2>2, <2>3, PrinterCount, UserCount DEF Next
<1>3. Spec => []LockInv
  BY LockInvariant DEF Undisturbed
<1> QED  BY <1>1, <1>2, <1>3, PTL DEF Spec

(* While nobody is signalled, killed or restarted, every slot of the ring  *)
(* is accounted for and tail is as far ahead of head as the account says:  *)
(* no user writes a slot whose job no printer has taken                    *)
(* (printers_server.c:50-60, users_client.c:31-43).                        *)
THEOREM RingIsAccounted ==
  ASSUME Undisturbed
  PROVE  Spec => []RingAccounted
BY CountInvariant, PTL DEF CountInv

-----------------------------------------------------------------------------
(* What is in the ring, and that it is the queue promised.                 *)

(* Where the i-th job of the queue is.                                     *)
Slot(h, i) == (h + i - 1) % MaxJobs

LEMMA SlotType ==
  ASSUME NEW h \in Nat, NEW i \in Nat \ {0}
  PROVE  Slot(h, i) \in Index
<1>1. h + i - 1 \in Nat
  OBVIOUS
<1> QED  BY <1>1, PrintQueueAssumption DEF Slot, Index

(* The first job is at head.                                               *)
LEMMA FirstSlot ==
  ASSUME NEW h \in Index
  PROVE  Slot(h, 1) = h
<1>1. MaxJobs \in Nat \ {0} /\ h \in 0 .. MaxJobs - 1 /\ 0 \in Int
  BY PrintQueueAssumption DEF Index
<1>2. (MaxJobs * 0 + h) % MaxJobs = h
  BY <1>1, ModUnique
<1>3. MaxJobs * 0 + h = h /\ h + 1 - 1 = h
  BY <1>1
<1> QED  BY <1>2, <1>3 DEF Slot

(* The second is the first once head is moved on.                          *)
LEMMA NextSlot ==
  ASSUME NEW h \in Index, NEW i \in Nat \ {0}
  PROVE  Slot(Succ(h), i) = Slot(h, i + 1)
<1>1. MaxJobs \in Nat \ {0} /\ h + 1 \in Nat /\ i - 1 \in Nat
  BY PrintQueueAssumption DEF Index
<1>2. (((h + 1) % MaxJobs) + (i - 1)) % MaxJobs = ((h + 1) + (i - 1)) % MaxJobs
  BY <1>1, ModPlus
<1>3. ((h + 1) % MaxJobs) \in Int /\ h \in Int
  BY <1>1 DEF Index
<1>4. ((h + 1) % MaxJobs) + i - 1 = ((h + 1) % MaxJobs) + (i - 1)
  BY <1>3
<1>5. h + (i + 1) - 1 = (h + 1) + (i - 1)
  BY <1>3
<1> QED  BY <1>2, <1>4, <1>5 DEF Slot, Succ

(* The slot after the last is tail, and no other.                          *)
LEMMA LastSlot ==
  ASSUME TypeOK, RingAccounted, Stored \in Nat, Reserved \in Nat
  PROVE  /\ Slot(head, Stored + 1) = tail
         /\ Reserved > 0 => \A i \in 1 .. Stored : Slot(head, i) # tail
<1>1. MaxJobs \in Nat \ {0} /\ head \in Nat
  BY PrintQueueAssumption DEF TypeOK, Index
<1>2. head + (Stored + 1) - 1 = head + Stored
  BY <1>1
<1>3. Slot(head, Stored + 1) = tail
  BY <1>2 DEF Slot, RingAccounted
<1>4. ASSUME Reserved > 0, NEW i \in 1 .. Stored PROVE Slot(head, i) # tail
  <2>1. Stored < MaxJobs
    BY <1>1, <1>4 DEF RingAccounted
  <2>2. Stored - i + 1 \in 1 .. MaxJobs - 1 /\ head + i - 1 \in Nat
    BY <1>1, <2>1
  <2>3. (head + i - 1) % MaxJobs # ((head + i - 1) + (Stored - i + 1)) % MaxJobs
    BY <1>1, <2>2, ModDiffers
  <2>4. (head + i - 1) + (Stored - i + 1) = head + Stored
    BY <1>1
  <2> QED  BY <2>3, <2>4 DEF Slot, RingAccounted
<1> QED  BY <1>3, <1>4

(* The queue is a sequence, as long as the account says.                   *)
LEMMA QueueType ==
  ASSUME TypeOK, Stored \in Nat
  PROVE  /\ Queue \in Seq(Texts \cup {Blank}) /\ Len(Queue) = Stored
         /\ \A i \in 1 .. Stored : Queue[i] = jobs[Slot(head, i)]
<1>1. \A i \in 1 .. Stored : jobs[Slot(head, i)] \in Texts \cup {Blank}
  BY SlotType, PrintQueueAssumption DEF TypeOK, Index
<1>2. Queue = [i \in 1 .. Stored |-> jobs[Slot(head, i)]]
  BY DEF Queue, Slot
<1> QED  BY <1>1, <1>2

(* It is the same as long as the account and the slots it counts are.      *)
LEMMA QueueSame ==
  ASSUME Stored \in Nat, Stored' = Stored, head' = head,
         \A i \in 1 .. Stored : jobs'[Slot(head, i)] = jobs[Slot(head, i)]
  PROVE  Queue' = Queue
<1>1. Queue = [i \in 1 .. Stored |-> jobs[Slot(head, i)]]
  BY DEF Queue, Slot
<1>2. Queue' = [i \in 1 .. Stored' |-> jobs'[Slot(head', i)]]
  BY DEF Queue, Slot
<1>3. Queue' = [i \in 1 .. Stored |-> jobs'[Slot(head, i)]]
  BY <1>2
<1> QED  BY <1>1, <1>3

(* It loses its first job when head moves on.                              *)
LEMMA QueueTail ==
  ASSUME TypeOK, Stored \in Nat, Stored > 0, Stored' = Stored - 1, head' = Succ(head), jobs' = jobs
  PROVE  Queue # <<>> /\ Head(Queue) = jobs[head] /\ Queue' = Tail(Queue)
<1>1. /\ Queue \in Seq(Texts \cup {Blank}) /\ Len(Queue) = Stored
      /\ \A i \in 1 .. Stored : Queue[i] = jobs[Slot(head, i)]
  BY QueueType
<1>2. Queue # <<>> /\ Head(Queue) = jobs[head]
  <2>1. Slot(head, 1) = head
    BY FirstSlot DEF TypeOK
  <2> QED  BY <1>1, <2>1
<1>3. Queue' = [i \in 1 .. Stored' |-> jobs'[Slot(head', i)]]
  BY DEF Queue, Slot
<1>4. Queue' = [i \in 1 .. Stored - 1 |-> jobs[Slot(Succ(head), i)]]
  BY <1>3
<1>5. \A i \in 1 .. Stored - 1 : jobs[Slot(Succ(head), i)] = Queue[i + 1]
  <2> TAKE i \in 1 .. Stored - 1
  <2>1. i \in Nat \ {0} /\ i + 1 \in 1 .. Stored /\ head \in Index
    BY DEF TypeOK
  <2>2. Slot(Succ(head), i) = Slot(head, i + 1)
    BY <2>1, NextSlot
  <2> QED  BY <1>1, <2>1, <2>2
<1>6. Tail(Queue) = [i \in 1 .. Stored - 1 |-> Queue[i + 1]]
  <2>1. /\ Tail(Queue) \in Seq(Texts \cup {Blank}) /\ Len(Tail(Queue)) = Stored - 1
        /\ \A i \in 1 .. Len(Tail(Queue)) : Tail(Queue)[i] = Queue[i + 1]
    BY <1>1, <1>2, HeadTailProperties
  <2>2. Tail(Queue) \in [1 .. Stored - 1 -> Texts \cup {Blank}]
    BY <2>1, LenProperties
  <2> QED  BY <2>1, <2>2
<1>7. [i \in 1 .. Stored - 1 |-> jobs[Slot(Succ(head), i)]] =
        [i \in 1 .. Stored - 1 |-> Queue[i + 1]]
  BY <1>5
<1>8. Queue' = Tail(Queue)
  BY <1>4, <1>6, <1>7
<1> QED  BY <1>2, <1>8

(* It gains a last one when tail does.                                     *)
LEMMA QueueAppend ==
  ASSUME TypeOK, RingAccounted, Stored \in Nat, Reserved \in Nat, Stored' = Stored + 1,
         head' = head, jobs' = jobs
  PROVE  Queue' = Append(Queue, jobs[tail])
<1>1. /\ Queue \in Seq(Texts \cup {Blank}) /\ Len(Queue) = Stored
      /\ \A i \in 1 .. Stored : Queue[i] = jobs[Slot(head, i)]
  BY QueueType
<1>2. Queue' = [i \in 1 .. Stored' |-> jobs'[Slot(head', i)]]
  BY DEF Queue, Slot
<1>3. Queue' = [i \in 1 .. Stored + 1 |-> jobs[Slot(head, i)]]
  BY <1>2
<1>4. \A i \in 1 .. Stored + 1 :
        jobs[Slot(head, i)] = IF i <= Stored THEN Queue[i] ELSE jobs[tail]
  <2> TAKE i \in 1 .. Stored + 1
  <2>1. CASE i <= Stored
    BY <1>1, <2>1
  <2>2. CASE ~(i <= Stored)
    <3>1. i = Stored + 1
      BY <2>2
    <3> QED  BY <2>2, <3>1, LastSlot
  <2> QED  BY <2>1, <2>2
<1>5. Append(Queue, jobs[tail]) =
        [i \in 1 .. Stored + 1 |-> IF i <= Stored THEN Queue[i] ELSE jobs[tail]]
  BY <1>1
<1> QED  BY <1>3, <1>4, <1>5

(* The jobs in the queue have been sent, what a printer has copied is the  *)
(* first of them, and what a user has written comes after the last.        *)
JobInv ==
  /\ \A i \in 1 .. Stored : jobs[Slot(head, i)] \in Texts
  /\ \A p \in Printers : /\ pc[p] \in {"load", "store"} => job[p] = jobs[head]
                         /\ pc[p] \in {"unlock", "post", "done"} => job[p] \in Texts
  /\ \A u \in Users : /\ pc[u] # "top" => job[u] \in Texts
                      /\ pc[u] \in {"load", "store"} => jobs[tail] = job[u]

Printing ==
  [p \in Printers |-> IF pc[p] \in {"unlock", "post", "done"} THEN job[p] ELSE Blank]

(* A printer's step keeps the jobs, and is a Hand, a Finish or nothing.    *)
LEMMA PrinterPrints ==
  ASSUME LockInv, CountInv, JobInv, NEW p \in Printers, Printer(p)
  PROVE  JobInv' /\ [Promise!Next]_<<Queue, Printing>>
<1> /\ TypeOK /\ CalmInv /\ RingAccounted /\ p \in Procs /\ p \notin Users
    /\ Printers \subseteq Procs /\ Users \subseteq Procs
  BY PrintQueueAssumption DEF LockInv, CountInv, Procs
<1>0. /\ Stored \in Nat /\ Reserved \in Nat
      /\ pc[p] = "store" => Stored > 0 /\ Stored' = Stored - 1 /\ Reserved' = Reserved + 1
      /\ pc[p] # "store" => Stored' = Stored /\ Reserved' = Reserved
  BY PrinterAccount
<1>1. CASE StoreHead(p)
  <2>1. /\ Goto(p, "store", "unlock")
        /\ head' = next[p] /\ jobs' = jobs /\ tail' = tail /\ job' = job
    BY <1>1 DEF StoreHead, locals
  <2>2. Stored > 0 /\ Stored' = Stored - 1 /\ head' = Succ(head)
    BY <1>0, <2>1 DEF Goto, CountInv, IndexInv
  <2>3. Queue # <<>> /\ Head(Queue) = jobs[head] /\ Queue' = Tail(Queue)
    BY <1>0, <2>1, <2>2, QueueTail
  <2>4. job[p] = jobs[head]
    BY <2>1 DEF JobInv, Goto
  <2>5. job[p] \in Texts
    <3>1. Slot(head, 1) = head /\ 1 \in 1 .. Stored
      BY <1>0, <2>2, FirstSlot DEF TypeOK
    <3> QED  BY <2>4, <3>1 DEF JobInv
  <2>6. \A i \in 1 .. Stored' : jobs'[Slot(head', i)] \in Texts
    <3> SUFFICES ASSUME NEW i \in 1 .. Stored - 1 PROVE jobs[Slot(Succ(head), i)] \in Texts
      BY <2>1, <2>2
    <3>1. i \in Nat \ {0} /\ i + 1 \in 1 .. Stored /\ head \in Index
      BY <1>0 DEF TypeOK
    <3> QED  BY <3>1, NextSlot DEF JobInv
  <2>7. \A q \in Printers : pc'[q] \notin {"load", "store"}
    BY <2>1, Alone DEF Goto, TypeOK
  <2>8. JobInv'
    <3>1. \A q \in Printers : pc'[q] \in {"unlock", "post", "done"} => job'[q] \in Texts
      BY <2>1, <2>5 DEF JobInv, Goto, TypeOK
    <3>2. \A u \in Users : pc'[u] = pc[u]
      BY <2>1 DEF Goto, TypeOK
    <3> QED  BY <2>1, <2>6, <2>7, <3>1, <3>2 DEF JobInv
  <2>9. Promise!Hand(p)
    <3>1. Printing[p] = Blank
      BY <2>1 DEF Printing, Goto
    <3>2. Printing' = [Printing EXCEPT ![p] = jobs[head]]
      BY <2>1, <2>4 DEF Printing, Goto, TypeOK
    <3> QED  BY <2>3, <3>1, <3>2 DEF Promise!Hand, Printing
  <2> QED  BY <2>8, <2>9 DEF Promise!Next
<1>2. ASSUME jobs' = jobs, head' = head, tail' = tail, pc[p] # "store"
      PROVE  Queue' = Queue /\ \A i \in 1 .. Stored' : jobs'[Slot(head', i)] \in Texts
  <2>1. Stored' = Stored
    BY <1>0, <1>2
  <2>2. Queue' = Queue
    BY <1>0, <1>2, <2>1, QueueSame
  <2> QED  BY <1>2, <2>1, <2>2 DEF JobInv
<1>3. CASE CopyJob(p)
  <2>1. /\ Goto(p, "copy", "load") /\ job' = [job EXCEPT ![p] = jobs[head]]
        /\ jobs' = jobs /\ head' = head /\ tail' = tail
    BY <1>3 DEF CopyJob, shared
  <2>2. Queue' = Queue /\ \A i \in 1 .. Stored' : jobs'[Slot(head', i)] \in Texts
    BY <1>2, <2>1 DEF Goto
  <2>3. Printing' = Printing
    BY <2>1 DEF Printing, Goto, TypeOK
  <2>4. JobInv'
    BY <2>1, <2>2 DEF JobInv, Goto, TypeOK
  <2> QED  BY <2>2, <2>3, <2>4
<1>4. CASE PrintJob(p)
  <2>1. /\ Goto(p, "done", "top") /\ job' = [job EXCEPT ![p] = Blank]
        /\ jobs' = jobs /\ head' = head /\ tail' = tail
    BY <1>4 DEF PrintJob, shared
  <2>2. Queue' = Queue /\ \A i \in 1 .. Stored' : jobs'[Slot(head', i)] \in Texts
    BY <1>2, <2>1 DEF Goto
  <2>3. job[p] \in Texts
    BY <2>1 DEF JobInv, Goto
  <2>4. Printing[p] # Blank /\ Printing' = [Printing EXCEPT ![p] = Blank]
    BY <2>1, <2>3, PrintQueueAssumption DEF Printing, Goto, TypeOK
  <2>5. Promise!Finish(p)
    BY <2>2, <2>4 DEF Promise!Finish, Printing
  <2>6. JobInv'
    BY <2>1, <2>2 DEF JobInv, Goto, TypeOK
  <2> QED  BY <2>5, <2>6 DEF Promise!Next
<1>5. CASE \/ PrinterLoop(p) \/ WaitFull(p) \/ Lock(p) \/ LoadHead(p) \/ PrinterUnlock(p)
           \/ PostEmpty(p)
  <2>1. PICK from, to : /\ Goto(p, from, to) /\ from \notin {"store", "copy", "done"}
                        /\ from = "load" <=> to = "store"
                        /\ from \in {"unlock", "post"} <=> to \in {"unlock", "post", "done"}
                        /\ to # "load"
    BY <1>5 DEF PrinterLoop, WaitFull, Lock, LoadHead, PrinterUnlock, PostEmpty, Goto
  <2>2. jobs' = jobs /\ head' = head /\ tail' = tail /\ job' = job
    BY <1>5 DEF PrinterLoop, WaitFull, Lock, LoadHead, PrinterUnlock, PostEmpty, shared, locals
  <2>3. Queue' = Queue /\ \A i \in 1 .. Stored' : jobs'[Slot(head', i)] \in Texts
    BY <1>2, <2>1, <2>2 DEF Goto
  <2>4. Printing' = Printing
    BY <2>1, <2>2 DEF Printing, Goto, TypeOK
  <2>5. JobInv'
    <3>1. \A q \in Printers :
            /\ pc'[q] \in {"load", "store"} => job'[q] = jobs'[head']
            /\ pc'[q] \in {"unlock", "post", "done"} => job'[q] \in Texts
      BY <2>1, <2>2 DEF JobInv, Goto, TypeOK
    <3>2. \A u \in Users : pc'[u] = pc[u]
      BY <2>1 DEF Goto, TypeOK
    <3> QED  BY <2>2, <2>3, <3>1, <3>2 DEF JobInv
  <2> QED  BY <2>3, <2>4, <2>5
<1> QED  BY <1>1, <1>3, <1>4, <1>5 DEF Printer

(* A user's step keeps the jobs, and is a Put or nothing.                  *)
LEMMA UserPuts ==
  ASSUME LockInv, CountInv, JobInv, NEW u \in Users, User(u)
  PROVE  JobInv' /\ [Promise!Next]_<<Queue, Printing>>
<1> /\ TypeOK /\ CalmInv /\ RingAccounted /\ u \in Procs /\ u \notin Printers
    /\ Printers \subseteq Procs /\ Users \subseteq Procs
  BY PrintQueueAssumption DEF LockInv, CountInv, Procs
<1>0. /\ Stored \in Nat /\ Reserved \in Nat
      /\ pc[u] \in {"copy", "store"} => Reserved > 0
      /\ pc[u] = "store" => Stored' = Stored + 1 /\ Reserved' = Reserved - 1
      /\ pc[u] # "store" => Stored' = Stored /\ Reserved' = Reserved
  BY UserAccount
<1>1. ASSUME NEW from, NEW to, Goto(u, from, to) PROVE \A p \in Printers : pc'[p] = pc[p]
  BY <1>1 DEF Goto, TypeOK
<1>2. CASE StoreTail(u)
  <2>1. /\ Goto(u, "store", "post")
        /\ head' = head /\ jobs' = jobs /\ tail' = next[u] /\ job' = job
    BY <1>2 DEF StoreTail, locals
  <2>2. Stored' = Stored + 1 /\ Reserved > 0
    BY <1>0, <2>1 DEF Goto
  <2>3. jobs[tail] = job[u] /\ job[u] \in Texts
    BY <2>1 DEF JobInv, Goto
  <2>4. Queue' = Append(Queue, job[u])
    BY <1>0, <2>1, <2>2, <2>3, QueueAppend
  <2>5. Len(Queue) < MaxJobs
    <3>1. Len(Queue) = Stored /\ Stored + Reserved = MaxJobs
      BY <1>0, QueueType DEF RingAccounted
    <3> QED  BY <1>0, <2>2, <3>1
  <2>6. Printing' = Printing
    BY <1>1, <2>1 DEF Printing
  <2>7. \A i \in 1 .. Stored' : jobs'[Slot(head', i)] \in Texts
    <3> SUFFICES ASSUME NEW i \in 1 .. Stored + 1 PROVE jobs[Slot(head, i)] \in Texts
      BY <2>1, <2>2
    <3>1. CASE i = Stored + 1
      BY <1>0, <2>3, <3>1, LastSlot
    <3>2. CASE i # Stored + 1
      <4>1. i \in 1 .. Stored
        BY <1>0, <3>2
      <4> QED  BY <4>1 DEF JobInv
    <3> QED  BY <3>1, <3>2
  <2>8. \A v \in Users : pc'[v] \notin {"load", "store"}
    BY <2>1, Alone DEF Goto, TypeOK
  <2>9. JobInv'
    <3>1. \A v \in Users : pc'[v] # "top" => job'[v] \in Texts
      BY <2>1 DEF JobInv, Goto, TypeOK
    <3> QED  BY <1>1, <2>1, <2>7, <2>8, <3>1 DEF JobInv
  <2>10. Promise!Put(job[u])
    BY <2>4, <2>5, <2>6 DEF Promise!Put, Printing
  <2> QED  BY <2>3, <2>9, <2>10 DEF Promise!Next
<1>3. CASE WriteJob(u)
  <2>1. /\ Goto(u, "copy", "load") /\ jobs' = [jobs EXCEPT ![tail] = job[u]]
        /\ head' = head /\ tail' = tail /\ job' = job
    BY <1>3 DEF WriteJob, locals
  <2>2. Stored' = Stored /\ Reserved > 0
    BY <1>0, <2>1 DEF Goto
  <2>3. \A i \in 1 .. Stored : jobs'[Slot(head, i)] = jobs[Slot(head, i)]
    <3> TAKE i \in 1 .. Stored
    <3>1. Slot(head, i) # tail
      BY <1>0, <2>2, LastSlot
    <3>2. head \in Nat /\ i \in Nat \ {0}
      BY PrintQueueAssumption DEF TypeOK, Index
    <3>3. Slot(head, i) \in Index
      BY <3>2, SlotType
    <3> QED  BY <2>1, <3>1, <3>3 DEF TypeOK
  <2>4. Queue' = Queue
    BY <1>0, <2>1, <2>2, <2>3, QueueSame
  <2>5. Printing' = Printing
    BY <1>1, <2>1 DEF Printing
  <2>6. \A i \in 1 .. Stored' : jobs'[Slot(head', i)] \in Texts
    BY <2>1, <2>2, <2>3 DEF JobInv
  <2>7. \A p \in Printers : pc[p] \notin {"load", "store"}
    BY <2>1, Alone DEF Goto
  <2>8. \A p \in Printers : /\ pc'[p] \in {"load", "store"} => job'[p] = jobs'[head']
                            /\ pc'[p] \in {"unlock", "post", "done"} => job'[p] \in Texts
    BY <1>1, <2>1, <2>7 DEF JobInv
  <2>9. \A v \in Users : /\ pc'[v] # "top" => job'[v] \in Texts
                         /\ pc'[v] \in {"load", "store"} => v = u
    BY <2>1, Alone DEF JobInv, Goto, TypeOK
  <2>10. jobs'[tail'] = job'[u]
    BY <2>1 DEF TypeOK
  <2>11. \A v \in Users : /\ pc'[v] # "top" => job'[v] \in Texts
                          /\ pc'[v] \in {"load", "store"} => jobs'[tail'] = job'[v]
    BY <2>9, <2>10
  <2>12. JobInv'
    BY <2>6, <2>8, <2>11 DEF JobInv
  <2> QED  BY <2>4, <2>5, <2>12
<1>4. CASE \/ UserLoop(u) \/ WaitEmpty(u) \/ Lock(u) \/ LoadTail(u) \/ PostFull(u)
           \/ UserUnlock(u) \/ Sleep(u)
  <2>1. PICK from, to : /\ Goto(u, from, to) /\ from \notin {"store", "copy"}
                        /\ to \in {"load", "store"} => from = "load"
    BY <1>4 DEF UserLoop, WaitEmpty, Lock, LoadTail, PostFull, UserUnlock, Sleep, Goto
  <2>2. jobs' = jobs /\ head' = head /\ tail' = tail
    BY <1>4 DEF UserLoop, WaitEmpty, Lock, LoadTail, PostFull, UserUnlock, Sleep, shared
  <2>3. Stored' = Stored
    BY <1>0, <2>1 DEF Goto
  <2>4. Queue' = Queue
    BY <1>0, <2>2, <2>3, QueueSame
  <2>5. \A v \in Procs \ {u} : job'[v] = job[v]
    BY <1>4 DEF UserLoop, WaitEmpty, Lock, LoadTail, PostFull, UserUnlock, Sleep, locals, TypeOK
  <2>6. pc'[u] # "top" => job'[u] \in Texts
    BY <1>4 DEF UserLoop, WaitEmpty, Lock, LoadTail, PostFull, UserUnlock, Sleep, locals,
                TypeOK, Goto, JobInv, CalmInv
  <2>7. pc'[u] \in {"load", "store"} => job'[u] = job[u]
    BY <1>4 DEF UserLoop, WaitEmpty, Lock, LoadTail, PostFull, UserUnlock, Sleep, locals,
                TypeOK, Goto, CalmInv
  <2>8. Printing' = Printing
    BY <1>1, <2>1, <2>5 DEF Printing
  <2>9. \A p \in Printers : /\ pc'[p] \in {"load", "store"} => job'[p] = jobs'[head']
                            /\ pc'[p] \in {"unlock", "post", "done"} => job'[p] \in Texts
    BY <1>1, <2>1, <2>2, <2>5 DEF JobInv
  <2>10. \A v \in Users : /\ pc'[v] # "top" => job'[v] \in Texts
                          /\ pc'[v] \in {"load", "store"} => jobs'[tail'] = job'[v]
    <3> TAKE v \in Users
    <3>1. CASE v = u
      BY <2>1, <2>2, <2>6, <2>7, <3>1 DEF JobInv, Goto, TypeOK
    <3>2. CASE v # u
      BY <2>1, <2>2, <2>5, <3>2 DEF JobInv, Goto, TypeOK
    <3> QED  BY <3>1, <3>2
  <2>11. \A i \in 1 .. Stored' : jobs'[Slot(head', i)] \in Texts
    BY <2>2, <2>3 DEF JobInv
  <2>12. JobInv'
    BY <2>9, <2>10, <2>11 DEF JobInv
  <2> QED  BY <2>4, <2>8, <2>12
<1> QED  BY <1>2, <1>3, <1>4 DEF User

LEMMA JobInvariant ==
  ASSUME Undisturbed
  PROVE  Spec => [](JobInv /\ LockInv /\ CountInv)
<1>1. Init => JobInv
  <2> SUFFICES ASSUME Init PROVE JobInv
    OBVIOUS
  <2>1. Stored = 0
    <3>1. At(Printers, {"lock", "copy", "load", "store"}) = {} /\ At(Users, {"post"}) = {}
      BY DEF Init, At, Procs
    <3>2. sem["full"] = 0
      BY DEF Init, NewSem
    <3> QED  BY <3>1, <3>2, FS_EmptySet DEF Stored
  <2>2. \A p \in Procs : pc[p] = "top"
    BY DEF Init
  <2> QED  BY <2>1, <2>2 DEF JobInv, Procs
<1>2. LockInv /\ CountInv /\ JobInv /\ [Next]_vars => JobInv'
  <2> SUFFICES ASSUME LockInv, CountInv, JobInv, [Next]_vars PROVE JobInv'
    OBVIOUS
  <2>1. CASE UNCHANGED vars
    <3>1. Stored' = Stored
      BY <2>1 DEF Stored, At, vars
    <3>2. jobs' = jobs /\ head' = head /\ tail' = tail /\ pc' = pc /\ job' = job
      BY <2>1 DEF vars, shared, locals
    <3> QED  BY <3>1, <3>2 DEF JobInv, Slot
  <2>2. CASE \E p \in Procs : Disturb(p)
    BY <2>2, NobodyDisturbs DEF CountInv
  <2>3. ~Restart
    BY DEF Undisturbed, Restart
  <2> QED  BY <2>1, <2>2, <2>3, PrinterPrints, UserPuts DEF Next
<1>3. Spec => []LockInv
  BY LockInvariant DEF Undisturbed
<1>4. Spec => []CountInv
  BY CountInvariant
<1> QED  BY <1>1, <1>2, <1>3, <1>4, PTL DEF Spec

(* While nobody is signalled, killed or restarted, the ring with its       *)
(* semaphores and processes is a bounded first-in first-out queue: every   *)
(* job sent is handed, once and in order, to one printer                   *)
(* (printers_server.c:50-66, users_client.c:30-44).                        *)
THEOREM QueueKeepsPromise ==
  ASSUME Undisturbed
  PROVE  Spec => SpoolKept
<1>1. Init => Promise!Init
  <2> SUFFICES ASSUME Init PROVE Promise!Init
    OBVIOUS
  <2>1. Stored = 0
    <3>1. At(Printers, {"lock", "copy", "load", "store"}) = {} /\ At(Users, {"post"}) = {}
      BY DEF Init, At, Procs
    <3>2. sem["full"] = 0
      BY DEF Init, NewSem
    <3> QED  BY <3>1, <3>2, FS_EmptySet DEF Stored
  <2>2. Queue = <<>>
    <3>1. Queue = [i \in 1 .. 0 |-> jobs[(head + i - 1) % MaxJobs]]
      BY <2>1 DEF Queue
    <3> QED  BY <3>1
  <2>3. \A p \in Printers : pc[p] = "top"
    BY DEF Init, Procs
  <2> QED  BY <2>2, <2>3 DEF Promise!Init
<1>2. LockInv /\ CountInv /\ JobInv /\ [Next]_vars => [Promise!Next]_<<Queue, Printing>>
  <2> SUFFICES ASSUME LockInv, CountInv, JobInv, [Next]_vars
               PROVE  [Promise!Next]_<<Queue, Printing>>
    OBVIOUS
  <2>1. CASE UNCHANGED vars
    <3>1. Stored' = Stored
      BY <2>1 DEF Stored, At, vars
    <3>2. jobs' = jobs /\ head' = head /\ pc' = pc /\ job' = job
      BY <2>1 DEF vars, shared, locals
    <3> QED  BY <3>1, <3>2 DEF Queue, Printing
  <2>2. CASE \E p \in Procs : Disturb(p)
    BY <2>2, NobodyDisturbs DEF CountInv
  <2>3. ~Restart
    BY DEF Undisturbed, Restart
  <2> QED  BY <2>1, <2>2, <2>3, PrinterPrints, UserPuts DEF Next
<1>3. Spec => [](JobInv /\ LockInv /\ CountInv)
  BY JobInvariant
<1> QED  BY <1>1, <1>2, <1>3, PTL DEF Spec, SpoolKept, Promise!Spec, Printing

-----------------------------------------------------------------------------
(* Whatever signals, kills and a second server do.                         *)

Stopped == {p \in Procs : ~running[p]}

(* Who has claimed a slot and not given it back; a process stopped before  *)
(* its first sem_wait counts, because that sem_wait may yet be interrupted *)
(* and let it through.                                                     *)
Claims ==
  At(Procs, {"lock", "copy", "load", "store", "post"}) \cup At(Printers, {"unlock"})
    \cup At(Stopped, {"wait"})

(* Likewise for the lock.                                                  *)
Keys == Inside \cup At(Stopped, {"wait", "lock"})

(* What the semaphores hold and the processes have claimed is more than    *)
(* there is by the processes stopped and those overtaken, at most.         *)
Within(available, claimed, all) ==
  available + Cardinality(claimed) <= all + Cardinality(Stopped) + Cardinality(overtaken)

DamageInv ==
  /\ Within(sem["full"] + sem["empty"], Claims, MaxJobs)
  /\ Within(sem["mutex"], Keys, 1)

(* Sets of processes are finite.                                           *)
LEMMA ProcsFinite ==
  ASSUME NEW S, S \subseteq Procs
  PROVE  IsFiniteSet(S) /\ Cardinality(S) \in Nat
  BY PrintQueueAssumption, FS_Subset, FS_CardinalityType

(* One process more, or less, counts for one.                              *)
LEMMA OneMore ==
  ASSUME NEW S, S \subseteq Procs, NEW T, NEW p \in Procs, T \subseteq S \cup {p}
  PROVE  Cardinality(T) <= Cardinality(S) + 1
<1>1. /\ S \cup {p} \subseteq Procs /\ T \subseteq Procs
      /\ Cardinality(S \cup {p}) = IF p \in S THEN Cardinality(S) ELSE Cardinality(S) + 1
  BY ProcsFinite, FS_AddElement
<1>2. Cardinality(T) <= Cardinality(S \cup {p})
  BY <1>1, ProcsFinite, FS_Subset
<1> QED  BY <1>1, <1>2, ProcsFinite

LEMMA OneLess ==
  ASSUME NEW S, S \subseteq Procs, NEW T, NEW p \in S, T \subseteq S \ {p}
  PROVE  Cardinality(T) + 1 <= Cardinality(S)
<1>1. /\ S \ {p} \subseteq Procs /\ T \subseteq Procs
      /\ Cardinality(S \ {p}) = Cardinality(S) - 1
  BY ProcsFinite, FS_RemoveElement
<1>2. Cardinality(T) <= Cardinality(S \ {p})
  BY <1>1, ProcsFinite, FS_Subset
<1> QED  BY <1>1, <1>2, ProcsFinite

LEMMA NoMore ==
  ASSUME NEW S, S \subseteq Procs, NEW T, T \subseteq S
  PROVE  Cardinality(T) <= Cardinality(S)
  BY ProcsFinite, FS_Subset

(* The ways a step of p may change what is available, from a to b, and who *)
(* has claimed it, from S to T: not at all, or by a process that ends; by a *)
(* sem_wait; by a sem_post; by a signal.                                   *)
Charged(p, a, b, S, T) ==
  \/ b = a /\ T \subseteq S /\ Stopped \subseteq Stopped'
  \/ b + 1 = a /\ T \subseteq S \cup {p} /\ Stopped' = Stopped
  \/ b = a + 1 /\ p \in S /\ T \subseteq S \ {p} /\ Stopped' = Stopped
  \/ b = a /\ T \subseteq S \cup {p} /\ p \in Stopped' \ Stopped /\ Stopped \subseteq Stopped'

LEMMA StaysWithin ==
  ASSUME TypeOK, TypeOK', overtaken' = overtaken,
         NEW p \in Procs, NEW a \in Nat, NEW b \in Nat, NEW all \in Nat,
         NEW S, NEW T, S \subseteq Procs, T \subseteq Procs, Within(a, S, all),
         Charged(p, a, b, S, T)
  PROVE  b + Cardinality(T) <= all + Cardinality(Stopped') + Cardinality(overtaken')
<1> USE DEF Charged
<1> DEFINE s == Cardinality(S)
           t == Cardinality(T)
           u == Cardinality(Stopped)
           v == Cardinality(Stopped')
           w == Cardinality(overtaken)
<1>0. Stopped \subseteq Procs /\ Stopped' \subseteq Procs /\ overtaken \subseteq Procs
  BY DEF Stopped, TypeOK
<1>1. s \in Nat /\ t \in Nat /\ u \in Nat /\ v \in Nat /\ w \in Nat
  BY <1>0, ProcsFinite
<1>2. a + s <= all + u + w
  BY DEF Within
<1>3. /\ T \subseteq S => t <= s
      /\ T \subseteq S \cup {p} => t <= s + 1
      /\ p \in S /\ T \subseteq S \ {p} => t + 1 <= s
      /\ Stopped \subseteq Stopped' => u <= v
      /\ p \in Stopped' \ Stopped /\ Stopped \subseteq Stopped' => u + 1 <= v
  <2>1. T \subseteq S => t <= s
    BY NoMore
  <2>2. T \subseteq S \cup {p} => t <= s + 1
    BY OneMore
  <2>3. p \in S /\ T \subseteq S \ {p} => t + 1 <= s
    BY OneLess
  <2>4. Stopped \subseteq Stopped' => u <= v
    BY <1>0, NoMore
  <2>5. p \in Stopped' \ Stopped /\ Stopped \subseteq Stopped' => u + 1 <= v
    <3> SUFFICES ASSUME p \in Stopped' \ Stopped, Stopped \subseteq Stopped' PROVE u + 1 <= v
      OBVIOUS
    <3>1. p \in Stopped' /\ Stopped \subseteq Stopped' \ {p}
      OBVIOUS
    <3> QED  BY <1>0, <3>1, OneLess
  <2> QED  BY <2>1, <2>2, <2>3, <2>4, <2>5
<1>4. Stopped' = Stopped => v = u
  OBVIOUS
<1> HIDE DEF s, t, u, v
<1>5. b + t <= all + v + w
  BY <1>1, <1>2, <1>3, <1>4
<1> QED  BY <1>5 DEF t, v

LEMMA DamageKept ==
  ASSUME TypeOK, TypeOK', DamageInv, overtaken' = overtaken, NEW p \in Procs,
         Charged(p, sem["full"] + sem["empty"], sem'["full"] + sem'["empty"], Claims, Claims'),
         Charged(p, sem["mutex"], sem'["mutex"], Keys, Keys')
  PROVE  DamageInv'
<1>1. /\ sem["full"] + sem["empty"] \in Nat /\ sem'["full"] + sem'["empty"] \in Nat
      /\ sem["mutex"] \in Nat /\ sem'["mutex"] \in Nat
  BY DEF TypeOK
<1>2. MaxJobs \in Nat /\ 1 \in Nat
  BY PrintQueueAssumption
<1>3. Claims \subseteq Procs /\ Claims' \subseteq Procs /\ Keys \subseteq Procs /\ Keys' \subseteq Procs
  BY DEF Claims, Keys, Inside, At, Stopped, Procs
<1>4. Within(sem["full"] + sem["empty"], Claims, MaxJobs) /\ Within(sem["mutex"], Keys, 1)
  BY DEF DamageInv
<1>5. sem'["full"] + sem'["empty"] + Cardinality(Claims')
        <= MaxJobs + Cardinality(Stopped') + Cardinality(overtaken')
  BY <1>1, <1>2, <1>3, <1>4, StaysWithin
<1>6. sem'["mutex"] + Cardinality(Keys') <= 1 + Cardinality(Stopped') + Cardinality(overtaken')
  BY <1>1, <1>2, <1>3, <1>4, StaysWithin
<1> QED  BY <1>5, <1>6 DEF DamageInv, Within

(* Who claims what, when p has moved.                                      *)
LEMMA ClaimsMoved ==
  ASSUME TypeOK, TypeOK', NEW p \in Procs, NEW from, NEW to, Goto(p, from, to),
         \A q \in Procs \ {p} : running'[q] = running[q]
  PROVE  /\ Claims' \ {p} = Claims \ {p} /\ Keys' \ {p} = Keys \ {p}
         /\ p \in Claims
              <=> \/ from \in {"lock", "copy", "load", "store", "post"}
                  \/ p \in Printers /\ from = "unlock"
                  \/ p \in Stopped /\ from = "wait"
         /\ p \in Claims'
              <=> \/ to \in {"lock", "copy", "load", "store", "post"}
                  \/ p \in Printers /\ to = "unlock"
                  \/ p \in Stopped' /\ to = "wait"
         /\ p \in Keys
              <=> \/ from \in {"copy", "load", "store", "unlock"}
                  \/ p \in Users /\ from = "post"
                  \/ p \in Stopped /\ from \in {"wait", "lock"}
         /\ p \in Keys'
              <=> \/ to \in {"copy", "load", "store", "unlock"}
                  \/ p \in Users /\ to = "post"
                  \/ p \in Stopped' /\ to \in {"wait", "lock"}
<1>1. /\ pc[p] = from /\ pc'[p] = to /\ Printers \subseteq Procs /\ Users \subseteq Procs
      /\ \A q \in Procs \ {p} : pc'[q] = pc[q] /\ (q \in Stopped' <=> q \in Stopped)
  BY DEF Goto, TypeOK, Procs, Stopped
<1>2. Claims \subseteq Procs /\ Keys \subseteq Procs /\ Claims' \subseteq Procs /\ Keys' \subseteq Procs
  BY <1>1 DEF Claims, Keys, Inside, At, Stopped
<1>3. \A q \in Procs \ {p} : (q \in Claims' <=> q \in Claims) /\ (q \in Keys' <=> q \in Keys)
  BY <1>1 DEF Claims, Keys, Inside, At
<1>4. Claims' \ {p} = Claims \ {p} /\ Keys' \ {p} = Keys \ {p}
  BY <1>2, <1>3
<1>5. Stopped \subseteq Procs /\ Stopped' \subseteq Procs
  BY DEF Stopped
<1>6. /\ p \in At(Procs, {"lock", "copy", "load", "store", "post"})
            <=> from \in {"lock", "copy", "load", "store", "post"}
      /\ p \in At(Procs, {"lock", "copy", "load", "store", "post"})'
            <=> to \in {"lock", "copy", "load", "store", "post"}
  BY <1>1 DEF At
<1>7. /\ p \in At(Printers, {"unlock"}) <=> p \in Printers /\ from = "unlock"
      /\ p \in At(Printers, {"unlock"})' <=> p \in Printers /\ to = "unlock"
      /\ p \in At(Stopped, {"wait"}) <=> p \in Stopped /\ from = "wait"
      /\ p \in At(Stopped, {"wait"})' <=> p \in Stopped' /\ to = "wait"
  BY <1>1 DEF At
<1>8. /\ p \in Inside <=> from \in {"copy", "load", "store", "unlock"} \/ (p \in Users /\ from = "post")
      /\ p \in Inside' <=> to \in {"copy", "load", "store", "unlock"} \/ (p \in Users /\ to = "post")
  BY <1>1 DEF Inside, At
<1>9. /\ p \in At(Stopped, {"wait", "lock"}) <=> p \in Stopped /\ from \in {"wait", "lock"}
      /\ p \in At(Stopped, {"wait", "lock"})' <=> p \in Stopped' /\ to \in {"wait", "lock"}
  BY <1>1 DEF At
<1> QED  BY <1>4, <1>6, <1>7, <1>8, <1>9 DEF Claims, Keys

(* A printer's step.                                                       *)
LEMMA PrinterDamage ==
  ASSUME TypeOK, TypeOK', DamageInv, NEW p \in Printers, Printer(p)
  PROVE  DamageInv'
<1> USE DEF Goto, Wait, Post, shared, locals, history, Charged
<1>0. p \in Procs /\ p \notin Users /\ "full" # "empty" /\ "mutex" # "full" /\ "mutex" # "empty"
  BY PrintQueueAssumption DEF Procs
<1>1. sem["full"] \in Nat /\ sem["empty"] \in Nat /\ sem["mutex"] \in Nat /\ pc \in [Procs -> Labels]
  BY DEF TypeOK
<1>2. overtaken' = overtaken /\ running' = running /\ Stopped' = Stopped
  BY DEF Printer, PrinterLoop, WaitFull, Lock, CopyJob, LoadHead, StoreHead, PrinterUnlock,
         PostEmpty, PrintJob, Stopped
<1> DEFINE Slots == Charged(p, sem["full"] + sem["empty"], sem'["full"] + sem'["empty"], Claims, Claims')
           Locks == Charged(p, sem["mutex"], sem'["mutex"], Keys, Keys')
<1> SUFFICES Slots /\ Locks
  BY <1>0, <1>2, DamageKept
<1> HIDE DEF Goto
<1>3. CASE PrinterLoop(p) \/ CopyJob(p) \/ LoadHead(p) \/ StoreHead(p) \/ PrintJob(p)
  <2>1. sem' = sem
    BY <1>3 DEF PrinterLoop, CopyJob, LoadHead, StoreHead, PrintJob
  <2>2. PICK from, to :
          /\ Goto(p, from, to)
          /\ <<from, to>> \in {<<"top", "wait">>, <<"top", "leave">>, <<"copy", "load">>,
                               <<"load", "store">>, <<"store", "unlock">>, <<"done", "top">>}
          /\ to = "wait" => running[p]
    BY <1>3 DEF Goto, PrinterLoop, CopyJob, LoadHead, StoreHead, PrintJob
  <2>3. p \in Stopped => ~running[p]
    BY DEF Stopped
  <2>4. Claims' \subseteq Claims /\ Keys' \subseteq Keys
    BY <1>0, <1>2, <2>2, <2>3, ClaimsMoved
  <2> QED  BY <1>2, <2>1, <2>4
<1>4. CASE WaitFull(p)
  <2>1. sem'["full"] = sem["full"] - 1 /\ sem'["empty"] = sem["empty"] /\ sem'["mutex"] = sem["mutex"]
    BY <1>0, <1>4 DEF WaitFull, TypeOK
  <2>2. Claims' \subseteq Claims \cup {p} /\ Keys' \subseteq Keys
    BY <1>0, <1>2, <1>4, ClaimsMoved DEF WaitFull
  <2> QED  BY <1>1, <1>2, <2>1, <2>2
<1>5. CASE Lock(p)
  <2>1. sem'["full"] = sem["full"] /\ sem'["empty"] = sem["empty"] /\ sem'["mutex"] = sem["mutex"] - 1
    BY <1>0, <1>5 DEF Lock, TypeOK
  <2>2. Claims' \subseteq Claims /\ Keys' \subseteq Keys \cup {p}
    BY <1>0, <1>2, <1>5, ClaimsMoved DEF Lock
  <2> QED  BY <1>1, <1>2, <2>1, <2>2
<1>6. CASE PrinterUnlock(p)
  <2>1. sem'["full"] = sem["full"] /\ sem'["empty"] = sem["empty"] /\ sem'["mutex"] = sem["mutex"] + 1
    BY <1>0, <1>6 DEF PrinterUnlock, TypeOK
  <2>2. Claims' \subseteq Claims /\ p \in Keys /\ Keys' \subseteq Keys \ {p}
    BY <1>0, <1>2, <1>6, ClaimsMoved DEF PrinterUnlock
  <2> QED  BY <1>1, <1>2, <2>1, <2>2
<1>7. CASE PostEmpty(p)
  <2>1. sem'["full"] = sem["full"] /\ sem'["empty"] = sem["empty"] + 1 /\ sem'["mutex"] = sem["mutex"]
    BY <1>0, <1>7 DEF PostEmpty, TypeOK
  <2>2. p \in Claims /\ Claims' \subseteq Claims \ {p} /\ Keys' \subseteq Keys
    BY <1>0, <1>2, <1>7, ClaimsMoved DEF PostEmpty
  <2> QED  BY <1>1, <1>2, <2>1, <2>2
<1> QED  BY <1>3, <1>4, <1>5, <1>6, <1>7 DEF Printer

(* A user's.                                                               *)
LEMMA UserDamage ==
  ASSUME TypeOK, TypeOK', DamageInv, NEW u \in Users, User(u)
  PROVE  DamageInv'
<1> USE DEF Goto, Wait, Post, shared, locals, history, Charged
<1>0. u \in Procs /\ u \notin Printers /\ "full" # "empty" /\ "mutex" # "full" /\ "mutex" # "empty"
  BY PrintQueueAssumption DEF Procs
<1>1. sem["full"] \in Nat /\ sem["empty"] \in Nat /\ sem["mutex"] \in Nat /\ pc \in [Procs -> Labels]
  BY DEF TypeOK
<1>2. overtaken' = overtaken /\ running' = running /\ Stopped' = Stopped
  BY DEF User, UserLoop, WaitEmpty, Lock, WriteJob, LoadTail, StoreTail, PostFull, UserUnlock,
         Sleep, Stopped
<1> DEFINE Slots == Charged(u, sem["full"] + sem["empty"], sem'["full"] + sem'["empty"], Claims, Claims')
           Locks == Charged(u, sem["mutex"], sem'["mutex"], Keys, Keys')
<1> SUFFICES Slots /\ Locks
  BY <1>0, <1>2, DamageKept
<1> HIDE DEF Goto
<1>3. CASE UserLoop(u) \/ WriteJob(u) \/ LoadTail(u) \/ StoreTail(u) \/ Sleep(u)
  <2>1. sem' = sem
    BY <1>3 DEF UserLoop, WriteJob, LoadTail, StoreTail, Sleep
  <2>2. PICK from, to :
          /\ Goto(u, from, to)
          /\ <<from, to>> \in {<<"top", "wait">>, <<"top", "leave">>, <<"copy", "load">>,
                               <<"load", "store">>, <<"store", "post">>, <<"done", "top">>}
          /\ to = "wait" => running[u]
    BY <1>3 DEF Goto, UserLoop, WriteJob, LoadTail, StoreTail, Sleep
  <2>3. u \in Stopped => ~running[u]
    BY DEF Stopped
  <2>4. Claims' \subseteq Claims /\ Keys' \subseteq Keys
    BY <1>0, <1>2, <2>2, <2>3, ClaimsMoved
  <2> QED  BY <1>2, <2>1, <2>4
<1>4. CASE WaitEmpty(u)
  <2>1. sem'["full"] = sem["full"] /\ sem'["empty"] = sem["empty"] - 1 /\ sem'["mutex"] = sem["mutex"]
    BY <1>0, <1>4 DEF WaitEmpty, TypeOK
  <2>2. Claims' \subseteq Claims \cup {u} /\ Keys' \subseteq Keys
    BY <1>0, <1>2, <1>4, ClaimsMoved DEF WaitEmpty
  <2> QED  BY <1>1, <1>2, <2>1, <2>2
<1>5. CASE Lock(u)
  <2>1. sem'["full"] = sem["full"] /\ sem'["empty"] = sem["empty"] /\ sem'["mutex"] = sem["mutex"] - 1
    BY <1>0, <1>5 DEF Lock, TypeOK
  <2>2. Claims' \subseteq Claims /\ Keys' \subseteq Keys \cup {u}
    BY <1>0, <1>2, <1>5, ClaimsMoved DEF Lock
  <2> QED  BY <1>1, <1>2, <2>1, <2>2
<1>6. CASE PostFull(u)
  <2>1. sem'["full"] = sem["full"] + 1 /\ sem'["empty"] = sem["empty"] /\ sem'["mutex"] = sem["mutex"]
    BY <1>0, <1>6 DEF PostFull, TypeOK
  <2>2. u \in Claims /\ Claims' \subseteq Claims \ {u} /\ Keys' \subseteq Keys
    BY <1>0, <1>2, <1>6, ClaimsMoved DEF PostFull
  <2> QED  BY <1>1, <1>2, <2>1, <2>2
<1>7. CASE UserUnlock(u)
  <2>1. sem'["full"] = sem["full"] /\ sem'["empty"] = sem["empty"] /\ sem'["mutex"] = sem["mutex"] + 1
    BY <1>0, <1>7 DEF UserUnlock, TypeOK
  <2>2. Claims' \subseteq Claims /\ u \in Keys /\ Keys' \subseteq Keys \ {u}
    BY <1>0, <1>2, <1>7, ClaimsMoved DEF UserUnlock
  <2> QED  BY <1>1, <1>2, <2>1, <2>2
<1> QED  BY <1>3, <1>4, <1>5, <1>6, <1>7 DEF User

(* A signal's, or a kill's.                                                *)
LEMMA DisturbDamage ==
  ASSUME TypeOK, TypeOK', DamageInv, NEW p \in Procs, Disturb(p)
  PROVE  DamageInv'
<1> USE DEF Goto, shared, locals, history, Charged
<1>1. pc \in [Procs -> Labels] /\ running \in [Procs -> BOOLEAN] /\ Printers \subseteq Procs
  BY DEF TypeOK, Procs
<1>2. sem' = sem /\ overtaken' = overtaken
  BY DEF Disturb, Signal, Interrupt, Leave, Kill
<1>3. CASE Signal(p) \/ Interrupt(p)
  <2>1. Stopped' = Stopped \cup {p}
    BY <1>1, <1>3 DEF Signal, Interrupt, Stopped
  <2>2. Claims' \subseteq Claims \cup {p} /\ Keys' \subseteq Keys \cup {p}
    <3>1. \E from, to : Goto(p, from, to)
      BY <1>1, <1>3 DEF Signal, Interrupt
    <3>2. \A q \in Procs \ {p} : running'[q] = running[q]
      BY <1>1, <1>3 DEF Signal, Interrupt
    <3> HIDE DEF Goto
    <3> QED  BY <3>1, <3>2, ClaimsMoved
  <2>3. CASE p \notin Stopped
    BY <1>2, <2>1, <2>2, <2>3, DamageKept
  <2>4. CASE p \in Stopped
    <3>1. Stopped' = Stopped
      BY <2>1, <2>4
    <3>2. Interrupt(p)
      BY <1>3, <2>4 DEF Signal, Stopped
    <3>3. Claims' \subseteq Claims /\ Keys' \subseteq Keys
      <4>1. Goto(p, "wait", "lock") \/ Goto(p, "lock", "copy")
        BY <3>2 DEF Interrupt
      <4>2. \A q \in Procs \ {p} : running'[q] = running[q]
        BY <1>1, <3>2 DEF Interrupt
      <4> HIDE DEF Goto
      <4> QED  BY <2>4, <3>1, <4>1, <4>2, ClaimsMoved
    <3> QED  BY <1>2, <3>1, <3>3, DamageKept
  <2> QED  BY <2>3, <2>4
<1>4. CASE Leave(p) \/ Kill(p)
  <2>1. Stopped' = Stopped
    BY <1>4 DEF Leave, Kill, Stopped
  <2>2. Claims' \subseteq Claims /\ Keys' \subseteq Keys
    <3>1. \A q \in Procs : pc'[q] \in {pc[q], "gone"}
      BY <1>1, <1>4 DEF Leave, Kill
    <3>2. Users \subseteq Procs /\ Stopped \subseteq Procs
      BY DEF Procs, Stopped
    <3> QED  BY <1>1, <2>1, <3>1, <3>2 DEF Claims, Keys, Inside, At
  <2> QED  BY <1>2, <2>1, <2>2, DamageKept
<1> QED  BY <1>3, <1>4 DEF Disturb

(* The processes a second server overtakes are the only ones whose claims  *)
(* the new semaphores do not know of.                                      *)
LEMMA RestartDamage ==
  ASSUME TypeOK, TypeOK', Restart
  PROVE  DamageInv'
<1>1. Stopped' = Stopped /\ Stopped \subseteq Procs /\ overtaken' \subseteq Procs
  BY DEF Restart, Stopped, TypeOK
<1>2. Claims' \subseteq Stopped \cup overtaken' /\ Keys' \subseteq Stopped \cup overtaken'
  BY <1>1 DEF Restart, Claims, Keys, Inside, At, Procs, TypeOK
<1>3. Cardinality(Stopped \cup overtaken') <= Cardinality(Stopped) + Cardinality(overtaken')
  <2>1. IsFiniteSet(Stopped) /\ IsFiniteSet(overtaken')
    BY <1>1, ProcsFinite
  <2>2. /\ Cardinality(Stopped \cup overtaken') =
             Cardinality(Stopped) + Cardinality(overtaken') - Cardinality(Stopped \cap overtaken')
        /\ Cardinality(Stopped \cap overtaken') \in Nat
    BY <1>1, <2>1, FS_Union, ProcsFinite
  <2>3. Cardinality(Stopped) \in Nat /\ Cardinality(overtaken') \in Nat
    BY <1>1, ProcsFinite
  <2> QED  BY <2>2, <2>3
<1>4. /\ Cardinality(Claims') <= Cardinality(Stopped \cup overtaken')
      /\ Cardinality(Keys') <= Cardinality(Stopped \cup overtaken')
  BY <1>1, <1>2, NoMore
<1>5. /\ Cardinality(Claims') \in Nat /\ Cardinality(Keys') \in Nat
      /\ Cardinality(Stopped) \in Nat /\ Cardinality(overtaken') \in Nat
      /\ Cardinality(Stopped \cup overtaken') \in Nat
  BY <1>1, <1>2, ProcsFinite
<1>6. sem'["full"] = 0 /\ sem'["empty"] = MaxJobs /\ sem'["mutex"] = 1 /\ MaxJobs \in Nat
  BY PrintQueueAssumption DEF Restart, NewSem
<1> DEFINE c == Cardinality(Claims')
           k == Cardinality(Keys')
           s == Cardinality(Stopped)
           o == Cardinality(overtaken')
<1>7. /\ c \in Nat /\ k \in Nat /\ s \in Nat /\ o \in Nat
      /\ c <= s + o /\ k <= s + o
  BY <1>3, <1>4, <1>5
<1> HIDE DEF c, k, s, o
<1>8. 0 + MaxJobs + c <= MaxJobs + s + o /\ 1 + k <= 1 + s + o
  BY <1>6, <1>7
<1> QED  BY <1>1, <1>6, <1>8 DEF DamageInv, Within, c, k, s, o

(* Stored and Reserved, taken together, are what the semaphores hold and   *)
(* what processes claim.                                                   *)
LEMMA AccountClaimed ==
  ASSUME TypeOK
  PROVE  Stored + Reserved <= sem["full"] + sem["empty"] + Cardinality(Claims)
<1> DEFINE A == At(Printers, {"lock", "copy", "load", "store"})
           B == At(Users, {"post"})
           C == At(Users, {"lock", "copy", "load", "store"})
           D == At(Printers, {"unlock", "post"})
<1>1. /\ A \subseteq Procs /\ B \subseteq Procs /\ C \subseteq Procs /\ D \subseteq Procs
      /\ A \cap D = {} /\ B \cap C = {} /\ (A \cup D) \cap (B \cup C) = {}
      /\ A \cup D \subseteq Procs /\ B \cup C \subseteq Procs
      /\ (A \cup D) \cup (B \cup C) \subseteq Claims /\ Claims \subseteq Procs
  BY PrintQueueAssumption DEF At, Procs, Claims, Stopped
<1> HIDE DEF A, B, C, D
<1>2. ASSUME NEW S, NEW T, S \subseteq Procs, T \subseteq Procs, S \cap T = {}
      PROVE  Cardinality(S \cup T) = Cardinality(S) + Cardinality(T)
  <2>1. IsFiniteSet(S) /\ IsFiniteSet(T) /\ Cardinality(S) \in Nat /\ Cardinality(T) \in Nat
    BY <1>2, ProcsFinite
  <2>2. Cardinality(S \cup T) = Cardinality(S) + Cardinality(T) - Cardinality({})
    BY <1>2, <2>1, FS_Union
  <2> QED  BY <2>1, <2>2, FS_EmptySet
<1>3. Cardinality((A \cup D) \cup (B \cup C)) =
        Cardinality(A) + Cardinality(D) + (Cardinality(B) + Cardinality(C))
  <2>1. Cardinality(A \cup D) = Cardinality(A) + Cardinality(D)
    BY <1>1, <1>2
  <2>2. Cardinality(B \cup C) = Cardinality(B) + Cardinality(C)
    BY <1>1, <1>2
  <2> QED  BY <1>1, <1>2, <2>1, <2>2
<1>4. Cardinality((A \cup D) \cup (B \cup C)) <= Cardinality(Claims)
  BY <1>1, NoMore
<1>5. /\ Cardinality(A) \in Nat /\ Cardinality(B) \in Nat /\ Cardinality(C) \in Nat
      /\ Cardinality(D) \in Nat /\ Cardinality(Claims) \in Nat
      /\ sem["full"] \in Nat /\ sem["empty"] \in Nat
  BY <1>1, ProcsFinite DEF TypeOK
<1>6. /\ Stored = sem["full"] + Cardinality(A) + Cardinality(B)
      /\ Reserved = sem["empty"] + Cardinality(C) + Cardinality(D)
  BY DEF Stored, Reserved, A, B, C, D
<1> QED  BY <1>3, <1>4, <1>5, <1>6

(* Signals, kills and a second server do limited damage: the semaphores    *)
(* never hold, with what processes have claimed, more than was there but   *)
(* for one slot and one lock per process stopped by a signal and one per   *)
(* process overtaken (printers_server.c:16, 50-52, 111, 135-139,           *)
(* users_client.c:31-36).                                                  *)
THEOREM DamageIsBounded == Spec => []DamageBounded
<1>1. Init => DamageInv
  <2> SUFFICES ASSUME Init PROVE DamageInv
    OBVIOUS
  <2>1. Claims = {} /\ Keys = {} /\ Stopped = {} /\ overtaken = {}
    BY DEF Init, Claims, Keys, Inside, At, Stopped, Procs
  <2>2. sem["full"] = 0 /\ sem["empty"] = MaxJobs /\ sem["mutex"] = 1 /\ MaxJobs \in Nat
    BY PrintQueueAssumption DEF Init, NewSem
  <2> QED  BY <2>1, <2>2, FS_EmptySet DEF DamageInv, Within
<1>2. TypeOK /\ TypeOK' /\ DamageInv /\ [Next]_vars => DamageInv'
  <2> SUFFICES ASSUME TypeOK, TypeOK', DamageInv, [Next]_vars PROVE DamageInv'
    OBVIOUS
  <2>1. CASE UNCHANGED vars
    <3>1. /\ Claims' = Claims /\ Keys' = Keys /\ Stopped' = Stopped
          /\ sem' = sem /\ overtaken' = overtaken
      BY <2>1 DEF vars, shared, locals, history, Claims, Keys, Inside, At, Stopped
    <3> QED  BY <3>1 DEF DamageInv, Within
  <2> QED  BY <2>1, PrinterDamage, UserDamage, DisturbDamage, RestartDamage DEF Next
<1>3. TypeOK /\ DamageInv => DamageBounded
  <2> SUFFICES ASSUME TypeOK, DamageInv PROVE DamageBounded
    OBVIOUS
  <2> DEFINE u == Cardinality(Stopped)
             v == Cardinality(overtaken)
             c == Cardinality(Claims)
             k == Cardinality(Keys)
             i == Cardinality(Inside)
             f == sem["full"]
             e == sem["empty"]
             m == sem["mutex"]
  <2>1. /\ Claims \subseteq Procs /\ Keys \subseteq Procs /\ Stopped \subseteq Procs
        /\ overtaken \subseteq Procs /\ Inside \subseteq Keys
    BY DEF Claims, Keys, Inside, At, Stopped, Procs, TypeOK
  <2>2. u \in Nat /\ v \in Nat /\ c \in Nat /\ k \in Nat /\ i \in Nat /\ i <= k
    <3>1. Inside \subseteq Procs
      BY <2>1
    <3> QED  BY <2>1, <3>1, ProcsFinite, NoMore
  <2>3. f \in Nat /\ e \in Nat /\ m \in Nat /\ MaxJobs \in Nat
    BY PrintQueueAssumption DEF TypeOK
  <2>4. f + e + c <= MaxJobs + u + v /\ m + k <= 1 + u + v
    BY DEF DamageInv, Within
  <2>5. Stored + Reserved <= f + e + c
    BY AccountClaimed
  <2>6. Stored \in Int /\ Reserved \in Int
    <3>1. \A P \in {Printers, Users} : \A L : Cardinality(At(P, L)) \in Nat
      BY ProcsFinite DEF At, Procs
    <3> QED  BY <2>3, <3>1 DEF Stored, Reserved
  <2> HIDE DEF c, k, i, f, e, m
  <2>7. Stored + Reserved <= MaxJobs + (u + v) /\ m + i <= 1 + (u + v)
    <3> HIDE DEF u, v
    <3> QED  BY <2>2, <2>3, <2>4, <2>5, <2>6
  <2> QED  BY <2>7 DEF DamageBounded, Stopped, i, m
<1> QED  BY <1>1, <1>2, <1>3, TypeCorrect, PTL DEF Spec

=============================================================================
