----------------------------- MODULE LifeProofs -------------------------------
(***************************************************************************)
(* Theorems about the Game of Life of cw09, for grids of every size and    *)
(* every number of threads.                                                *)
(***************************************************************************)
EXTENDS LifeThreads, TLAPS

Buffers == {"foreground", "background"}

(* The boundary before the part of thread t, and after that of t - 1.      *)
LEMMA Boundary ==
  ASSUME NEW t \in 0 .. NThreads
  PROVE  /\ (t * Size) \div NThreads \in 0 .. Size
         /\ \A k \in Int : k < (t * Size) \div NThreads <=> (k + 1) * NThreads <= t * Size
<1> DEFINE q == (t * Size) \div NThreads
<1>1. Size \in Nat \ {0} /\ NThreads \in Nat \ {0}
  <2>1. Size \in Nat
    BY GridAssumption DEF Size
  <2> QED  BY <2>1, GridAssumption
<1>2. t \in Nat /\ t <= NThreads /\ t * Size \in Nat /\ t * Size <= NThreads * Size
  BY <1>1
<1>3. q \in Int /\ NThreads * q <= t * Size /\ t * Size < NThreads * q + NThreads
  BY <1>1, <1>2
<1> HIDE DEF q
<1>4. q >= 0
  BY <1>1, <1>2, <1>3
<1>5. q <= Size
  BY <1>1, <1>2, <1>3
<1>6. ASSUME NEW k \in Int PROVE k < q <=> (k + 1) * NThreads <= t * Size
  <2>1. CASE k < q
    <3>1. (k + 1) * NThreads <= q * NThreads
      BY <1>1, <1>3, <2>1
    <3> QED  BY <1>1, <1>2, <1>3, <2>1, <3>1
  <2>2. CASE k >= q
    <3>1. (k + 1) * NThreads >= (q + 1) * NThreads
      BY <1>1, <1>3, <2>2
    <3> QED  BY <1>1, <1>2, <1>3, <2>2, <3>1
  <2> QED  BY <1>3, <2>1, <2>2
<1> QED  BY <1>3, <1>4, <1>5, <1>6 DEF q

(* A part ends where the next one begins, and the last with the grid       *)
(* (life.c:84-90).                                                         *)
LEMMA PartBounds ==
  ASSUME NEW t \in Thread
  PROVE  /\ Start(t) \in 0 .. Size /\ End(t) \in 0 .. Size
         /\ End(t) = ((t + 1) * Size) \div NThreads
         /\ Start(t) <= End(t)
<1>1. Size \in Nat \ {0} /\ NThreads \in Nat \ {0}
  <2>1. Size \in Nat
    BY GridAssumption DEF Size
  <2> QED  BY <2>1, GridAssumption
<1>2. t \in 0 .. NThreads /\ t + 1 \in 0 .. NThreads
  BY <1>1 DEF Thread
<1>3. Start(t) \in 0 .. Size /\ End(t) \in 0 .. Size /\ End(t) = ((t + 1) * Size) \div NThreads
  <2>1. CASE t = NThreads - 1
    <3>1. ((t + 1) * Size) \div NThreads = Size
      BY <1>1, <2>1
    <3> QED  BY <1>1, <1>2, <2>1, <3>1, Boundary DEF Start, End
  <2>2. CASE t # NThreads - 1
    BY <1>1, <1>2, <2>2, Boundary DEF Start, End
  <2> QED  BY <2>1, <2>2
<1>4. Start(t) <= End(t)
  <2> SUFFICES ASSUME End(t) < Start(t) PROVE FALSE
    BY <1>3
  <2>1. (End(t) + 1) * NThreads <= t * Size
    BY <1>2, <1>3, Boundary DEF Start
  <2>2. t * Size <= (t + 1) * Size
    BY <1>1, <1>2
  <2>3. End(t) < End(t)
    <3>1. (End(t) + 1) * NThreads <= (t + 1) * Size
      BY <1>1, <1>2, <1>3, <2>1, <2>2
    <3> QED  BY <1>2, <1>3, <3>1, Boundary
  <2> QED  BY <1>3, <2>3
<1> QED  BY <1>3, <1>4

(* Every cell is in the part of exactly one thread, whether their number   *)
(* divides the cells or not.                                               *)
THEOREM CellsDivided ==
  \A k \in Cells : \E t \in Thread : k \in Part(t) /\ \A u \in Thread \ {t} : k \notin Part(u)
<1> SUFFICES ASSUME NEW k \in Cells
             PROVE  \E t \in Thread : /\ k \in Part(t)
                                      /\ \A u \in Thread \ {t} : k \notin Part(u)
  OBVIOUS
<1>1. Size \in Nat \ {0} /\ NThreads \in Nat \ {0} /\ k \in Nat /\ k < Size
  <2>1. Size \in Nat
    BY GridAssumption DEF Size
  <2> QED  BY <2>1, GridAssumption DEF Cells
<1>2. \A t \in Thread : k \in Part(t) <=> /\ ~((k + 1) * NThreads <= t * Size)
                                          /\ (k + 1) * NThreads <= (t + 1) * Size
  <2> SUFFICES ASSUME NEW t \in Thread
               PROVE  k \in Part(t) <=> /\ ~((k + 1) * NThreads <= t * Size)
                                        /\ (k + 1) * NThreads <= (t + 1) * Size
    OBVIOUS
  <2>1. t \in 0 .. NThreads /\ t + 1 \in 0 .. NThreads
    BY <1>1 DEF Thread
  <2>2. k < Start(t) <=> (k + 1) * NThreads <= t * Size
    BY <1>1, <2>1, Boundary DEF Start
  <2>3. k < End(t) <=> (k + 1) * NThreads <= (t + 1) * Size
    BY <1>1, <2>1, Boundary, PartBounds
  <2>4. Start(t) \in Int /\ End(t) \in Int
    BY PartBounds
  <2> QED  BY <1>1, <2>2, <2>3, <2>4 DEF Part
<1> DEFINE x == (k + 1) * NThreads
           t == (x - 1) \div Size
<1>3. x \in Nat /\ x >= 1 /\ x <= NThreads * Size
  BY <1>1
<1>4. t \in Int /\ Size * t <= x - 1 /\ x - 1 < Size * t + Size
  BY <1>1, <1>3
<1> HIDE DEF x, t
<1>5. t >= 0 /\ t < NThreads
  BY <1>1, <1>3, <1>4
<1>6. t \in Thread
  BY <1>1, <1>4, <1>5 DEF Thread
<1>7. ~(x <= t * Size) /\ x <= (t + 1) * Size
  BY <1>1, <1>3, <1>4
<1>8. ASSUME NEW u \in Thread, u # t PROVE x <= u * Size \/ ~(x <= (u + 1) * Size)
  <2>1. u \in Int
    BY <1>1 DEF Thread
  <2>2. CASE u > t
    <3>1. u * Size >= (t + 1) * Size
      BY <1>1, <1>4, <2>1, <2>2
    <3> QED  BY <1>1, <1>3, <1>4, <1>7, <2>1, <3>1
  <2>3. CASE u < t
    <3>1. (u + 1) * Size <= t * Size
      BY <1>1, <1>4, <2>1, <2>3
    <3> QED  BY <1>1, <1>3, <1>4, <1>7, <2>1, <3>1
  <2> QED  BY <1>4, <1>8, <2>1, <2>2, <2>3
<1> QED  BY <1>2, <1>6, <1>7, <1>8 DEF x

(* The threads main has not signalled in this round.                       *)
Unsignalled == IF main \in {"send", "killed"} THEN {t \in Thread : t >= turn} ELSE {}

LifeTypeOK ==
  /\ buffer \in [Buffers -> Grids]
  /\ worker \in [Thread -> {"new", "waiting", "working"}]
  /\ src \in [Thread -> Buffers]
  /\ cell \in [Thread -> 0 .. Size]
  /\ pending \in [Thread -> BOOLEAN]
  /\ main \in {"draw", "send", "sleep", "killed"}
  /\ turn \in 0 .. NThreads

(* Who works when: nobody while main draws, and nobody main has not        *)
(* signalled yet.                                                          *)
RoundInv ==
  /\ main = "draw" => Behind = {}
  /\ \A t \in Thread : pending[t] => worker[t] = "waiting"
  /\ \A t \in Unsignalled : worker[t] # "working" /\ ~pending[t]

(* Generation s is the one the threads behind are reading; those done have *)
(* written the next one, and swapped.                                      *)
Written(t, s) ==
  IF t \in Behind
  THEN worker[t] = "working" =>
         /\ cell[t] \in Start(t) .. End(t)
         /\ \A k \in Cells :
              Start(t) <= k /\ k < cell[t] => buffer[Other(s)][k] = IsAlive(k, buffer[s])
  ELSE \A k \in Part(t) : buffer[Other(s)][k] = IsAlive(k, buffer[s])

GenerationInv(s) ==
  /\ Behind = {} => \A t \in Thread : src[t] = s
  /\ Behind # {} => \A t \in Thread : /\ src[t] = IF t \in Behind THEN s ELSE Other(s)
                                      /\ Written(t, s)

(* What is on the screen is in the foreground, or two generations before   *)
(* it; with the background to be read next, one before that.               *)
ScreenInv(s) ==
  /\ s = "background" => /\ buffer["background"] = UpdateGrid(screen)
                         /\ Behind = {} => buffer["foreground"] = screen
  /\ s = "foreground" =>
       \/ buffer["foreground"] = screen
       \/ Behind = {} /\ buffer["foreground"] = UpdateGrid(UpdateGrid(screen))

LifeInv ==
  LifeTypeOK /\ RoundInv /\ \E s \in Buffers : GenerationInv(s) /\ ScreenInv(s)

(* There are cells and threads.                                            *)
LEMMA Sizes == Size \in Nat /\ NThreads \in Nat \ {0} /\ 0 \in Thread
<1>1. Size \in Nat
  BY GridAssumption DEF Size
<1> QED  BY <1>1, GridAssumption DEF Thread

LEMMA AliveType == ASSUME NEW k, NEW g PROVE IsAlive(k, g) \in BOOLEAN
<1> DEFINE count == Cardinality({n \in Neighbours(k) : g[n]})
<1> HIDE DEF count
<1>1. (count \in {2, 3}) \in BOOLEAN /\ (count = 3) \in BOOLEAN
  BY SMT
<1>2. (IF g[k] THEN count \in {2, 3} ELSE count = 3) \in BOOLEAN
  BY <1>1, Zenon
<1> QED  BY <1>2, Zenon DEF IsAlive, count

(* All threads behind read the same grid, so that it does not matter which *)
(* of them is asked.                                                       *)
LEMMA ReadFrom ==
  ASSUME NEW behind \in SUBSET Thread, NEW source, NEW s,
         behind = {} => \A t \in Thread : source[t] = s, \A t \in behind : source[t] = s
  PROVE  source[IF behind = {} THEN 0 ELSE CHOOSE t \in behind : TRUE] = s
<1>1. CASE behind = {}
  BY <1>1, Sizes
<1>2. CASE behind # {}
  <2>1. (CHOOSE t \in behind : TRUE) \in behind
    BY <1>2
  <2> QED  BY <1>2, <2>1
<1> QED  BY <1>1, <1>2

LEMMA CurrentIsRead ==
  ASSUME NEW s \in Buffers, GenerationInv(s) PROVE Current = buffer[s]
<1>1. Behind \in SUBSET Thread
  BY DEF Behind
<1> QED  BY <1>1, ReadFrom DEF GenerationInv, Current

(* Every value stays of its type; a thread computes cells of the grid only *)
(* (life.c:82-90).                                                         *)
LEMMA LifeTypeStep ==
  ASSUME LifeTypeOK, [LifeNext]_lifeVars PROVE LifeTypeOK'
<1> USE DEF LifeTypeOK
<1>1. ASSUME NEW t \in Thread, Worker(t) PROVE LifeTypeOK'
  <2> USE DEF WorkerGoes
  <2>1. CASE Mask(t)
    BY <2>1 DEF Mask
  <2>2. CASE SigWait(t)
    BY <2>2, PartBounds DEF SigWait
  <2>3. CASE Compute(t)
    <3>1. cell[t] \in Cells /\ cell[t] + 1 \in 0 .. Size
      BY <2>3, PartBounds, Sizes DEF Compute, Cells
    <3>2. IsAlive(cell[t], buffer[src[t]]) \in BOOLEAN
      BY AliveType
    <3>3. buffer' \in [Buffers -> Grids]
      BY <2>3, <3>1, <3>2 DEF Compute, Grids, Other, Buffers
    <3> QED  BY <2>3, <3>1, <3>3 DEF Compute
  <2>4. CASE SwapGrids(t)
    BY <2>4 DEF SwapGrids, Other, Buffers
  <2> QED  BY <1>1, <2>1, <2>2, <2>3, <2>4 DEF Worker
<1>2. CASE Draw
  BY <1>2, Sizes DEF Draw, workerVars
<1>3. CASE SendSignal
  <2>1. turn \in Thread /\ turn + 1 \in 0 .. NThreads
    BY <1>3, Sizes DEF SendSignal, Thread
  <2>2. CASE worker[turn] = "new"
    BY <1>3, <2>2 DEF SendSignal
  <2>3. CASE worker[turn] # "new"
    <3>1. pending' \in [Thread -> BOOLEAN]
      BY <1>3, <2>1, <2>3 DEF SendSignal
    <3> QED  BY <1>3, <2>1, <2>3, <3>1 DEF SendSignal
  <2> QED  BY <2>2, <2>3
<1>4. CASE Usleep
  BY <1>4 DEF Usleep, workerVars
<1>5. CASE WakeUp
  BY <1>5 DEF WakeUp, workerVars
<1>6. CASE UNCHANGED lifeVars
  BY <1>6 DEF lifeVars, workerVars
<1> QED  BY <1>1, <1>2, <1>3, <1>4, <1>5, <1>6 DEF LifeNext, MainThread

(* What main does changes nobody's place but by Draw, which sends          *)
(* everybody off to the next generation (life.c:98-107).                   *)
LEMMA MainStep ==
  ASSUME LifeTypeOK, RoundInv, Timely, NEW s \in Buffers, GenerationInv(s), ScreenInv(s), MainThread
  PROVE  RoundInv' /\ GenerationInv(s)' /\ ScreenInv(s)' /\ buffer' = buffer
<1>1. CASE Draw
  <2>1. Behind = {} /\ \A t \in Thread : ~pending[t] /\ worker[t] # "working" /\ src[t] = s
    BY <1>1 DEF Draw, RoundInv, GenerationInv, Behind
  <2>2. Behind' = Thread /\ Unsignalled' \subseteq Thread
    BY <1>1, Sizes DEF Draw, Behind, Unsignalled, Thread
  <2>3. UNCHANGED <<buffer, worker, src, cell, pending>> /\ main' = "send"
        /\ screen' = buffer["foreground"]
    BY <1>1 DEF Draw, workerVars
  <2>4. RoundInv' /\ GenerationInv(s)'
    BY <2>1, <2>2, <2>3, Sizes DEF RoundInv, GenerationInv, Written
  <2>5. ScreenInv(s)'
    BY <2>1, <2>2, <2>3, Sizes DEF ScreenInv, Buffers
  <2> QED  BY <2>3, <2>4, <2>5
<1>2. ASSUME Behind' = Behind, UNCHANGED <<buffer, src, worker, cell, screen>>
      PROVE  GenerationInv(s)' /\ ScreenInv(s)'
  BY <1>2 DEF GenerationInv, Written, ScreenInv
<1>3. CASE SendSignal
  <2>1. turn \in Thread /\ turn \in Unsignalled /\ main = "send"
        /\ worker[turn] # "working" /\ ~pending[turn]
    BY <1>3, Sizes DEF SendSignal, Thread, Unsignalled, LifeTypeOK, RoundInv
  <2>2. UNCHANGED <<buffer, src, worker, cell, screen>>
    BY <1>3 DEF SendSignal
  <2>3. CASE worker[turn] = "new"
    <3>1. main' = "killed" /\ UNCHANGED <<turn, pending>>
      BY <1>3, <2>3 DEF SendSignal
    <3>2. Behind' = Behind /\ RoundInv'
      BY <2>1, <2>2, <3>1 DEF Behind, RoundInv, Unsignalled
    <3> QED  BY <1>2, <2>2, <3>2
  <2>4. CASE worker[turn] # "new"
    <3>1. worker[turn] = "waiting"
      BY <2>1, <2>4 DEF LifeTypeOK
    <3>2. main' = "send" /\ turn' = turn + 1 /\ pending' = [pending EXCEPT ![turn] = TRUE]
      BY <1>3, <2>1, <2>4 DEF SendSignal
    <3>3. \A t \in Thread : t >= turn <=> t = turn \/ t >= turn'
      BY <2>1, <3>2 DEF Thread
    <3>4. \A t \in Thread : pending'[t] <=> pending[t] \/ t = turn
      BY <3>2 DEF LifeTypeOK
    <3>5. Unsignalled' = Unsignalled \ {turn}
      BY <2>1, <3>2, <3>3 DEF Unsignalled, Thread
    <3>6. Behind' = Behind
      BY <2>1, <2>2, <3>2, <3>3, <3>4 DEF Behind
    <3>7. RoundInv'
      BY <2>1, <2>2, <3>1, <3>2, <3>4, <3>5 DEF RoundInv, Unsignalled
    <3> QED  BY <1>2, <2>2, <3>6, <3>7
  <2> QED  BY <2>3, <2>4
<1>4. CASE Usleep
  <2>1. \A t \in Thread : ~(t >= turn)
    BY <1>4, Sizes DEF Usleep, Thread
  <2>2. UNCHANGED <<buffer, worker, src, cell, pending, screen>> /\ main = "send" /\ main' = "sleep"
    BY <1>4 DEF Usleep, workerVars
  <2>3. Behind' = Behind /\ RoundInv'
    BY <2>1, <2>2 DEF Behind, RoundInv, Unsignalled
  <2> QED  BY <1>2, <2>2, <2>3
<1>5. CASE WakeUp
  <2>1. UNCHANGED <<buffer, worker, src, cell, pending, screen>> /\ main = "sleep" /\ main' = "draw"
        /\ \A t \in Thread : ~pending[t] /\ worker[t] = "waiting"
    BY <1>5 DEF WakeUp, workerVars, Idle
  <2>2. Behind = {} /\ Behind' = {}
    BY <2>1 DEF Behind
  <2>3. RoundInv'
    BY <2>1, <2>2 DEF RoundInv, Unsignalled
  <2> QED  BY <1>2, <2>1, <2>2, <2>3
<1> QED  BY <1>1, <1>3, <1>4, <1>5 DEF MainThread

(* A thread that is not the last to end its part leaves the generation as  *)
(* it is: it writes to the other grid, and what it writes is the next one  *)
(* (life.c:41-47, grid.c).                                                 *)
LEMMA WorkerStep ==
  ASSUME LifeTypeOK, RoundInv, NEW s \in Buffers, GenerationInv(s), ScreenInv(s),
         NEW t \in Thread, Mask(t) \/ SigWait(t) \/ Compute(t)
  PROVE  RoundInv' /\ GenerationInv(s)' /\ ScreenInv(s)' /\ buffer'[s] = buffer[s]
<1> USE DEF WorkerGoes
<1>1. CASE Mask(t)
  <2>1. /\ UNCHANGED <<buffer, src, cell, pending, main, turn, screen>>
        /\ worker[t] = "new" /\ worker' = [worker EXCEPT ![t] = "waiting"]
    BY <1>1 DEF Mask
  <2>2. \A u \in Thread : worker'[u] = "working" <=> worker[u] = "working"
    BY <2>1 DEF LifeTypeOK
  <2>3. Behind' = Behind /\ RoundInv'
    BY <2>1, <2>2 DEF Behind, RoundInv, Unsignalled, LifeTypeOK
  <2> QED  BY <2>1, <2>2, <2>3 DEF GenerationInv, Written, ScreenInv
<1>2. CASE SigWait(t)
  <2>1. /\ UNCHANGED <<buffer, src, main, turn, screen>> /\ pending[t]
        /\ worker' = [worker EXCEPT ![t] = "working"]
        /\ pending' = [pending EXCEPT ![t] = FALSE]
        /\ cell' = [cell EXCEPT ![t] = Start(t)]
    BY <1>2 DEF SigWait
  <2>2. t \in Behind /\ t \notin Unsignalled /\ main # "draw"
    BY <2>1 DEF Behind, RoundInv
  <2>3. \A u \in Thread : /\ u # t => worker'[u] = worker[u] /\ pending'[u] = pending[u]
                                       /\ cell'[u] = cell[u]
                          /\ u = t => worker'[u] = "working" /\ ~pending'[u]
                                       /\ cell'[u] = Start(u)
    BY <2>1 DEF LifeTypeOK
  <2>4. Behind' = Behind
    BY <2>1, <2>2, <2>3 DEF Behind
  <2>5. RoundInv'
    <3>1. \A u \in Thread : pending'[u] => worker'[u] = "waiting"
      BY <2>3 DEF RoundInv
    <3>2. Unsignalled' = Unsignalled /\ main' = main /\ Unsignalled \subseteq Thread
      BY <2>1 DEF Unsignalled
    <3>3. \A u \in Unsignalled : worker'[u] # "working" /\ ~pending'[u]
      BY <2>2, <2>3, <3>2 DEF RoundInv
    <3> QED  BY <2>2, <3>1, <3>2, <3>3 DEF RoundInv
  <2>6. GenerationInv(s)'
    <3>1. ASSUME NEW u \in Thread PROVE Written(u, s)'
      <4>1. CASE u = t
        <5>1. /\ Start(t) \in Int /\ End(t) \in Int /\ Start(t) <= End(t)
              /\ \A k \in Cells : ~(Start(t) <= k /\ k < Start(t))
          BY PartBounds, Sizes DEF Cells
        <5> QED  BY <2>2, <2>3, <2>4, <4>1, <5>1 DEF Written
      <4>2. CASE u # t
        BY <2>1, <2>2, <2>3, <2>4, <4>2 DEF GenerationInv, Written
      <4> QED  BY <4>1, <4>2
    <3> QED  BY <2>1, <2>2, <2>4, <3>1 DEF GenerationInv
  <2>7. ScreenInv(s)' /\ buffer'[s] = buffer[s]
    BY <2>1, <2>4 DEF ScreenInv
  <2> QED  BY <2>5, <2>6, <2>7
<1>3. CASE Compute(t)
  <2>1. /\ UNCHANGED <<src, worker, pending, main, turn, screen>>
        /\ worker[t] = "working" /\ cell[t] < End(t)
        /\ buffer' = [buffer EXCEPT ![Other(src[t])][cell[t]] = IsAlive(cell[t], buffer[src[t]])]
        /\ cell' = [cell EXCEPT ![t] = cell[t] + 1]
    BY <1>3 DEF Compute, LifeTypeOK
  <2>2. t \in Behind /\ src[t] = s
    BY <2>1 DEF Behind, GenerationInv
  <2>3. Behind' = Behind
    BY <2>1 DEF Behind
  <2>4. /\ Other(s) \in Buffers /\ Other(s) # s
        /\ cell[t] \in Cells /\ cell[t] \in Int
        /\ cell[t] \in Start(t) .. End(t) /\ Start(t) \in Int /\ End(t) \in Int
    BY <2>1, <2>2, PartBounds, Sizes
    DEF Other, Buffers, LifeTypeOK, Cells, GenerationInv, Written
  <2>5. /\ buffer'[s] = buffer[s]
        /\ \A k \in Cells : buffer'[Other(s)][k] = IF k = cell[t] THEN IsAlive(k, buffer[s])
                                                   ELSE buffer[Other(s)][k]
    <3>1. buffer[Other(s)] \in Grids /\ buffer[s] \in Grids
      BY <2>4 DEF LifeTypeOK
    <3>2. buffer' = [buffer EXCEPT ![Other(s)] =
                       [buffer[Other(s)] EXCEPT ![cell[t]] = IsAlive(cell[t], buffer[s])]]
      BY <2>1, <2>2
    <3>3. /\ buffer'[s] = buffer[s]
          /\ buffer'[Other(s)] = [buffer[Other(s)] EXCEPT ![cell[t]] = IsAlive(cell[t], buffer[s])]
      BY <2>4, <3>2 DEF LifeTypeOK
    <3> QED  BY <2>4, <3>1, <3>3 DEF Grids
  <2>6. RoundInv'
    BY <2>1, <2>3 DEF RoundInv, Unsignalled
  <2>7. GenerationInv(s)'
    <3>1. ASSUME NEW u \in Thread PROVE Written(u, s)'
      <4>1. Written(u, s)
        BY <2>2 DEF GenerationInv
      <4>2. CASE u = t
        <5>1. \A k \in Cells : k < cell[t] + 1 <=> k < cell[t] \/ k = cell[t]
          BY <2>4, Sizes DEF Cells
        <5>2. cell'[t] = cell[t] + 1 /\ cell'[t] \in Start(t) .. End(t)
          BY <2>1, <2>4 DEF LifeTypeOK
        <5> QED  BY <2>1, <2>2, <2>3, <2>5, <4>1, <4>2, <5>1, <5>2 DEF Written
      <4>3. CASE u # t
        <5>1. cell'[u] = cell[u] /\ worker'[u] = worker[u]
          BY <2>1, <4>3 DEF LifeTypeOK
        <5>2. Part(u) \subseteq Cells
          BY DEF Part
        <5> QED  BY <2>3, <2>5, <4>1, <5>1, <5>2 DEF Written
      <4> QED  BY <4>2, <4>3
    <3> QED  BY <2>1, <2>2, <2>3, <3>1 DEF GenerationInv
  <2>8. ScreenInv(s)'
    BY <2>1, <2>2, <2>3, <2>5 DEF ScreenInv, Buffers
  <2> QED  BY <2>5, <2>6, <2>7, <2>8
<1> QED  BY <1>1, <1>2, <1>3

(* The thread that ends its part last completes the generation, and with   *)
(* it the grid that is read changes (life.c:48).                           *)
LEMMA SwapStep ==
  ASSUME LifeTypeOK, RoundInv, NEW s \in Buffers, GenerationInv(s), ScreenInv(s),
         NEW t \in Thread, SwapGrids(t)
  PROVE  /\ RoundInv' /\ buffer' = buffer
         /\ \/ GenerationInv(s)' /\ ScreenInv(s)'
            \/ /\ GenerationInv(Other(s))' /\ ScreenInv(Other(s))'
               /\ buffer[Other(s)] = UpdateGrid(buffer[s])
<1> USE DEF WorkerGoes
<1>1. /\ UNCHANGED <<buffer, cell, pending, main, turn, screen>>
      /\ worker[t] = "working" /\ cell[t] = End(t)
      /\ worker' = [worker EXCEPT ![t] = "waiting"]
      /\ src' = [src EXCEPT ![t] = Other(src[t])]
  BY DEF SwapGrids, LifeTypeOK
<1>2. t \in Behind /\ t \notin Unsignalled /\ ~pending[t] /\ src[t] = s /\ Behind # {} /\ main # "draw"
  BY <1>1 DEF Behind, RoundInv, GenerationInv
<1>3. \A u \in Thread : /\ u # t => worker'[u] = worker[u] /\ src'[u] = src[u]
                        /\ u = t => worker'[u] = "waiting" /\ src'[u] = Other(s)
  BY <1>1, <1>2 DEF LifeTypeOK
<1>4. Behind' = Behind \ {t}
  <2>1. ~(main \in {"send", "killed"} /\ t >= turn)
    BY <1>2 DEF Unsignalled
  <2> QED  BY <1>1, <1>2, <1>3, <2>1 DEF Behind
<1>5. RoundInv'
  BY <1>1, <1>2, <1>3, <1>4 DEF RoundInv, Unsignalled
<1>6. \A k \in Part(t) : buffer[Other(s)][k] = IsAlive(k, buffer[s])
  BY <1>1, <1>2 DEF GenerationInv, Written, Part
<1>7. CASE Behind' # {}
  <2>1. ASSUME NEW u \in Thread PROVE Written(u, s)'
    <3>1. CASE u = t
      BY <1>1, <1>4, <1>6, <3>1 DEF Written
    <3>2. CASE u # t
      BY <1>1, <1>2, <1>3, <1>4, <3>2 DEF GenerationInv, Written
    <3> QED  BY <3>1, <3>2
  <2>2. GenerationInv(s)'
    BY <1>2, <1>3, <1>4, <1>7, <2>1 DEF GenerationInv
  <2>3. ScreenInv(s)'
    BY <1>1, <1>2, <1>7 DEF ScreenInv
  <2> QED  BY <1>1, <1>5, <2>2, <2>3
<1>8. CASE Behind' = {}
  <2>1. \A u \in Thread \ {t} : u \notin Behind
    BY <1>4, <1>8
  <2>2. \A k \in Cells : buffer[Other(s)][k] = IsAlive(k, buffer[s])
    BY <1>2, <1>6, <2>1, CellsDivided DEF GenerationInv, Written
  <2>3. buffer[Other(s)] = UpdateGrid(buffer[s])
    <3>1. buffer[Other(s)] \in [Cells -> BOOLEAN]
      BY DEF LifeTypeOK, Grids, Other, Buffers
    <3>2. buffer[Other(s)] = [k \in Cells |-> buffer[Other(s)][k]]
      BY <3>1
    <3> QED  BY <2>2, <3>2 DEF UpdateGrid
  <2>4. GenerationInv(Other(s))'
    BY <1>2, <1>3, <1>8, <2>1 DEF GenerationInv
  <2>5. ScreenInv(Other(s))'
    BY <1>1, <1>2, <1>8, <2>3 DEF ScreenInv, Other, Buffers
  <2> QED  BY <1>1, <1>5, <2>3, <2>4, <2>5
<1> QED  BY <1>7, <1>8

(* What a step does to the invariant and to the grid that is read.         *)
LEMMA LifeStep ==
  ASSUME Timely, LifeTypeOK, RoundInv, NEW s \in Buffers, GenerationInv(s), ScreenInv(s),
         [LifeNext]_lifeVars
  PROVE  /\ LifeTypeOK' /\ RoundInv'
         /\ \/ GenerationInv(s)' /\ ScreenInv(s)' /\ buffer'[s] = buffer[s]
            \/ /\ GenerationInv(Other(s))' /\ ScreenInv(Other(s))'
               /\ buffer'[Other(s)] = UpdateGrid(buffer[s])
<1>1. LifeTypeOK'
  BY LifeTypeStep
<1>2. CASE UNCHANGED lifeVars
  BY <1>1, <1>2 DEF lifeVars, workerVars, RoundInv, Unsignalled, Behind, GenerationInv, Written,
     ScreenInv
<1>3. CASE MainThread
  BY <1>1, <1>3, MainStep
<1>4. ASSUME NEW t \in Thread, Mask(t) \/ SigWait(t) \/ Compute(t)
      PROVE  RoundInv' /\ GenerationInv(s)' /\ ScreenInv(s)' /\ buffer'[s] = buffer[s]
  BY <1>4, WorkerStep
<1>5. ASSUME NEW t \in Thread, SwapGrids(t)
      PROVE  /\ RoundInv' /\ buffer' = buffer
             /\ \/ GenerationInv(s)' /\ ScreenInv(s)'
                \/ /\ GenerationInv(Other(s))' /\ ScreenInv(Other(s))'
                   /\ buffer[Other(s)] = UpdateGrid(buffer[s])
  BY <1>5, SwapStep
<1> QED  BY <1>1, <1>2, <1>3, <1>4, <1>5 DEF LifeNext, Worker

LEMMA OtherBuffer == ASSUME NEW s \in Buffers PROVE Other(s) \in Buffers
BY DEF Other, Buffers

(* All starts with the first generation in the foreground.                 *)
LEMMA LifeStart ==
  ASSUME LifeInit PROVE LifeInv /\ Current \in Grids
<1>1. PICK g \in Grids :
        /\ buffer = [b \in Buffers |-> IF b = "foreground" THEN g ELSE [k \in Cells |-> TRUE]]
        /\ screen = g
  BY DEF LifeInit, Buffers
<1>2. buffer \in [Buffers -> Grids] /\ buffer["foreground"] = g
  BY <1>1 DEF Grids, Buffers
<1>3. LifeTypeOK
  BY <1>2, Sizes DEF LifeInit, LifeTypeOK, Buffers
<1>4. Behind = {} /\ Unsignalled = {} /\ \A t \in Thread : ~pending[t] /\ src[t] = "foreground"
  BY DEF LifeInit, Behind, Unsignalled
<1>5. RoundInv /\ GenerationInv("foreground") /\ ScreenInv("foreground")
  BY <1>1, <1>2, <1>4 DEF RoundInv, GenerationInv, ScreenInv
<1>6. "foreground" \in Buffers
  BY DEF Buffers
<1>7. Current \in Grids
  BY <1>2, <1>5, <1>6, CurrentIsRead
<1> QED  BY <1>3, <1>5, <1>6, <1>7 DEF LifeInv

LEMMA LifeInvariant == ASSUME Timely PROVE LifeSpec => []LifeInv
<1>1. LifeInit => LifeInv
  BY LifeStart
<1>2. LifeInv /\ [LifeNext]_lifeVars => LifeInv'
  BY LifeStep, OtherBuffer DEF LifeInv
<1> QED  BY <1>1, <1>2, PTL DEF LifeSpec

(* The game that is promised is on the same grid, by the same rules.       *)
LEMMA SameGame == Promise!Grids = Grids /\ \A g : Promise!UpdateGrid(g) = UpdateGrid(g)
<1>1. Promise!Cells = Cells
  BY DEF Promise!Cells, Cells, Promise!Size, Size
<1>2. \A k : Promise!Neighbours(k) = Neighbours(k)
  BY <1>1 DEF Promise!Neighbours, Neighbours, Promise!Row, Row, Promise!Col, Col
<1>3. ASSUME NEW S PROVE Promise!Cardinality(S) = Cardinality(S)
  BY DEF Promise!Cardinality, Cardinality
<1>4. \A k, g : Promise!IsAlive(k, g) = IsAlive(k, g)
  <2> SUFFICES ASSUME NEW k, NEW g PROVE Promise!IsAlive(k, g) = IsAlive(k, g)
    OBVIOUS
  <2> DEFINE c == Promise!Cardinality({n \in Promise!Neighbours(k) : g[n]})
             d == Cardinality({n \in Neighbours(k) : g[n]})
  <2>1. c = d
    <3>1. Promise!Neighbours(k) = Neighbours(k)
      BY <1>2
    <3> QED  BY <1>3, <3>1, Zenon
  <2>2. Promise!IsAlive(k, g) = IF g[k] THEN c \in {2, 3} ELSE c = 3
    BY Zenon DEF Promise!IsAlive
  <2>3. IsAlive(k, g) = IF g[k] THEN d \in {2, 3} ELSE d = 3
    BY Zenon DEF IsAlive
  <2> HIDE DEF c, d
  <2> QED  BY <2>1, <2>2, <2>3, Zenon
<1> QED  BY <1>1, <1>4 DEF Promise!Grids, Grids, Promise!UpdateGrid, UpdateGrid

(* With every thread done within the half second, the threads play the     *)
(* Game of Life, whatever the size of the grid and into however many parts *)
(* it is cut (life.c:38-52, 84-90).                                        *)
THEOREM ThreadsPlayLife == ASSUME Timely PROVE LifeSpec => LifePlayed
<1>1. LifeInit => Promise!Init
  BY LifeStart, SameGame DEF Promise!Init
<1>2. LifeInv /\ [LifeNext]_lifeVars => [Promise!Next]_Current
  <2> SUFFICES ASSUME LifeInv, [LifeNext]_lifeVars PROVE [Promise!Next]_Current
    OBVIOUS
  <2>1. PICK s \in Buffers : GenerationInv(s) /\ ScreenInv(s)
    BY DEF LifeInv
  <2>2. Current = buffer[s]
    BY <2>1, CurrentIsRead
  <2>3. ASSUME NEW b \in Buffers, GenerationInv(b)' PROVE Current' = buffer'[b]
    <3>1. Behind' \in SUBSET Thread
      BY DEF Behind
    <3> QED  BY <2>3, <3>1, ReadFrom DEF GenerationInv, Current
  <2>4. Current' = Current \/ Current' = UpdateGrid(Current)
    BY <2>1, <2>2, <2>3, LifeStep, OtherBuffer DEF LifeInv
  <2> QED  BY <2>4, SameGame DEF Promise!Next
<1> QED  BY <1>1, <1>2, LifeInvariant, PTL DEF LifeSpec, LifePlayed, Promise!Spec

(* main's pointer is never swapped: each picture it draws is the one       *)
(* before it or two generations later (life.c:98-107).                     *)
THEOREM EverySecondDrawn == ASSUME Timely PROVE LifeSpec => EveryOtherDrawn
<1>1. LifeInv /\ [LifeNext]_lifeVars =>
        [screen' # screen => screen' = UpdateGrid(UpdateGrid(screen))]_lifeVars
  <2> SUFFICES ASSUME LifeInv, [LifeNext]_lifeVars, screen' # screen
               PROVE  screen' = UpdateGrid(UpdateGrid(screen))
    OBVIOUS
  <2>1. Draw
    BY DEF LifeNext, MainThread, Worker, WorkerGoes, Mask, SigWait, Compute, SwapGrids, SendSignal,
       Usleep, WakeUp, lifeVars
  <2>2. screen' = buffer["foreground"] /\ Behind = {}
    BY <2>1 DEF Draw, LifeInv, RoundInv
  <2> QED  BY <2>2 DEF LifeInv, ScreenInv, Buffers
<1> QED  BY <1>1, LifeInvariant, PTL DEF LifeSpec, EveryOtherDrawn

=============================================================================
