------------------------------ MODULE LifeThreads ------------------------------
(***************************************************************************)
(* The Game of Life of cw09/life.c: worker threads that compute their part *)
(* of the grid at each SIGUSR1, and a main thread that draws, signals them *)
(* and sleeps half a second.  There is no barrier.                         *)
(***************************************************************************)
EXTENDS Grid

CONSTANT Timely  (* is half a second enough for every thread's part?        *)

ASSUME LifeAssumption == Timely \in BOOLEAN

VARIABLES
  buffer,   (* the two grids main has made                                  *)
  worker,   (* where each thread is                                         *)
  src,      (* its args.foreground; args.background is the other            *)
  cell,     (* the i of update_subgrid                                      *)
  pending,  (* SIGUSR1 pending for the thread: never more than once         *)
  main,     (* where main is, or that the process has been killed           *)
  turn,     (* the thread it signals next                                   *)
  screen    (* what it has drawn last                                       *)

workerVars == <<buffer, worker, src, cell, pending>>
lifeVars   == <<workerVars, main, turn, screen>>

Other(b) == IF b = "foreground" THEN "background" ELSE "foreground"

(* init_grid; the second grid holds what malloc returned, and nobody reads *)
(* it before it is written.                                                *)
LifeInit ==
  /\ \E g \in Grids :
       /\ buffer = [b \in {"foreground", "background"} |->
                      IF b = "foreground" THEN g ELSE [k \in Cells |-> TRUE]]
       /\ screen = g
  /\ worker = [t \in Thread |-> "new"]
  /\ src = [t \in Thread |-> "foreground"]
  /\ cell = [t \in Thread |-> 0]
  /\ pending = [t \in Thread |-> FALSE]
  /\ main = "draw" /\ turn = 0

-----------------------------------------------------------------------------
(* compute_part_of_grid                                                    *)

WorkerGoes(t, from, to) ==
  /\ main # "killed" /\ worker[t] = from
  /\ worker' = [worker EXCEPT ![t] = to]
  /\ UNCHANGED <<main, turn, screen>>

(* pthread_sigmask                                                         *)
Mask(t) ==
  /\ WorkerGoes(t, "new", "waiting")
  /\ UNCHANGED <<buffer, src, cell, pending>>

SigWait(t) ==
  /\ WorkerGoes(t, "waiting", "working") /\ pending[t]
  /\ pending' = [pending EXCEPT ![t] = FALSE]
  /\ cell' = [cell EXCEPT ![t] = Start(t)]
  /\ UNCHANGED <<buffer, src>>

Compute(t) ==
  /\ WorkerGoes(t, "working", "working") /\ cell[t] < End(t)
  /\ buffer' = [buffer EXCEPT ![Other(src[t])][cell[t]] = IsAlive(cell[t], buffer[src[t]])]
  /\ cell' = [cell EXCEPT ![t] = @ + 1]
  /\ UNCHANGED <<src, pending>>

SwapGrids(t) ==
  /\ WorkerGoes(t, "working", "waiting") /\ cell[t] = End(t)
  /\ src' = [src EXCEPT ![t] = Other(@)]
  /\ UNCHANGED <<buffer, cell, pending>>

-----------------------------------------------------------------------------
(* main                                                                    *)

(* Faulty variant of Draw: main draws the other grid.                      *)
DrawBackground ==
  /\ main = "draw" /\ main' = "send" /\ turn' = 0
  /\ screen' = buffer["background"]
  /\ UNCHANGED workerVars

(* main keeps its own pointer: it draws the same one of the two each time. *)
Draw ==
  /\ main = "draw" /\ main' = "send" /\ turn' = 0
  /\ screen' = buffer["foreground"]
  /\ UNCHANGED workerVars

(* pthread_kill: a thread that has not blocked SIGUSR1 yet takes its       *)
(* default action, which ends the process.                                 *)
SendSignal ==
  /\ main = "send" /\ turn < NThreads
  /\ IF worker[turn] = "new"
     THEN main' = "killed" /\ UNCHANGED <<turn, pending>>
     ELSE /\ pending' = [pending EXCEPT ![turn] = TRUE]
          /\ turn' = turn + 1 /\ UNCHANGED main
  /\ UNCHANGED <<buffer, worker, src, cell, screen>>

Usleep ==
  /\ main = "send" /\ turn = NThreads /\ main' = "sleep"
  /\ UNCHANGED <<workerVars, turn, screen>>

Idle(t) == worker[t] = "waiting" /\ ~pending[t]

WakeUp ==
  /\ main = "sleep" /\ main' = "draw"
  /\ Timely => \A t \in Thread : Idle(t)
  /\ UNCHANGED <<workerVars, turn, screen>>

-----------------------------------------------------------------------------

Worker(t) == Mask(t) \/ SigWait(t) \/ Compute(t) \/ SwapGrids(t)
MainThread == Draw \/ SendSignal \/ Usleep \/ WakeUp

LifeNext == MainThread \/ \E t \in Thread : Worker(t)
LifeSpec == LifeInit /\ [][LifeNext]_lifeVars

-----------------------------------------------------------------------------

(* Threads that have not done their part of this generation.               *)
Behind ==
  {t \in Thread : pending[t] \/ worker[t] = "working" \/ (main \in {"send", "killed"} /\ t >= turn)}

Current ==
  buffer[src[IF Behind = {} THEN 0 ELSE CHOOSE t \in Behind : TRUE]]

(* With every thread done within half a second, the threads together play  *)
(* the Game of Life: no cell is left out, computed from cells of two       *)
(* generations, or computed twice (life.c:38-52, 84-90).                   *)
Promise == INSTANCE Generations WITH grid <- Current
LifePlayed == Promise!Spec

(* main's pointer is never swapped (life.c:99): each picture is two        *)
(* generations after the one before it, or the same.                       *)
EveryOtherDrawn ==
  [][screen' # screen => screen' = UpdateGrid(UpdateGrid(screen))]_lifeVars

=============================================================================
