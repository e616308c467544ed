------------------------------ MODULE PrintQueue ------------------------------
(***************************************************************************)
(* The shared-memory print queue of cw08: the printer processes of         *)
(* printers_server.c and the user processes of users_client.c on one       *)
(* print_queue_t, a ring of MAX_JOBS slots guarded by three process-shared *)
(* semaphores; and what signals do to them.                                *)
(*                                                                         *)
(* Every access to the shared memory and every semaphore call is a step:   *)
(* nothing is atomic but what the semaphores make so.                      *)
(***************************************************************************)
EXTENDS Integers, Sequences, FiniteSets

CONSTANTS
  Printers,   (* the printer processes, numbered in the order of fork       *)
  Users,      (* the user processes, likewise                               *)
  MaxJobs,    (* MAX_JOBS                                                   *)
  Texts,      (* what generate_random_text may make                         *)
  Blank,      (* the zeroes of a slot never written                         *)
  MaySignal,  (* processes a signal may reach                               *)
  MayKill,    (* processes their parent may SIGKILL                         *)
  MayRestart  (* may a server be started over the memory in use?            *)

Procs == Printers \cup Users

ASSUME PrintQueueAssumption ==
  /\ Printers \subseteq Nat /\ Users \subseteq Nat /\ Printers \cap Users = {}
  /\ IsFiniteSet(Procs)
  /\ MaxJobs \in Nat \ {0}
  /\ Blank \notin Texts
  /\ MaySignal \subseteq Procs /\ MayKill \subseteq Procs
  /\ MayRestart \in BOOLEAN

VARIABLES
  jobs, head, tail,  (* the ring                                            *)
  sem,               (* the values of the semaphores mutex, empty and full  *)
  pc,                (* where each process is                               *)
  job,               (* its local copy of a job: job[] or buf               *)
  next,              (* the index it has computed and not stored            *)
  running,           (* its keep_running                                    *)
  restarted,         (* history: a server has been started over the memory  *)
  overtaken          (* history: the processes it found under way           *)

history == <<restarted, overtaken>>
shared  == <<jobs, head, tail>>
locals  == <<job, next, running, history>>
vars    == <<shared, sem, pc, locals>>

Index  == 0 .. MaxJobs - 1
Labels == {"top", "wait", "lock", "copy", "load", "store", "unlock", "post",
           "done", "leave", "gone"}

TypeOK ==
  /\ jobs \in [Index -> Texts \cup {Blank}]
  /\ head \in Index /\ tail \in Index
  /\ sem \in [{"mutex", "empty", "full"} -> Nat]
  /\ pc \in [Procs -> Labels]
  /\ job \in [Procs -> Texts \cup {Blank}]
  /\ next \in [Procs -> Index]
  /\ running \in [Procs -> BOOLEAN]
  /\ restarted \in BOOLEAN /\ overtaken \subseteq Procs

(* The values setup_printer_queue gives the semaphores.                    *)
NewSem ==
  [s \in {"mutex", "empty", "full"} |->
     CASE s = "mutex" -> 1 [] s = "empty" -> MaxJobs [] s = "full" -> 0]

(* setup_printer_queue, and the processes just forked.                     *)
Init ==
  /\ jobs = [i \in Index |-> Blank] /\ head = 0 /\ tail = 0 /\ sem = NewSem
  /\ pc = [p \in Procs |-> "top"]
  /\ job = [p \in Procs |-> Blank]
  /\ next = [p \in Procs |-> 0]
  /\ running = [p \in Procs |-> TRUE]
  /\ restarted = FALSE /\ overtaken = {}

Goto(p, from, to) == pc[p] = from /\ pc' = [pc EXCEPT ![p] = to]

Wait(s) == sem[s] > 0 /\ sem' = [sem EXCEPT ![s] = @ - 1]
Post(s) == sem' = [sem EXCEPT ![s] = @ + 1]

(* Faulty variant of Succ: the index does not wrap around.                 *)
SuccUnwrapped(i) == i + 1

Succ(i) == (i + 1) % MaxJobs

-----------------------------------------------------------------------------
(* printer_process.                                                        *)

PrinterLoop(p) ==
  /\ Goto(p, "top", IF running[p] THEN "wait" ELSE "leave")
  /\ UNCHANGED <<shared, sem, locals>>

WaitFull(p) ==
  /\ Goto(p, "wait", "lock") /\ Wait("full")
  /\ UNCHANGED <<shared, locals>>

(* Faulty variant of CopyJob: the job is taken at the wrong end.           *)
CopyLastJob(p) ==
  /\ Goto(p, "copy", "load")
  /\ job' = [job EXCEPT ![p] = jobs[tail]]
  /\ UNCHANGED <<shared, sem, next, running, history>>

CopyJob(p) ==
  /\ Goto(p, "copy", "load")
  /\ job' = [job EXCEPT ![p] = jobs[head]]
  /\ UNCHANGED <<shared, sem, next, running, history>>

LoadHead(p) ==
  /\ Goto(p, "load", "store")
  /\ next' = [next EXCEPT ![p] = Succ(head)]
  /\ UNCHANGED <<shared, sem, job, running, history>>

StoreHead(p) ==
  /\ Goto(p, "store", "unlock")
  /\ head' = next[p]
  /\ UNCHANGED <<jobs, tail, sem, locals>>

(* Faulty variant of PrinterUnlock: no sem_post(mutex).                    *)
NoUnlock(p) ==
  /\ Goto(p, "unlock", "post")
  /\ UNCHANGED <<shared, sem, locals>>

PrinterUnlock(p) ==
  /\ Goto(p, "unlock", "post") /\ Post("mutex")
  /\ UNCHANGED <<shared, locals>>

PostEmpty(p) ==
  /\ Goto(p, "post", "done") /\ Post("empty")
  /\ UNCHANGED <<shared, locals>>

(* The job is printed, character by character; job[] ends with the turn.   *)
PrintJob(p) ==
  /\ Goto(p, "done", "top")
  /\ job' = [job EXCEPT ![p] = Blank]
  /\ UNCHANGED <<shared, sem, next, running, history>>

-----------------------------------------------------------------------------
(* user_process.                                                           *)

UserLoop(u) ==
  /\ Goto(u, "top", IF running[u] THEN "wait" ELSE "leave")
  /\ IF running[u] THEN \E t \in Texts : job' = [job EXCEPT ![u] = t]
                   ELSE UNCHANGED job
  /\ UNCHANGED <<shared, sem, next, running, history>>

(* Faulty variant of WaitEmpty: no sem_wait(empty).                        *)
PutAnyway(u) ==
  /\ Goto(u, "wait", "lock")
  /\ UNCHANGED <<shared, sem, locals>>

WaitEmpty(u) ==
  /\ Goto(u, "wait", "lock") /\ Wait("empty")
  /\ UNCHANGED <<shared, locals>>

WriteJob(u) ==
  /\ Goto(u, "copy", "load")
  /\ jobs' = [jobs EXCEPT ![tail] = job[u]]
  /\ UNCHANGED <<head, tail, sem, locals>>

LoadTail(u) ==
  /\ Goto(u, "load", "store")
  /\ next' = [next EXCEPT ![u] = Succ(tail)]
  /\ UNCHANGED <<shared, sem, job, running, history>>

StoreTail(u) ==
  /\ Goto(u, "store", "post")
  /\ tail' = next[u]
  /\ UNCHANGED <<jobs, head, sem, locals>>

PostFull(u) ==
  /\ Goto(u, "post", "unlock") /\ Post("full")
  /\ UNCHANGED <<shared, locals>>

UserUnlock(u) ==
  /\ Goto(u, "unlock", "done") /\ Post("mutex")
  /\ UNCHANGED <<shared, locals>>

(* "user ... sent ...", and a rest; buf ends with the turn.                *)
Sleep(u) ==
  /\ Goto(u, "done", "top")
  /\ job' = [job EXCEPT ![u] = Blank]
  /\ UNCHANGED <<shared, sem, next, running, history>>

-----------------------------------------------------------------------------
(* Both, and what signals do.                                              *)

(* Faulty variant of Lock: the lock is taken whether free or not.          *)
LockAnyway(p) ==
  /\ Goto(p, "lock", "copy")
  /\ UNCHANGED <<shared, sem, locals>>

Lock(p) ==
  /\ Goto(p, "lock", "copy") /\ Wait("mutex")
  /\ UNCHANGED <<shared, locals>>

(* sig_handler.  signal() under _XOPEN_SOURCE installs, for each signal, a *)
(* handler that is used once and restarts no call.                         *)
Signal(p) ==
  /\ p \in MaySignal /\ running[p] /\ pc[p] # "gone"
  /\ running' = [running EXCEPT ![p] = FALSE]
  /\ UNCHANGED <<shared, sem, pc, job, next, history>>

WaitsFor(p) ==
  IF pc[p] = "lock" THEN "mutex" ELSE IF p \in Printers THEN "full" ELSE "empty"

(* Faulty variant of Interrupt: the handler leaves keep_running alone.     *)
InterruptGoesOn(p) ==
  /\ p \in MaySignal /\ sem[WaitsFor(p)] = 0
  /\ Goto(p, "wait", "lock") \/ Goto(p, "lock", "copy")
  /\ UNCHANGED <<shared, sem, locals>>

(* The signal reaches a process blocked in sem_wait: the call returns -1,  *)
(* which nobody looks at.                                                  *)
Interrupt(p) ==
  /\ p \in MaySignal
  /\ sem[WaitsFor(p)] = 0
  /\ Goto(p, "wait", "lock") \/ Goto(p, "lock", "copy")
  /\ running' = [running EXCEPT ![p] = FALSE]
  /\ UNCHANGED <<shared, sem, job, next, history>>

(* A child whose loop has ended goes on with main, its parent's program:   *)
(* it kills the children forked before it, whose pids it has inherited.    *)
Family(p) == IF p \in Printers THEN Printers ELSE Users

Leave(p) ==
  /\ pc[p] = "leave"
  /\ pc' = [q \in Procs |-> IF q = p \/ (q \in Family(p) /\ q < p) THEN "gone" ELSE pc[q]]
  /\ UNCHANGED <<shared, sem, locals>>

(* SIGKILL from the parent, wherever the process is, or a signal whose     *)
(* handler has been used up.                                               *)
Kill(p) ==
  /\ p \in MayKill \/ (p \in MaySignal /\ ~running[p])
  /\ pc[p] # "gone"
  /\ pc' = [pc EXCEPT ![p] = "gone"]
  /\ UNCHANGED <<shared, sem, locals>>

(* Nothing keeps a server from starting over memory an earlier one has     *)
(* left, or still uses: users, and printers whose parent was killed, find  *)
(* the ring and the semaphores new under them.  A printer that is gone may *)
(* be one of the new server's.                                             *)
Restart ==
  /\ MayRestart /\ ~restarted /\ restarted' = TRUE
  /\ jobs' = [i \in Index |-> Blank] /\ head' = 0 /\ tail' = 0 /\ sem' = NewSem
  /\ \E new \in SUBSET {p \in Printers : pc[p] = "gone" /\ running[p]} :
       pc' = [p \in Procs |-> IF p \in new THEN "top" ELSE pc[p]]
  /\ overtaken' = {p \in Procs : pc[p] \notin {"top", "wait", "done", "leave", "gone"}}
  /\ UNCHANGED <<job, next, running>>

-----------------------------------------------------------------------------

Printer(p) ==
  \/ PrinterLoop(p) \/ WaitFull(p) \/ Lock(p) \/ CopyJob(p) \/ LoadHead(p)
  \/ StoreHead(p) \/ PrinterUnlock(p) \/ PostEmpty(p) \/ PrintJob(p)

User(u) ==
  \/ UserLoop(u) \/ WaitEmpty(u) \/ Lock(u) \/ WriteJob(u) \/ LoadTail(u)
  \/ StoreTail(u) \/ PostFull(u) \/ UserUnlock(u) \/ Sleep(u)

Disturb(p) == Signal(p) \/ Interrupt(p) \/ Leave(p) \/ Kill(p)

Next ==
  \/ \E p \in Printers : Printer(p)
  \/ \E u \in Users : User(u)
  \/ \E p \in Procs : Disturb(p)
  \/ Restart

Spec == Init /\ [][Next]_vars

(* The scheduler runs every process that can go on; nothing is assumed of  *)
(* whom a semaphore wakes.                                                 *)
FairSpec ==
  /\ Spec
  /\ \A p \in Printers : WF_vars(Printer(p))
  /\ \A u \in Users : WF_vars(User(u))

-----------------------------------------------------------------------------

At(P, labels) == {p \in P : pc[p] \in labels}

Inside == At(Procs, {"copy", "load", "store", "unlock"}) \cup At(Users, {"post"})

(* At most one process is between its sem_wait and its sem_post on mutex   *)
(* (printers_server.c:52-59, users_client.c:36-42).                        *)
MutualExclusion == \A p, q \in Inside : p = q

(* The jobs in the ring: those full counts, those a printer has claimed    *)
(* and not yet passed, and one a user has stored and not yet counted.      *)
Stored ==
  sem["full"] + Cardinality(At(Printers, {"lock", "copy", "load", "store"}))
              + Cardinality(At(Users, {"post"}))

(* The slots free for a user, those one has claimed and not yet passed,    *)
(* and those a printer has passed and not yet given back.                  *)
Reserved ==
  sem["empty"] + Cardinality(At(Users, {"lock", "copy", "load", "store"}))
               + Cardinality(At(Printers, {"unlock", "post"}))

(* Undisturbed, the counts of the semaphores and the processes under way   *)
(* account for every slot of the ring, and the indices agree with them: no *)
(* user ever writes a slot whose job has not been taken.                   *)
RingAccounted ==
  /\ Stored + Reserved = MaxJobs
  /\ tail = (head + Stored) % MaxJobs

Queue == [i \in 1 .. Stored |-> jobs[(head + i - 1) % MaxJobs]]

(* Undisturbed, the ring, its semaphores and its processes implement a     *)
(* first-in first-out queue: no job lost, doubled or overtaken.            *)
Promise == INSTANCE Spool WITH
  None <- Blank, queue <- Queue,
  printing <- [p \in Printers |->
                 IF pc[p] \in {"unlock", "post", "done"} THEN job[p] ELSE Blank]

SpoolKept == Promise!Spec

(* Undisturbed, a job at the head of the queue is taken: the printers are  *)
(* not kept out for ever by users who go on sending, whomever the          *)
(* semaphores favour.                                                      *)
HeadMoves ==
  \A i \in Index : (Stored > 0 /\ head = i) ~> (Stored = 0 \/ head # i)

(* Signals, kills and a second server do limited damage.  A process killed *)
(* takes its slot and the lock with it, and never makes one up             *)
(* (printers_server.c:135-139); a process interrupted passes each of its   *)
(* two sem_waits at most once without the semaphore's leave, because       *)
(* sig_handler ends its loop (printers_server.c:16, 50-52,                 *)
(* users_client.c:31-36); and one that was under way when the semaphores   *)
(* were set up again (printers_server.c:111) gives back a slot and a lock  *)
(* at most once.                                                           *)
DamageBounded ==
  LET damage == Cardinality({p \in Procs : ~running[p]}) + Cardinality(overtaken) IN
  /\ Stored + Reserved <= MaxJobs + damage
  /\ sem["mutex"] + Cardinality(Inside) <= 1 + damage

(* A printer that "got job ..." (printers_server.c:62) got one some user   *)
(* has sent.                                                               *)
GotJobWasSent ==
  \A p \in Printers : pc[p] = "done" => job[p] # Blank

=============================================================================
