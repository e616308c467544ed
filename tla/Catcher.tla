-------------------------------- MODULE Catcher --------------------------------
(***************************************************************************)
(* cw05/zad2: senders (sender.c) that order work of a catcher (catcher.c)  *)
(* by SIGUSR1 and wait for a SIGUSR1 back.                                 *)
(*                                                                         *)
(* SIGUSR1 is pending for a process or it is not: a second one is dropped. *)
(***************************************************************************)
EXTENDS Naturals

CONSTANTS
  Senders,
  Finishers,         (* those that order WORK_FINISH                        *)
  MayInterruptSender (* senders that may get Ctrl-C                         *)

ASSUME CatcherAssumption == Finishers \subseteq Senders /\ MayInterruptSender \subseteq Senders

VARIABLES
  catcher,    (* where the catcher is                                       *)
  ordered,    (* the si_pid of the SIGUSR1 pending for it, as a set         *)
  serving,    (* the si_pid its handler was called with, as a set           *)
  worked,     (* history: the senders whose work has been done              *)
  sender,     (* where each sender is                                       *)
  confirmed,  (* the senders SIGUSR1 is pending for                         *)
  merged,     (* history: senders whose order was dropped                   *)
  early       (* history: senders whose handler ran before sigsuspend       *)

catcherVars == <<catcher, ordered, serving, worked, sender, confirmed, merged, early>>

CatcherInit ==
  /\ catcher = "start" /\ ordered = {} /\ serving = {} /\ worked = {}
  /\ sender = [s \in Senders |-> "start"]
  /\ confirmed = {} /\ merged = {} /\ early = {}

-----------------------------------------------------------------------------
(* catcher.c                                                               *)

CatcherGoes(from, to) ==
  /\ catcher = from /\ catcher' = to
  /\ UNCHANGED <<sender, merged, early>>

InstallHandler ==
  /\ CatcherGoes("start", "pause")
  /\ UNCHANGED <<ordered, serving, worked, confirmed>>

(* Faulty variant of TakeOrder: the confirmation goes out before the work. *)
TakeOrderConfirm ==
  /\ CatcherGoes("pause", "work") /\ ordered # {}
  /\ serving' = ordered /\ ordered' = {}
  /\ confirmed' = confirmed \cup {s \in serving' : sender[s] # "gone"}
  /\ UNCHANGED worked

(* The handler is called; until it returns SIGUSR1 is blocked.             *)
TakeOrder ==
  /\ CatcherGoes("pause", "work") /\ ordered # {}
  /\ serving' = ordered /\ ordered' = {}
  /\ UNCHANGED <<worked, confirmed>>

(* work_dispatch                                                           *)
Work ==
  /\ CatcherGoes("work", "confirm")
  /\ worked' = worked \cup serving
  /\ UNCHANGED <<ordered, serving, confirmed>>

(* kill fails when the sender is not there any more, and the catcher gives *)
(* up; before its parent has asked for its status it still is.             *)
Confirm ==
  \E s \in serving :
    /\ \/ sender[s] = "gone" /\ CatcherGoes("confirm", "exited")
       \/ CatcherGoes("confirm", IF s \in Finishers THEN "exited" ELSE "pause")
    /\ confirmed' = IF sender[s] \in {"sent", "waiting"} THEN confirmed \cup {s} ELSE confirmed
    /\ UNCHANGED <<ordered, serving, worked>>

-----------------------------------------------------------------------------
(* sender.c                                                                *)

SenderGoes(s, from, to) ==
  sender[s] = from /\ sender' = [sender EXCEPT ![s] = to]

(* sigqueue.  A catcher without its handler is ended by the signal.        *)
Order(s) ==
  /\ \/ /\ catcher = "exited" /\ SenderGoes(s, "start", "gone")
        /\ UNCHANGED <<catcher, ordered, merged>>
     \/ /\ catcher = "start" /\ SenderGoes(s, "start", "sent")
        /\ catcher' = "exited" /\ UNCHANGED <<ordered, merged>>
     \/ /\ catcher \notin {"start", "exited"} /\ SenderGoes(s, "start", "sent")
        /\ IF ordered = {} THEN ordered' = {s} /\ UNCHANGED merged
                           ELSE merged' = merged \cup {s} /\ UNCHANGED ordered
        /\ UNCHANGED catcher
  /\ UNCHANGED <<serving, worked, confirmed, early>>

(* SIGUSR1 is not blocked before sigsuspend: its handler may run there.    *)
TooEarly(s) ==
  /\ sender[s] = "sent" /\ s \in confirmed
  /\ confirmed' = confirmed \ {s} /\ early' = early \cup {s}
  /\ UNCHANGED <<catcher, ordered, serving, worked, sender, merged>>

(* Faulty variant of Sigsuspend: SIGUSR1 is left in the mask.              *)
SigsuspendMasked(s) ==
  /\ SenderGoes(s, "sent", "masked")
  /\ UNCHANGED <<catcher, ordered, serving, worked, confirmed, merged, early>>

Sigsuspend(s) ==
  /\ SenderGoes(s, "sent", "waiting")
  /\ UNCHANGED <<catcher, ordered, serving, worked, confirmed, merged, early>>

Return(s) ==
  /\ SenderGoes(s, "waiting", "success") /\ s \in confirmed
  /\ confirmed' = confirmed \ {s}
  /\ UNCHANGED <<catcher, ordered, serving, worked, merged, early>>

SenderInterrupted(s) ==
  /\ s \in MayInterruptSender
  /\ SenderGoes(s, "sent", "gone") \/ SenderGoes(s, "waiting", "gone")
  /\ confirmed' = confirmed \ {s}
  /\ UNCHANGED <<catcher, ordered, serving, worked, merged, early>>

-----------------------------------------------------------------------------

CatcherStep == InstallHandler \/ TakeOrder \/ Work \/ Confirm
SenderStep(s) == TooEarly(s) \/ Sigsuspend(s) \/ Return(s)

CatcherNext ==
  \/ CatcherStep
  \/ \E s \in Senders : SenderStep(s) \/ Order(s) \/ SenderInterrupted(s)

CatcherSpec == CatcherInit /\ [][CatcherNext]_catcherVars

-----------------------------------------------------------------------------

(* A sender that ends with success has had its work done: a confirmation   *)
(* never answers another's order, though orders are dropped and SIGUSR1    *)
(* carries nothing back (catcher.c:28-35, sender.c:52).                    *)
SuccessIsWorked == \A s \in Senders : sender[s] = "success" => s \in worked

(* A sender waits for ever in three cases only: its order was dropped as   *)
(* another's was pending, its confirmation came before sigsuspend, or the  *)
(* catcher has ended (sender.c:42-52).                                     *)
SendersEnd ==
  \A s \in Senders :
    sender[s] = "sent" ~>
      (sender[s] \in {"success", "gone"} \/ s \in merged \/ s \in early \/ catcher = "exited")

=============================================================================
