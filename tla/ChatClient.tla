------------------------------ MODULE ChatClient ------------------------------
(***************************************************************************)
(* The chat client, cw11/client.c: each process connects once, registers,  *)
(* then runs two threads, the main thread reading the user's commands and  *)
(* the listener reading the server's messages, until one of them leaves.   *)
(***************************************************************************)
EXTENDS SocketNet

CONSTANTS
  Ids,      (* the names each process may be started with                   *)
  Talk,     (* the commands users type, as message types                    *)
  MayQuit,  (* processes whose user types stop or Ctrl-C                    *)
  MayDie    (* processes that may be killed                                 *)

ASSUME ClientAssumption ==
  /\ Ids \in [Conn -> SUBSET Names]
  /\ Talk \subseteq {"CLIENT_LIST", "CLIENT_TO_ALL", "CLIENT_TO_ONE"}
  /\ MayQuit \subseteq Conn
  /\ MayDie \subseteq Conn

VARIABLES
  proc,  (* where the process is                                            *)
  id     (* client_id                                                       *)

clientVars == <<proc, id>>

(* running: both threads; leaving: the main thread has sent CLIENT_STOP,   *)
(* the listener goes on; aborting: the listener has, the main thread goes  *)
(* on; quitting: nothing is left but close and exit.                       *)
Stages == {"idle", "connected", "registering", "running",
           "leaving", "aborting", "quitting", "done"}

ClientTypeOK ==
  /\ proc \in [Conn -> Stages]
  /\ id \in [Conn -> Names \cup {NoName}]

ClientInit ==
  /\ proc = [c \in Conn |-> "idle"]
  /\ id = [c \in Conn |-> NoName]

Becomes(c, stage) == proc' = [proc EXCEPT ![c] = stage] /\ UNCHANGED id

Connect(c, n) ==
  /\ proc[c] = "idle" /\ n \in Ids[c]
  /\ ClientConnect(c)
  /\ proc' = [proc EXCEPT ![c] = "connected"]
  /\ id' = [id EXCEPT ![c] = n]

(* register_on_server.                                                     *)
SendNew(c) ==
  /\ proc[c] = "connected"
  /\ ClientSend(c, Msg("CLIENT_NEW", id[c])) /\ UNCHANGED s2c
  /\ Becomes(c, "registering")

RegisterReply(c) ==
  /\ proc[c] = "registering" /\ s2c[c] # <<>>
  /\ IF Head(s2c[c]) = "SERVER_OK_REGISTER"
     THEN /\ Becomes(c, "running")
          /\ s2c' = [s2c EXCEPT ![c] = Tail(@)]
          /\ UNCHANGED <<peer, backlog, fd, c2s, edge, listenEdge>>
     ELSE /\ Becomes(c, "done")
          /\ ClientClose(c, Tail(s2c[c]))

(* The server is gone: recv fails, or returns 0 and whatever is in the     *)
(* buffer is taken for the answer.                                         *)
RegisterEof(c) ==
  /\ proc[c] = "registering" /\ s2c[c] = <<>> /\ ServerGone(c)
  /\ \/ Becomes(c, "running") /\ UNCHANGED netVars
     \/ Becomes(c, "done") /\ ClientClose(c, <<>>)

(* handle_user_input: one command, sent to the server.                     *)
Command(c, t, to) ==
  /\ proc[c] \in {"running", "aborting"} /\ t \in Talk
  /\ to \in IF t = "CLIENT_TO_ONE" THEN Names ELSE {id[c]}
  /\ ClientSend(c, [type |-> t, sender |-> id[c], to |-> to])
  /\ UNCHANGED <<s2c, clientVars>>

(* The stop command, or SIGINT and clean_exit: CLIENT_STOP is sent,        *)
(* registered or not.                                                      *)
Goodbye(c) ==
  /\ c \in MayQuit /\ proc[c] \in {"connected", "registering", "running", "aborting"}
  /\ ClientSend(c, Msg("CLIENT_STOP", id[c])) /\ UNCHANGED s2c
  /\ Becomes(c, IF proc[c] = "running" THEN "leaving" ELSE "quitting")

(* close(socket_fd) and the end of the process.                            *)
Exit(c) ==
  /\ proc[c] \in {"leaving", "aborting", "quitting"}
  /\ ClientClose(c, s2c[c])
  /\ Becomes(c, "done")

(* wait_for_messages handles one message: m is what was decoded, rest what *)
(* is left in the buffer.                                                  *)
Shown(c, rest) ==
  /\ s2c' = [s2c EXCEPT ![c] = rest]
  /\ UNCHANGED <<peer, backlog, fd, c2s, edge, listenEdge, clientVars>>

Answered(c, m, rest) ==
  /\ m = "SERVER_CHECK_ALIVE"
  /\ s2c' = [s2c EXCEPT ![c] = rest]
  /\ ClientSend(c, Msg("CLIENT_ALIVE", id[c]))
  /\ UNCHANGED clientVars

(* SERVER_SHUTDOWN, and every message the switch does not expect.          *)
CleanExit(c, rest) ==
  /\ s2c' = [s2c EXCEPT ![c] = rest]
  /\ ClientSend(c, Msg("CLIENT_STOP", id[c]))
  /\ Becomes(c, IF proc[c] = "running" THEN "aborting" ELSE "quitting")

(* Faulty variant of Listener: SERVER_SHUTDOWN is only shown.              *)
ListenerStays(c, m, rest) ==
  /\ proc[c] \in {"running", "leaving"}
  /\ \/ /\ m \in {"SERVER_CHAT_MESSAGE", "SERVER_LIST_MESSAGE", "SERVER_SHUTDOWN"}
        /\ Shown(c, rest)
     \/ Answered(c, m, rest)
     \/ /\ m \in {"SERVER_OK_REGISTER", "SERVER_FAILURE_REGISTER"}
        /\ CleanExit(c, rest)

Listener(c, m, rest) ==
  /\ proc[c] \in {"running", "leaving"}
  /\ \/ /\ m \in {"SERVER_CHAT_MESSAGE", "SERVER_LIST_MESSAGE"}
        /\ Shown(c, rest)
     \/ Answered(c, m, rest)
     \/ /\ m \in {"SERVER_SHUTDOWN", "SERVER_OK_REGISTER", "SERVER_FAILURE_REGISTER"}
        /\ CleanExit(c, rest)

Listen(c) == s2c[c] # <<>> /\ Listener(c, Head(s2c[c]), Tail(s2c[c]))

(* recv returns 0 or fails: the listener goes on with whatever the buffer  *)
(* holds, or leaves.                                                       *)
ListenEof(c, m) ==
  s2c[c] = <<>> /\ ServerGone(c) /\ m \in ServerType /\ Listener(c, m, <<>>)

(* A send after the server has closed its end may raise SIGPIPE, and       *)
(* SIGKILL ends a process at any point.                                    *)
Killed(c) ==
  /\ proc[c] \notin {"idle", "done"}
  /\ c \in MayDie \/ ServerGone(c)
  /\ ClientClose(c, s2c[c])
  /\ Becomes(c, "done")

=============================================================================
