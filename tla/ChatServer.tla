------------------------------ MODULE ChatServer ------------------------------
(***************************************************************************)
(* The chat server, cw11/server.c: the event loop of the main thread, the  *)
(* heartbeat thread, the client table they share under clients_mutex, and  *)
(* the ways the process ends.                                              *)
(*                                                                         *)
(* A step is what happens between two calls a client, the kernel or the    *)
(* other thread can observe: a critical section that only works on the     *)
(* table is one step, a critical section that sends is one step per send.  *)
(***************************************************************************)
EXTENDS SocketNet

CONSTANTS
  MaxClients,  (* MAX_CLIENTS                                               *)
  Leftover     (* what a message buffer nothing was written to may decode   *)
               (* to: messages, or NoMsg for a type the switch ignores      *)

NoMsg == Msg("none", NoName)

ASSUME ServerAssumption ==
  /\ MaxClients \in Nat \ {0}
  /\ Leftover \subseteq ClientMsg \cup {NoMsg}

Slot == 0 .. MaxClients - 1

VARIABLES
  srv,      (* "up"; "exited" by SIGINT; "sigpipe": killed by a send        *)
  mutex,    (* clients_mutex: "free", or the thread that holds it           *)
  clients,  (* the table                                                    *)
  main,     (* the main thread: where it is, and its locals                 *)
  batch,    (* events epoll_wait returned, not handled yet                  *)
  alive     (* the heartbeat thread                                         *)

serverVars == <<srv, mutex, clients, main, batch, alive>>

Entry   == [name : Names \cup {NoName}, socket : Fd \cup {NoFd},
            valid : BOOLEAN, awaiting : BOOLEAN]
Free    == [name |-> NoName, socket |-> NoFd, valid |-> FALSE, awaiting |-> FALSE]
(* Where the main thread is, the descriptor and the message at hand, the   *)
(* slots still to be told, and what to tell them or to answer.             *)
Idle    == [pc |-> "events", fd |-> NoFd, msg |-> NoMsg, todo |-> {}, reply |-> "none"]
Asleep  == [pc |-> "ping", todo |-> {}]
Event   == [fd : Fd \cup {Listening}, ev : {"in", "err"}]

ServerTypeOK ==
  /\ srv \in {"up", "exited", "sigpipe"}
  /\ mutex \in {"free", "main", "alive"}
  /\ clients \in [Slot -> Entry]
  /\ main \in [pc : {"events", "accept", "dispatch", "tell", "reply", "close"},
               fd : Fd \cup {NoFd}, msg : ClientMsg \cup {NoMsg},
               todo : SUBSET Slot, reply : ServerType \cup {"none"}]
  /\ batch \in SUBSET Event
  /\ alive \in [pc : {"ping", "pinging", "check", "checking"}, todo : SUBSET Slot]

(* Faulty variant of ServerInit: the loop of init_clients runs one entry   *)
(* too far.                                                                *)
ServerInitTooFar ==
  /\ srv = "up" /\ mutex = "free"
  /\ clients = [s \in Slot \cup {MaxClients} |-> Free]
  /\ main = Idle /\ batch = {} /\ alive = Asleep

ServerInit ==
  /\ srv = "up"
  /\ mutex = "free"
  /\ clients = [s \in Slot |-> Free]
  /\ main = Idle
  /\ batch = {}
  /\ alive = Asleep

Valid     == {s \in Slot : clients[s].valid}
Called(n) == {s \in Valid : clients[s].name = n}

-----------------------------------------------------------------------------
(* The event loop.                                                         *)

Readable(c) == fd[c] # NoFd /\ (c2s[c] # <<>> \/ peer[c] # "open")

EpollEvents ==
  {[fd |-> fd[c], ev |-> IF peer[c] \in {"rst", "broken"} THEN "err" ELSE "in"] :
     c \in {d \in edge : Readable(d)}}
  \cup {[fd |-> Listening, ev |-> "in"] : l \in {x \in {listenEdge} : x /\ backlog # {}}}

(* Edge-triggered: an edge is reported once, with the readiness the        *)
(* connection has when epoll_wait looks.                                   *)
EpollWait ==
  /\ srv = "up" /\ main.pc = "events" /\ batch = {} /\ EpollEvents # {}
  /\ batch' = EpollEvents
  /\ edge' = {} /\ listenEdge' = FALSE
  /\ UNCHANGED <<peer, backlog, fd, c2s, s2c, srv, mutex, clients, main, alive>>

(* The loop takes up the event e.                                          *)
Take(e) ==
  /\ srv = "up" /\ main.pc = "events" /\ e \in batch
  /\ batch' = batch \ {e}
  /\ UNCHANGED <<srv, mutex, clients, alive>>

HandleListenEvent(e) ==
  /\ Take(e) /\ e.fd = Listening
  /\ main' = [Idle EXCEPT !.pc = "accept"]
  /\ UNCHANGED netVars

AcceptConnection(c) ==
  /\ srv = "up" /\ main.pc = "accept" /\ c \in backlog /\ FreeFd # {}
  /\ ServerAccept(c)
  /\ UNCHANGED serverVars

(* Faulty variant of AcceptDone: one accept() for each event, no loop.     *)
AcceptDoneEarly ==
  /\ srv = "up" /\ main.pc = "accept"
  /\ main' = Idle
  /\ UNCHANGED <<netVars, srv, mutex, clients, batch, alive>>

(* accept() fails: nothing is pending (EAGAIN), or no descriptor is left.  *)
AcceptDone ==
  /\ srv = "up" /\ main.pc = "accept" /\ (backlog = {} \/ FreeFd = {})
  /\ main' = Idle
  /\ UNCHANGED <<netVars, srv, mutex, clients, batch, alive>>

(* EPOLLERR or EPOLLHUP: the descriptor is closed, the table is not told.  *)
HandleErrorEvent(e) ==
  /\ Take(e) /\ e.fd # Listening /\ e.ev = "err"
  /\ ServerClose(e.fd)
  /\ UNCHANGED main

Dispatch(f, m) == [Idle EXCEPT !.pc = "dispatch", !.fd = f, !.msg = m]

ReadMessage(e, c) ==
  /\ Take(e) /\ e.ev = "in" /\ c \in At(e.fd) /\ c2s[c] # <<>>
  /\ ServerRead(c)
  /\ main' = Dispatch(e.fd, Head(c2s[c]))

ReadFails(e) ==
  /\ Take(e) /\ e.fd # Listening /\ e.ev = "in"
  /\ ServerReadFails(e.fd)
  /\ UNCHANGED main

(* recv() returns 0, which receive_message does not tell from a message:   *)
(* it decodes a buffer nothing was written to.                             *)
ReadEof(e, c, m) ==
  /\ Take(e) /\ e.ev = "in" /\ c \in At(e.fd)
  /\ c2s[c] = <<>> /\ peer[c] \in {"fin", "broken"}
  /\ m \in Leftover
  /\ main' = IF m = NoMsg THEN Idle ELSE Dispatch(e.fd, m)
  /\ UNCHANGED netVars

-----------------------------------------------------------------------------
(* The handlers of handle_client_message.                                  *)

Dispatched(t) == srv = "up" /\ main.pc = "dispatch" /\ main.msg.type = t
Locked        == mutex = "free"
Reply(t)      == [main EXCEPT !.pc = "reply", !.reply = t]

Enter(S, n, f) ==
  clients' = [s \in Slot |->
               IF s \in S
               THEN [clients[s] EXCEPT !.name = n, !.socket = f, !.valid = TRUE]
               ELSE clients[s]]

(* Faulty variants of AddClient: the name is not looked up; the loop does  *)
(* not break at the first free slot; the lock is kept in the end, too.     *)
AddClientUnchecked(n, f) ==
  /\ Enter(First(Slot \ Valid), n, f) /\ UNCHANGED mutex

AddClientNoBreak(n, f) ==
  IF Called(n) # {}
  THEN mutex' = "main" /\ UNCHANGED clients
  ELSE Enter(Slot \ Valid, n, f) /\ UNCHANGED mutex

AddClientKeepsLock(n, f) ==
  /\ mutex' = "main"
  /\ IF Called(n) # {} THEN UNCHANGED clients ELSE Enter(First(Slot \ Valid), n, f)

(* add_client: the early return on a name in use keeps the lock; with no   *)
(* free slot the table stays as it is and the answer is still 0.           *)
AddClient(n, f) ==
  IF Called(n) # {}
  THEN mutex' = "main" /\ UNCHANGED clients
  ELSE Enter(First(Slot \ Valid), n, f) /\ UNCHANGED mutex

HandleNewClient ==
  /\ Dispatched("CLIENT_NEW") /\ Locked
  /\ AddClient(main.msg.sender, main.fd)
  /\ main' = Reply(IF Called(main.msg.sender) # {}
                   THEN "SERVER_FAILURE_REGISTER" ELSE "SERVER_OK_REGISTER")
  /\ UNCHANGED <<netVars, srv, batch, alive>>

HandleListRequest ==
  /\ Dispatched("CLIENT_LIST") /\ Locked
  /\ main' = Reply("SERVER_LIST_MESSAGE")
  /\ UNCHANGED <<netVars, srv, mutex, clients, batch, alive>>

(* The send at the end of handle_new_client and handle_list_request, after *)
(* the lock is given up.                                                   *)
SendReply ==
  /\ srv = "up" /\ main.pc = "reply"
  /\ ServerSend(main.fd, main.reply)
  /\ main' = Idle
  /\ UNCHANGED <<srv, mutex, clients, batch, alive>>

Delete(S) ==
  LET gone == First(S) IN
  /\ Dispatched("CLIENT_STOP") /\ Locked
  /\ clients' = [s \in Slot |-> IF s \in gone
                                THEN [Free EXCEPT !.awaiting = clients[s].awaiting]
                                ELSE clients[s]]
  /\ main' = IF gone = {} THEN Idle
             ELSE [Idle EXCEPT !.pc = "close", !.fd = clients[CHOOSE s \in gone : TRUE].socket]
  /\ UNCHANGED <<netVars, srv, mutex, batch, alive>>

(* Faulty variant of HandleClientDelete: the names are not compared.       *)
HandleClientDeleteAnyone == Delete(Valid)

(* The first entry with the sender's name is emptied; its heartbeat mark   *)
(* stays.                                                                  *)
HandleClientDelete == Delete(Called(main.msg.sender))

(* close(to_close), after the lock is given up.                            *)
CloseDeleted ==
  /\ srv = "up" /\ main.pc = "close"
  /\ ServerClose(main.fd)
  /\ main' = Idle
  /\ UNCHANGED <<srv, mutex, clients, batch, alive>>

HandleAliveMessage ==
  /\ Dispatched("CLIENT_ALIVE") /\ Locked
  /\ clients' = [s \in Slot |->
                  IF s \in First({t \in Slot : clients[t].socket = main.fd})
                  THEN [clients[s] EXCEPT !.awaiting = FALSE] ELSE clients[s]]
  /\ main' = Idle
  /\ UNCHANGED <<netVars, srv, mutex, batch, alive>>

(* handle_to_all_message and handle_to_one_message send under the lock.    *)
Recipients(m) ==
  IF m.type = "CLIENT_TO_ALL" THEN Valid \ Called(m.sender) ELSE First(Called(m.to))

HandleChatMessage ==
  /\ \E t \in {"CLIENT_TO_ALL", "CLIENT_TO_ONE"} : Dispatched(t)
  /\ Locked
  /\ mutex' = "main"
  /\ main' = [main EXCEPT !.pc = "tell", !.todo = Recipients(main.msg),
                          !.reply = "SERVER_CHAT_MESSAGE"]
  /\ UNCHANGED <<netVars, srv, clients, batch, alive>>

TellNext ==
  \E s \in First(main.todo) :
    /\ srv = "up" /\ main.pc = "tell"
    /\ ServerSend(clients[s].socket, main.reply)
    /\ main' = [main EXCEPT !.todo = @ \ {s}]
    /\ UNCHANGED <<srv, mutex, clients, batch, alive>>

TellDone ==
  /\ srv = "up" /\ main.pc = "tell" /\ main.todo = {}
  /\ mutex' = "free"
  /\ main' = Idle
  /\ UNCHANGED <<netVars, srv, clients, batch, alive>>

-----------------------------------------------------------------------------
(* check_if_clients_are_alive.                                             *)

PingLock ==
  /\ srv = "up" /\ alive.pc = "ping" /\ Locked
  /\ mutex' = "alive"
  /\ alive' = [pc |-> "pinging", todo |-> Valid]
  /\ UNCHANGED <<netVars, srv, clients, main, batch>>


PingNext ==
  \E s \in First(alive.todo) :
    /\ srv = "up" /\ alive.pc = "pinging"
    /\ ServerSend(clients[s].socket, "SERVER_CHECK_ALIVE")
    /\ clients' = [clients EXCEPT ![s].awaiting = TRUE]
    /\ alive' = [alive EXCEPT !.todo = @ \ {s}]
    /\ UNCHANGED <<srv, mutex, main, batch>>

(* Faulty variant of CheckLock: it does not wait for the lock.             *)
CheckUnlocked ==
  /\ srv = "up" /\ alive.pc = "check"
  /\ mutex' = "alive"
  /\ alive' = [pc |-> "checking", todo |-> {s \in Valid : clients[s].awaiting}]
  /\ UNCHANGED <<netVars, srv, clients, main, batch>>

CheckLock ==
  /\ srv = "up" /\ alive.pc = "check" /\ Locked
  /\ mutex' = "alive"
  /\ alive' = [pc |-> "checking", todo |-> {s \in Valid : clients[s].awaiting}]
  /\ UNCHANGED <<netVars, srv, clients, main, batch>>

(* Faulty variant of CheckNext: the connection is closed, the entry stays. *)
CheckNextKeepsEntry ==
  \E s \in First(alive.todo) :
    /\ srv = "up" /\ alive.pc = "checking"
    /\ ServerClose(clients[s].socket)
    /\ clients' = [clients EXCEPT ![s].awaiting = FALSE]
    /\ alive' = [alive EXCEPT !.todo = @ \ {s}]
    /\ UNCHANGED <<srv, mutex, main, batch>>

(* The descriptor stays in the entry.                                      *)
CheckNext ==
  \E s \in First(alive.todo) :
    /\ srv = "up" /\ alive.pc = "checking"
    /\ ServerClose(clients[s].socket)
    /\ clients' = [clients EXCEPT ![s].valid = FALSE, ![s].awaiting = FALSE]
    /\ alive' = [alive EXCEPT !.todo = @ \ {s}]
    /\ UNCHANGED <<srv, mutex, main, batch>>

AliveUnlock ==
  /\ srv = "up" /\ alive.pc \in {"pinging", "checking"} /\ alive.todo = {}
  /\ mutex' = "free"
  /\ alive' = [pc |-> IF alive.pc = "pinging" THEN "check" ELSE "ping", todo |-> {}]
  /\ UNCHANGED <<netVars, srv, clients, main, batch>>

-----------------------------------------------------------------------------
(* The end of the process: its memory and its descriptors are gone.        *)

Die(how) ==
  /\ srv' = how
  /\ mutex' = "free" /\ clients' = [s \in Slot |-> Free]
  /\ main' = Idle /\ batch' = {} /\ alive' = Asleep
  /\ ServerExit

(* The next send of a thread is on a connection already known to be reset: *)
(* send() without MSG_NOSIGNAL, and no handler for SIGPIPE.                *)
DieBySigpipe ==
  /\ srv = "up"
  /\ \/ main.pc = "reply" /\ Broken(main.fd)
     \/ main.pc = "tell" /\ \E s \in First(main.todo) : Broken(clients[s].socket)
     \/ alive.pc = "pinging" /\ \E s \in First(alive.todo) : Broken(clients[s].socket)
  /\ Die("sigpipe")
  /\ UNCHANGED <<peer, s2c>>

(* SIGINT: cleanup() tries the lock, ignores the outcome, and tells every  *)
(* client in the table, up to a send that raises SIGPIPE.                  *)
Sigint ==
  LET broken == {s \in Valid : Broken(clients[s].socket)}
      told   == {s \in Valid : \A b \in broken : s < b}
  IN
  /\ srv = "up"
  /\ s2c' = [c \in Conn |->
               IF (\E s \in told : c \in At(clients[s].socket))
                  /\ peer[c] = "open" /\ Len(s2c[c]) < SockBuf
               THEN Append(s2c[c], "SERVER_SHUTDOWN") ELSE s2c[c]]
  /\ Die(IF broken = {} THEN "exited" ELSE "sigpipe")
  /\ UNCHANGED peer

=============================================================================
