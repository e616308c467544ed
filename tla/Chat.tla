--------------------------------- MODULE Chat ---------------------------------
(***************************************************************************)
(* The chat of cw11: one server process and the client processes, on the   *)
(* sockets of SocketNet.                                                   *)
(***************************************************************************)
EXTENDS ChatServer, ChatClient

CONSTANT MayStop   (* TRUE: the server's operator may type Ctrl-C           *)

ASSUME ChatAssumption == MayStop \in BOOLEAN

VARIABLE
  abrupt   (* history: the server has taken an EOF for a message, or closed *)
           (* a connection because of an epoll error                        *)

vars == <<netVars, serverVars, clientVars, abrupt>>

TypeOK ==
  /\ NetTypeOK /\ ServerTypeOK /\ ClientTypeOK
  /\ abrupt \in BOOLEAN

Init == NetInit /\ ServerInit /\ ClientInit /\ abrupt = FALSE

(* What the main thread does of its own accord, but for taking the lock.   *)
MainStep ==
  /\ \/ EpollWait
     \/ \E e \in batch : \/ HandleListenEvent(e)
                         \/ ReadFails(e)
                         \/ \E c \in Conn : ReadMessage(e, c)
     \/ \E c \in Conn : AcceptConnection(c)
     \/ AcceptDone
     \/ SendReply
     \/ CloseDeleted
     \/ TellNext
     \/ TellDone
  /\ UNCHANGED <<clientVars, abrupt>>

MainAbrupt ==
  /\ \E e \in batch : \/ HandleErrorEvent(e)
                      \/ \E c \in Conn, m \in Leftover : ReadEof(e, c, m)
  /\ abrupt' = TRUE /\ UNCHANGED clientVars

MainLock ==
  /\ \/ HandleNewClient
     \/ HandleListRequest
     \/ HandleClientDelete
     \/ HandleAliveMessage
     \/ HandleChatMessage
  /\ UNCHANGED <<clientVars, abrupt>>

AliveStep ==
  /\ PingNext \/ CheckNext \/ AliveUnlock
  /\ UNCHANGED <<clientVars, abrupt>>

AliveLock ==
  /\ PingLock \/ CheckLock
  /\ UNCHANGED <<clientVars, abrupt>>

Ending ==
  /\ DieBySigpipe
  /\ UNCHANGED <<clientVars, abrupt>>

Operator ==
  /\ MayStop /\ Sigint
  /\ UNCHANGED <<clientVars, abrupt>>

(* What a client does unasked: nobody has to.                              *)
User(c) ==
  /\ \/ srv = "up" /\ \E n \in Names : Connect(c, n)
     \/ \E t \in Talk, to \in Names : Command(c, t, to)
     \/ Goodbye(c)
     \/ Killed(c)
     \/ \E m \in ServerType : ListenEof(c, m)
  /\ UNCHANGED <<serverVars, abrupt>>

(* And what it goes on to do.                                              *)
Client(c) ==
  /\ SendNew(c) \/ RegisterReply(c) \/ RegisterEof(c) \/ Listen(c) \/ Exit(c)
  /\ UNCHANGED <<serverVars, abrupt>>

Next ==
  \/ MainStep \/ MainAbrupt \/ MainLock
  \/ AliveStep \/ AliveLock
  \/ Ending \/ Operator
  \/ \E c \in Conn : User(c) \/ Client(c)

Spec == Init /\ [][Next]_vars

(* The threads of the server run: a call that can return does.  The lock   *)
(* is free for good stretches between two uses (the heartbeat sleeps ten   *)
(* seconds after each), so a thread that keeps asking gets it, unless it   *)
(* is never given back: strong fairness.  Clients answer what they get;    *)
(* nobody has to type, to leave or to die.                                 *)
Fairness ==
  /\ WF_vars(MainStep) /\ WF_vars(MainAbrupt) /\ SF_vars(MainLock)
  /\ WF_vars(AliveStep) /\ SF_vars(AliveLock)
  /\ WF_vars(Ending)
  /\ \A c \in Conn : WF_vars(Client(c))

FairSpec == Spec /\ Fairness

-----------------------------------------------------------------------------
(* Safety.                                                                 *)

(* No two clients of the table have one name, whatever the two threads and *)
(* the clients do: add_client's check and its insertion are one step, and  *)
(* nothing else writes a name (server.c:73-93).                            *)
NamesUnique ==
  \A s, t \in Valid : clients[s].name = clients[t].name => s = t

(* handle_got_alive_message takes the first slot with the socket, in use   *)
(* or not (server.c:184-188).  While no connection has ended abruptly, no  *)
(* slot, not even one the heartbeat has emptied and left its old           *)
(* descriptor in, stands before the slot of the client that answers.       *)
FirstSlotOwnsSocket ==
  ~abrupt => \A s \in Slot, t \in Valid :
               s < t => clients[s].socket # clients[t].socket

(* While no connection has ended abruptly, a client of the table is        *)
(* reached through the connection of the process that bears its name       *)
(* (server.c:83-88, 101-104, 330-332: slot and descriptor come and go      *)
(* together).                                                              *)
SocketBelongsToName ==
  ~abrupt => \A s \in Valid : \E c \in At(clients[s].socket) : id[c] = clients[s].name

(* The loop of accept_new_connection_requests leaves no connection behind  *)
(* in the backlog that no readiness edge announces (server.c:231-237).     *)
ConnectionsNotForgotten ==
  srv = "up" /\ backlog # {} /\ FreeFd # {} =>
    \/ listenEdge \/ main.pc = "accept"
    \/ [fd |-> Listening, ev |-> "in"] \in batch

(* As long as names differ and no connection has ended abruptly, the main  *)
(* thread holds clients_mutex only while it sends to the table             *)
(* (server.c:91, 126, 146: each handler gives it back).                    *)
LockHeldOnlyWhileSending ==
  ~abrupt /\ mutex = "main" => main.pc = "tell"

(* The slots a thread is about to send to, or to evict, stay in use until  *)
(* it comes to them: the lock is held across each loop over the table      *)
(* (server.c:118-126, 305-317, 323-335).                                   *)
TodoStillValid ==
  main.todo \cup alive.todo \subseteq Valid

(* Whatever happens, the table implements the roster: a name keeps its     *)
(* connection until it leaves, and is given out only when free.            *)
Owner(n) ==
  IF Called(n) = {} THEN NoFd ELSE clients[CHOOSE s \in Called(n) : TRUE].socket

Promise == INSTANCE Roster WITH
  Owners <- Fd, None <- NoFd,
  up <- srv = "up", owner <- [n \in Names |-> Owner(n)]

RosterKept == Promise!Spec

(* With names that differ and no abrupt end, CLIENT_STOP closes the        *)
(* connection it came over and no other (server.c:101, 110).               *)
StopClosesOwnConnection ==
  [][~abrupt /\ main.pc = "dispatch" /\ main'.pc = "close" => main'.fd = main.fd]_vars

-----------------------------------------------------------------------------
(* What the messages and comments of the code say, and the code does not   *)
(* do.                                                                     *)

(* The heartbeat closes the connection of the client that "did not respond *)
(* to heartbeat" (server.c:328), never that of another client who is       *)
(* there: the descriptor in its entry has not passed to someone else.      *)
EvictionClosesItsClient ==
  alive.pc = "checking" =>
    \A s \in alive.todo : \A c \in At(clients[s].socket) :
      proc[c] = "running" => id[c] = clients[s].name

(* A client about to conclude that it "failed to register on server"       *)
(* (client.c:192) is not registered.                                       *)
FailedIsNotRegistered ==
  \A c \in Conn :
    proc[c] = "registering" /\ s2c[c] # <<>> /\ Head(s2c[c]) # "SERVER_OK_REGISTER"
      => \A s \in Valid : c \notin At(clients[s].socket)

(* The heartbeat that "will be checking who is still alive"                *)
(* (server.c:321) does check.                                              *)
HeartbeatChecks ==
  srv = "up" /\ alive.pc = "check" ~> srv # "up" \/ alive.pc = "checking"

-----------------------------------------------------------------------------
(* Liveness.                                                               *)

Leaked == mutex = "main" /\ main.pc # "tell"

(* A client that asks to be registered gets an answer, unless it or the    *)
(* server goes away first, or the lock is never given back.                *)
RegistrationAnswered ==
  \A c \in Conn :
    proc[c] = "registering" ~> proc[c] # "registering" \/ Leaked

(* A name whose processes are all gone leaves the table, unless the lock   *)
(* is never given back (server.c:299-337).                                 *)
Gone(n) == Called(n) # {} /\ \A c \in Conn : id[c] = n => proc[c] = "done"


(* A client that has been sent SERVER_SHUTDOWN ends.                       *)
ShutdownEndsClients ==
  \A c \in Conn :
    (\E i \in DOMAIN s2c[c] : s2c[c][i] = "SERVER_SHUTDOWN") ~> proc[c] = "done"

=============================================================================
