------------------------------ MODULE ChatProofs ------------------------------
(***************************************************************************)
(* Theorems about the chat of cw11, for every number of clients, names,    *)
(* descriptors and table entries.                                          *)
(***************************************************************************)
EXTENDS Chat, FiniteSets, FiniteSetTheorems, SequenceTheorems, TLAPS

-----------------------------------------------------------------------------
(* Types: the sockets.                                                     *)

(* A message sent leaves the sockets typed.                                 *)
LEMMA SendType ==
  ASSUME NetTypeOK, NEW f, NEW m \in ServerType, ServerSend(f, m)
  PROVE  NetTypeOK'
<1>1. \A c \in Conn : Append(s2c[c], m) \in Seq(ServerType)
  BY AppendProperties DEF NetTypeOK
<1> QED
  BY <1>1 DEF NetTypeOK, ServerSend, Peer, At

(* A message read is one of the messages clients send.                      *)
LEMMA ReadType ==
  ASSUME NetTypeOK, NEW c \in Conn, c2s[c] # <<>>, ServerRead(c)
  PROVE  NetTypeOK' /\ Head(c2s[c]) \in ClientMsg
<1>1. Tail(c2s[c]) \in Seq(ClientMsg) /\ Head(c2s[c]) \in ClientMsg
  BY HeadTailProperties DEF NetTypeOK
<1> QED
  BY <1>1 DEF NetTypeOK, ServerRead

(* A failed receive reports at most a reset.                                *)
LEMMA ReadFailsType ==
  ASSUME NetTypeOK, NEW f, ServerReadFails(f)
  PROVE  NetTypeOK'
  BY DEF NetTypeOK, ServerReadFails, Peer

(* Closing a descriptor keeps the types.                                    *)
LEMMA CloseType ==
  ASSUME NetTypeOK, NEW f, ServerClose(f)
  PROVE  NetTypeOK'
<1>1. <<>> \in Seq(ClientMsg)
  BY EmptySeq
<1> QED
  BY <1>1 DEF NetTypeOK, ServerClose

(* A connection accepted gets one of the descriptors.                       *)
LEMMA AcceptType ==
  ASSUME NetTypeOK, NEW c \in Conn, ServerAccept(c)
  PROVE  NetTypeOK'
<1>1. PICK f \in First(FreeFd) : fd' = [fd EXCEPT ![c] = f]
  BY DEF ServerAccept
<1>2. f \in Fd
  BY DEF First, FreeFd
<1> QED
  BY <1>1, <1>2 DEF NetTypeOK, ServerAccept

(* The end of the process keeps the types.                                  *)
LEMMA ExitType ==
  ASSUME NetTypeOK, ServerExit, peer' = peer, s2c' \in [Conn -> Seq(ServerType)]
  PROVE  NetTypeOK'
<1>1. <<>> \in Seq(ClientMsg)
  BY EmptySeq
<1> QED
  BY <1>1 DEF NetTypeOK, ServerExit

(* Connecting keeps the types.                                              *)
LEMMA ClientConnectType ==
  ASSUME NetTypeOK, NEW c \in Conn, ClientConnect(c)
  PROVE  NetTypeOK'
  BY DEF NetTypeOK, ClientConnect, Peer

(* What a client sends keeps the types.                                     *)
LEMMA ClientSendType ==
  ASSUME NetTypeOK, NEW c \in Conn, NEW m \in ClientMsg, ClientSend(c, m),
         s2c' \in [Conn -> Seq(ServerType)]
  PROVE  NetTypeOK'
<1>1. Append(c2s[c], m) \in Seq(ClientMsg)
  BY AppendProperties DEF NetTypeOK
<1> QED
  BY <1>1 DEF NetTypeOK, ClientSend, Arrives

(* A client closing its end keeps the types.                                *)
LEMMA ClientCloseType ==
  ASSUME NetTypeOK, NEW c \in Conn, NEW unread, ClientClose(c, unread)
  PROVE  NetTypeOK'
<1>1. <<>> \in Seq(ServerType)
  BY EmptySeq
<1> QED
  BY <1>1 DEF NetTypeOK, ClientClose, Arrives, Peer

-----------------------------------------------------------------------------
(* Types: the server.  What a thread has at hand fits the place it is at,  *)
(* and an entry in use has a name and a descriptor.                        *)

ServerFit ==
  /\ main.pc = "dispatch" => main.fd \in Fd
  /\ main.pc \in {"reply", "tell"} => main.reply \in ServerType
  /\ \A s \in Valid : clients[s].name \in Names /\ clients[s].socket \in Fd

ServerOK == NetTypeOK /\ ServerTypeOK /\ ServerFit

(* The listening socket and "no descriptor" are not connections.            *)
LEMMA FdFacts == Fd \subseteq Nat \ {0} /\ Listening \notin Fd /\ NoFd \notin Fd
<1>1. \A f \in Fd : f \in Nat /\ f >= 1
  BY NetAssumption DEF Fd
<1>2. Listening \notin Fd
  BY <1>1 DEF Listening
<1>3. NoFd \notin Fd
  BY <1>1 DEF NoFd
<1> QED
  BY <1>1, <1>2, <1>3

(* The main thread between two events is well typed.                        *)
LEMMA IdleType == Idle \in [pc : {"events", "accept", "dispatch", "tell", "reply", "close"},
                            fd : Fd \cup {NoFd}, msg : ClientMsg \cup {NoMsg},
                            todo : SUBSET Slot, reply : ServerType \cup {"none"}]
  BY DEF Idle

(* epoll_wait returns events on descriptors.                                *)
LEMMA EpollWaitType == ServerOK /\ EpollWait => ServerOK'
<1> SUFFICES ASSUME ServerOK, EpollWait PROVE ServerOK'
  OBVIOUS
<1> USE DEF ServerOK, EpollWait
<1>1. EpollEvents \subseteq Event
  BY DEF EpollEvents, Event, Readable, NetTypeOK
<1>2. NetTypeOK'
  BY DEF NetTypeOK
<1> QED
  BY <1>1, <1>2 DEF ServerTypeOK, ServerFit, Valid

(* An event is about a descriptor, and so are its connections.              *)
LEMMA EventType ==
  ASSUME ServerOK, NEW e \in batch
  PROVE  /\ e.fd \in Fd \cup {Listening}
         /\ \A c \in At(e.fd) : c \in Conn /\ e.fd \in Fd
  BY FdFacts DEF ServerOK, ServerTypeOK, NetTypeOK, Event, At

(* Taking up an event, with or without a message in hand.                   *)
LEMMA TakeType ==
  ASSUME ServerOK, NetTypeOK', NEW e \in batch, Take(e),
         \/ main' = Idle
         \/ main' = [Idle EXCEPT !.pc = "accept"]
         \/ main' = main
         \/ \E f \in Fd, m \in ClientMsg \cup {NoMsg} : main' = Dispatch(f, m)
  PROVE  ServerOK'
<1>1. /\ main' \in [pc : {"events", "accept", "dispatch", "tell", "reply", "close"},
                    fd : Fd \cup {NoFd}, msg : ClientMsg \cup {NoMsg},
                    todo : SUBSET Slot, reply : ServerType \cup {"none"}]
      /\ main'.pc = "dispatch" => main'.fd \in Fd
      /\ main'.pc \in {"reply", "tell"} => main'.reply \in ServerType
  <2>1. CASE main' = Idle \/ main' = [Idle EXCEPT !.pc = "accept"]
    BY <2>1, IdleType DEF Idle
  <2>2. CASE main' = main
    BY <2>2 DEF ServerOK, ServerTypeOK, ServerFit
  <2>3. ASSUME NEW f \in Fd, NEW m \in ClientMsg \cup {NoMsg}, main' = Dispatch(f, m)
        PROVE  /\ main' \in [pc : {"events", "accept", "dispatch", "tell", "reply", "close"},
                             fd : Fd \cup {NoFd}, msg : ClientMsg \cup {NoMsg},
                             todo : SUBSET Slot, reply : ServerType \cup {"none"}]
               /\ main'.pc = "dispatch" /\ main'.fd \in Fd
    <3>1. main' = [pc |-> "dispatch", fd |-> f, msg |-> m, todo |-> {}, reply |-> "none"]
      BY <2>3 DEF Dispatch, Idle
    <3> QED  BY <3>1
  <2> QED  BY <2>1, <2>2, <2>3
<1>2. batch' \in SUBSET Event
  BY DEF Take, ServerOK, ServerTypeOK
<1>3. srv' = srv /\ mutex' = mutex /\ clients' = clients /\ alive' = alive
  BY DEF Take
<1>4. ServerTypeOK'
  BY <1>1, <1>2, <1>3 DEF ServerOK, ServerTypeOK
<1>5. ServerFit'
  BY <1>1, <1>3 DEF ServerOK, ServerFit, Valid
<1> QED  BY <1>4, <1>5 DEF ServerOK

(* The steps of the event loop on one event.                                *)
LEMMA EventStepType ==
  ASSUME ServerOK, NEW e \in batch,
         \/ HandleListenEvent(e)
         \/ HandleErrorEvent(e)
         \/ ReadFails(e)
         \/ \E c \in Conn : ReadMessage(e, c)
         \/ \E c \in Conn, m \in Leftover : ReadEof(e, c, m)
  PROVE  ServerOK'
<1> NetTypeOK
  BY DEF ServerOK
<1>1. CASE HandleListenEvent(e)
  BY <1>1, TakeType DEF HandleListenEvent, netVars, NetTypeOK
<1>2. CASE HandleErrorEvent(e)
  BY <1>2, TakeType, CloseType DEF HandleErrorEvent
<1>3. CASE ReadFails(e)
  BY <1>3, TakeType, ReadFailsType DEF ReadFails
<1>4. ASSUME NEW c \in Conn, ReadMessage(e, c) PROVE ServerOK'
  BY <1>4, TakeType, ReadType, EventType DEF ReadMessage
<1>5. ASSUME NEW c \in Conn, NEW m \in Leftover, ReadEof(e, c, m) PROVE ServerOK'
  <2>1. NetTypeOK' /\ m \in ClientMsg \cup {NoMsg}
    BY <1>5, ServerAssumption DEF ReadEof, netVars, NetTypeOK
  <2> QED  BY <1>5, <2>1, TakeType, EventType DEF ReadEof
<1> QED
  BY <1>1, <1>2, <1>3, <1>4, <1>5

(* The steps of accept_new_connection_requests.                             *)
LEMMA AcceptStepType ==
  ASSUME ServerOK, AcceptDone \/ \E c \in Conn : AcceptConnection(c)
  PROVE  ServerOK'
<1> USE DEF ServerOK, ServerTypeOK, ServerFit, Valid
<1>1. ASSUME NEW c \in Conn, AcceptConnection(c) PROVE ServerOK'
  BY <1>1, AcceptType DEF AcceptConnection, serverVars
<1>2. CASE AcceptDone
  BY <1>2, IdleType DEF AcceptDone, netVars, NetTypeOK, Idle
<1> QED
  BY <1>1, <1>2

(* The steps that send or close with the lock given up or held.             *)
LEMMA SendStepType ==
  ASSUME ServerOK, SendReply \/ CloseDeleted \/ TellNext \/ TellDone
  PROVE  ServerOK'
<1> USE DEF ServerOK, ServerTypeOK, ServerFit, Valid
<1>1. CASE SendReply
  BY <1>1, IdleType, SendType DEF SendReply, Idle
<1>2. CASE CloseDeleted
  BY <1>2, IdleType, CloseType DEF CloseDeleted, Idle
<1>3. CASE TellNext
  <2>1. PICK s \in First(main.todo) :
           /\ ServerSend(clients[s].socket, main.reply)
           /\ main' = [main EXCEPT !.todo = @ \ {s}]
    BY <1>3 DEF TellNext
  <2>2. main.reply \in ServerType
    BY <1>3 DEF TellNext
  <2>3. NetTypeOK'
    BY <2>1, <2>2, SendType
  <2> QED  BY <1>3, <2>1, <2>3 DEF TellNext
<1>4. CASE TellDone
  BY <1>4, IdleType DEF TellDone, Idle, netVars, NetTypeOK
<1> QED
  BY <1>1, <1>2, <1>3, <1>4

(* add_client enters names and descriptors only.                            *)
LEMMA AddClientType ==
  ASSUME ServerOK, NEW n \in Names, NEW f \in Fd, AddClient(n, f)
  PROVE  /\ mutex' \in {"free", "main", "alive"}
         /\ clients' \in [Slot -> Entry]
         /\ \A s \in Valid' : clients'[s].name \in Names /\ clients'[s].socket \in Fd
<1>0. /\ mutex \in {"free", "main", "alive"} /\ clients \in [Slot -> Entry]
      /\ \A s \in Slot : clients[s].valid =>
           clients[s].name \in Names /\ clients[s].socket \in Fd
  BY DEF ServerOK, ServerTypeOK, ServerFit, Valid
<1>1. CASE UNCHANGED clients
  BY <1>0, <1>1 DEF AddClient, Valid
<1>2. CASE Enter(First(Slot \ Valid), n, f) /\ UNCHANGED mutex
  <2>1. PICK S : clients' = [s \in Slot |->
                   IF s \in S
                   THEN [clients[s] EXCEPT !.name = n, !.socket = f, !.valid = TRUE]
                   ELSE clients[s]]
    BY <1>2 DEF Enter
  <2>2. \A s \in Slot : \/ clients'[s] = clients[s]
                        \/ /\ clients'[s] \in Entry
                           /\ clients'[s].name = n /\ clients'[s].socket = f
    <3> SUFFICES ASSUME NEW s \in Slot, s \in S
                 PROVE  /\ clients'[s] \in Entry
                        /\ clients'[s].name = n /\ clients'[s].socket = f
      BY <2>1
    <3>1. clients'[s] = [clients[s] EXCEPT !.name = n, !.socket = f, !.valid = TRUE]
      BY <2>1
    <3>2. clients[s] \in Entry
      BY <1>0
    <3> QED  BY <3>1, <3>2 DEF Entry
  <2>3. clients' \in [Slot -> Entry]
    BY <1>0, <2>1, <2>2
  <2>4. \A s \in Valid' : clients'[s].name \in Names /\ clients'[s].socket \in Fd
    BY <1>0, <2>2 DEF Valid
  <2> QED
    BY <1>0, <1>2, <2>3, <2>4
<1> QED
  BY <1>1, <1>2 DEF AddClient

(* A message whose type is known is a message, over a descriptor.          *)
LEMMA DispatchedType ==
  ASSUME ServerOK, NEW t \in ClientType, Dispatched(t)
  PROVE  main.msg \in ClientMsg /\ main.fd \in Fd
  BY DEF ServerOK, ServerTypeOK, ServerFit, Dispatched, NoMsg, Msg, ClientType

(* The handlers that take clients_mutex.                                    *)
LEMMA HandlerType ==
  ASSUME ServerOK,
         \/ HandleNewClient \/ HandleListRequest \/ HandleClientDelete
         \/ HandleAliveMessage \/ HandleChatMessage
  PROVE  ServerOK'
<1>0. ASSUME UNCHANGED netVars PROVE NetTypeOK'
  BY <1>0 DEF ServerOK, netVars, NetTypeOK
<1>1. CASE HandleNewClient
  <2>1. main.msg.sender \in Names /\ main.fd \in Fd
    BY <1>1, DispatchedType DEF HandleNewClient, ClientType, ClientMsg
  <2>2. /\ main' \in [pc : {"reply"}, fd : Fd \cup {NoFd}, msg : ClientMsg \cup {NoMsg},
                      todo : SUBSET Slot, reply : ServerType]
    BY <1>1 DEF HandleNewClient, Reply, ServerOK, ServerTypeOK, ServerType
  <2> QED
    BY <1>1, <1>0, <2>1, <2>2, AddClientType DEF HandleNewClient, ServerOK, ServerTypeOK, ServerFit
<1>2. CASE HandleListRequest
  BY <1>2, <1>0 DEF HandleListRequest, Reply, ServerOK, ServerTypeOK, ServerFit, ServerType, Valid
<1>3. CASE HandleClientDelete
  <2> DEFINE gone == First(Called(main.msg.sender))
  <2>1. clients' = [s \in Slot |-> IF s \in gone
                                  THEN [Free EXCEPT !.awaiting = clients[s].awaiting]
                                  ELSE clients[s]]
    BY <1>3 DEF HandleClientDelete, Delete
  <2>2. clients' \in [Slot -> Entry] /\ Valid' \subseteq Valid /\ \A s \in Valid' : clients'[s] = clients[s]
    BY <2>1 DEF ServerOK, ServerTypeOK, Entry, Free, Valid
  <2>3. gone # {} => clients[CHOOSE s \in gone : TRUE].socket \in Fd
    BY DEF First, Called, ServerOK, ServerFit
  <2>4. main' \in [pc : {"events", "close"}, fd : Fd \cup {NoFd}, msg : ClientMsg \cup {NoMsg},
                  todo : SUBSET Slot, reply : ServerType \cup {"none"}]
    BY <1>3, <2>3 DEF HandleClientDelete, Delete, Idle
  <2> QED
    BY <1>3, <1>0, <2>2, <2>4 DEF HandleClientDelete, Delete, ServerOK, ServerTypeOK, ServerFit
<1>4. CASE HandleAliveMessage
  <2>1. clients' \in [Slot -> Entry] /\ Valid' = Valid
        /\ \A s \in Slot : /\ clients'[s].name = clients[s].name
                           /\ clients'[s].socket = clients[s].socket
    <3>1. /\ clients \in [Slot -> Entry]
          /\ clients' = [t \in Slot |->
                           IF t \in First({u \in Slot : clients[u].socket = main.fd})
                           THEN [clients[t] EXCEPT !.awaiting = FALSE] ELSE clients[t]]
      BY <1>4 DEF HandleAliveMessage, ServerOK, ServerTypeOK
    <3>2. clients' \in [Slot -> Entry]
      BY <3>1 DEF Entry
    <3>3. \A t \in Slot : /\ clients'[t].name = clients[t].name
                          /\ clients'[t].socket = clients[t].socket
                          /\ clients'[t].valid = clients[t].valid
      BY <3>1 DEF Entry
    <3> QED  BY <3>2, <3>3 DEF Valid
  <2>2. main' = Idle /\ UNCHANGED <<netVars, srv, mutex, batch, alive>>
    BY <1>4 DEF HandleAliveMessage
  <2>3. ServerTypeOK'
    BY <2>1, <2>2, IdleType DEF ServerOK, ServerTypeOK
  <2>4. ServerFit'
    <3>1. main'.pc = "events" /\ Valid \subseteq Slot
      BY <2>2 DEF Idle, Valid
    <3> QED  BY <2>1, <3>1 DEF ServerOK, ServerFit
  <2> QED
    BY <1>0, <2>2, <2>3, <2>4 DEF ServerOK
<1>5. CASE HandleChatMessage
  <2>1. Recipients(main.msg) \subseteq Slot
    BY DEF Recipients, Called, Valid, First
  <2>2. main' \in [pc : {"tell"}, fd : Fd \cup {NoFd}, msg : ClientMsg \cup {NoMsg},
                  todo : SUBSET Slot, reply : ServerType]
    BY <1>5, <2>1 DEF HandleChatMessage, ServerOK, ServerTypeOK, ServerType
  <2> QED
    BY <1>5, <1>0, <2>2 DEF HandleChatMessage, ServerOK, ServerTypeOK, ServerFit, Valid
<1> QED
  BY <1>1, <1>2, <1>3, <1>4, <1>5

(* The steps of check_if_clients_are_alive.                                 *)
LEMMA HeartbeatType ==
  ASSUME ServerOK, PingLock \/ PingNext \/ CheckLock \/ CheckNext \/ AliveUnlock
  PROVE  ServerOK'
<1>0. ASSUME UNCHANGED netVars PROVE NetTypeOK'
  BY <1>0 DEF ServerOK, netVars, NetTypeOK
<1>1. CASE PingLock \/ CheckLock \/ AliveUnlock
  <2>1. /\ UNCHANGED <<netVars, srv, clients, main, batch>>
        /\ mutex' \in {"free", "alive"}
    BY <1>1 DEF PingLock, CheckLock, AliveUnlock
  <2>2. Valid \subseteq Slot /\ {s \in Valid : clients[s].awaiting} \subseteq Slot
    BY DEF Valid
  <2>3. alive' \in [pc : {"ping", "pinging", "check", "checking"}, todo : SUBSET Slot]
    BY <1>1, <2>2 DEF PingLock, CheckLock, AliveUnlock
  <2>4. ServerTypeOK'
    BY <2>1, <2>3 DEF ServerOK, ServerTypeOK
  <2>5. ServerFit'
    BY <2>1 DEF ServerOK, ServerFit, Valid
  <2> QED  BY <1>0, <2>1, <2>4, <2>5 DEF ServerOK
<1>2. CASE PingNext
  <2>1. PICK s \in First(alive.todo) :
           /\ ServerSend(clients[s].socket, "SERVER_CHECK_ALIVE")
           /\ clients' = [clients EXCEPT ![s].awaiting = TRUE]
           /\ alive' = [alive EXCEPT !.todo = @ \ {s}]
           /\ UNCHANGED <<srv, mutex, main, batch>>
    BY <1>2 DEF PingNext
  <2>2. NetTypeOK'
    BY <2>1, SendType DEF ServerOK, ServerType
  <2>3. clients' \in [Slot -> Entry] /\ Valid' = Valid
        /\ \A t \in Slot : /\ clients'[t].name = clients[t].name
                           /\ clients'[t].socket = clients[t].socket
    <3>1. clients \in [Slot -> Entry] /\ clients' = [clients EXCEPT ![s].awaiting = TRUE]
      BY <2>1 DEF ServerOK, ServerTypeOK
    <3>2. clients' \in [Slot -> Entry]
      BY <3>1 DEF Entry
    <3>3. \A t \in Slot : /\ clients'[t].name = clients[t].name
                          /\ clients'[t].socket = clients[t].socket
                          /\ clients'[t].valid = clients[t].valid
      BY <3>1 DEF Entry
    <3> QED  BY <3>2, <3>3 DEF Valid
  <2>4. ServerTypeOK'
    BY <2>1, <2>3 DEF ServerOK, ServerTypeOK
  <2>5. ServerFit'
    BY <2>1, <2>3 DEF ServerOK, ServerFit, Valid
  <2> QED
    BY <2>2, <2>4, <2>5 DEF ServerOK
<1>3. CASE CheckNext
  <2>1. PICK s \in First(alive.todo) :
           /\ ServerClose(clients[s].socket)
           /\ clients' = [clients EXCEPT ![s].valid = FALSE, ![s].awaiting = FALSE]
           /\ alive' = [alive EXCEPT !.todo = @ \ {s}]
           /\ UNCHANGED <<srv, mutex, main, batch>>
    BY <1>3 DEF CheckNext
  <2>2. NetTypeOK'
    BY <2>1, CloseType DEF ServerOK
  <2>3. clients' \in [Slot -> Entry] /\ Valid' \subseteq Valid
        /\ \A t \in Slot : /\ clients'[t].name = clients[t].name
                           /\ clients'[t].socket = clients[t].socket
    <3>1. clients \in [Slot -> Entry] /\ clients' = [clients EXCEPT ![s].valid = FALSE, ![s].awaiting = FALSE]
      BY <2>1 DEF ServerOK, ServerTypeOK
    <3>2. clients' \in [Slot -> Entry]
      BY <3>1 DEF Entry
    <3>3. \A t \in Slot : /\ clients'[t].name = clients[t].name
                          /\ clients'[t].socket = clients[t].socket
                          /\ clients'[t].valid => clients[t].valid
      BY <3>1 DEF Entry
    <3> QED  BY <3>2, <3>3 DEF Valid
  <2>4. ServerTypeOK'
    BY <2>1, <2>3 DEF ServerOK, ServerTypeOK
  <2>5. ServerFit'
    BY <2>1, <2>3 DEF ServerOK, ServerFit, Valid
  <2> QED
    BY <2>2, <2>4, <2>5 DEF ServerOK
<1> QED
  BY <1>1, <1>2, <1>3

(* The end of the server, by SIGPIPE or by SIGINT.                          *)
LEMMA DeathType ==
  ASSUME ServerOK, DieBySigpipe \/ Sigint
  PROVE  ServerOK'
<1>1. s2c' \in [Conn -> Seq(ServerType)] /\ peer' = peer
  <2>1. \A c \in Conn : Append(s2c[c], "SERVER_SHUTDOWN") \in Seq(ServerType)
    BY AppendProperties DEF ServerOK, NetTypeOK, ServerType
  <2> QED
    BY <2>1 DEF DieBySigpipe, Sigint, ServerOK, NetTypeOK
<1>2. Die("sigpipe") \/ Die("exited")
  BY DEF DieBySigpipe, Sigint
<1>3. NetTypeOK'
  BY <1>1, <1>2, ExitType DEF Die, ServerOK
<1>4. ServerTypeOK'
  <2>1. Free \in Entry
    BY DEF Free, Entry
  <2>2. srv' \in {"exited", "sigpipe"} /\ mutex' = "free" /\ batch' = {}
        /\ clients' = [s \in Slot |-> Free] /\ main' = Idle /\ alive' = Asleep
    BY <1>2 DEF Die
  <2>3. Asleep \in [pc : {"ping", "pinging", "check", "checking"}, todo : SUBSET Slot]
    BY DEF Asleep
  <2> QED  BY <2>1, <2>2, <2>3, IdleType DEF ServerTypeOK
<1> QED
  BY <1>2, <1>3, <1>4 DEF ServerOK, ServerFit, Die, Idle, Free, Valid

-----------------------------------------------------------------------------
(* Types: the clients, and the whole.                                      *)

ClientFit == \A c \in Conn : proc[c] # "idle" => id[c] \in Names

TypeInv ==
  /\ ServerOK
  /\ ClientTypeOK /\ ClientFit
  /\ abrupt \in BOOLEAN

(* A client with a name writes well-typed messages.                         *)
LEMMA MsgType ==
  ASSUME NEW t \in ClientType, NEW n \in Names, NEW m \in Names
  PROVE  Msg(t, n) \in ClientMsg /\ [type |-> t, sender |-> n, to |-> m] \in ClientMsg
  BY DEF Msg, ClientMsg

(* A client process moves on to one of its stages.                          *)
LEMMA BecomesType ==
  ASSUME ClientTypeOK, ClientFit, NEW c \in Conn, proc[c] # "idle",
         NEW stage \in Stages, Becomes(c, stage)
  PROVE  ClientTypeOK' /\ ClientFit'
  BY DEF ClientTypeOK, ClientFit, Becomes

(* Reading a message, or finding none, leaves the server's messages typed. *)
LEMMA ListenerType ==
  ASSUME NetTypeOK, ClientTypeOK, ClientFit, NEW c \in Conn,
         NEW m, NEW rest \in Seq(ServerType), Listener(c, m, rest)
  PROVE  NetTypeOK' /\ ClientTypeOK' /\ ClientFit'
<1>1. proc[c] # "idle" /\ id[c] \in Names
  BY DEF Listener, ClientFit
<1>2. ASSUME s2c' = [s2c EXCEPT ![c] = rest] PROVE s2c' \in [Conn -> Seq(ServerType)]
  BY <1>2 DEF NetTypeOK
<1>3. CASE Shown(c, rest)
  BY <1>2, <1>3 DEF Shown, NetTypeOK, ClientTypeOK, ClientFit, clientVars
<1>4. CASE Answered(c, m, rest)
  <2>1. Msg("CLIENT_ALIVE", id[c]) \in ClientMsg
    BY <1>1, MsgType DEF ClientType
  <2>2. NetTypeOK'
    BY <1>2, <1>4, <2>1, ClientSendType DEF Answered
  <2> QED  BY <1>4, <2>2 DEF Answered, ClientTypeOK, ClientFit, clientVars
<1>5. CASE CleanExit(c, rest)
  <2>1. Msg("CLIENT_STOP", id[c]) \in ClientMsg
    BY <1>1, MsgType DEF ClientType
  <2>2. NetTypeOK'
    BY <1>2, <1>5, <2>1, ClientSendType DEF CleanExit
  <2> QED
    BY <1>1, <1>5, <2>2, BecomesType DEF CleanExit, Stages
<1> QED
  BY <1>3, <1>4, <1>5 DEF Listener

(* The steps of one client process.                                         *)
LEMMA ClientStepType ==
  ASSUME NetTypeOK, ClientTypeOK, ClientFit, NEW c \in Conn,
         \/ \E n \in Names : Connect(c, n)
         \/ \E t \in Talk, to \in Names : Command(c, t, to)
         \/ Goodbye(c) \/ Killed(c)
         \/ \E m \in ServerType : ListenEof(c, m)
         \/ SendNew(c) \/ RegisterReply(c) \/ RegisterEof(c) \/ Listen(c) \/ Exit(c)
  PROVE  NetTypeOK' /\ ClientTypeOK' /\ ClientFit'
<1>0. proc[c] # "idle" => id[c] \in Names
  BY DEF ClientFit
<1>1. ASSUME NEW n \in Names, Connect(c, n) PROVE NetTypeOK' /\ ClientTypeOK' /\ ClientFit'
  BY <1>1, ClientConnectType DEF Connect, ClientTypeOK, ClientFit, Stages
<1>2. ASSUME NEW t \in Talk, NEW to \in Names, Command(c, t, to)
      PROVE  NetTypeOK' /\ ClientTypeOK' /\ ClientFit'
  <2>1. [type |-> t, sender |-> id[c], to |-> to] \in ClientMsg
    BY <1>0, <1>2, MsgType, ClientAssumption DEF Command, ClientType
  <2>2. NetTypeOK'
    BY <1>2, <2>1, ClientSendType DEF Command, NetTypeOK
  <2> QED  BY <1>2, <2>2 DEF Command, ClientTypeOK, ClientFit, clientVars
<1>3. CASE Goodbye(c) \/ SendNew(c)
  <2>1. Msg("CLIENT_STOP", id[c]) \in ClientMsg /\ Msg("CLIENT_NEW", id[c]) \in ClientMsg
    BY <1>0, <1>3, MsgType DEF Goodbye, SendNew, ClientType
  <2>2. NetTypeOK'
    BY <1>3, <2>1, ClientSendType DEF Goodbye, SendNew, NetTypeOK
  <2> QED  BY <1>3, <2>2, BecomesType DEF Goodbye, SendNew, Stages
<1>4. CASE Killed(c) \/ Exit(c)
  BY <1>4, BecomesType, ClientCloseType DEF Killed, Exit, Stages
<1>5. ASSUME NEW m \in ServerType, ListenEof(c, m)
      PROVE  NetTypeOK' /\ ClientTypeOK' /\ ClientFit'
  BY <1>5, ListenerType, EmptySeq DEF ListenEof
<1>6. CASE Listen(c)
  <2>1. Tail(s2c[c]) \in Seq(ServerType)
    BY <1>6, HeadTailProperties DEF Listen, NetTypeOK
  <2> QED  BY <1>6, <2>1, ListenerType DEF Listen
<1>7. CASE RegisterReply(c)
  <2>1. Tail(s2c[c]) \in Seq(ServerType)
    BY <1>7, HeadTailProperties DEF RegisterReply, NetTypeOK
  <2>2. NetTypeOK'
    BY <1>7, <2>1, ClientCloseType DEF RegisterReply, NetTypeOK
  <2> QED  BY <1>7, <2>2, BecomesType DEF RegisterReply, Stages
<1>8. CASE RegisterEof(c)
  <2>1. NetTypeOK'
    BY <1>8, ClientCloseType DEF RegisterEof, netVars, NetTypeOK
  <2> QED  BY <1>8, <2>1, BecomesType DEF RegisterEof, Stages
<1> QED
  BY <1>1, <1>2, <1>3, <1>4, <1>5, <1>6, <1>7, <1>8

(* Every step keeps every variable typed.                                   *)
LEMMA TypeStep == TypeInv /\ [Next]_vars => TypeInv'
<1> SUFFICES ASSUME TypeInv, [Next]_vars PROVE TypeInv'
  OBVIOUS
<1> USE DEF TypeInv
<1>0. ASSUME UNCHANGED clientVars PROVE ClientTypeOK' /\ ClientFit'
  BY <1>0 DEF clientVars, ClientTypeOK, ClientFit
<1>2. CASE UNCHANGED vars
  BY <1>0, <1>2 DEF vars, netVars, serverVars, ServerOK, NetTypeOK, ServerTypeOK, ServerFit, Valid
<1>3. CASE MainStep
  <2>1. ServerOK'
    BY <1>3, EpollWaitType, EventStepType, AcceptStepType, SendStepType DEF MainStep
  <2> QED  BY <1>0, <1>3, <2>1 DEF MainStep
<1>4. CASE MainAbrupt
  <2>1. ServerOK'
    BY <1>4, EventStepType DEF MainAbrupt
  <2> QED  BY <1>0, <1>4, <2>1 DEF MainAbrupt
<1>5. CASE MainLock
  BY <1>0, <1>5, HandlerType DEF MainLock
<1>6. CASE AliveStep \/ AliveLock
  BY <1>0, <1>6, HeartbeatType DEF AliveStep, AliveLock
<1>7. CASE Ending \/ Operator
  BY <1>0, <1>7, DeathType DEF Ending, Operator
<1>8. ASSUME NEW c \in Conn, User(c) \/ Client(c) PROVE TypeInv'
  <2>1. NetTypeOK' /\ ClientTypeOK' /\ ClientFit'
    BY <1>8, ClientStepType DEF User, Client, ServerOK
  <2>2. ServerOK'
    BY <1>8, <2>1 DEF User, Client, serverVars, ServerOK, ServerTypeOK, ServerFit, Valid
  <2> QED  BY <1>8, <2>1, <2>2 DEF User, Client
<1> QED
  BY <1>2, <1>3, <1>4, <1>5, <1>6, <1>7, <1>8 DEF Next

(* The initial state is well typed.                                         *)
LEMMA TypeInit == Init => TypeInv
<1> SUFFICES ASSUME Init PROVE TypeInv
  OBVIOUS
<1>1. NetTypeOK
  BY EmptySeq DEF Init, NetInit, NetTypeOK, Peer
<1>2. ServerTypeOK /\ ServerFit
  <2>1. Free \in Entry /\ Asleep \in [pc : {"ping", "pinging", "check", "checking"}, todo : SUBSET Slot]
    BY DEF Free, Entry, Asleep
  <2>2. ServerTypeOK
    BY <2>1, IdleType DEF Init, ServerInit, ServerTypeOK
  <2> QED  BY <2>2 DEF Init, ServerInit, ServerFit, Idle, Free, Valid
<1>3. ClientTypeOK /\ ClientFit
  BY DEF Init, ClientInit, ClientTypeOK, ClientFit, Stages
<1> QED
  BY <1>1, <1>2, <1>3 DEF Init, TypeInv, ServerOK

(* Every variable of the chat stays of its type, whatever clients and      *)
(* threads do, whatever an unwritten buffer holds (socket_utils.c:50-57):  *)
(* an entry in use always has a name and a descriptor (server.c:83-88).    *)
THEOREM ChatTypeCorrect == Spec => []TypeOK
<1>1. Spec => []TypeInv
  BY TypeInit, TypeStep, PTL DEF Spec
<1>2. TypeInv => TypeOK
  BY DEF TypeInv, TypeOK, ServerOK
<1> QED
  BY <1>1, <1>2, PTL

-----------------------------------------------------------------------------
(* The table.  A step enters one free name, drops one entry, drops all of  *)
(* them with the process, or leaves every name and descriptor where it is. *)

Same(s) == clients'[s].name = clients[s].name /\ clients'[s].socket = clients[s].socket

TableKept == Valid' = Valid /\ \A s \in Valid : Same(s)

Entered(n, f) ==
  /\ Called(n) = {} /\ n \in Names /\ f \in Fd
  /\ \E s \in Slot \ Valid :
       /\ Valid' = Valid \cup {s}
       /\ clients'[s].name = n /\ clients'[s].socket = f
  /\ \A s \in Valid : Same(s)

Dropped(s) == s \in Valid /\ Valid' = Valid \ {s} /\ \A t \in Valid' : Same(t)

(* A loop that breaks at its first match finds one slot.                    *)
LEMMA FirstUnique ==
  ASSUME NEW S \in SUBSET Slot, NEW s \in First(S), NEW t \in First(S)
  PROVE  s = t
  BY ServerAssumption DEF First, Slot

(* add_client enters one free name, or leaves the table alone.              *)
LEMMA AddClientTable ==
  ASSUME ServerOK, NEW n \in Names, NEW f \in Fd, AddClient(n, f)
  PROVE  TableKept \/ Entered(n, f)
<1> USE DEF ServerOK, ServerTypeOK, AddClient, Same
<1>1. CASE UNCHANGED clients
  BY <1>1 DEF TableKept, Valid
<1>2. CASE Called(n) = {} /\ Enter(First(Slot \ Valid), n, f)
  <2>1. CASE First(Slot \ Valid) = {}
    <3>1. \A s \in Slot : clients'[s] = clients[s]
      BY <1>2, <2>1 DEF Enter
    <3> QED  BY <3>1 DEF TableKept, Valid
  <2>2. ASSUME NEW s \in First(Slot \ Valid) PROVE Entered(n, f)
    <3> DEFINE F == First(Slot \ Valid)
    <3>1. s \in Slot \ Valid /\ F = {s}
      <4>1. s \in Slot \ Valid
        BY <2>2 DEF First
      <4>2. \A t \in F : t = s
        BY <2>2, FirstUnique
      <4> QED  BY <2>2, <4>1, <4>2
    <3>2. /\ clients'[s].name = n /\ clients'[s].socket = f /\ clients'[s].valid
          /\ \A t \in Slot \ {s} : clients'[t] = clients[t]
      BY <1>2, <3>1 DEF Enter, Entry
    <3>3. Valid' = Valid \cup {s}
      BY <3>1, <3>2 DEF Valid
    <3> QED  BY <1>2, <3>1, <3>2, <3>3 DEF Entered, Valid
  <2> QED  BY <2>1, <2>2
<1> QED
  BY <1>1, <1>2

(* What the handlers of the main thread do to the table.                    *)
LEMMA HandlerTable ==
  ASSUME ServerOK, MainLock
  PROVE  \/ TableKept
         \/ \E n \in Names, f \in Fd : Entered(n, f)
         \/ \E s \in Slot : Dropped(s)
<1> USE DEF ServerOK, ServerTypeOK, Same
<1>1. CASE HandleNewClient
  <2>1. main.msg.sender \in Names /\ main.fd \in Fd
    BY <1>1, DispatchedType DEF HandleNewClient, ClientType, ClientMsg
  <2> QED  BY <1>1, <2>1, AddClientTable DEF HandleNewClient
<1>2. CASE HandleListRequest \/ HandleChatMessage
  BY <1>2 DEF HandleListRequest, HandleChatMessage, TableKept, Valid
<1>3. CASE HandleAliveMessage
  BY <1>3 DEF HandleAliveMessage, TableKept, Valid, Entry
<1>4. CASE HandleClientDelete
  <2> DEFINE gone == First(Called(main.msg.sender))
  <2>1. clients' = [s \in Slot |-> IF s \in gone
                                  THEN [Free EXCEPT !.awaiting = clients[s].awaiting]
                                  ELSE clients[s]]
    BY <1>4 DEF HandleClientDelete, Delete
  <2>2. gone \subseteq Valid /\ \A s, t \in gone : s = t
    <3>1. Called(main.msg.sender) \in SUBSET Slot /\ Called(main.msg.sender) \subseteq Valid
      BY DEF Called, Valid
    <3> QED  BY <3>1, FirstUnique DEF First
  <2>3. Valid' = Valid \ gone /\ \A s \in Valid' : Same(s)
    BY <2>1, <2>2 DEF Valid, Free
  <2>4. CASE gone = {}
    BY <2>3, <2>4 DEF TableKept
  <2>5. ASSUME NEW s \in gone PROVE Dropped(s)
    BY <2>2, <2>3, <2>5 DEF Dropped
  <2> QED  BY <2>2, <2>4, <2>5 DEF Valid
<1> QED
  BY <1>1, <1>2, <1>3, <1>4 DEF MainLock

(* What the heartbeat thread does to the table.                             *)
LEMMA HeartbeatTable ==
  ASSUME ServerOK, AliveStep \/ AliveLock
  PROVE  TableKept \/ \E s \in Slot : Dropped(s)
<1> USE DEF ServerOK, ServerTypeOK, Same
<1>1. CASE PingLock \/ CheckLock \/ AliveUnlock
  BY <1>1 DEF PingLock, CheckLock, AliveUnlock, TableKept, Valid
<1>2. CASE PingNext
  BY <1>2 DEF PingNext, TableKept, Valid, Entry
<1>3. CASE CheckNext
  <2>1. PICK s \in First(alive.todo) :
           clients' = [clients EXCEPT ![s].valid = FALSE, ![s].awaiting = FALSE]
    BY <1>3 DEF CheckNext
  <2>2. s \in Slot
    BY DEF First
  <2>3. Valid' = Valid \ {s} /\ \A t \in Slot : Same(t)
    BY <2>1, <2>2 DEF Valid, Entry
  <2>4. CASE s \in Valid
    BY <2>2, <2>3, <2>4 DEF Dropped, Valid
  <2>5. CASE s \notin Valid
    BY <2>3, <2>5 DEF TableKept, Valid
  <2> QED  BY <2>2, <2>4, <2>5
<1> QED
  BY <1>1, <1>2, <1>3 DEF AliveStep, AliveLock

(* The table ends with the process.                                         *)
LEMMA DeathTable ==
  ASSUME Ending \/ Operator
  PROVE  srv = "up" /\ srv' # "up" /\ Valid' = {}
  BY DEF Ending, Operator, DieBySigpipe, Sigint, Die, Free, Valid

(* Every step, seen from the table.                                        *)
LEMMA TableStep ==
  ASSUME TypeInv, [Next]_vars
  PROVE  \/ TableKept /\ srv' = srv
         \/ srv = "up" /\ srv' = srv /\ \E n \in Names, f \in Fd : Entered(n, f)
         \/ srv = "up" /\ srv' = srv /\ \E s \in Slot : Dropped(s)
         \/ srv = "up" /\ srv' # "up" /\ Valid' = {}
<1> USE DEF TypeInv
<1>1. CASE UNCHANGED clients /\ srv' = srv
  BY <1>1 DEF TableKept, Valid, Same
<1>2. CASE MainStep \/ MainAbrupt \/ UNCHANGED vars \/ \E c \in Conn : User(c) \/ Client(c)
  <2>1. UNCHANGED clients /\ srv' = srv
    BY <1>2 DEF MainStep, MainAbrupt, User, Client, vars, serverVars, EpollWait,
       HandleListenEvent, HandleErrorEvent, ReadFails, ReadMessage, ReadEof, Take,
       AcceptConnection, AcceptDone, SendReply, CloseDeleted, TellNext, TellDone
  <2> QED  BY <1>1, <2>1
<1>3. CASE MainLock
  <2>1. srv = "up" /\ srv' = srv
    BY <1>3 DEF MainLock, HandleNewClient, HandleListRequest, HandleClientDelete, Delete,
       HandleAliveMessage, HandleChatMessage, Dispatched
  <2> QED  BY <1>3, <2>1, HandlerTable
<1>4. CASE AliveStep \/ AliveLock
  <2>1. srv = "up" /\ srv' = srv
    BY <1>4 DEF AliveStep, AliveLock, PingLock, PingNext, CheckLock, CheckNext, AliveUnlock
  <2> QED  BY <1>4, <2>1, HeartbeatTable
<1>5. CASE Ending \/ Operator
  BY <1>5, DeathTable
<1> QED
  BY <1>2, <1>3, <1>4, <1>5 DEF Next

(* No two entries in use have the same name: add_client looks the name up  *)
(* and enters it under one lock (server.c:75-91), and neither the stop     *)
(* message nor the heartbeat writes a name into an entry in use.           *)
THEOREM NamesAreUnique == Spec => []NamesUnique
<1>1. Init => NamesUnique
  BY DEF Init, ServerInit, Free, NamesUnique, Valid
<1>2. TypeInv /\ NamesUnique /\ [Next]_vars => NamesUnique'
  <2> SUFFICES ASSUME TypeInv, NamesUnique, [Next]_vars PROVE NamesUnique'
    OBVIOUS
  <2> USE DEF NamesUnique, Same
  <2>1. CASE TableKept
    BY <2>1 DEF TableKept
  <2>2. ASSUME NEW n \in Names, NEW f \in Fd, Entered(n, f) PROVE NamesUnique'
    BY <2>2 DEF Entered, Called
  <2>3. ASSUME NEW s \in Slot, Dropped(s) PROVE NamesUnique'
    BY <2>3 DEF Dropped
  <2>4. CASE Valid' = {}
    BY <2>4
  <2> QED  BY <2>1, <2>2, <2>3, <2>4, TableStep
<1> QED
  BY <1>1, <1>2, TypeInit, TypeStep, PTL DEF Spec

-----------------------------------------------------------------------------
(* The roster.                                                             *)

(* A name in the table belongs to the connection of its entry.              *)
LEMMA OwnerIs ==
  ASSUME NamesUnique, NEW s \in Valid, NEW n, clients[s].name = n
  PROVE  Owner(n) = clients[s].socket
<1>1. Called(n) = {s}
  BY DEF Called, NamesUnique
<1> QED
  BY <1>1 DEF Owner

(* A name not in the table belongs to nobody.                               *)
LEMMA OwnerNone ==
  ASSUME NEW n, Called(n) = {}
  PROVE  Owner(n) = NoFd
  BY DEF Owner

(* While the table is kept, so is each owner.                              *)
LEMMA OwnerKept ==
  ASSUME NEW n, Called(n)' = Called(n), \A s \in Called(n) : Same(s)
  PROVE  Owner(n)' = Owner(n)
<1>1. CASE Called(n) = {}
  BY <1>1 DEF Owner
<1>2. CASE Called(n) # {}
  BY <1>2 DEF Owner, Same
<1> QED  BY <1>1, <1>2

Roll == [n \in Names |-> Owner(n)]

RosterNow == TypeInv /\ NamesUnique

(* An entry made is a name joining the roster.                              *)
LEMMA JoinStep ==
  ASSUME RosterNow, RosterNow', NEW n \in Names, NEW f \in Fd, Entered(n, f)
  PROVE  Owner(n) = NoFd /\ Roll' = [Roll EXCEPT ![n] = f]
<1>1. Owner(n) = NoFd
  BY OwnerNone DEF Entered
<1>2. PICK s \in Slot \ Valid : /\ Valid' = Valid \cup {s}
                               /\ clients'[s].name = n /\ clients'[s].socket = f
  BY DEF Entered
<1>3. Owner(n)' = f
  <2>1. Called(n)' = {s}
    BY <1>2 DEF RosterNow, NamesUnique, Called
  <2> QED  BY <1>2, <2>1 DEF Owner
<1>4. ASSUME NEW m \in Names \ {n} PROVE Owner(m)' = Owner(m)
  <2>1. Called(m)' = Called(m)
    BY <1>2, <1>4 DEF Entered, Called, Same
  <2>2. \A t \in Called(m) : Same(t)
    BY DEF Entered, Called
  <2> QED  BY <2>1, <2>2, OwnerKept
<1> QED  BY <1>1, <1>3, <1>4 DEF Roll

(* An entry dropped is a name leaving the roster.                           *)
LEMMA LeaveStep ==
  ASSUME RosterNow, NEW s \in Slot, Dropped(s)
  PROVE  \E n \in Names : Owner(n) # NoFd /\ Roll' = [Roll EXCEPT ![n] = NoFd]
<1>0. PICK n \in Names : n = clients[s].name
  BY DEF RosterNow, TypeInv, ServerOK, ServerFit, Dropped
<1>1. Owner(n) # NoFd
  BY <1>0, OwnerIs, FdFacts DEF RosterNow, TypeInv, ServerOK, ServerFit, Dropped
<1>2. Owner(n)' = NoFd
  <2>1. Called(n)' = {}
    BY <1>0 DEF Dropped, Same, Called, RosterNow, NamesUnique
  <2> QED  BY <2>1 DEF Owner
<1>3. ASSUME NEW m \in Names \ {n} PROVE Owner(m)' = Owner(m)
  <2>1. Called(m)' = Called(m)
    BY <1>0, <1>3 DEF Dropped, Same, Called
  <2>2. \A t \in Called(m) : Same(t)
    BY <2>1 DEF Dropped, Called
  <2> QED  BY <2>1, <2>2, OwnerKept
<1>4. Roll' = [Roll EXCEPT ![n] = NoFd]
  BY <1>0, <1>2, <1>3 DEF Roll
<1> QED  BY <1>1, <1>4

(* Every step of the chat is a step of the roster, or none.                *)
LEMMA RosterStep ==
  ASSUME RosterNow, RosterNow', [Next]_vars
  PROVE  [Promise!Next]_<<srv = "up", Roll>>
<1> USE DEF Promise!Next, Roll
<1>1. CASE TableKept /\ srv' = srv
  <2>1. ASSUME NEW n \in Names PROVE Owner(n)' = Owner(n)
    BY <1>1, OwnerKept DEF TableKept, Called, Same
  <2> QED  BY <1>1, <2>1
<1>2. ASSUME srv = "up", srv' = srv, NEW n \in Names, NEW f \in Fd, Entered(n, f)
      PROVE Promise!Join(n, f)
  BY <1>2, JoinStep DEF Promise!Join
<1>3. ASSUME srv = "up", srv' = srv, NEW s \in Slot, Dropped(s)
      PROVE \E n \in Names : Promise!Leave(n)
  BY <1>3, LeaveStep DEF Promise!Leave
<1>4. CASE srv = "up" /\ srv' # "up" /\ Valid' = {}
  <2>1. ASSUME NEW n \in Names PROVE Owner(n)' = NoFd
    BY <1>4 DEF Owner, Called
  <2> QED  BY <1>4, <2>1 DEF Promise!Shutdown
<1> QED
  BY <1>1, <1>2, <1>3, <1>4, TableStep DEF RosterNow

(* The table implements the roster, whatever becomes of the connections    *)
(* and of the lock: add_client, handle_client_delete, the heartbeat and    *)
(* cleanup (server.c:33-111, 299-337) take names in and let them go one at *)
(* a time, and never hand a name from one connection to another.           *)
THEOREM TableImplementsRoster == Spec => RosterKept
<1>1. Init => Promise!Init
  BY DEF Init, ServerInit, Free, Promise!Init, Owner, Called, Valid
<1>2. Spec => []RosterNow
  BY NamesAreUnique, TypeInit, TypeStep, PTL DEF Spec, RosterNow
<1>3. RosterNow /\ RosterNow' /\ [Next]_vars
        => [Promise!Next]_<<srv = "up", [n \in Names |-> Owner(n)]>>
  BY RosterStep DEF Roll
<1> QED
  BY <1>1, <1>2, <1>3, PTL DEF Spec, RosterKept, Promise!Spec

-----------------------------------------------------------------------------
(* The lock.  The heartbeat thread holds it through its two loops, the     *)
(* main thread through the sends of a chat message; what is left to do in  *)
(* a loop is in use.                                                       *)

LockInv ==
  /\ (mutex = "alive" <=> alive.pc \in {"pinging", "checking"})
  /\ main.pc = "tell" => mutex = "main"
  /\ main.pc # "tell" => main.todo = {}
  /\ mutex # "alive" => alive.todo = {}
  /\ main.todo \cup alive.todo \subseteq Valid

(* The handlers of the main thread keep the lock's invariant: they work on *)
(* the table only while nobody has anything left to do in it.              *)
LEMMA HandlerLock ==
  ASSUME ServerOK, LockInv, MainLock
  PROVE  LockInv'
<1> USE DEF LockInv
<1>0. Idle.todo = {} /\ Idle.pc = "events"
  BY DEF Idle
<1>1. CASE HandleNewClient
  <2>1. mutex = "free" /\ main.todo = {} /\ alive.todo = {}
    BY <1>1 DEF HandleNewClient, Locked, Dispatched
  <2>2. mutex' \in {"free", "main"} /\ main'.pc = "reply" /\ main'.todo = {} /\ alive' = alive
    BY <1>1, <2>1 DEF HandleNewClient, AddClient, Reply, ServerOK, ServerTypeOK
  <2> QED  BY <2>1, <2>2
<1>2. CASE HandleListRequest \/ HandleAliveMessage \/ HandleClientDelete
  <2>1. mutex = "free" /\ main.todo = {} /\ alive.todo = {}
    BY <1>2 DEF HandleListRequest, HandleAliveMessage, HandleClientDelete, Delete, Locked, Dispatched
  <2>2. mutex' = mutex /\ alive' = alive
    BY <1>2 DEF HandleListRequest, HandleAliveMessage, HandleClientDelete, Delete
  <2>3. main' = Reply("SERVER_LIST_MESSAGE") \/ main' = Idle
        \/ \E f : main' = [Idle EXCEPT !.pc = "close", !.fd = f]
    BY <1>2 DEF HandleListRequest, HandleAliveMessage, HandleClientDelete, Delete
  <2>4. main'.pc \in {"events", "reply", "close"} /\ main'.todo = {}
    BY <1>0, <2>1, <2>3, IdleType DEF Reply, ServerOK, ServerTypeOK
  <2> QED  BY <2>1, <2>2, <2>4
<1>3. CASE HandleChatMessage
  <2>1. mutex = "free" /\ alive.todo = {} /\ Recipients(main.msg) \subseteq Valid
    BY <1>3 DEF HandleChatMessage, Locked, Recipients, Called, First
  <2>2. /\ mutex' = "main" /\ main'.pc = "tell" /\ main'.todo = Recipients(main.msg)
        /\ alive' = alive /\ clients' = clients
    BY <1>3 DEF HandleChatMessage, ServerOK, ServerTypeOK
  <2> QED  BY <2>1, <2>2 DEF Valid
<1> QED
  BY <1>1, <1>2, <1>3 DEF MainLock

(* The heartbeat keeps it: an entry it drops is one it has come to.        *)
LEMMA HeartbeatLock ==
  ASSUME ServerOK, LockInv, AliveStep \/ AliveLock
  PROVE  LockInv'
<1> USE DEF LockInv, ServerOK, ServerTypeOK
<1>1. CASE PingLock \/ CheckLock
  <2>1. mutex = "free" /\ main' = main /\ clients' = clients /\ mutex' = "alive"
        /\ alive'.pc \in {"pinging", "checking"} /\ alive'.todo \subseteq Valid
    BY <1>1 DEF PingLock, CheckLock, Locked
  <2> QED  BY <2>1 DEF Valid
<1>2. CASE AliveUnlock
  BY <1>2 DEF AliveUnlock, Valid
<1>3. CASE PingNext \/ CheckNext
  <2>1. PICK s \in First(alive.todo) :
          /\ alive.pc \in {"pinging", "checking"}
          /\ \/ clients' = [clients EXCEPT ![s].awaiting = TRUE]
             \/ clients' = [clients EXCEPT ![s].valid = FALSE, ![s].awaiting = FALSE]
          /\ alive' = [alive EXCEPT !.todo = @ \ {s}]
          /\ UNCHANGED <<mutex, main>>
    BY <1>3 DEF PingNext, CheckNext
  <2>2. mutex = "alive" /\ main.todo = {}
    BY <2>1
  <2>3. Valid \ {s} \subseteq Valid'
    BY <2>1 DEF Valid, Entry
  <2>4. alive'.pc = alive.pc /\ alive'.todo = alive.todo \ {s}
    BY <2>1
  <2> QED  BY <2>1, <2>2, <2>3, <2>4
<1> QED
  BY <1>1, <1>2, <1>3 DEF AliveStep, AliveLock

(* Every step keeps it.                                                    *)
LEMMA LockStep == TypeInv /\ LockInv /\ [Next]_vars => LockInv'
<1> SUFFICES ASSUME TypeInv, LockInv, [Next]_vars PROVE LockInv'
  OBVIOUS
<1> USE DEF LockInv, TypeInv
<1>0. Idle.todo = {} /\ Idle.pc = "events"
  BY DEF Idle
<1>1. CASE UNCHANGED <<mutex, clients, main, alive>>
  BY <1>1 DEF Valid
<1>2. CASE MainStep \/ MainAbrupt
  <2>1. clients' = clients /\ alive' = alive
    BY <1>2 DEF MainStep, MainAbrupt, EpollWait, HandleListenEvent, HandleErrorEvent, ReadFails,
       ReadMessage, ReadEof, Take, AcceptConnection, AcceptDone, SendReply, CloseDeleted, TellNext,
       TellDone, serverVars
  <2>2. CASE TellNext
    BY <2>1, <2>2 DEF TellNext, ServerOK, ServerTypeOK, Valid
  <2>3. CASE TellDone
    BY <2>1, <2>3 DEF TellDone, Idle, Valid
  <2>4. CASE ~TellNext /\ ~TellDone
    <3>1. mutex' = mutex
      BY <1>2, <2>4 DEF MainStep, MainAbrupt, EpollWait, HandleListenEvent, HandleErrorEvent, ReadFails,
         ReadMessage, ReadEof, Take, AcceptConnection, AcceptDone, SendReply, CloseDeleted, serverVars
    <3>2. \/ main' = main
          \/ /\ main.pc # "tell"
             /\ \/ main' \in {Idle, [Idle EXCEPT !.pc = "accept"]}
                \/ \E f, m : main' = Dispatch(f, m)
      BY <1>2, <2>4 DEF MainStep, MainAbrupt, EpollWait, HandleListenEvent, HandleErrorEvent, ReadFails,
         ReadMessage, ReadEof, Take, AcceptConnection, AcceptDone, SendReply, CloseDeleted, serverVars
    <3>3. main' = main \/ (main.pc # "tell" /\ main'.pc # "tell" /\ main'.todo = {})
      BY <3>2, <1>0, IdleType DEF Dispatch
    <3> QED  BY <2>1, <3>1, <3>3 DEF Valid
  <2> QED  BY <2>2, <2>3, <2>4
<1>3. CASE MainLock
  BY <1>3, HandlerLock
<1>4. CASE AliveStep \/ AliveLock
  BY <1>4, HeartbeatLock
<1>5. CASE Ending \/ Operator
  <2>1. mutex' = "free" /\ main' = Idle /\ alive' = Asleep
    BY <1>5 DEF Ending, Operator, DieBySigpipe, Sigint, Die
  <2> QED  BY <2>1 DEF Idle, Asleep
<1>6. CASE UNCHANGED vars \/ \E c \in Conn : User(c) \/ Client(c)
  BY <1>1, <1>6 DEF vars, User, Client, serverVars
<1> QED
  BY <1>2, <1>3, <1>4, <1>5, <1>6 DEF Next

(* Nobody holds the lock, and nothing is left to do, to begin with.        *)
LEMMA LockInit == Init => LockInv
  BY DEF Init, ServerInit, Idle, Asleep, LockInv

(* An entry a thread is about to send to, or to evict, is in use: the lock *)
(* is held across each loop over the table (server.c:118-126, 305-317,     *)
(* 323-335), and given back late rather than early.                        *)
THEOREM LoopsStayInTable == Spec => []TodoStillValid
<1>1. LockInv => TodoStillValid
  BY DEF LockInv, TodoStillValid
<1> QED
  BY <1>1, TypeInit, TypeStep, LockInit, LockStep, PTL DEF Spec

-----------------------------------------------------------------------------
(* The connections.  What a step is to the descriptors, the streams to the *)
(* server and the client processes.                                        *)

Quiet == UNCHANGED <<fd, backlog, c2s, proc, id>>

Opened(c) ==
  /\ proc[c] = "idle" /\ backlog' = backlog \cup {c}
  /\ proc' = [proc EXCEPT ![c] = "connected"] /\ id' = [id EXCEPT ![c] = id'[c]]
  /\ UNCHANGED <<fd, c2s>>

(* A client sends a message, or does not, and goes on.                     *)
Wrote(c, t) ==
  /\ t = "CLIENT_NEW" => proc[c] = "connected"
  /\ \E m \in ClientMsg : /\ m.type = t /\ m.sender = id[c]
                          /\ c2s' = [c2s EXCEPT ![c] = Append(@, m)]

Spoke(c) ==
  /\ proc[c] # "idle"
  /\ \E stage \in Stages \ {"idle", "connected"} : proc' = [proc EXCEPT ![c] = stage]
  /\ UNCHANGED c2s \/ \E t \in ClientType : Wrote(c, t)
  /\ UNCHANGED <<fd, backlog, id>>

Accepted(c) ==
  /\ c \in backlog /\ backlog' = backlog \ {c}
  /\ \E f \in FreeFd : fd' = [fd EXCEPT ![c] = f]
  /\ UNCHANGED <<c2s, proc, id>>

Heard(c) ==
  /\ c2s[c] # <<>> /\ c2s' = [c2s EXCEPT ![c] = Tail(@)]
  /\ UNCHANGED <<fd, backlog, proc, id>>

Shut(f) ==
  /\ fd' = [c \in Conn |-> IF c \in At(f) THEN NoFd ELSE fd[c]]
  /\ c2s' = [c \in Conn |-> IF c \in At(f) THEN <<>> ELSE c2s[c]]
  /\ UNCHANGED <<backlog, proc, id>>

Over ==
  /\ fd' = [c \in Conn |-> NoFd] /\ backlog' = {} /\ c2s' = [c \in Conn |-> <<>>]
  /\ UNCHANGED <<proc, id>>

(* What the listener of a client does with a message.                      *)
LEMMA ListenerNet ==
  ASSUME TypeInv, NEW c \in Conn, NEW m, NEW rest, Listener(c, m, rest)
  PROVE  Spoke(c)
<1> USE DEF TypeInv, ClientTypeOK, ClientFit, Spoke
<1>1. /\ proc[c] \in {"running", "leaving"} /\ proc[c] \in Stages \ {"idle", "connected"}
      /\ id[c] \in Names
  BY DEF Listener, Stages
<1>2. proc = [proc EXCEPT ![c] = proc[c]]
  OBVIOUS
<1>3. CASE Shown(c, rest)
  BY <1>1, <1>2, <1>3 DEF Shown, clientVars
<1>4. CASE Answered(c, m, rest)
  <2>1. Msg("CLIENT_ALIVE", id[c]) \in ClientMsg
    BY <1>1, MsgType DEF ClientType
  <2>2. UNCHANGED c2s \/ Wrote(c, "CLIENT_ALIVE")
    BY <1>4, <2>1 DEF Answered, ClientSend, Wrote, Msg
  <2> QED  BY <1>1, <1>2, <1>4, <2>2 DEF Answered, ClientSend, clientVars, ClientType
<1>5. CASE CleanExit(c, rest)
  <2>1. Msg("CLIENT_STOP", id[c]) \in ClientMsg
    BY <1>1, MsgType DEF ClientType
  <2>2. UNCHANGED c2s \/ Wrote(c, "CLIENT_STOP")
    BY <1>5, <2>1 DEF CleanExit, ClientSend, Wrote, Msg
  <2> QED  BY <1>1, <1>5, <2>2 DEF CleanExit, ClientSend, Becomes, ClientType, Stages
<1> QED
  BY <1>3, <1>4, <1>5 DEF Listener

(* What a client process does.                                             *)
LEMMA ClientNet ==
  ASSUME TypeInv, NEW c \in Conn, User(c) \/ Client(c)
  PROVE  (Opened(c) /\ id'[c] \in Ids[c]) \/ Spoke(c)
<1> USE DEF TypeInv, ClientTypeOK, ClientFit
<1>1. ASSUME NEW n \in Names, Connect(c, n) PROVE Opened(c) /\ id'[c] \in Ids[c]
  BY <1>1 DEF Connect, ClientConnect, Opened
<1>2. ASSUME proc[c] # "idle", NEW t \in ClientType, NEW m \in ClientMsg, m.type = t,
             m.sender = id[c], t = "CLIENT_NEW" => proc[c] = "connected",
             ClientSend(c, m)
      PROVE  /\ UNCHANGED c2s \/ \E u \in ClientType : Wrote(c, u)
             /\ UNCHANGED <<fd, backlog>>
  BY <1>2 DEF ClientSend, Wrote
<1>3. ASSUME NEW t \in Talk, NEW to \in Names, Command(c, t, to) PROVE Spoke(c)
  <2> DEFINE m == [type |-> t, sender |-> id[c], to |-> to]
  <2>1. m \in ClientMsg /\ t \in ClientType /\ t # "CLIENT_NEW"
    BY <1>3, MsgType, ClientAssumption DEF Command, ClientType
  <2>2. proc = [proc EXCEPT ![c] = proc[c]] /\ proc[c] \in Stages \ {"idle", "connected"}
    BY <1>3 DEF Command
  <2>3. ClientSend(c, m)
    BY <1>3 DEF Command
  <2> HIDE DEF m
  <2>4. m.type = t /\ m.sender = id[c]
    BY DEF m
  <2>5. /\ UNCHANGED c2s \/ \E u \in ClientType : Wrote(c, u)
        /\ UNCHANGED <<fd, backlog>>
    BY <1>2, <2>1, <2>2, <2>3, <2>4
  <2> QED  BY <1>3, <2>2, <2>5 DEF Command, clientVars, Spoke
<1>4. CASE Goodbye(c) \/ SendNew(c)
  <2>1. id[c] \in Names
    BY <1>4 DEF Goodbye, SendNew
  <2>2. PICK t \in {"CLIENT_STOP", "CLIENT_NEW"} :
          /\ ClientSend(c, Msg(t, id[c]))
          /\ t = "CLIENT_NEW" => proc[c] = "connected"
          /\ proc[c] # "idle"
          /\ \E stage \in Stages \ {"idle", "connected"} : Becomes(c, stage)
    BY <1>4 DEF Goodbye, SendNew, Stages
  <2>3. Msg(t, id[c]) \in ClientMsg /\ t \in ClientType
        /\ Msg(t, id[c]).type = t /\ Msg(t, id[c]).sender = id[c]
    BY <2>1, MsgType DEF ClientType, Msg
  <2>4. /\ UNCHANGED c2s \/ \E u \in ClientType : Wrote(c, u)
        /\ UNCHANGED <<fd, backlog>>
    BY <1>2, <2>2, <2>3
  <2> QED  BY <2>2, <2>4 DEF Becomes, Spoke
<1>5. CASE Killed(c) \/ Exit(c) \/ RegisterReply(c) \/ RegisterEof(c)
  BY <1>5 DEF Killed, Exit, RegisterReply, RegisterEof, ClientClose, Becomes, Spoke, Stages, netVars
<1>6. CASE Listen(c) \/ \E m \in ServerType : ListenEof(c, m)
  BY <1>6, ListenerNet DEF Listen, ListenEof
<1> QED
  BY <1>1, <1>3, <1>4, <1>5, <1>6 DEF User, Client

(* What a step is to the connections.                                      *)
LEMMA NetStep ==
  ASSUME TypeInv, [Next]_vars
  PROVE  \/ Quiet \/ Over
         \/ \E c \in Conn : \/ Opened(c) /\ id'[c] \in Ids[c]
                            \/ Spoke(c) \/ Accepted(c) \/ Heard(c)
         \/ \E f : Shut(f)
<1> USE DEF clientVars
<1>1. CASE MainStep
  <2>1. CASE CloseDeleted
    BY <1>1, <2>1 DEF MainStep, CloseDeleted, ServerClose, Shut
  <2>2. ASSUME NEW c \in Conn, AcceptConnection(c) PROVE Accepted(c)
    BY <1>1, <2>2 DEF MainStep, AcceptConnection, ServerAccept, Accepted, First
  <2>3. ASSUME NEW e \in batch, NEW c \in Conn, ReadMessage(e, c) PROVE Heard(c)
    BY <1>1, <2>3 DEF MainStep, ReadMessage, ServerRead, Heard
  <2>4. ASSUME NEW e \in batch, HandleListenEvent(e) \/ ReadFails(e) PROVE Quiet
    BY <1>1, <2>4 DEF MainStep, HandleListenEvent, ReadFails, ServerReadFails, netVars, Quiet
  <2>5. CASE EpollWait \/ AcceptDone \/ SendReply \/ TellNext \/ TellDone
    BY <1>1, <2>5 DEF MainStep, EpollWait, AcceptDone, SendReply, TellNext, TellDone, ServerSend,
       netVars, Quiet
  <2> QED  BY <1>1, <2>1, <2>2, <2>3, <2>4, <2>5 DEF MainStep
<1>2. CASE MainAbrupt
  <2>1. ASSUME NEW e \in batch, HandleErrorEvent(e) PROVE Shut(e.fd)
    BY <1>2, <2>1 DEF MainAbrupt, HandleErrorEvent, ServerClose, Shut
  <2>2. ASSUME NEW e \in batch, NEW c \in Conn, NEW m \in Leftover, ReadEof(e, c, m) PROVE Quiet
    BY <1>2, <2>2 DEF MainAbrupt, ReadEof, netVars, Quiet
  <2> QED  BY <1>2, <2>1, <2>2 DEF MainAbrupt
<1>3. CASE MainLock
  BY <1>3 DEF MainLock, HandleNewClient, HandleListRequest, HandleClientDelete, Delete,
     HandleAliveMessage, HandleChatMessage, netVars, Quiet
<1>4. CASE AliveStep
  <2>1. ASSUME NEW s, ServerClose(clients[s].socket) PROVE Shut(clients[s].socket)
    BY <1>4, <2>1 DEF AliveStep, ServerClose, Shut
  <2>2. CASE CheckNext
    BY <2>1, <2>2 DEF CheckNext
  <2>3. CASE PingNext \/ AliveUnlock
    BY <1>4, <2>3 DEF AliveStep, PingNext, AliveUnlock, ServerSend, netVars, Quiet
  <2> QED  BY <1>4, <2>2, <2>3 DEF AliveStep
<1>5. CASE AliveLock
  BY <1>5 DEF AliveLock, PingLock, CheckLock, netVars, Quiet
<1>6. CASE Ending \/ Operator
  BY <1>6 DEF Ending, Operator, DieBySigpipe, Sigint, Die, ServerExit, Over
<1>7. ASSUME NEW c \in Conn, User(c) \/ Client(c)
      PROVE  (Opened(c) /\ id'[c] \in Ids[c]) \/ Spoke(c)
  BY <1>7, ClientNet
<1>8. CASE UNCHANGED vars
  BY <1>8 DEF vars, netVars, Quiet
<1> QED
  BY <1>1, <1>2, <1>3, <1>4, <1>5, <1>6, <1>7, <1>8 DEF Next

(* A descriptor is one connection's, and a connection has one once the     *)
(* server has accepted it.                                                 *)
FdInv ==
  /\ \A c, d \in Conn : fd[c] = fd[d] /\ fd[c] # NoFd => c = d
  /\ \A c \in backlog : fd[c] = NoFd
  /\ \A c \in Conn : proc[c] = "idle" => fd[c] = NoFd /\ c \notin backlog

(* What waits to be read has been sent under the client's name, and its    *)
(* CLIENT_NEW before everything else.                                      *)
StreamInv ==
  \A c \in Conn :
    /\ proc[c] \in {"idle", "connected"} => c2s[c] = <<>>
    /\ \A k \in 1 .. Len(c2s[c]) :
         /\ c2s[c][k].sender = id[c]
         /\ k > 1 => c2s[c][k].type # "CLIENT_NEW"

(* A client has one of the names it may be started with.                   *)
IdInv == \A c \in Conn : proc[c] # "idle" => id[c] \in Ids[c]

NetInv == FdInv /\ StreamInv /\ IdInv

(* Descriptors stay apart.                                                 *)
LEMMA FdStep == TypeInv /\ FdInv /\ [Next]_vars => FdInv'
<1> SUFFICES ASSUME TypeInv, FdInv, [Next]_vars PROVE FdInv'
  OBVIOUS
<1> USE DEF FdInv, TypeInv, ServerOK, NetTypeOK, ClientTypeOK
<1>1. CASE Quiet
  BY <1>1 DEF Quiet
<1>2. CASE Over
  BY <1>2 DEF Over
<1>3. ASSUME NEW c \in Conn, Opened(c) PROVE FdInv'
  BY <1>3 DEF Opened
<1>4. ASSUME NEW c \in Conn, Spoke(c) PROVE FdInv'
  BY <1>4 DEF Spoke
<1>5. ASSUME NEW c \in Conn, Accepted(c) PROVE FdInv'
  <2>1. PICK f \in FreeFd : fd' = [fd EXCEPT ![c] = f]
    BY <1>5 DEF Accepted
  <2>2. f \in Fd /\ f # NoFd /\ \A d \in Conn : fd[d] # f
    BY <2>1, FdFacts DEF FreeFd
  <2> QED  BY <1>5, <2>1, <2>2 DEF Accepted
<1>6. ASSUME NEW c \in Conn, Heard(c) PROVE FdInv'
  BY <1>6 DEF Heard
<1>7. ASSUME NEW f, Shut(f) PROVE FdInv'
  BY <1>7 DEF Shut
<1> QED
  BY <1>1, <1>2, <1>3, <1>4, <1>5, <1>6, <1>7, NetStep

(* A stream of well-formed messages stays one when its head is read, and   *)
(* when a message that may follow is added.                                *)
Stream(q, n) ==
  \A k \in 1 .. Len(q) : q[k].sender = n /\ (k > 1 => q[k].type # "CLIENT_NEW")

LEMMA StreamTail ==
  ASSUME NEW q \in Seq(ClientMsg), NEW n, Stream(q, n), q # <<>>
  PROVE  /\ Stream(Tail(q), n) /\ Head(q).sender = n
         /\ \A k \in 1 .. Len(Tail(q)) : Tail(q)[k].type # "CLIENT_NEW"
<1>1. /\ Len(q) \in Nat \ {0} /\ Len(Tail(q)) = Len(q) - 1 /\ Head(q) = q[1]
      /\ \A k \in 1 .. Len(Tail(q)) : Tail(q)[k] = q[k + 1]
  BY HeadTailProperties, EmptySeq, LenProperties
<1> QED
  BY <1>1 DEF Stream

LEMMA StreamAppend ==
  ASSUME NEW q \in Seq(ClientMsg), NEW n, Stream(q, n), NEW m \in ClientMsg, m.sender = n,
         m.type = "CLIENT_NEW" => q = <<>>
  PROVE  Stream(Append(q, m), n)
<1>1. /\ Len(q) \in Nat /\ Len(Append(q, m)) = Len(q) + 1 /\ Append(q, m)[Len(q) + 1] = m
      /\ \A k \in 1 .. Len(q) : Append(q, m)[k] = q[k]
  BY AppendProperties, LenProperties
<1>2. q = <<>> => Len(q) = 0
  BY EmptySeq
<1> QED
  BY <1>1, <1>2 DEF Stream

LEMMA StreamStep == TypeInv /\ StreamInv /\ [Next]_vars => StreamInv'
<1> SUFFICES ASSUME TypeInv, StreamInv, [Next]_vars PROVE StreamInv'
  OBVIOUS
<1> USE DEF TypeInv, ServerOK, NetTypeOK, ClientTypeOK
<1>a. StreamInv <=> \A c \in Conn : /\ proc[c] \in {"idle", "connected"} => c2s[c] = <<>>
                                    /\ Stream(c2s[c], id[c])
  BY DEF StreamInv, Stream
<1>b. StreamInv' <=> \A c \in Conn : /\ proc'[c] \in {"idle", "connected"} => c2s'[c] = <<>>
                                     /\ Stream(c2s'[c], id'[c])
  BY DEF StreamInv, Stream
<1>c. \A n : Stream(<<>>, n)
  BY DEF Stream
<1>1. CASE Quiet
  BY <1>1, <1>a, <1>b DEF Quiet
<1>2. CASE Over
  BY <1>2, <1>b, <1>c DEF Over
<1>3. ASSUME NEW c \in Conn, Opened(c) PROVE StreamInv'
  BY <1>3, <1>a, <1>b, <1>c DEF Opened
<1>4. ASSUME NEW c \in Conn, Spoke(c) PROVE StreamInv'
  <2>1. ASSUME NEW t \in ClientType, Wrote(c, t) PROVE Stream(c2s'[c], id[c]) /\ \A d \in Conn \ {c} : c2s'[d] = c2s[d]
    BY <2>1, <1>a, StreamAppend DEF Wrote
  <2> QED  BY <1>4, <2>1, <1>a, <1>b DEF Spoke
<1>5. ASSUME NEW c \in Conn, Accepted(c) PROVE StreamInv'
  BY <1>5, <1>a, <1>b DEF Accepted
<1>6. ASSUME NEW c \in Conn, Heard(c) PROVE StreamInv'
  <2>1. Stream(Tail(c2s[c]), id[c])
    BY <1>6, <1>a, StreamTail DEF Heard
  <2> QED  BY <1>6, <2>1, <1>a, <1>b DEF Heard
<1>7. ASSUME NEW f, Shut(f) PROVE StreamInv'
  BY <1>7, <1>a, <1>b, <1>c DEF Shut
<1> QED
  BY <1>1, <1>2, <1>3, <1>4, <1>5, <1>6, <1>7, NetStep

(* Both, and the names.                                                    *)
LEMMA NetInvStep == TypeInv /\ NetInv /\ [Next]_vars => NetInv'
<1> SUFFICES ASSUME TypeInv, NetInv, [Next]_vars PROVE NetInv'
  OBVIOUS
<1>1. IdInv'
  <2> USE DEF IdInv, NetInv, TypeInv, ClientTypeOK
  <2>1. CASE UNCHANGED <<proc, id>>
    BY <2>1
  <2>2. ASSUME NEW c \in Conn, Opened(c), id'[c] \in Ids[c] PROVE IdInv'
    BY <2>2 DEF Opened
  <2>3. ASSUME NEW c \in Conn, Spoke(c) PROVE IdInv'
    BY <2>3 DEF Spoke
  <2> QED  BY <2>1, <2>2, <2>3, NetStep DEF Quiet, Over, Accepted, Heard, Shut
<1> QED
  BY <1>1, FdStep, StreamStep DEF NetInv

LEMMA NetInvInit == Init => NetInv
  BY DEF Init, NetInit, ClientInit, NetInv, FdInv, StreamInv, IdInv

-----------------------------------------------------------------------------
(* The table and the connections.  While no connection has ended abruptly, *)
(* an entry in use is reached through its client's connection, the request *)
(* to be entered comes from a client that is not in the table, and the     *)
(* descriptor of an entry taken out is nobody else's until it is closed.   *)

Registered(c) == \E s \in Valid : clients[s].socket = fd[c]

Asking(c) == \E k \in 1 .. Len(c2s[c]) : c2s[c][k].type = "CLIENT_NEW"

InHand(c) == main.pc = "dispatch" /\ main.msg.type = "CLIENT_NEW" /\ main.fd = fd[c]

Unknown ==
  \A c \in Conn :
    /\ proc[c] \in {"idle", "connected"} \/ Asking(c) => ~InHand(c) /\ ~Registered(c)
    /\ InHand(c) => ~Registered(c)

HandInv ==
  /\ main.pc = "dispatch" => \A c \in Conn : fd[c] = main.fd => id[c] = main.msg.sender
  /\ main.pc = "dispatch" /\ main.msg.type = "CLIENT_NEW" => \E c \in Conn : fd[c] = main.fd
  /\ main.pc = "close" => \A s \in Valid : clients[s].socket # main.fd

Reached == \A s \in Valid : \E c \in Conn : fd[c] = clients[s].socket /\ id[c] = clients[s].name

OnlySlot == \A s \in Slot, t \in Valid : s < t => clients[s].socket # clients[t].socket

Clean == Unknown /\ HandInv /\ Reached /\ OnlySlot

CleanInv == ~abrupt => Clean

SlotsKept == Valid' = Valid /\ \A s \in Slot : Same(s)

SameHand == main'.pc = main.pc /\ main'.fd = main.fd /\ main'.msg = main.msg

FreeHand == main'.pc \notin {"dispatch", "close"}

(* What concerns neither connections nor entries.                          *)
LEMMA CalmClean ==
  ASSUME Clean, Quiet, SlotsKept, SameHand \/ FreeHand
  PROVE  Clean'
<1> USE DEF Clean, Quiet, SlotsKept, Same
<1>0. Valid \subseteq Slot
  BY DEF Valid
<1>1. \A c \in Conn : Registered(c)' = Registered(c) /\ Asking(c)' = Asking(c)
  BY <1>0 DEF Registered, Asking
<1>2. \A c \in Conn : InHand(c)' => InHand(c)
  BY DEF SameHand, FreeHand, InHand
<1>3. Unknown'
  BY <1>1, <1>2 DEF Unknown
<1>4. HandInv'
  BY <1>0 DEF HandInv, SameHand, FreeHand
<1>5. Reached' /\ OnlySlot'
  BY <1>0 DEF Reached, OnlySlot
<1> QED
  BY <1>3, <1>4, <1>5

(* A client process connects.                                              *)
LEMMA OpenedClean ==
  ASSUME TypeInv, NetInv, Clean, NEW c \in Conn, Opened(c), UNCHANGED <<clients, main>>
  PROVE  Clean'
<1> USE DEF Clean, NetInv
<1>0. /\ fd' = fd /\ c2s' = c2s /\ fd[c] = NoFd /\ proc[c] = "idle" /\ c2s[c] = <<>>
      /\ \A d \in Conn \ {c} : proc'[d] = proc[d] /\ id'[d] = id[d]
  BY DEF Opened, FdInv, StreamInv, TypeInv, ClientTypeOK
<1>1. \A s \in Valid : clients[s].socket # NoFd
  BY FdFacts DEF TypeInv, ServerOK, ServerFit
<1>2. Valid' = Valid
  BY DEF Valid
<1>3. \A d \in Conn : Registered(d)' = Registered(d) /\ InHand(d)' = InHand(d) /\ Asking(d)' = Asking(d)
  BY <1>0, <1>2 DEF Registered, InHand, Asking
<1>4. main.pc = "dispatch" => main.fd # NoFd
  BY FdFacts DEF TypeInv, ServerOK, ServerFit
<1>5. Unknown'
  BY <1>0, <1>3 DEF Unknown
<1>6. HandInv'
  BY <1>0, <1>2, <1>4 DEF HandInv
<1>7. Reached' /\ OnlySlot'
  BY <1>0, <1>1, <1>2 DEF Reached, OnlySlot
<1> QED
  BY <1>5, <1>6, <1>7

(* A client process sends something, or goes on.                           *)
LEMMA SpokeClean ==
  ASSUME TypeInv, NetInv, Clean, NEW c \in Conn, Spoke(c), UNCHANGED <<clients, main>>
  PROVE  Clean'
<1> USE DEF Clean, NetInv
<1>0. /\ fd' = fd /\ id' = id /\ proc'[c] \notin {"idle", "connected"}
      /\ \A d \in Conn \ {c} : proc'[d] = proc[d] /\ c2s'[d] = c2s[d]
  BY DEF Spoke, TypeInv, ServerOK, NetTypeOK, ClientTypeOK, Wrote
<1>2. Valid' = Valid
  BY DEF Valid
<1>3. \A d \in Conn : Registered(d)' = Registered(d) /\ InHand(d)' = InHand(d)
  BY <1>0, <1>2 DEF Registered, InHand
<1>4. Asking(c)' => Asking(c) \/ proc[c] = "connected"
  <2>1. CASE UNCHANGED c2s
    BY <2>1 DEF Asking
  <2>2. ASSUME NEW t \in ClientType, Wrote(c, t) PROVE Asking(c)' => Asking(c) \/ proc[c] = "connected"
    <3>1. PICK m \in ClientMsg : m.type = t /\ c2s' = [c2s EXCEPT ![c] = Append(@, m)]
      BY <2>2 DEF Wrote
    <3>2. c2s[c] \in Seq(ClientMsg) /\ c2s'[c] = Append(c2s[c], m)
      BY <3>1 DEF TypeInv, ServerOK, NetTypeOK
    <3>3. /\ Len(c2s[c]) \in Nat /\ Len(c2s'[c]) = Len(c2s[c]) + 1 /\ c2s'[c][Len(c2s[c]) + 1] = m
          /\ \A k \in 1 .. Len(c2s[c]) : c2s'[c][k] = c2s[c][k]
      BY <3>2, AppendProperties, LenProperties
    <3> QED  BY <2>2, <3>1, <3>3 DEF Asking, Wrote
  <2> QED  BY <2>1, <2>2 DEF Spoke
<1>5. \A d \in Conn \ {c} : Asking(d)' = Asking(d)
  BY <1>0 DEF Asking
<1>6. Unknown'
  BY <1>0, <1>3, <1>4, <1>5 DEF Unknown
<1>7. HandInv' /\ Reached' /\ OnlySlot'
  BY <1>0, <1>2 DEF HandInv, Reached, OnlySlot
<1> QED
  BY <1>6, <1>7

(* accept gives a connection a descriptor no entry in use has.             *)
LEMMA AcceptedClean ==
  ASSUME TypeInv, NetInv, Clean, NEW c \in Conn, Accepted(c), UNCHANGED clients,
         main' = main, main.pc = "accept"
  PROVE  Clean'
<1> USE DEF Clean, NetInv
<1>0. PICK f \in FreeFd : fd' = [fd EXCEPT ![c] = f]
  BY DEF Accepted
<1>1. /\ f # NoFd /\ (\A d \in Conn : fd[d] # f) /\ fd'[c] = f /\ fd[c] = NoFd
      /\ \A d \in Conn \ {c} : fd'[d] = fd[d]
      /\ c2s' = c2s /\ proc' = proc /\ id' = id
  BY <1>0, FdFacts DEF FreeFd, Accepted, FdInv, TypeInv, ServerOK, NetTypeOK
<1>2. \A s \in Valid : clients[s].socket \notin {f, NoFd}
  BY <1>1, FdFacts DEF Reached, TypeInv, ServerOK, ServerFit
<1>3. Valid' = Valid
  BY DEF Valid
<1>4. \A d \in Conn : /\ Registered(d)' => Registered(d)
                      /\ ~InHand(d)' /\ Asking(d)' = Asking(d)
  BY <1>1, <1>2, <1>3 DEF Registered, InHand, Asking
<1>5. Unknown'
  BY <1>1, <1>4 DEF Unknown
<1>6. HandInv' /\ OnlySlot'
  BY <1>3 DEF HandInv, OnlySlot
<1>7. Reached'
  BY <1>1, <1>2, <1>3 DEF Reached
<1> QED
  BY <1>5, <1>6, <1>7

(* A message read is its client's, and a CLIENT_NEW its last.              *)
LEMMA ReadClean ==
  ASSUME TypeInv, NetInv, Clean, NEW c \in Conn, Heard(c), fd[c] # NoFd, UNCHANGED clients,
         main' = Dispatch(fd[c], Head(c2s[c]))
  PROVE  Clean'
<1> USE DEF Clean, NetInv
<1>0. /\ fd' = fd /\ proc' = proc /\ id' = id /\ c2s'[c] = Tail(c2s[c])
      /\ \A d \in Conn \ {c} : c2s'[d] = c2s[d]
  BY DEF Heard, TypeInv, ServerOK, NetTypeOK
<1>1. /\ Head(c2s[c]).sender = id[c]
      /\ ~Asking(c)'
      /\ Head(c2s[c]).type = "CLIENT_NEW" => Asking(c)
      /\ proc[c] \notin {"idle", "connected"}
  <2>1. c2s[c] \in Seq(ClientMsg) /\ c2s[c] # <<>> /\ Stream(c2s[c], id[c])
        /\ proc[c] \notin {"idle", "connected"}
    BY DEF Heard, StreamInv, Stream, TypeInv, ServerOK, NetTypeOK
  <2>2. Head(c2s[c]) = c2s[c][1] /\ 1 \in 1 .. Len(c2s[c])
    BY <2>1, HeadTailProperties, EmptySeq, LenProperties
  <2>3. /\ Head(c2s[c]).sender = id[c]
        /\ \A k \in 1 .. Len(Tail(c2s[c])) : Tail(c2s[c])[k].type # "CLIENT_NEW"
    BY <2>1, StreamTail
  <2> QED  BY <1>0, <2>1, <2>2, <2>3 DEF Asking
<1>2. main'.pc = "dispatch" /\ main'.fd = fd[c] /\ main'.msg = Head(c2s[c])
  BY IdleType DEF Dispatch
<1>3. Valid' = Valid
  BY DEF Valid
<1>4. \A d \in Conn \ {c} : Registered(d)' = Registered(d) /\ Asking(d)' = Asking(d)
  BY <1>0, <1>3 DEF Registered, Asking
<1>5. Registered(c)' = Registered(c) /\ (InHand(c)' => Asking(c))
  BY <1>0, <1>1, <1>2, <1>3 DEF Registered, InHand
<1>6. \A d \in Conn \ {c} : fd[d] # fd[c]
  BY DEF FdInv
<1>7. Unknown'
  <2>1. \A d \in Conn \ {c} : ~InHand(d)'
    BY <1>0, <1>2, <1>6 DEF InHand
  <2> QED  BY <1>0, <1>1, <1>4, <1>5, <2>1 DEF Unknown
<1>8. HandInv'
  BY <1>0, <1>1, <1>2, <1>6 DEF HandInv
<1>9. Reached' /\ OnlySlot'
  BY <1>0, <1>3 DEF Reached, OnlySlot
<1> QED
  BY <1>7, <1>8, <1>9

(* add_client's lookup has found nothing, or the name in use: a client     *)
(* entered is entered with its own descriptor, in the first free slot.     *)
LEMMA NewClientClean ==
  ASSUME TypeInv, NetInv, Clean, Quiet, HandleNewClient
  PROVE  Clean'
<1> USE DEF Clean, NetInv, Quiet
<1> DEFINE n == main.msg.sender
           f == main.fd
<1>0. main'.pc = "reply"
  BY DEF HandleNewClient, Reply, TypeInv, ServerOK, ServerTypeOK
<1>1. CASE UNCHANGED clients
  <2>1. SlotsKept
    BY <1>1 DEF SlotsKept, Valid, Same
  <2> QED  BY <1>0, <2>1, CalmClean DEF FreeHand
<1>2. CASE Called(n) = {} /\ Enter(First(Slot \ Valid), n, f)
  <2>1. PICK c \in Conn : fd[c] = f /\ InHand(c) /\ id[c] = n
    BY DEF HandleNewClient, Dispatched, HandInv, InHand
  <2>2. ~Registered(c) /\ ~Asking(c) /\ proc[c] \notin {"idle", "connected"}
    BY <2>1 DEF Unknown
  <2>3. \A s \in Slot : s \in First(Slot \ Valid) =>
          /\ s \notin Valid /\ clients'[s].valid /\ clients'[s].name = n /\ clients'[s].socket = f
          /\ \A t \in Slot : t < s => t \in Valid
    <3>1. \A s \in Slot : s \in First(Slot \ Valid) =>
            clients'[s] = [clients[s] EXCEPT !.name = n, !.socket = f, !.valid = TRUE]
      BY <1>2 DEF Enter
    <3>2. ASSUME NEW s \in First(Slot \ Valid), NEW t \in Slot, t < s PROVE t \in Valid
      <4>1. s \in Nat /\ t \in Nat
        BY <3>2, ServerAssumption DEF First, Slot
      <4> QED  BY <3>2, <4>1 DEF First
    <3>3. First(Slot \ Valid) \cap Valid = {}
      BY DEF First
    <3>4. ASSUME NEW s \in Slot, s \in First(Slot \ Valid)
          PROVE  clients'[s].valid /\ clients'[s].name = n /\ clients'[s].socket = f
      <4>1. clients[s] \in Entry /\ clients'[s] = [clients[s] EXCEPT !.name = n, !.socket = f, !.valid = TRUE]
        BY <3>1, <3>4 DEF TypeInv, ServerOK, ServerTypeOK
      <4> QED  BY <4>1 DEF Entry
    <3> QED  BY <3>2, <3>3, <3>4
  <2>4. \A s \in Slot \ First(Slot \ Valid) : clients'[s] = clients[s]
    BY <1>2 DEF Enter
  <2>5. /\ Valid' = Valid \cup First(Slot \ Valid)
        /\ First(Slot \ Valid) \subseteq Slot /\ Valid \subseteq Slot
    BY <2>3, <2>4 DEF Valid, First
  <2>6. \A d \in Conn : d # c => fd[d] # f
    <3>1. f \in Fd
      BY DispatchedType DEF TypeInv, HandleNewClient, ClientType
    <3> QED  BY <2>1, <3>1, FdFacts DEF FdInv
  <2>7. \A d \in Conn : d # c => (Registered(d)' => Registered(d))
    BY <2>3, <2>4, <2>5, <2>6 DEF Registered
  <2>8. Unknown'
    BY <1>0, <2>2, <2>7 DEF Unknown, InHand, Asking
  <2>9. HandInv'
    BY <1>0 DEF HandInv
  <2>10. Reached'
    <3> SUFFICES ASSUME NEW s \in Valid'
                 PROVE  \E d \in Conn : fd[d] = clients'[s].socket /\ id[d] = clients'[s].name
      BY DEF Reached
    <3>1. CASE s \in First(Slot \ Valid)
      BY <2>1, <2>3, <2>5, <3>1
    <3>2. CASE s \notin First(Slot \ Valid)
      <4>1. s \in Valid /\ clients'[s] = clients[s]
        BY <2>4, <2>5, <3>2
      <4> QED  BY <4>1 DEF Reached
    <3> QED  BY <3>1, <3>2
  <2>11. OnlySlot'
    <3>1. \A s \in Valid : clients[s].socket # f
      BY <2>1, <2>2 DEF Registered
    <3> SUFFICES ASSUME NEW s \in Slot, NEW t \in Valid', s < t
                 PROVE  clients'[s].socket # clients'[t].socket
      BY DEF OnlySlot
    <3> Valid \subseteq Slot
      BY DEF Valid
    <3>2. CASE t \in First(Slot \ Valid)
      BY <2>3, <2>4, <2>5, <3>1, <3>2
    <3>3. CASE t \notin First(Slot \ Valid)
      <4>1. t \in Valid /\ clients'[t] = clients[t]
        BY <2>4, <2>5, <3>3
      <4>2. CASE s \in First(Slot \ Valid)
        BY <2>3, <3>1, <4>1, <4>2
      <4>3. CASE s \notin First(Slot \ Valid)
        BY <2>4, <4>1, <4>3 DEF OnlySlot
      <4> QED  BY <4>2, <4>3
    <3> QED  BY <3>2, <3>3
  <2> QED  BY <2>8, <2>9, <2>10, <2>11
<1> QED
  BY <1>1, <1>2 DEF HandleNewClient, AddClient

(* An entry taken out leaves its descriptor to be closed, and to nobody    *)
(* else in the table.                                                      *)
LEMMA DeleteClean ==
  ASSUME TypeInv, NetInv, Clean, Quiet, HandleClientDelete
  PROVE  Clean'
<1> USE DEF Clean, NetInv, Quiet
<1> DEFINE gone == First(Called(main.msg.sender))
<1>0. clients' = [s \in Slot |-> IF s \in gone
                                 THEN [Free EXCEPT !.awaiting = clients[s].awaiting]
                                 ELSE clients[s]]
  BY DEF HandleClientDelete, Delete
<1>1. gone \subseteq Valid /\ Valid \subseteq Slot /\ \A s, t \in gone : s = t
  <2>1. Called(main.msg.sender) \in SUBSET Slot /\ Called(main.msg.sender) \subseteq Valid
    BY DEF Called, Valid
  <2> QED  BY <2>1, FirstUnique DEF First, Valid
<1>2. /\ Valid' = Valid \ gone
      /\ \A s \in Slot \ gone : clients'[s] = clients[s]
      /\ \A s \in gone : clients'[s].socket = NoFd
  BY <1>0, <1>1 DEF Valid, Free
<1>3. \A s \in Valid : clients[s].socket # NoFd
  BY FdFacts DEF TypeInv, ServerOK, ServerFit
<1>4. CASE gone = {}
  <2>1. SlotsKept /\ main' = Idle
    BY <1>2, <1>4 DEF SlotsKept, Same, HandleClientDelete, Delete
  <2> QED  BY <2>1, CalmClean DEF FreeHand, Idle
<1>5. ASSUME NEW s \in gone PROVE Clean'
  <2> HIDE DEF gone
  <2>1. gone = {s}
    BY <1>1, <1>5
  <2>2. main' = [Idle EXCEPT !.pc = "close", !.fd = clients[CHOOSE t \in gone : TRUE].socket]
    BY <2>1 DEF HandleClientDelete, Delete, gone
  <2>3. main'.pc = "close" /\ main'.fd = clients[s].socket
    BY <2>1, <2>2, IdleType
  <2>4. \A c \in Conn : (Registered(c)' => Registered(c)) /\ ~InHand(c)' /\ Asking(c)' = Asking(c)
    BY <1>1, <1>2, <2>3 DEF Registered, InHand, Asking
  <2>5. Unknown'
    BY <2>4 DEF Unknown
  <2>6. HandInv'
    <3>1. ASSUME NEW t \in Valid' PROVE clients'[t].socket # clients[s].socket
      <4>1. t \in Valid /\ t # s /\ s \in Valid /\ clients'[t] = clients[t]
        BY <1>1, <1>2, <2>1, <3>1
      <4>2. s < t \/ t < s
        BY <1>1, <4>1, ServerAssumption DEF Slot
      <4> QED  BY <1>1, <4>1, <4>2 DEF OnlySlot
    <3> QED  BY <2>3, <3>1 DEF HandInv
  <2>7. Reached'
    BY <1>1, <1>2 DEF Reached
  <2>8. OnlySlot'
    BY <1>1, <1>2, <1>3 DEF OnlySlot
  <2> QED  BY <2>5, <2>6, <2>7, <2>8
<1> QED
  BY <1>4, <1>5

(* A connection is closed that no entry in use has, or whose entry goes    *)
(* with it.                                                                *)
LEMMA ShutClean ==
  ASSUME TypeInv, NetInv, Clean, NEW f, Shut(f), Valid' \subseteq Valid,
         \A s \in Slot : Same(s), \A s \in Valid' : clients[s].socket # f,
         \A c \in Conn : fd[c] = f => ~InHand(c),
         SameHand \/ FreeHand
  PROVE  Clean'
<1> USE DEF Clean, NetInv, Same
<1>0. /\ proc' = proc /\ id' = id
      /\ \A c \in Conn : fd[c] = f => fd'[c] = NoFd /\ c2s'[c] \in {<<>>, c2s[c]}
      /\ \A c \in Conn : fd[c] # f => fd'[c] = fd[c] /\ c2s'[c] = c2s[c]
  BY DEF Shut, At
<1>1. Valid \subseteq Slot /\ \A s \in Valid : clients[s].socket # NoFd
  BY FdFacts DEF TypeInv, ServerOK, ServerFit, Valid
<1>2. main.pc = "dispatch" => main.fd # NoFd
  BY FdFacts DEF TypeInv, ServerOK, ServerFit
<1>3. \A c \in Conn : /\ Registered(c)' => Registered(c)
                      /\ InHand(c)' => InHand(c)
                      /\ Asking(c)' => Asking(c)
  <2>1. ASSUME NEW c \in Conn, Registered(c)' PROVE Registered(c)
    BY <1>0, <1>1, <2>1 DEF Registered
  <2>2. ASSUME NEW c \in Conn, InHand(c)' PROVE InHand(c)
    BY <1>0, <1>2, <2>2 DEF InHand, SameHand, FreeHand
  <2>3. ASSUME NEW c \in Conn, Asking(c)' PROVE Asking(c)
    BY <1>0, <2>3 DEF Asking
  <2> QED  BY <2>1, <2>2, <2>3
<1>4. Unknown'
  BY <1>0, <1>3 DEF Unknown
<1>5. HandInv'
  BY <1>0, <1>1, <1>2 DEF HandInv, SameHand, FreeHand, InHand
<1>6. Reached' /\ OnlySlot'
  BY <1>0, <1>1 DEF Reached, OnlySlot
<1> QED
  BY <1>4, <1>5, <1>6

(* Every step keeps the table and the connections together, unless it ends *)
(* a connection abruptly.                                                  *)
LEMMA CleanStep ==
  ASSUME TypeInv, NetInv, LockInv, CleanInv, [Next]_vars
  PROVE  CleanInv'
<1> SUFFICES ASSUME ~abrupt' PROVE Clean'
  BY DEF CleanInv
<1> USE DEF TypeInv, CleanInv
<1>0. Idle.pc = "events"
  BY DEF Idle
<1>1. ASSUME UNCHANGED clients PROVE SlotsKept
  BY <1>1 DEF SlotsKept, Valid, Same
<1>2. CASE MainStep
  <2>0. Clean
    BY <1>2 DEF MainStep
  <2>1. CASE CloseDeleted
    <3>1. Shut(main.fd) /\ main.pc = "close" /\ main' = Idle /\ clients' = clients
      BY <1>2, <2>1 DEF MainStep, CloseDeleted, ServerClose, Shut, clientVars
    <3>2. \A s \in Valid : clients[s].socket # main.fd
      BY <2>0, <3>1 DEF Clean, HandInv
    <3>3. FreeHand /\ \A c \in Conn : ~InHand(c)
      BY <1>0, <3>1 DEF FreeHand, InHand
    <3>4. Valid' = Valid /\ \A s \in Slot : Same(s)
      BY <1>1, <3>1 DEF SlotsKept
    <3> QED  BY <2>0, <3>1, <3>2, <3>3, <3>4, ShutClean
  <2>2. ASSUME NEW c \in Conn, AcceptConnection(c) PROVE Clean'
    <3>1. Accepted(c) /\ UNCHANGED <<clients, main>> /\ main.pc = "accept"
      BY <1>2, <2>2 DEF MainStep, AcceptConnection, ServerAccept, Accepted, First, clientVars, serverVars
    <3> QED  BY <2>0, <3>1, AcceptedClean
  <2>3. ASSUME NEW e \in batch, NEW c \in Conn, ReadMessage(e, c) PROVE Clean'
    <3>1. /\ Heard(c) /\ UNCHANGED clients /\ fd[c] # NoFd
          /\ main' = Dispatch(fd[c], Head(c2s[c]))
      BY <1>2, <2>3 DEF MainStep, ReadMessage, ServerRead, Heard, Take, At, clientVars
    <3> QED  BY <2>0, <3>1, ReadClean
  <2>4. CASE \/ EpollWait \/ AcceptDone \/ SendReply \/ TellNext \/ TellDone
             \/ \E e \in batch : HandleListenEvent(e) \/ ReadFails(e)
    <3>1. Quiet
      BY <1>2, <2>4 DEF MainStep, EpollWait, AcceptDone, SendReply, TellNext, TellDone, ServerSend,
         HandleListenEvent, ReadFails, ServerReadFails, netVars, clientVars, Quiet
    <3>2. UNCHANGED clients
      BY <2>4 DEF EpollWait, AcceptDone, SendReply, TellNext, TellDone, HandleListenEvent, ReadFails, Take
    <3>3. \/ main' = main \/ main' \in {Idle, [Idle EXCEPT !.pc = "accept"]}
          \/ \E s \in First(main.todo) : main' = [main EXCEPT !.todo = @ \ {s}]
      BY <2>4 DEF EpollWait, AcceptDone, SendReply, TellNext, TellDone, HandleListenEvent, ReadFails
    <3>4. SameHand \/ FreeHand
      BY <3>3, <1>0, IdleType DEF SameHand, FreeHand, ServerOK, ServerTypeOK
    <3> QED  BY <2>0, <3>1, <1>1, <3>2, <3>4, CalmClean
  <2> QED  BY <1>2, <2>1, <2>2, <2>3, <2>4 DEF MainStep
<1>3. CASE MainAbrupt
  BY <1>3 DEF MainAbrupt
<1>4. CASE MainLock
  <2>1. Clean /\ Quiet
    BY <1>4 DEF MainLock, HandleNewClient, HandleListRequest, HandleClientDelete, Delete,
       HandleAliveMessage, HandleChatMessage, netVars, clientVars, Quiet
  <2>2. CASE HandleNewClient
    BY <2>1, <2>2, NewClientClean
  <2>3. CASE HandleClientDelete
    BY <2>1, <2>3, DeleteClean
  <2>4. CASE HandleAliveMessage
    <3>1. SlotsKept /\ FreeHand
      BY <2>4, <1>0 DEF HandleAliveMessage, SlotsKept, FreeHand, Same, Valid, ServerOK, ServerTypeOK, Entry
    <3> QED  BY <2>1, <3>1, CalmClean
  <2>5. CASE HandleListRequest \/ HandleChatMessage
    <3>1. clients' = clients /\ FreeHand
      BY <2>5 DEF HandleListRequest, HandleChatMessage, Reply, FreeHand, ServerOK, ServerTypeOK
    <3> QED  BY <2>1, <1>1, <3>1, CalmClean
  <2> QED  BY <1>4, <2>2, <2>3, <2>4, <2>5 DEF MainLock
<1>5. CASE AliveStep \/ AliveLock
  <2>0. Clean
    BY <1>5 DEF AliveStep, AliveLock
  <2>1. main' = main /\ SameHand
    BY <1>5 DEF AliveStep, AliveLock, PingNext, CheckNext, AliveUnlock, PingLock, CheckLock, SameHand
  <2>2. CASE CheckNext
    <3>1. PICK s \in First(alive.todo) :
             /\ ServerClose(clients[s].socket)
             /\ clients' = [clients EXCEPT ![s].valid = FALSE, ![s].awaiting = FALSE]
      BY <2>2 DEF CheckNext
    <3>2. s \in Valid /\ Valid \subseteq Slot
      BY DEF First, LockInv, Valid
    <3>3. Valid' = Valid \ {s} /\ \A t \in Slot : Same(t)
      BY <3>1, <3>2 DEF Valid, Entry, ServerOK, ServerTypeOK, Same
    <3>4. Shut(clients[s].socket)
      BY <1>5, <2>2, <3>1 DEF AliveStep, AliveLock, ServerClose, Shut, clientVars
    <3>5. \A t \in Valid' : clients[t].socket # clients[s].socket
      <4>1. \A t \in Valid \ {s} : s < t \/ t < s
        BY <3>2, ServerAssumption DEF Slot
      <4> QED  BY <2>0, <3>2, <3>3, <4>1 DEF Clean, OnlySlot
    <3>6. \A c \in Conn : fd[c] = clients[s].socket => ~InHand(c)
      BY <2>0, <3>2 DEF Clean, Unknown, Registered
    <3> QED  BY <2>0, <2>1, <3>3, <3>4, <3>5, <3>6, ShutClean
  <2>3. CASE PingNext
    <3>1. Quiet
      BY <1>5, <2>3 DEF AliveStep, AliveLock, PingNext, ServerSend, clientVars, Quiet
    <3>2. SlotsKept
      BY <2>3 DEF PingNext, SlotsKept, Same, Valid, ServerOK, ServerTypeOK, Entry
    <3> QED  BY <2>0, <2>1, <3>1, <3>2, CalmClean
  <2>4. CASE AliveUnlock \/ PingLock \/ CheckLock
    <3>1. Quiet /\ UNCHANGED clients
      BY <1>5, <2>4 DEF AliveStep, AliveLock, AliveUnlock, PingLock, CheckLock, netVars, clientVars, Quiet
    <3> QED  BY <1>1, <2>0, <2>1, <3>1, CalmClean
  <2> QED  BY <1>5, <2>2, <2>3, <2>4 DEF AliveStep, AliveLock
<1>6. CASE Ending \/ Operator
  <2>1. main' = Idle /\ Valid' = {} /\ Over
    BY <1>6 DEF Ending, Operator, DieBySigpipe, Sigint, Die, ServerExit, Over, Free, Valid, clientVars
  <2> QED  BY <1>0, <2>1 DEF Clean, Unknown, HandInv, Reached, OnlySlot, Over, InHand, Registered
<1>7. ASSUME NEW c \in Conn, User(c) \/ Client(c) PROVE Clean'
  <2>1. Clean /\ UNCHANGED <<clients, main>>
    BY <1>7 DEF User, Client, serverVars
  <2> QED  BY <1>7, <2>1, ClientNet, OpenedClean, SpokeClean
<1>8. CASE UNCHANGED vars
  <2>1. Clean /\ Quiet /\ SlotsKept /\ SameHand
    BY <1>1, <1>8 DEF vars, netVars, clientVars, serverVars, Quiet, SameHand
  <2> QED  BY <2>1, CalmClean
<1> QED
  BY <1>2, <1>3, <1>4, <1>5, <1>6, <1>7, <1>8 DEF Next

(* The table is empty to begin with.                                       *)
LEMMA CleanInit == Init => CleanInv
  BY DEF Init, ServerInit, Idle, Free, Valid, CleanInv, Clean, Unknown, HandInv, Reached, OnlySlot,
     InHand, Registered, Asking, NetInit, ClientInit

ChatInv == TypeInv /\ LockInv /\ NetInv /\ CleanInv

(* All of it holds of every reachable state.                               *)
LEMMA ChatInvariant == Spec => []ChatInv
<1>1. Init => ChatInv
  BY TypeInit, LockInit, NetInvInit, CleanInit DEF ChatInv
<1>2. ChatInv /\ [Next]_vars => ChatInv'
  BY TypeStep, LockStep, NetInvStep, CleanStep DEF ChatInv
<1> QED
  BY <1>1, <1>2, PTL DEF Spec

(* While no connection has ended abruptly, an entry in use has the         *)
(* connection of the process that bears its name (server.c:83-88, 101-104, *)
(* 330-332), whatever names the clients give themselves.                   *)
THEOREM EntriesAreReached == Spec => []SocketBelongsToName
<1>1. ChatInv => SocketBelongsToName
  BY FdFacts DEF ChatInv, TypeInv, ServerOK, ServerFit, CleanInv, Clean, Reached, SocketBelongsToName, At
<1> QED
  BY <1>1, ChatInvariant, PTL

(* While no connection has ended abruptly, the slot                        *)
(* handle_got_alive_message finds first is the slot of the client that     *)
(* answers (server.c:184-188), though an evicted entry keeps its           *)
(* descriptor and the kernel gives descriptors out again.                  *)
THEOREM AnswerFindsItsSlot == Spec => []FirstSlotOwnsSocket
<1>1. ChatInv => FirstSlotOwnsSocket
  BY DEF ChatInv, CleanInv, Clean, OnlySlot, FirstSlotOwnsSocket
<1> QED
  BY <1>1, ChatInvariant, PTL

-----------------------------------------------------------------------------
(* Names that differ.  Then a name in the table is that of the connection  *)
(* its owner writes on, so that a CLIENT_NEW never finds its name in use.  *)

OwnNames == \A c, d \in Conn : c # d => Ids[c] \cap Ids[d] = {}

OwnInv ==
  ~abrupt =>
    /\ mutex = "main" => main.pc = "tell"
    /\ main.pc = "dispatch" => \A s \in Called(main.msg.sender) : clients[s].socket = main.fd

(* A name in the table is used on one connection.                          *)
LEMMA NameIsConnection ==
  ASSUME OwnNames, ChatInv, ~abrupt, NEW c \in Conn, fd[c] # NoFd, NEW s \in Called(id[c])
  PROVE  clients[s].socket = fd[c]
<1> USE DEF ChatInv, TypeInv, NetInv
<1>1. s \in Valid /\ clients[s].name = id[c] /\ clients[s].socket # NoFd
  BY FdFacts DEF Called, ServerOK, ServerFit
<1>2. PICK d \in Conn : fd[d] = clients[s].socket /\ id[d] = id[c]
  BY <1>1 DEF CleanInv, Clean, Reached
<1>3. id[c] \in Ids[c] /\ id[c] \in Ids[d]
  BY <1>1, <1>2 DEF FdInv, IdInv
<1> QED
  BY <1>2, <1>3 DEF OwnNames

(* A registration under way finds its name free, and the lock is given     *)
(* back.                                                                   *)
LEMMA NewClientOwn ==
  ASSUME ChatInv, OwnInv, ~abrupt, HandleNewClient
  PROVE  Called(main.msg.sender) = {} /\ mutex' = "free" /\ main'.pc = "reply"
<1>1. main.pc = "dispatch" /\ main.msg.type = "CLIENT_NEW" /\ mutex = "free"
  BY DEF HandleNewClient, Dispatched, Locked
<1>2. PICK c \in Conn : fd[c] = main.fd /\ InHand(c)
  BY <1>1 DEF ChatInv, CleanInv, Clean, HandInv, InHand
<1>3. ~Registered(c)
  BY <1>2 DEF ChatInv, CleanInv, Clean, Unknown
<1>4. Called(main.msg.sender) = {}
  BY <1>1, <1>2, <1>3 DEF OwnInv, Registered, Called
<1> QED
  BY <1>1, <1>4 DEF HandleNewClient, AddClient, Reply, ChatInv, TypeInv, ServerOK, ServerTypeOK

(* Every step keeps the lock and the message at hand to their owner.       *)
LEMMA OwnStep ==
  ASSUME OwnNames, ChatInv, OwnInv, [Next]_vars
  PROVE  OwnInv'
<1> USE DEF OwnInv
<1> DEFINE Lock == mutex' = "main" => main'.pc = "tell"
           Hand == main'.pc = "dispatch"
                     => \A s \in Called(main.msg.sender)' : clients'[s].socket = main'.fd
<1> SUFFICES ASSUME ~abrupt' PROVE Lock /\ Hand
  OBVIOUS
<1>0. Idle.pc = "events" /\ TypeInv
  BY DEF Idle, ChatInv
<1>1. ASSUME ~abrupt, TableKept \/ (\E s \in Slot : Dropped(s)) \/ Valid' = {}, SameHand \/ FreeHand
      PROVE  Hand
  BY <1>1 DEF SameHand, FreeHand, TableKept, Dropped, Same, Called
<1>2. ASSUME UNCHANGED clients PROVE TableKept
  BY <1>2 DEF TableKept, Valid, Same
<1>3. CASE MainStep
  <2>0. ~abrupt /\ UNCHANGED clients
    BY <1>3 DEF MainStep, EpollWait, AcceptDone, SendReply, TellNext, TellDone, HandleListenEvent,
       ReadFails, ReadMessage, Take, AcceptConnection, CloseDeleted, serverVars
  <2>1. ASSUME NEW e \in batch, NEW c \in Conn, ReadMessage(e, c) PROVE Lock /\ Hand
    <3>1. /\ fd[c] # NoFd /\ c2s[c] # <<>> /\ main' = Dispatch(fd[c], Head(c2s[c]))
          /\ main.pc = "events" /\ mutex' = mutex
      BY <2>1 DEF ReadMessage, Take, At
    <3>2. main'.pc = "dispatch" /\ main'.fd = fd[c] /\ main'.msg = Head(c2s[c])
      BY <3>1, IdleType DEF Dispatch
    <3>3. Head(c2s[c]).sender = id[c]
      <4>1. c2s[c] \in Seq(ClientMsg) /\ Stream(c2s[c], id[c])
        BY DEF ChatInv, NetInv, StreamInv, Stream, TypeInv, ServerOK, NetTypeOK
      <4> QED  BY <3>1, <4>1, StreamTail
    <3>4. Called(main.msg.sender)' = Called(id[c])
      BY <2>0, <3>2, <3>3 DEF Called, Valid
    <3> QED  BY <2>0, <3>1, <3>2, <3>4, NameIsConnection
  <2>2. ASSUME ~\E e \in batch, c \in Conn : ReadMessage(e, c) PROVE Lock /\ Hand
    <3>1. /\ \/ main' = main \/ main' \in {Idle, [Idle EXCEPT !.pc = "accept"]}
             \/ \E s \in First(main.todo) : main' = [main EXCEPT !.todo = @ \ {s}]
          /\ mutex' = mutex \/ mutex' = "free"
          /\ main.pc = "tell" => mutex' = "free" \/ \E s \in First(main.todo) : main' = [main EXCEPT !.todo = @ \ {s}]
                                 \/ main' = main
      BY <1>3, <2>2 DEF MainStep, EpollWait, AcceptDone, SendReply, TellNext, TellDone, HandleListenEvent,
         ReadFails, Take, AcceptConnection, CloseDeleted, serverVars
    <3>2. SameHand \/ FreeHand
      BY <1>0, <3>1, IdleType DEF SameHand, FreeHand, TypeInv, ServerOK, ServerTypeOK
    <3>3. main.pc = "tell" => mutex' = "free" \/ main'.pc = "tell"
      BY <1>0, <3>1 DEF TypeInv, ServerOK, ServerTypeOK
    <3> QED  BY <1>1, <1>2, <2>0, <3>1, <3>2, <3>3
  <2> QED  BY <2>1, <2>2
<1>4. CASE MainAbrupt
  BY <1>4 DEF MainAbrupt
<1>5. CASE MainLock
  <2>1. ~abrupt /\ mutex = "free"
    BY <1>5 DEF MainLock, HandleNewClient, HandleListRequest, HandleClientDelete, Delete,
       HandleAliveMessage, HandleChatMessage, Locked
  <2>2. CASE HandleNewClient
    BY <2>1, <2>2, NewClientOwn
  <2>3. CASE HandleChatMessage
    BY <2>3, <1>0 DEF HandleChatMessage, TypeInv, ServerOK, ServerTypeOK
  <2>4. CASE HandleListRequest \/ HandleClientDelete \/ HandleAliveMessage
    <3>1. mutex' = mutex
      BY <2>4 DEF HandleListRequest, HandleClientDelete, Delete, HandleAliveMessage
    <3>2. main' = Reply("SERVER_LIST_MESSAGE") \/ main' = Idle
          \/ \E f : main' = [Idle EXCEPT !.pc = "close", !.fd = f]
      BY <2>4 DEF HandleListRequest, HandleAliveMessage, HandleClientDelete, Delete
    <3>3. main'.pc # "dispatch"
      BY <1>0, <3>2, IdleType DEF Reply, TypeInv, ServerOK, ServerTypeOK
    <3> QED  BY <2>1, <3>1, <3>3
  <2> QED  BY <1>5, <2>2, <2>3, <2>4 DEF MainLock
<1>6. CASE AliveStep \/ AliveLock
  <2>1. ~abrupt /\ main' = main /\ mutex' \in {mutex, "free", "alive"}
    <3>1. ~abrupt
      BY <1>6 DEF AliveStep, AliveLock
    <3>2. CASE AliveStep
      BY <3>1, <3>2 DEF AliveStep, PingNext, CheckNext, AliveUnlock
    <3>3. CASE AliveLock
      BY <3>1, <3>3 DEF AliveLock, PingLock, CheckLock
    <3> QED  BY <1>6, <3>2, <3>3
  <2>2. TableKept \/ \E s \in Slot : Dropped(s)
    BY <1>0, <1>6, HeartbeatTable DEF TypeInv
  <2> QED  BY <1>1, <2>1, <2>2 DEF SameHand
<1>7. CASE Ending \/ Operator
  <2>1. main' = Idle /\ mutex' = "free"
    BY <1>7 DEF Ending, Operator, DieBySigpipe, Sigint, Die
  <2> QED  BY <1>0, <2>1
<1>8. CASE UNCHANGED vars \/ \E c \in Conn : User(c) \/ Client(c)
  <2>1. ~abrupt /\ main' = main /\ mutex' = mutex /\ UNCHANGED clients
    BY <1>8 DEF User, Client, vars, serverVars
  <2> QED  BY <1>1, <1>2, <2>1 DEF SameHand
<1> QED
  BY <1>3, <1>4, <1>5, <1>6, <1>7, <1>8 DEF Next

(* With names that differ it holds of every reachable state.               *)
LEMMA OwnInvariant == ASSUME OwnNames PROVE Spec => [](ChatInv /\ OwnInv)
<1>1. Init => OwnInv
  BY DEF Init, ServerInit, Idle, OwnInv
<1>2. ChatInv /\ OwnInv /\ [Next]_vars => OwnInv'
  BY OwnStep
<1> QED
  BY <1>1, <1>2, ChatInvariant, PTL DEF Spec

(* Clients whose names differ never find a name in use, so that the early  *)
(* return of add_client (server.c:76-79) is not taken, and the main thread *)
(* holds clients_mutex only while it sends to the table (server.c:91, 126, *)
(* 146), as long as no connection ends abruptly.                           *)
THEOREM LockIsGivenBack == ASSUME OwnNames PROVE Spec => []LockHeldOnlyWhileSending
<1>1. OwnInv => LockHeldOnlyWhileSending
  BY DEF OwnInv, LockHeldOnlyWhileSending
<1> QED
  BY <1>1, OwnInvariant, PTL

(* And CLIENT_STOP, which names its sender and not its connection, closes  *)
(* the connection it came over (server.c:95-111), though the heartbeat may *)
(* drop the entry before it is handled.                                    *)
THEOREM StopIsForItself == ASSUME OwnNames PROVE Spec => StopClosesOwnConnection
<1>1. ChatInv /\ OwnInv /\ [Next]_vars
        => [~abrupt /\ main.pc = "dispatch" /\ main'.pc = "close" => main'.fd = main.fd]_vars
  <2> SUFFICES ASSUME ChatInv, OwnInv, [Next]_vars,
                      ~abrupt, main.pc = "dispatch", main'.pc = "close"
               PROVE  main'.fd = main.fd
    OBVIOUS
  <2>0. Idle.pc = "events" /\ TypeInv
    BY DEF Idle, ChatInv
  <2>1. CASE HandleClientDelete
    <3> DEFINE gone == First(Called(main.msg.sender))
    <3>1. gone # {} /\ main' = [Idle EXCEPT !.pc = "close", !.fd = clients[CHOOSE s \in gone : TRUE].socket]
      BY <2>0, <2>1 DEF HandleClientDelete, Delete
    <3>2. (CHOOSE s \in gone : TRUE) \in Called(main.msg.sender)
      BY <3>1 DEF First
    <3>3. main'.fd = clients[CHOOSE s \in gone : TRUE].socket
      BY <3>1, IdleType
    <3> QED  BY <3>2, <3>3 DEF OwnInv
  <2>2. CASE ~HandleClientDelete
    <3>1. \/ main' = main \/ main' = Idle \/ main'.pc \in {"reply", "tell"}
      BY <2>0, <2>2 DEF Next, MainStep, MainAbrupt, MainLock, AliveStep, AliveLock, Ending, Operator,
         User, Client, EpollWait, HandleListenEvent, ReadFails, ReadMessage, AcceptConnection,
         AcceptDone, SendReply, CloseDeleted, TellNext, TellDone, HandleErrorEvent, ReadEof, Take,
         HandleNewClient, HandleListRequest, HandleAliveMessage, HandleChatMessage, Reply,
         PingNext, CheckNext, AliveUnlock, PingLock, CheckLock, DieBySigpipe, Sigint, Die,
         vars, serverVars, TypeInv, ServerOK, ServerTypeOK
    <3> QED  BY <2>0, <3>1
  <2> QED  BY <2>1, <2>2
<1> QED
  BY <1>1, OwnInvariant, PTL DEF Spec, StopClosesOwnConnection

-----------------------------------------------------------------------------
(* The listening socket, while there is a descriptor for every client.     *)

EnoughFds == IsFiniteSet(Conn) /\ Cardinality(Conn) <= MaxFd

Announced ==
  srv = "up" /\ backlog # {} =>
    \/ listenEdge \/ main.pc = "accept"
    \/ \E e \in batch : e = [fd |-> Listening, ev |-> "in"]

(* Who waits in the backlog leaves a descriptor free.                      *)
LEMMA FdLeft ==
  ASSUME EnoughFds, TypeInv, FdInv, backlog # {}
  PROVE  FreeFd # {}
<1> SUFFICES ASSUME FreeFd = {} PROVE FALSE
  OBVIOUS
<1>1. PICK b \in Conn : fd[b] = NoFd
  BY DEF FdInv, TypeInv, ServerOK, NetTypeOK
<1> DEFINE Rest == Conn \ {b}
           holder == [f \in Fd |-> CHOOSE c \in Rest : fd[c] = f]
<1>2. \A f \in Fd : \E c \in Rest : fd[c] = f
  BY <1>1, FdFacts DEF FreeFd
<1>3. holder \in [Fd -> Rest] /\ \A f \in Fd : fd[holder[f]] = f
  BY <1>2
<1>4. IsFiniteSet(Rest) /\ Cardinality(Rest) = Cardinality(Conn) - 1 /\ Cardinality(Conn) \in Nat
  BY FS_RemoveElement, FS_CardinalityType DEF EnoughFds
<1>5. IsFiniteSet(Fd) /\ Cardinality(Fd) = MaxFd
  BY FS_Interval, NetAssumption DEF Fd
<1> HIDE DEF holder, Rest
<1>6. Cardinality(Rest) < Cardinality(Fd)
  BY <1>4, <1>5, NetAssumption DEF EnoughFds
<1>7. \E f, g \in Fd : f # g /\ holder[f] = holder[g]
  BY <1>3, <1>4, <1>5, <1>6, FS_PigeonHole
<1> QED
  BY <1>3, <1>7

(* A connection that waits stays announced until the loop of accept has    *)
(* run dry.                                                                *)
LEMMA AnnouncedStep ==
  ASSUME EnoughFds, TypeInv, FdInv, Announced, [Next]_vars
  PROVE  Announced'
<1> SUFFICES ASSUME srv' = "up", backlog' # {}
             PROVE  \/ listenEdge' \/ main'.pc = "accept"
                    \/ [fd |-> Listening, ev |-> "in"] \in batch'
  BY DEF Announced
<1> DEFINE news == [fd |-> Listening, ev |-> "in"]
<1>0. Announced => (srv = "up" /\ backlog # {} => listenEdge \/ main.pc = "accept" \/ news \in batch)
  BY DEF Announced
<1>1. CASE EpollWait
  <2>1. backlog # {} /\ srv = "up" /\ main.pc = "events" /\ batch = {}
    BY <1>1 DEF EpollWait
  <2>2. listenEdge
    BY <1>0, <2>1
  <2>3. news \in EpollEvents
    BY <2>1, <2>2 DEF EpollEvents
  <2> QED  BY <1>1, <2>3 DEF EpollWait
<1>2. ASSUME NEW e \in batch,
             \/ HandleListenEvent(e) \/ HandleErrorEvent(e) \/ ReadFails(e)
             \/ \E c \in Conn : ReadMessage(e, c)
             \/ \E c \in Conn, m \in Leftover : ReadEof(e, c, m)
      PROVE  listenEdge' \/ main'.pc = "accept" \/ news \in batch'
  <2>1. CASE HandleListenEvent(e)
    <3>1. main' = [Idle EXCEPT !.pc = "accept"]
      BY <2>1 DEF HandleListenEvent
    <3> QED  BY <3>1, IdleType
  <2>2. CASE ~HandleListenEvent(e)
    <3>1. e.fd # Listening
      BY <1>2, <2>2, FdFacts DEF HandleErrorEvent, ReadFails, ReadMessage, ReadEof, At, TypeInv, ServerOK, NetTypeOK
    <3>2. batch' = batch \ {e} /\ backlog' = backlog /\ listenEdge' = listenEdge /\ srv = "up" /\ main.pc = "events"
      BY <1>2, <2>2 DEF HandleErrorEvent, ReadFails, ReadMessage, ReadEof, Take, ServerClose, ServerReadFails,
         ServerRead, netVars
    <3>3. news # e
      BY <3>1
    <3> QED  BY <1>0, <3>2, <3>3
  <2> QED  BY <2>1, <2>2
<1>3. CASE AcceptDone
  BY <1>3, FdLeft DEF AcceptDone, netVars
<1>4. ASSUME srv = "up", backlog' \subseteq backlog, listenEdge' = listenEdge, batch' = batch,
             main.pc = "accept" => main'.pc = "accept"
      PROVE  listenEdge' \/ main'.pc = "accept" \/ news \in batch'
  BY <1>0, <1>4
<1>5. CASE MainStep
  <2>1. CASE \E c \in Conn : AcceptConnection(c)
    BY <1>4, <2>1 DEF AcceptConnection, ServerAccept, serverVars
  <2>2. CASE SendReply \/ CloseDeleted \/ TellNext \/ TellDone
    BY <1>4, <2>2 DEF SendReply, CloseDeleted, TellNext, TellDone, ServerSend, ServerClose, netVars
  <2> QED  BY <1>1, <1>2, <1>3, <1>5, <2>1, <2>2 DEF MainStep
<1>6. CASE MainAbrupt
  BY <1>2, <1>6 DEF MainAbrupt
<1>7. CASE MainLock
  BY <1>4, <1>7 DEF MainLock, HandleNewClient, HandleListRequest, HandleClientDelete, Delete,
     HandleAliveMessage, HandleChatMessage, Dispatched, netVars
<1>8. CASE AliveStep \/ AliveLock
  BY <1>4, <1>8 DEF AliveStep, AliveLock, PingNext, CheckNext, AliveUnlock, PingLock, CheckLock,
     ServerSend, ServerClose, netVars
<1>9. CASE Ending \/ Operator
  BY <1>9 DEF Ending, Operator, DieBySigpipe, Sigint, Die, ServerExit
<1>10. ASSUME NEW c \in Conn, User(c) \/ Client(c)
       PROVE  listenEdge' \/ main'.pc = "accept" \/ news \in batch'
  <2>1. srv' = srv /\ main' = main /\ batch' = batch
    BY <1>10 DEF User, Client, serverVars
  <2>2. CASE \E n \in Names : Connect(c, n)
    BY <2>2 DEF Connect, ClientConnect
  <2>3. CASE ~\E n \in Names : Connect(c, n)
    <3>1. backlog' = backlog /\ listenEdge' = listenEdge
      BY <1>10, <2>3 DEF User, Client, Command, Goodbye, Killed, ListenEof, Listen, Listener, Shown, Answered,
         CleanExit, SendNew, RegisterReply, RegisterEof, Exit, ClientSend, ClientClose, netVars
    <3> QED  BY <1>4, <2>1, <3>1
  <2> QED  BY <2>2, <2>3
<1>11. CASE UNCHANGED vars
  BY <1>4, <1>11 DEF vars, netVars, serverVars
<1> QED
  BY <1>5, <1>6, <1>7, <1>8, <1>9, <1>10, <1>11 DEF Next

(* As long as there is a descriptor for every client, the loop of          *)
(* accept_new_connection_requests leaves no connection behind in the       *)
(* backlog that no edge announces (server.c:231-237): a client that comes  *)
(* after accept has said EAGAIN makes a new one.                           *)
THEOREM NobodyIsForgotten == ASSUME EnoughFds PROVE Spec => []ConnectionsNotForgotten
<1>1. Init => Announced
  BY DEF Init, NetInit, Announced
<1>2. ChatInv /\ Announced /\ [Next]_vars => Announced'
  BY AnnouncedStep DEF ChatInv, NetInv
<1>3. Announced => ConnectionsNotForgotten
  BY DEF Announced, ConnectionsNotForgotten
<1> QED
  BY <1>1, <1>2, <1>3, ChatInvariant, PTL DEF Spec

=============================================================================
