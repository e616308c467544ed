-------------------------------- MODULE MqChat --------------------------------
(***************************************************************************)
(* The chat of cw07 on POSIX message queues: the server of server.c with   *)
(* one thread and one queue, and the clients of client.c, each a process   *)
(* that reads lines (the parent), a child that prints what arrives (the    *)
(* listener), and a queue of its own.                                      *)
(*                                                                         *)
(* A queue is an object with a name.  mq_unlink takes the name away; those *)
(* who have the queue open go on using it.                                 *)
(***************************************************************************)
EXTENDS Integers, Sequences, FiniteSets

CONSTANTS
  Clients,      (* client processes; each has a pid and so a queue name     *)
  MaxClients,   (* MAX_CLIENTS                                              *)
  MaxMessages,  (* MAX_MESSAGES, the capacity of every queue                *)
  None,         (* the -1 of client_queues                                  *)
  MaxTexts,     (* bound: lines typed, by all the clients together          *)
  ServerRuns,   (* bound: servers started, one after the other              *)
  MayInterrupt, (* clients that may get Ctrl-C                              *)
  MayCrash      (* may the server be ended by a signal it does not handle?  *)

(* The table has an entry for every client there will be: numbers are not  *)
(* used again, and with more clients handle_init_message leaves the array. *)
ASSUME MqChatAssumption ==
  /\ IsFiniteSet(Clients) /\ None \notin Clients
  /\ MaxClients \in Nat /\ MaxClients >= Cardinality(Clients)
  /\ MaxMessages \in Nat \ {0} /\ MaxTexts \in Nat /\ ServerRuns \in Nat \ {0}
  /\ MayInterrupt \subseteq Clients /\ MayCrash \in BOOLEAN

VARIABLES
  server,         (* where the server is                                    *)
  message,        (* its message                                            *)
  i,              (* handle_text_message's loop variable                    *)
  client_queues,  (* whose queue each entry has open                        *)
  number,         (* curr_max_client_num                                    *)
  made, named,    (* server queues created; whether the last has its name   *)
  serverQ,        (* the messages in each                                   *)
  crashed,        (* history: a server ended without its handler            *)
  log,            (* "got TEXT message ...", in order                       *)
  parent, listener, running,  (* each client's processes and is_running     *)
  opened,         (* the server queue it has open                           *)
  id, line,       (* its client_id; the last line it has read               *)
  typed,          (* how many lines have been typed                         *)
  clientQ, linked,(* its queue, and whether that has its name               *)
  shown           (* "received message ...", in order                       *)

serverVars == <<server, message, i, client_queues, number, crashed, log>>
nameVars   == <<made, named>>
clientVars == <<parent, listener, running, opened, id, line, typed, linked, shown>>
vars == <<serverVars, nameVars, serverQ, clientVars, clientQ>>

Texts  == 1 .. MaxTexts
Entry  == 0 .. MaxClients - 1
Closed == [e \in Entry |-> None]

(* msg_t                                                                   *)
Message(type, n, text) == [type |-> type, id |-> n, text |-> text]
NoMessage == Message("none", -1, None)
Messages ==
  {NoMessage}
  \cup {Message("INIT", -1, c) : c \in Clients}
  \cup {Message("RECEIVE_ID", n, None) : n \in Entry}
  \cup {Message("TEXT", n, t) : n \in Entry, t \in Texts}
  \cup {Message("CLIENT_EXIT", n, None) : n \in Entry}

TypeOK ==
  /\ server \in {"off", "receive", "reply", "broadcast"}
  /\ message \in Messages
  /\ i \in 0 .. MaxClients
  /\ client_queues \in [Entry -> Clients \cup {None}]
  /\ number \in 0 .. MaxClients
  /\ made \in 0 .. ServerRuns /\ named \in BOOLEAN /\ (named => made > 0)
  /\ serverQ \in [1 .. ServerRuns -> [{1, 2} -> Seq(Messages)]]
  /\ crashed \in BOOLEAN
  /\ log \in Seq(Texts)
  /\ parent \in [Clients -> {"start", "init", "await", "typing", "sending", "kill", "bye", "gone"}]
  /\ listener \in [Clients -> {"none", "listening", "ended", "killed"}]
  /\ running \in [Clients -> BOOLEAN]
  /\ opened \in [Clients -> 0 .. ServerRuns]
  /\ id \in [Clients -> Entry \cup {-1}]
  /\ line \in [Clients -> 0 .. MaxTexts] /\ typed \in 0 .. MaxTexts
  /\ clientQ \in [Clients -> Seq(Messages)]
  /\ linked \in [Clients -> BOOLEAN]
  /\ shown \in [Clients -> Seq(Texts)]

Init ==
  /\ server = "off" /\ message = NoMessage /\ i = 0
  /\ client_queues = Closed /\ number = 0
  /\ made = 0 /\ named = FALSE /\ serverQ = [g \in 1 .. ServerRuns |-> [p \in {1, 2} |-> <<>>]]
  /\ crashed = FALSE /\ log = <<>>
  /\ parent = [c \in Clients |-> "start"]
  /\ listener = [c \in Clients |-> "none"]
  /\ running = [c \in Clients |-> TRUE]
  /\ opened = [c \in Clients |-> 0]
  /\ id = [c \in Clients |-> -1]
  /\ line = [c \in Clients |-> 0] /\ typed = 0
  /\ clientQ = [c \in Clients |-> <<>>]
  /\ linked = [c \in Clients |-> FALSE]
  /\ shown = [c \in Clients |-> <<>>]

-----------------------------------------------------------------------------
(* The queues.  A queue holds, for each priority, the messages of that     *)
(* priority in order.  mq_receive takes the first of the highest priority  *)
(* there is, and blocks while there is none; mq_send blocks while the      *)
(* queue is full.  Only the server's queue gets messages of priority 2.    *)

Priority(m) == IF m.type = "CLIENT_EXIT" THEN 2 ELSE 1

First(q) == IF q[2] # <<>> THEN 2 ELSE 1

ToServer(c, m) ==
  LET q == serverQ[opened[c]] IN
  /\ Len(q[1]) + Len(q[2]) < MaxMessages
  /\ serverQ' = [serverQ EXCEPT ![opened[c]][Priority(m)] = Append(@, m)]

ToClient(c, m) ==
  /\ Len(clientQ[c]) < MaxMessages
  /\ clientQ' = [clientQ EXCEPT ![c] = Append(@, m)]

-----------------------------------------------------------------------------
(* The server.                                                             *)

(* mq_open with O_CREAT: a queue a crashed server has left is used again,  *)
(* with what is in it.                                                     *)
ServerStart ==
  /\ server = "off"
  /\ IF named THEN UNCHANGED nameVars
              ELSE made < ServerRuns /\ made' = made + 1 /\ named' = TRUE
  /\ server' = "receive" /\ client_queues' = Closed /\ number' = 0
  /\ UNCHANGED <<message, i, crashed, log, serverQ, clientVars, clientQ>>

Receive(type) ==
  LET p == First(serverQ[made])
      q == serverQ[made][p]
  IN /\ server = "receive" /\ q # <<>> /\ Head(q).type = type
     /\ message' = Head(q)
     /\ serverQ' = [serverQ EXCEPT ![made][p] = Tail(q)]

(* Faulty variant of HandleInit: the number is not sent back.              *)
HandleInitSilent ==
  /\ Receive("INIT")
  /\ client_queues' = [client_queues EXCEPT ![number] = message'.text]
  /\ number' = number + 1
  /\ UNCHANGED <<server, i, crashed, log, nameVars, clientVars, clientQ>>

HandleInit ==
  /\ Receive("INIT")
  /\ LET c == message'.text IN
       IF linked[c]
       THEN /\ client_queues' = [client_queues EXCEPT ![number] = c]
            /\ number' = number + 1 /\ server' = "reply"
       ELSE /\ client_queues' = [client_queues EXCEPT ![number] = None]
            /\ UNCHANGED <<number, server>>
  /\ UNCHANGED <<i, crashed, log, nameVars, clientVars, clientQ>>

(* Faulty variant of SendId: the count after the increment is the number.  *)
SendIdLate ==
  /\ server = "reply" /\ server' = "receive"
  /\ ToClient(message.text, Message("RECEIVE_ID", number, None))
  /\ UNCHANGED <<message, i, client_queues, number, crashed, log, nameVars, serverQ, clientVars>>

SendId ==
  /\ server = "reply" /\ server' = "receive"
  /\ ToClient(message.text, Message("RECEIVE_ID", number - 1, None))
  /\ UNCHANGED <<message, i, client_queues, number, crashed, log, nameVars, serverQ, clientVars>>

HandleText ==
  /\ Receive("TEXT")
  /\ log' = Append(log, message'.text)
  /\ server' = "broadcast" /\ i' = 0
  /\ UNCHANGED <<client_queues, number, crashed, nameVars, clientVars, clientQ>>

(* Faulty variant of BroadcastNext: a client whose queue is full is left   *)
(* out, as with O_NONBLOCK.                                                *)
BroadcastNextNonblock ==
  /\ server = "broadcast" /\ i < number
  /\ LET c == client_queues[i] IN
       \/ c = None /\ UNCHANGED clientQ
       \/ c # None /\ Len(clientQ[c]) = MaxMessages /\ UNCHANGED clientQ
       \/ c # None /\ ToClient(c, message)
  /\ i' = i + 1
  /\ UNCHANGED <<server, message, client_queues, number, crashed, log, nameVars, serverQ, clientVars>>

(* The loop of handle_text_message, a client at a time: mq_send to a full  *)
(* queue waits, and the server with it.                                    *)
BroadcastNext ==
  /\ server = "broadcast" /\ i < number
  /\ LET c == client_queues[i] IN
       \/ c = None /\ UNCHANGED clientQ
       \/ c # None /\ ToClient(c, message)
  /\ i' = i + 1
  /\ UNCHANGED <<server, message, client_queues, number, crashed, log, nameVars, serverQ, clientVars>>

BroadcastDone ==
  /\ server = "broadcast" /\ i = number
  /\ server' = "receive"
  /\ UNCHANGED <<message, i, client_queues, number, crashed, log, nameVars, serverQ, clientVars, clientQ>>

HandleClientExit ==
  /\ Receive("CLIENT_EXIT")
  /\ client_queues' = IF message'.id \in Entry
                      THEN [client_queues EXCEPT ![message'.id] = None]
                      ELSE client_queues
  /\ UNCHANGED <<server, i, number, crashed, log, nameVars, clientVars, clientQ>>

Gone == server' = "off" /\ client_queues' = Closed /\ number' = 0

(* Faulty variant of Interrupted: no mq_unlink.                            *)
InterruptedNamed ==
  /\ server # "off" /\ Gone
  /\ UNCHANGED <<message, i, crashed, log, nameVars, serverQ, clientVars, clientQ>>

(* sig_handler, which interrupts also a call that waits.                   *)
Interrupted ==
  /\ server # "off" /\ Gone
  /\ named' = FALSE
  /\ UNCHANGED <<message, i, crashed, log, made, serverQ, clientVars, clientQ>>

(* SIGKILL, or any signal without a handler: the queue keeps its name.     *)
Crash ==
  /\ MayCrash /\ ~crashed /\ server # "off" /\ Gone
  /\ crashed' = TRUE
  /\ UNCHANGED <<message, i, log, nameVars, serverQ, clientVars, clientQ>>

-----------------------------------------------------------------------------
(* A client.                                                               *)

(* Both mq_open; without a server the client's queue goes again.           *)
Open(c) ==
  /\ parent[c] = "start"
  /\ parent' = [parent EXCEPT ![c] = IF named THEN "init" ELSE "gone"]
  /\ opened' = [opened EXCEPT ![c] = IF named THEN made ELSE 0]
  /\ linked' = [linked EXCEPT ![c] = named]
  /\ UNCHANGED <<serverVars, nameVars, serverQ, listener, running, id, line, typed, clientQ, shown>>

SendInit(c) ==
  /\ parent[c] = "init" /\ parent' = [parent EXCEPT ![c] = "await"]
  /\ ToServer(c, Message("INIT", -1, c))
  /\ UNCHANGED <<serverVars, nameVars, listener, running, opened, id, line, typed, clientQ, linked, shown>>

(* The id of whatever message comes first; then fork.                      *)
GetId(c) ==
  /\ parent[c] = "await" /\ clientQ[c] # <<>>
  /\ id' = [id EXCEPT ![c] = Head(clientQ[c]).id]
  /\ clientQ' = [clientQ EXCEPT ![c] = Tail(@)]
  /\ parent' = [parent EXCEPT ![c] = "typing"]
  /\ listener' = [listener EXCEPT ![c] = "listening"]
  /\ UNCHANGED <<serverVars, nameVars, serverQ, running, opened, line, typed, linked, shown>>

Type(c) ==
  /\ parent[c] = "typing" /\ typed < MaxTexts
  /\ parent' = [parent EXCEPT ![c] = "sending"]
  /\ typed' = typed + 1 /\ line' = [line EXCEPT ![c] = typed']
  /\ UNCHANGED <<serverVars, nameVars, serverQ, listener, running, opened, id, clientQ, linked, shown>>

SendText(c) ==
  /\ parent[c] = "sending"
  /\ parent' = [parent EXCEPT ![c] = IF running[c] THEN "typing" ELSE "kill"]
  /\ ToServer(c, Message("TEXT", id[c], line[c]))
  /\ UNCHANGED <<serverVars, nameVars, listener, running, opened, id, line, typed, clientQ, linked, shown>>

(* ":exit", or end of file after Ctrl-C.                                   *)
Quit(c) ==
  /\ parent[c] = "typing" /\ parent' = [parent EXCEPT ![c] = "kill"]
  /\ UNCHANGED <<serverVars, nameVars, serverQ, listener, running, opened, id, line, typed, clientQ, linked, shown>>

KillListener(c) ==
  /\ parent[c] = "kill" /\ parent' = [parent EXCEPT ![c] = "bye"]
  /\ listener' = [listener EXCEPT ![c] = "killed"]
  /\ UNCHANGED <<serverVars, nameVars, serverQ, running, opened, id, line, typed, clientQ, linked, shown>>

(* CLIENT_EXIT overtakes the texts in the queue; then cleanup.             *)
SendExit(c) ==
  /\ parent[c] = "bye" /\ parent' = [parent EXCEPT ![c] = "gone"]
  /\ ToServer(c, Message("CLIENT_EXIT", id[c], None))
  /\ linked' = [linked EXCEPT ![c] = FALSE]
  /\ UNCHANGED <<serverVars, nameVars, listener, running, opened, id, line, typed, clientQ, shown>>

(* listen_for_messages: is_running is looked at after each message.        *)
Listen(c) ==
  /\ listener[c] = "listening" /\ clientQ[c] # <<>>
  /\ clientQ' = [clientQ EXCEPT ![c] = Tail(@)]
  /\ LET m == Head(clientQ[c]) IN
       shown' = IF m.type = "TEXT" THEN [shown EXCEPT ![c] = Append(@, m.text)] ELSE shown
  /\ listener' = [listener EXCEPT ![c] = IF running[c] THEN @ ELSE "ended"]
  /\ UNCHANGED <<serverVars, nameVars, serverQ, parent, running, opened, id, line, typed, linked>>

(* Ctrl-C.  Before the handlers are installed it ends the client as it is; *)
(* after that it reaches parent and listener, and restarts their calls.    *)
CtrlC(c) ==
  /\ c \in MayInterrupt
  /\ \/ /\ parent[c] \in {"init", "await"}
        /\ parent' = [parent EXCEPT ![c] = "gone"] /\ UNCHANGED running
     \/ /\ parent[c] \in {"typing", "sending"} /\ running[c]
        /\ running' = [running EXCEPT ![c] = FALSE] /\ UNCHANGED parent
  /\ UNCHANGED <<serverVars, nameVars, serverQ, listener, opened, id, line, typed, clientQ, linked, shown>>

-----------------------------------------------------------------------------

Handle ==
  HandleInit \/ SendId \/ HandleText \/ BroadcastNext \/ BroadcastDone \/ HandleClientExit

Send(c) == SendInit(c) \/ SendText(c) \/ SendExit(c)

Parent(c) == Open(c) \/ GetId(c) \/ KillListener(c)

User(c) == Type(c) \/ Quit(c) \/ CtrlC(c)

Operator == ServerStart \/ Interrupted \/ Crash

Next ==
  \/ Handle \/ Operator
  \/ \E c \in Clients : Send(c) \/ Parent(c) \/ User(c) \/ Listen(c)

Spec == Init /\ [][Next]_vars

(* Processes are scheduled, and of those that wait to send to one queue    *)
(* each gets its turn (the kernel wakes them in order).  Nobody has to     *)
(* start a server, type, leave or press Ctrl-C.                            *)
FairSpec ==
  /\ Spec
  /\ WF_vars(Handle)
  /\ \A c \in Clients : SF_vars(Send(c)) /\ WF_vars(Parent(c)) /\ WF_vars(Listen(c))

-----------------------------------------------------------------------------

(* What is shown follows the order in which the server got the texts,      *)
(* without a gap and without a text twice, whoever comes, leaves, is       *)
(* interrupted, or crashes (server.c:34-43, client.c:17-28).               *)
Promise == INSTANCE Broadcast
OneOrder == Promise!Spec

Present == {"typing", "sending", "kill", "bye"}

(* A client the present server is serving.                                 *)
Served(c) == server # "off" /\ opened[c] = made

(* The number a client has taken from the first message of its queue,      *)
(* whatever that was (client.c:100-106), is that of the entry that has its *)
(* queue open: what it will send with CLIENT_EXIT (client.c:125).  A       *)
(* server that finds a queue left by a crash knows nobody in it.           *)
NumberIsOwn ==
  ~crashed => \A c \in Clients : (parent[c] \in Present /\ Served(c)) =>
    id[c] \in 0 .. number - 1 /\ client_queues[id[c]] = c

(* handle_client_exit_message (server.c:46-53) closes the entry of a       *)
(* client only when that client has left, whatever numbers earlier servers *)
(* have given.                                                             *)
OnlyLeaversClosed ==
  [][~crashed => \A e \in Entry :
       (client_queues[e] # None /\ client_queues'[e] = None /\ server' # "off")
         => parent[client_queues[e]] = "gone"]_vars

(* The server waits to send to a queue nobody will ever read again: its    *)
(* client's listener has been killed (client.c:123) or has ended           *)
(* (client.c:19), and the texts before have filled it.                     *)
Stuck ==
  /\ server = "broadcast" /\ i < number /\ client_queues[i] # None
  /\ Len(clientQ[client_queues[i]]) = MaxMessages
  /\ listener[client_queues[i]] # "listening"

(* That is the only way in which server and clients wait for each other:   *)
(* otherwise, while its server stays, a client that has sent INIT gets its *)
(* number, one that leaves is gone, and a text is sent and handled.        *)
ClientsGetOn ==
  \A c \in Clients :
    /\ (parent[c] = "init" /\ Served(c)) ~> (parent[c] \notin {"init", "await"} \/ ~Served(c) \/ Stuck)
    /\ (parent[c] = "sending" /\ Served(c)) ~> (parent[c] # "sending" \/ ~Served(c) \/ Stuck)
    /\ (parent[c] = "kill" /\ Served(c)) ~> (parent[c] = "gone" \/ ~Served(c) \/ Stuck)

=============================================================================
