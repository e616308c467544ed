------------------------------ MODULE SocketNet ------------------------------
(***************************************************************************)
(* The part of the kernel the chat of cw11 runs on, as its code uses it:   *)
(* one TCP connection per client process, the descriptor table of the      *)
(* server, the listening socket's backlog and the edge-triggered readiness *)
(* of an epoll instance; and send_message / receive_message of             *)
(* socket_utils.c, which move whole messages over a connection.            *)
(*                                                                         *)
(* A connection is named by the client process that opened it: a process   *)
(* of client.c connects once.                                              *)
(***************************************************************************)
EXTENDS Integers, Sequences

CONSTANTS
  Conn,     (* client processes, and so the connections they open           *)
  Names,    (* client identifiers (argv[1] of client.c)                     *)
  MaxFd,    (* descriptors the server process may hold for connections      *)
  SockBuf   (* messages a socket buffer holds in one direction              *)

NoName == "nobody"   \* the empty name

ASSUME NetAssumption ==
  /\ MaxFd \in Nat \ {0}
  /\ SockBuf \in Nat \ {0}
  /\ NoName \notin Names

Fd        == 1 .. MaxFd
Listening == 0      \* server_socket
NoFd      == -1

ClientType == {"CLIENT_NEW", "CLIENT_LIST", "CLIENT_TO_ALL", "CLIENT_TO_ONE",
               "CLIENT_STOP", "CLIENT_ALIVE"}
ServerType == {"SERVER_OK_REGISTER", "SERVER_FAILURE_REGISTER",
               "SERVER_CHAT_MESSAGE", "SERVER_LIST_MESSAGE",
               "SERVER_CHECK_ALIVE", "SERVER_SHUTDOWN"}

(* Of a message to the server the handlers read the type, the sender and,  *)
(* for CLIENT_TO_ONE, the receiver's name; elsewhere `to` repeats the      *)
(* sender.  Of a message to a client only the type matters.                *)
ClientMsg == [type : ClientType, sender : Names, to : Names]
Msg(t, n) == [type |-> t, sender |-> n, to |-> n]

(* The client's end of a connection: not opened yet, open, closed with a   *)
(* FIN, reset with the error not yet reported to the server, reset and     *)
(* reported: a further send raises SIGPIPE.                                *)
Peer == {"none", "open", "fin", "rst", "broken"}

VARIABLES
  peer,       (* the client's end, see Peer                                 *)
  backlog,    (* connections waiting in the listening socket                *)
  fd,         (* the server's descriptor of a connection, or NoFd           *)
  c2s,        (* messages the server has not read                           *)
  s2c,        (* messages the client has not read                           *)
  edge,       (* connections with a readiness edge not yet reported         *)
  listenEdge  (* the same for the listening socket                          *)

netVars == <<peer, backlog, fd, c2s, s2c, edge, listenEdge>>

NetTypeOK ==
  /\ peer \in [Conn -> Peer]
  /\ backlog \in SUBSET Conn
  /\ fd \in [Conn -> Fd \cup {NoFd}]
  /\ c2s \in [Conn -> Seq(ClientMsg)]
  /\ s2c \in [Conn -> Seq(ServerType)]
  /\ edge \in SUBSET Conn
  /\ listenEdge \in BOOLEAN

NetInit ==
  /\ peer = [c \in Conn |-> "none"]
  /\ backlog = {}
  /\ fd = [c \in Conn |-> NoFd]
  /\ c2s = [c \in Conn |-> <<>>]
  /\ s2c = [c \in Conn |-> <<>>]
  /\ edge = {}
  /\ listenEdge = FALSE

-----------------------------------------------------------------------------
(* The server's side.                                                      *)

(* The connection behind a descriptor: none, or one.                       *)
At(f) == {c \in Conn : fd[c] = f /\ f # NoFd}

First(S) == {s \in S : \A t \in S : s <= t}

FreeFd == Fd \ {fd[c] : c \in Conn}

(* The server once held, and no longer holds, its end of the connection.   *)
ServerGone(c) == peer[c] # "none" /\ c \notin backlog /\ fd[c] = NoFd

(* A send on descriptor f raises SIGPIPE.                                  *)
Broken(f) == \E c \in At(f) : peer[c] = "broken"

(* send_message on descriptor f, when it raises no SIGPIPE.  A full buffer *)
(* (the sockets do not block) and a descriptor without a connection lose   *)
(* the message: the callers only print the failure.  Data for an end that  *)
(* has been closed is answered with a reset, and a send on a connection    *)
(* just reset reports that error.                                          *)
ServerSend(f, m) ==
  LET closed == {c \in At(f) : peer[c] = "fin"}
      reset  == {c \in At(f) : peer[c] = "rst"}
  IN
  /\ ~Broken(f)
  /\ s2c' = [c \in Conn |->
               IF c \in At(f) /\ peer[c] = "open" /\ Len(s2c[c]) < SockBuf
               THEN Append(s2c[c], m) ELSE s2c[c]]
  /\ peer' = [c \in Conn |-> IF c \in closed \cup reset THEN "broken" ELSE peer[c]]
  /\ edge' = edge \cup closed
  /\ UNCHANGED <<backlog, fd, c2s, listenEdge>>

(* receive_message on descriptor f when a message waits in connection c.   *)
ServerRead(c) ==
  /\ c2s' = [c2s EXCEPT ![c] = Tail(@)]
  /\ UNCHANGED <<peer, backlog, fd, s2c, edge, listenEdge>>

(* receive_message returns -1: no connection (EBADF), nothing to read      *)
(* (EAGAIN), or the reset, which is reported once.                         *)
ServerReadFails(f) ==
  /\ \A c \in At(f) : c2s[c] = <<>> /\ peer[c] \in {"open", "rst"}
  /\ peer' = [c \in Conn |-> IF c \in At(f) /\ peer[c] = "rst" THEN "broken" ELSE peer[c]]
  /\ UNCHANGED <<backlog, fd, c2s, s2c, edge, listenEdge>>

(* close(f): unread data is dropped and epoll forgets the descriptor.      *)
ServerClose(f) ==
  /\ fd' = [c \in Conn |-> IF c \in At(f) THEN NoFd ELSE fd[c]]
  /\ c2s' = [c \in Conn |-> IF c \in At(f) THEN <<>> ELSE c2s[c]]
  /\ edge' = edge \ At(f)
  /\ UNCHANGED <<peer, backlog, s2c, listenEdge>>

(* accept(), with the lowest free descriptor, and EPOLL_CTL_ADD, which     *)
(* reports a connection that is readable already.                          *)
ServerAccept(c) ==
  /\ \E f \in First(FreeFd) : fd' = [fd EXCEPT ![c] = f]
  /\ backlog' = backlog \ {c}
  /\ edge' = IF c2s[c] # <<>> \/ peer[c] # "open" THEN edge \cup {c} ELSE edge
  /\ UNCHANGED <<peer, c2s, s2c, listenEdge>>

(* The server process ends: the kernel closes all it held.                 *)
ServerExit ==
  /\ fd' = [c \in Conn |-> NoFd]
  /\ backlog' = {}
  /\ c2s' = [c \in Conn |-> <<>>]
  /\ edge' = {}
  /\ listenEdge' = FALSE

-----------------------------------------------------------------------------
(* The client's side.  Its socket blocks, so a send waits for room.        *)

ClientConnect(c) ==
  /\ peer' = [peer EXCEPT ![c] = "open"]
  /\ backlog' = backlog \cup {c}
  /\ listenEdge' = TRUE
  /\ UNCHANGED <<fd, c2s, s2c, edge>>

(* New data is an edge for a connection the server has accepted; data for  *)
(* an end the server has closed is lost.                                   *)
Arrives(c) == edge' = IF fd[c] # NoFd THEN edge \cup {c} ELSE edge

ClientSend(c, m) ==
  /\ Len(c2s[c]) < SockBuf
  /\ c2s' = IF ServerGone(c) THEN c2s ELSE [c2s EXCEPT ![c] = Append(@, m)]
  /\ Arrives(c)
  /\ UNCHANGED <<peer, backlog, fd, listenEdge>>

(* close() with unread data resets the connection, without it ends it      *)
(* with a FIN; `unread` is what the client left in its buffer.             *)
ClientClose(c, unread) ==
  /\ peer' = [peer EXCEPT ![c] = IF unread = <<>> THEN "fin" ELSE "rst"]
  /\ s2c' = [s2c EXCEPT ![c] = <<>>]
  /\ Arrives(c)
  /\ UNCHANGED <<backlog, fd, c2s, listenEdge>>

=============================================================================
