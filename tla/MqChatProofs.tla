----------------------------- MODULE MqChatProofs ------------------------------
(***************************************************************************)
(* Theorems about the chat of cw07, for every number of clients, size of   *)
(* the queues, number of texts and of servers started.                     *)
(***************************************************************************)
EXTENDS MqChat, FiniteSetTheorems, SequenceTheorems, TLAPS

Queues == 1 .. ServerRuns

(* What each queue holds: INIT and TEXT with priority 1, CLIENT_EXIT with  *)
(* priority 2; and a queue not made yet is empty.                          *)
QueueInv ==
  \A g \in Queues :
    /\ \A j \in 1 .. Len(serverQ[g][1]) : serverQ[g][1][j].type \in {"INIT", "TEXT"}
    /\ \A j \in 1 .. Len(serverQ[g][2]) : serverQ[g][2][j].type = "CLIENT_EXIT"
    /\ g > made => serverQ[g][1] = <<>> /\ serverQ[g][2] = <<>>

(* A client's INIT, in the queue it has opened, is there once.             *)
InitInv ==
  \A g \in Queues : \A j \in 1 .. Len(serverQ[g][1]) :
    serverQ[g][1][j].type = "INIT" =>
      /\ opened[serverQ[g][1][j].text] = g
      /\ parent[serverQ[g][1][j].text] \in {"await", "gone"}
      /\ \A k \in 1 .. Len(serverQ[g][1]) : serverQ[g][1][k] = serverQ[g][1][j] => k = j

(* The INIT of c is still to be handled.                                   *)
Waiting(c) ==
  \E g \in Queues : \E j \in 1 .. Len(serverQ[g][1]) : serverQ[g][1][j] = Message("INIT", -1, c)

(* A client at a place has what it needs there.                            *)
ClientFit(c) ==
  /\ opened[c] <= made
  /\ parent[c] \in {"init", "await"} \cup Present => opened[c] > 0 /\ linked[c]
  /\ parent[c] \in Present => id[c] \in Entry
  /\ parent[c] = "sending" => line[c] \in Texts
  /\ \A j \in 1 .. Len(clientQ[c]) : clientQ[c][j].type \in {"RECEIVE_ID", "TEXT"}
  /\ parent[c] \in {"start", "init"} \/ Waiting(c) => clientQ[c] = <<>>
  /\ parent[c] \in {"start", "init", "await"} => listener[c] = "none"

ClientInv == \A c \in Clients : ClientFit(c)

(* So has the server; a number is given to a client that has sent INIT.    *)
ServerInv ==
  /\ server # "off" => made > 0
  /\ server = "off" => number = 0
  /\ server = "broadcast" => message.type = "TEXT"
  /\ server = "reply" =>
       /\ message.type = "INIT" /\ number > 0 /\ client_queues[number - 1] = message.text
       /\ clientQ[message.text] = <<>>
  /\ \A e \in Entry : e >= number => client_queues[e] = None
  /\ \A e \in Entry : client_queues[e] # None =>
       /\ opened[client_queues[e]] = made
       /\ parent[client_queues[e]] \notin {"start", "init"}
       /\ ~Waiting(client_queues[e])

(* Whom the present server has had an INIT from, at most one number each.  *)
Handled ==
  {c \in Clients : opened[c] = made /\ parent[c] \notin {"start", "init"} /\ ~Waiting(c)}

NumberInv == number <= Cardinality(Handled)

Base == TypeOK /\ QueueInv /\ InitInv /\ ClientInv /\ ServerInv /\ NumberInv

(* While no server has been killed, a client being served has its own      *)
(* number, or will take it from the first message of its queue ...         *)
OwnNumber(c) ==
  /\ parent[c] \in Present => id[c] \in 0 .. number - 1 /\ client_queues[id[c]] = c
  /\ parent[c] = "await" /\ clientQ[c] # <<>> =>
       Head(clientQ[c]).id \in 0 .. number - 1 /\ client_queues[Head(clientQ[c]).id] = c
  /\ parent[c] = "await" /\ clientQ[c] = <<>> => Waiting(c) \/ (server = "reply" /\ message.text = c)

(* ... and who has sent CLIENT_EXIT is gone.                               *)
ExitIsOwn(m) ==
  m.id \in 0 .. number - 1 /\ (client_queues[m.id] # None => parent[client_queues[m.id]] = "gone")

NumbersOwn == \A c \in Clients : Served(c) => OwnNumber(c)

ExitsOwn ==
  server # "off" => \A j \in 1 .. Len(serverQ[made][2]) : ExitIsOwn(serverQ[made][2][j])

OwnInv == ~crashed => (named <=> server # "off") /\ NumbersOwn /\ ExitsOwn

-----------------------------------------------------------------------------
(* Messages and queues.                                                    *)

LEMMA MessageFacts ==
  ASSUME NEW m \in Messages
  PROVE  /\ m.type = "INIT" => m.text \in Clients /\ m = Message("INIT", -1, m.text)
         /\ m.type \in {"RECEIVE_ID", "TEXT", "CLIENT_EXIT"} => m.id \in Entry
         /\ m.type = "TEXT" => m.text \in Texts
  BY DEF Messages, Message, NoMessage

LEMMA MessageTypes ==
  /\ \A c \in Clients : Message("INIT", -1, c) \in Messages
  /\ \A n \in Entry : /\ Message("RECEIVE_ID", n, None) \in Messages
                      /\ Message("CLIENT_EXIT", n, None) \in Messages
                      /\ \A t \in Texts : Message("TEXT", n, t) \in Messages
  BY DEF Messages

LEMMA TailFacts ==
  ASSUME NEW S, NEW q \in Seq(S), q # <<>>
  PROVE  /\ Tail(q) \in Seq(S) /\ Len(q) \in Nat /\ Len(q) > 0 /\ Len(Tail(q)) = Len(q) - 1
         /\ Head(q) = q[1] /\ Head(q) \in S
         /\ \A j \in 1 .. Len(Tail(q)) : Tail(q)[j] = q[j + 1]
  BY HeadTailProperties, LenProperties

LEMMA AppendFacts ==
  ASSUME NEW S, NEW q \in Seq(S), NEW m \in S
  PROVE  /\ Append(q, m) \in Seq(S) /\ Len(q) \in Nat /\ Len(Append(q, m)) = Len(q) + 1
         /\ Append(q, m)[Len(q) + 1] = m
         /\ \A j \in 1 .. Len(q) : Append(q, m)[j] = q[j]
         /\ Append(q, m) # <<>> /\ Head(Append(q, m)) = IF q = <<>> THEN m ELSE Head(q)
<1>1. /\ Append(q, m) \in Seq(S) /\ Len(q) \in Nat /\ Len(Append(q, m)) = Len(q) + 1
      /\ Append(q, m)[Len(q) + 1] = m
      /\ \A j \in 1 .. Len(q) : Append(q, m)[j] = q[j]
  BY AppendProperties, LenProperties
<1>2. Append(q, m) # <<>> /\ Head(Append(q, m)) = Append(q, m)[1]
  BY <1>1
<1>3. CASE q = <<>>
  BY <1>1, <1>2, <1>3
<1>4. CASE q # <<>>
  <2>1. Len(q) > 0 /\ Head(q) = q[1]
    BY <1>4, TailFacts
  <2> QED  BY <1>1, <1>2, <1>4, <2>1
<1> QED  BY <1>1, <1>2, <1>3, <1>4

LEMMA QueueType ==
  ASSUME TypeOK
  PROVE  /\ made \in Nat /\ \A c \in Clients : opened[c] \in Nat
         /\ \A g \in Queues, p \in {1, 2} :
              serverQ[g][p] \in Seq(Messages) /\ Len(serverQ[g][p]) \in Nat
<1>1. made \in Nat /\ \A c \in Clients : opened[c] \in Nat
  BY DEF TypeOK
<1>2. \A g \in Queues, p \in {1, 2} : serverQ[g][p] \in Seq(Messages)
  BY DEF TypeOK, Queues
<1> QED  BY <1>1, <1>2, LenProperties

(* What mq_receive takes from the server's queue.                          *)
Of(type) == IF type = "CLIENT_EXIT" THEN 2 ELSE 1

LEMMA ReceiveFacts ==
  ASSUME TypeOK, QueueInv, ServerInv, NEW type \in {"INIT", "TEXT", "CLIENT_EXIT"}, Receive(type)
  PROVE  /\ server = "receive" /\ made \in Queues
         /\ serverQ[made][Of(type)] # <<>> /\ message' = Head(serverQ[made][Of(type)])
         /\ serverQ' = [serverQ EXCEPT ![made][Of(type)] = Tail(@)]
         /\ message' \in Messages /\ message'.type = type
<1>1. server = "receive" /\ made \in Queues
  BY DEF Receive, ServerInv, TypeOK, Queues
<1>2. serverQ[made][1] \in Seq(Messages) /\ serverQ[made][2] \in Seq(Messages)
  BY <1>1 DEF TypeOK, Queues
<1> DEFINE p == First(serverQ[made])
<1>3. /\ p \in {1, 2} /\ serverQ[made][p] # <<>> /\ Head(serverQ[made][p]).type = type
      /\ message' = Head(serverQ[made][p])
      /\ serverQ' = [serverQ EXCEPT ![made][p] = Tail(@)]
  BY DEF Receive, First
<1> HIDE DEF p
<1>4. Head(serverQ[made][p]) \in Messages /\ Head(serverQ[made][p]) = serverQ[made][p][1]
      /\ 1 \in 1 .. Len(serverQ[made][p])
  BY <1>2, <1>3, TailFacts
<1>5. p = Of(type)
  BY <1>1, <1>3, <1>4 DEF QueueInv, Of
<1> QED  BY <1>1, <1>3, <1>4, <1>5

(* What mq_send adds to the one a client has opened.                       *)
LEMMA SendFacts ==
  ASSUME TypeOK, ClientInv, NEW c \in Clients, opened[c] > 0, NEW m \in Messages,
         m.type \in {"INIT", "TEXT", "CLIENT_EXIT"}, ToServer(c, m)
  PROVE  /\ opened[c] \in Queues /\ opened[c] <= made
         /\ serverQ' = [serverQ EXCEPT ![opened[c]][Of(m.type)] = Append(@, m)]
  BY DEF ToServer, Priority, Of, TypeOK, ClientInv, ClientFit, Queues

(* What a queue is after the server has received.                          *)
LEMMA ReceiveQueues ==
  ASSUME TypeOK, QueueInv, ServerInv, NEW type \in {"INIT", "TEXT", "CLIENT_EXIT"}, Receive(type)
  PROVE  /\ serverQ' \in [Queues -> [{1, 2} -> Seq(Messages)]]
         /\ \A g \in Queues, p \in {1, 2} :
              IF g = made /\ p = Of(type)
              THEN /\ Len(serverQ'[g][p]) = Len(serverQ[g][p]) - 1
                   /\ \A j \in 1 .. Len(serverQ'[g][p]) : serverQ'[g][p][j] = serverQ[g][p][j + 1]
              ELSE serverQ'[g][p] = serverQ[g][p]
<1>1. /\ made \in Queues /\ Of(type) \in {1, 2}
      /\ serverQ[made][Of(type)] # <<>>
      /\ serverQ' = [serverQ EXCEPT ![made][Of(type)] = Tail(@)]
  BY ReceiveFacts DEF Of
<1>2. serverQ \in [Queues -> [{1, 2} -> Seq(Messages)]]
  BY DEF TypeOK, Queues
<1>3. serverQ[made][Of(type)] \in Seq(Messages)
  BY <1>1, <1>2
<1>4. /\ Tail(serverQ[made][Of(type)]) \in Seq(Messages)
      /\ Len(Tail(serverQ[made][Of(type)])) = Len(serverQ[made][Of(type)]) - 1
      /\ \A j \in 1 .. Len(Tail(serverQ[made][Of(type)])) :
           Tail(serverQ[made][Of(type)])[j] = serverQ[made][Of(type)][j + 1]
  BY <1>1, <1>3, TailFacts
<1>5. serverQ' \in [Queues -> [{1, 2} -> Seq(Messages)]]
  BY <1>1, <1>2, <1>4
<1>6. serverQ'[made][Of(type)] = Tail(serverQ[made][Of(type)])
  BY <1>1, <1>2
<1>7. \A g \in Queues, p \in {1, 2} :
        ~(g = made /\ p = Of(type)) => serverQ'[g][p] = serverQ[g][p]
  BY <1>1, <1>2
<1> QED  BY <1>4, <1>5, <1>6, <1>7

(* And after somebody has sent to it.                                      *)
LEMMA SendQueues ==
  ASSUME TypeOK, ClientInv, NEW c \in Clients, opened[c] > 0, NEW m \in Messages,
         m.type \in {"INIT", "TEXT", "CLIENT_EXIT"}, ToServer(c, m)
  PROVE  /\ serverQ' \in [Queues -> [{1, 2} -> Seq(Messages)]]
         /\ opened[c] \in Queues /\ opened[c] <= made
         /\ \A g \in Queues, p \in {1, 2} :
              IF g = opened[c] /\ p = Of(m.type)
              THEN /\ Len(serverQ[g][p]) \in Nat
                   /\ Len(serverQ'[g][p]) = Len(serverQ[g][p]) + 1
                   /\ serverQ'[g][p][Len(serverQ[g][p]) + 1] = m
                   /\ \A j \in 1 .. Len(serverQ[g][p]) : serverQ'[g][p][j] = serverQ[g][p][j]
              ELSE serverQ'[g][p] = serverQ[g][p]
<1> DEFINE h == opened[c]
           r == Of(m.type)
<1>1. /\ h \in Queues /\ r \in {1, 2} /\ h <= made
      /\ serverQ' = [serverQ EXCEPT ![h][r] = Append(@, m)]
  BY SendFacts DEF Of
<1> HIDE DEF h, r
<1>2. serverQ \in [Queues -> [{1, 2} -> Seq(Messages)]]
  BY DEF TypeOK, Queues
<1>3. serverQ[h][r] \in Seq(Messages)
  BY <1>1, <1>2
<1>4. /\ Append(serverQ[h][r], m) \in Seq(Messages) /\ Len(serverQ[h][r]) \in Nat
      /\ Len(Append(serverQ[h][r], m)) = Len(serverQ[h][r]) + 1
      /\ Append(serverQ[h][r], m)[Len(serverQ[h][r]) + 1] = m
      /\ \A j \in 1 .. Len(serverQ[h][r]) : Append(serverQ[h][r], m)[j] = serverQ[h][r][j]
  BY <1>3, AppendFacts
<1>5. serverQ' \in [Queues -> [{1, 2} -> Seq(Messages)]]
  BY <1>1, <1>2, <1>4
<1>6. serverQ'[h][r] = Append(serverQ[h][r], m)
  BY <1>1, <1>2
<1>7. \A g \in Queues, p \in {1, 2} : ~(g = h /\ p = r) => serverQ'[g][p] = serverQ[g][p]
  BY <1>1, <1>2
<1>8. /\ Len(serverQ[h][r]) \in Nat
      /\ Len(serverQ'[h][r]) = Len(serverQ[h][r]) + 1
      /\ serverQ'[h][r][Len(serverQ[h][r]) + 1] = m
      /\ \A j \in 1 .. Len(serverQ[h][r]) : serverQ'[h][r][j] = serverQ[h][r][j]
  BY <1>4, <1>6
<1>9. \A g \in Queues, p \in {1, 2} :
         IF g = h /\ p = r
         THEN /\ Len(serverQ[g][p]) \in Nat
              /\ Len(serverQ'[g][p]) = Len(serverQ[g][p]) + 1
              /\ serverQ'[g][p][Len(serverQ[g][p]) + 1] = m
              /\ \A j \in 1 .. Len(serverQ[g][p]) : serverQ'[g][p][j] = serverQ[g][p][j]
         ELSE serverQ'[g][p] = serverQ[g][p]
  BY <1>7, <1>8
<1> QED  BY <1>1, <1>5, <1>9 DEF h, r

(* An INIT message names its client.                                       *)
LEMMA InitMessage ==
  \A c, d : Message("INIT", -1, c) = Message("INIT", -1, d) <=> c = d
  BY DEF Message

(* Receiving keeps the queues in order, and takes an INIT for good.        *)
LEMMA ReceiveInv ==
  ASSUME TypeOK, QueueInv, InitInv, ServerInv,
         NEW type \in {"INIT", "TEXT", "CLIENT_EXIT"}, Receive(type),
         made' = made, opened' = opened, parent' = parent
  PROVE  /\ QueueInv' /\ InitInv'
         /\ \A w : Waiting(w)' <=> Waiting(w) /\ ~(type = "INIT" /\ message'.text = w)
         /\ type = "INIT" => /\ Waiting(message'.text) /\ opened[message'.text] = made
                             /\ parent[message'.text] \in {"await", "gone"}
<1>1. /\ made \in Queues /\ Of(type) \in {1, 2} /\ serverQ[made][Of(type)] # <<>>
      /\ message' = Head(serverQ[made][Of(type)]) /\ message' \in Messages /\ message'.type = type
  BY ReceiveFacts DEF Of
<1>2. \A g \in Queues, p \in {1, 2} : serverQ[g][p] \in Seq(Messages) /\ Len(serverQ[g][p]) \in Nat
  BY QueueType
<1>3. Len(serverQ[made][Of(type)]) > 0 /\ message' = serverQ[made][Of(type)][1]
  BY <1>1, <1>2, TailFacts
<1>4. \A g \in Queues, p \in {1, 2} :
              IF g = made /\ p = Of(type)
              THEN /\ Len(serverQ'[g][p]) = Len(serverQ[g][p]) - 1
                   /\ \A j \in 1 .. Len(serverQ'[g][p]) : serverQ'[g][p][j] = serverQ[g][p][j + 1]
              ELSE serverQ'[g][p] = serverQ[g][p]
  BY ReceiveQueues
<1>5. \A g \in Queues, p \in {1, 2} : \A j \in 1 .. Len(serverQ'[g][p]) :
        \/ j \in 1 .. Len(serverQ[g][p]) /\ serverQ'[g][p][j] = serverQ[g][p][j]
        \/ j + 1 \in 1 .. Len(serverQ[g][p]) /\ serverQ'[g][p][j] = serverQ[g][p][j + 1]
  <2> TAKE g \in Queues, p \in {1, 2}
  <2> TAKE j \in 1 .. Len(serverQ'[g][p])
  <2>1. CASE g = made /\ p = Of(type)
    <3>1. /\ Len(serverQ'[g][p]) = Len(serverQ[g][p]) - 1
          /\ serverQ'[g][p][j] = serverQ[g][p][j + 1] /\ Len(serverQ[g][p]) \in Nat
      BY <1>2, <1>4, <2>1
    <3>2. j + 1 \in 1 .. Len(serverQ[g][p])
      BY <3>1
    <3> QED  BY <3>1, <3>2
  <2>2. CASE ~(g = made /\ p = Of(type))
    BY <1>4, <2>2
  <2> QED  BY <2>1, <2>2
<1>6. QueueInv'
  <2> SUFFICES ASSUME NEW g \in Queues
      PROVE  /\ \A j \in 1 .. Len(serverQ'[g][1]) : serverQ'[g][1][j].type \in {"INIT", "TEXT"}
             /\ \A j \in 1 .. Len(serverQ'[g][2]) : serverQ'[g][2][j].type = "CLIENT_EXIT"
             /\ g > made => serverQ'[g][1] = <<>> /\ serverQ'[g][2] = <<>>
    BY DEF QueueInv
  <2>1. g > made => serverQ'[g][1] = <<>> /\ serverQ'[g][2] = <<>>
    BY <1>1, <1>4 DEF QueueInv, Queues
  <2>2. \A j \in 1 .. Len(serverQ'[g][1]) : serverQ'[g][1][j].type \in {"INIT", "TEXT"}
    <3> TAKE j \in 1 .. Len(serverQ'[g][1])
    <3>1. \/ j \in 1 .. Len(serverQ[g][1]) /\ serverQ'[g][1][j] = serverQ[g][1][j]
          \/ j + 1 \in 1 .. Len(serverQ[g][1]) /\ serverQ'[g][1][j] = serverQ[g][1][j + 1]
      BY <1>5
    <3> QED  BY <3>1 DEF QueueInv
  <2>3. \A j \in 1 .. Len(serverQ'[g][2]) : serverQ'[g][2][j].type = "CLIENT_EXIT"
    <3> TAKE j \in 1 .. Len(serverQ'[g][2])
    <3>1. \/ j \in 1 .. Len(serverQ[g][2]) /\ serverQ'[g][2][j] = serverQ[g][2][j]
          \/ j + 1 \in 1 .. Len(serverQ[g][2]) /\ serverQ'[g][2][j] = serverQ[g][2][j + 1]
      BY <1>5
    <3> QED  BY <3>1 DEF QueueInv
  <2> QED  BY <2>1, <2>2, <2>3
<1>7. InitInv'
  <2> SUFFICES ASSUME NEW g \in Queues, NEW j \in 1 .. Len(serverQ'[g][1]),
                      serverQ'[g][1][j].type = "INIT"
      PROVE  /\ opened[serverQ'[g][1][j].text] = g
             /\ parent[serverQ'[g][1][j].text] \in {"await", "gone"}
             /\ \A k \in 1 .. Len(serverQ'[g][1]) : serverQ'[g][1][k] = serverQ'[g][1][j] => k = j
    BY DEF InitInv
  <2>1. CASE g = made /\ 1 = Of(type)
    <3>1. /\ serverQ'[g][1][j] = serverQ[g][1][j + 1] /\ j + 1 \in 1 .. Len(serverQ[g][1])
          /\ \A k \in 1 .. Len(serverQ'[g][1]) : /\ serverQ'[g][1][k] = serverQ[g][1][k + 1]
                                                 /\ k + 1 \in 1 .. Len(serverQ[g][1])
      <4>1. /\ Len(serverQ[g][1]) \in Nat /\ Len(serverQ'[g][1]) = Len(serverQ[g][1]) - 1
            /\ \A k \in 1 .. Len(serverQ'[g][1]) : serverQ'[g][1][k] = serverQ[g][1][k + 1]
        BY <1>2, <1>4, <2>1
      <4>2. \A k \in 1 .. Len(serverQ'[g][1]) : k + 1 \in 1 .. Len(serverQ[g][1])
        BY <4>1
      <4> QED  BY <4>1, <4>2
    <3> QED  BY <3>1 DEF InitInv
  <2>2. CASE ~(g = made /\ 1 = Of(type))
    BY <1>4, <2>2 DEF InitInv
  <2> QED  BY <2>1, <2>2
<1>8. type = "INIT" =>
        /\ message' = Message("INIT", -1, message'.text)
        /\ Waiting(message'.text) /\ opened[message'.text] = made
        /\ parent[message'.text] \in {"await", "gone"}
  <2> SUFFICES ASSUME type = "INIT"
               PROVE  /\ message' = Message("INIT", -1, message'.text)
                      /\ Waiting(message'.text) /\ opened[message'.text] = made
                      /\ parent[message'.text] \in {"await", "gone"}
    OBVIOUS
  <2>1. message' = Message("INIT", -1, message'.text)
    BY <1>1, MessageFacts
  <2>2. 1 \in 1 .. Len(serverQ[made][1]) /\ serverQ[made][1][1] = message'
    BY <1>2, <1>1, <1>3 DEF Of
  <2> QED  BY <1>1, <2>1, <2>2 DEF Waiting, InitInv
<1>9. ASSUME NEW c PROVE Waiting(c)' <=> Waiting(c) /\ ~(type = "INIT" /\ message'.text = c)
  <2>1. ASSUME Waiting(c)' PROVE Waiting(c) /\ ~(type = "INIT" /\ message'.text = c)
    <3>1. PICK g \in Queues : \E j \in 1 .. Len(serverQ'[g][1]) : serverQ'[g][1][j] = Message("INIT", -1, c)
      BY <2>1 DEF Waiting
    <3>2. PICK j \in 1 .. Len(serverQ'[g][1]) : serverQ'[g][1][j] = Message("INIT", -1, c)
      BY <3>1
    <3>3. Waiting(c)
      BY <1>5, <3>2 DEF Waiting
    <3>4. ASSUME type = "INIT", message'.text = c PROVE FALSE
      <4>1. opened[c] = made /\ serverQ[made][1][1] = Message("INIT", -1, c)
            /\ 1 \in 1 .. Len(serverQ[made][1]) /\ Of(type) = 1
        BY <1>2, <1>1, <1>3, <1>8, <3>4 DEF Of
      <4>2. serverQ'[g][1][j].type = "INIT" /\ serverQ'[g][1][j].text = c
        BY <3>2 DEF Message
      <4>3. g = made
        BY <1>7, <4>1, <4>2 DEF InitInv
      <4>4. serverQ[made][1][j + 1] = Message("INIT", -1, c) /\ j + 1 \in 1 .. Len(serverQ[made][1])
        BY <1>2, <1>4, <3>2, <4>1, <4>3
      <4>5. serverQ[made][1][1].type = "INIT"
        BY <4>1 DEF Message
      <4>6. j + 1 = 1
        BY <1>1, <4>1, <4>4, <4>5 DEF InitInv
      <4> QED  BY <4>6
    <3> QED  BY <3>3, <3>4
  <2>2. ASSUME Waiting(c), ~(type = "INIT" /\ message'.text = c) PROVE Waiting(c)'
    <3>1. PICK g \in Queues : \E j \in 1 .. Len(serverQ[g][1]) : serverQ[g][1][j] = Message("INIT", -1, c)
      BY <2>2 DEF Waiting
    <3>2. PICK j \in 1 .. Len(serverQ[g][1]) : serverQ[g][1][j] = Message("INIT", -1, c)
      BY <3>1
    <3>3. CASE g = made /\ 1 = Of(type)
      <4>1. j # 1
        BY <1>1, <1>3, <2>2, <3>2, <3>3 DEF Message
      <4>2. j - 1 \in 1 .. Len(serverQ'[g][1]) /\ (j - 1) + 1 = j
        BY <1>2, <1>4, <3>3, <4>1
      <4>3. serverQ'[g][1][j - 1] = serverQ[g][1][(j - 1) + 1]
        BY <1>4, <3>3, <4>2
      <4> QED  BY <3>2, <4>2, <4>3 DEF Waiting
    <3>4. CASE ~(g = made /\ 1 = Of(type))
      BY <1>4, <3>2, <3>4 DEF Waiting
    <3> QED  BY <3>3, <3>4
  <2> QED  BY <2>1, <2>2
<1> QED  BY <1>6, <1>7, <1>8, <1>9

(* So does sending; a client that sends INIT waits.                        *)
LEMMA SendInv ==
  ASSUME TypeOK, QueueInv, InitInv, ClientInv, NEW c \in Clients, opened[c] > 0, NEW m \in Messages,
         m.type \in {"TEXT", "CLIENT_EXIT"} \/ m = Message("INIT", -1, c), ToServer(c, m),
         m.type = "INIT" => parent[c] = "init" /\ parent'[c] = "await",
         m.type # "INIT" => parent[c] \in {"sending", "bye"},
         \A d \in Clients \ {c} : parent'[d] = parent[d], made' = made, opened' = opened
  PROVE  /\ QueueInv' /\ InitInv'
         /\ \A d : Waiting(d)' <=> Waiting(d) \/ (m.type = "INIT" /\ d = c)
<1>1. m.type \in {"INIT", "TEXT", "CLIENT_EXIT"}
  BY DEF Message
<1>2. /\ opened[c] \in Queues /\ opened[c] <= made
      /\ \A g \in Queues, p \in {1, 2} :
              IF g = opened[c] /\ p = Of(m.type)
              THEN /\ Len(serverQ[g][p]) \in Nat
                   /\ Len(serverQ'[g][p]) = Len(serverQ[g][p]) + 1
                   /\ serverQ'[g][p][Len(serverQ[g][p]) + 1] = m
                   /\ \A j \in 1 .. Len(serverQ[g][p]) : serverQ'[g][p][j] = serverQ[g][p][j]
              ELSE serverQ'[g][p] = serverQ[g][p]
  BY <1>1, SendQueues
<1>3. \A g \in Queues, p \in {1, 2} : Len(serverQ[g][p]) \in Nat
  BY QueueType
<1>4. \A g \in Queues, p \in {1, 2} : \A j \in 1 .. Len(serverQ'[g][p]) :
        \/ j \in 1 .. Len(serverQ[g][p]) /\ serverQ'[g][p][j] = serverQ[g][p][j]
        \/ /\ j = Len(serverQ[g][p]) + 1 /\ serverQ'[g][p][j] = m
           /\ g = opened[c] /\ p = Of(m.type)
  <2> TAKE g \in Queues, p \in {1, 2}
  <2> TAKE j \in 1 .. Len(serverQ'[g][p])
  <2>1. CASE g = opened[c] /\ p = Of(m.type)
    <3>1. /\ Len(serverQ[g][p]) \in Nat
          /\ Len(serverQ'[g][p]) = Len(serverQ[g][p]) + 1
          /\ serverQ'[g][p][Len(serverQ[g][p]) + 1] = m
          /\ \A k \in 1 .. Len(serverQ[g][p]) : serverQ'[g][p][k] = serverQ[g][p][k]
      BY <1>2, <2>1
    <3>2. j \in 1 .. Len(serverQ[g][p]) \/ j = Len(serverQ[g][p]) + 1
      BY <3>1
    <3> QED  BY <2>1, <3>1, <3>2
  <2>2. CASE ~(g = opened[c] /\ p = Of(m.type))
    BY <1>2, <2>2
  <2> QED  BY <2>1, <2>2
<1>5. \A g \in Queues, p \in {1, 2} : \A j \in 1 .. Len(serverQ[g][p]) :
        j \in 1 .. Len(serverQ'[g][p]) /\ serverQ'[g][p][j] = serverQ[g][p][j]
  <2> TAKE g \in Queues, p \in {1, 2}
  <2> TAKE j \in 1 .. Len(serverQ[g][p])
  <2>1. CASE g = opened[c] /\ p = Of(m.type)
    <3>1. /\ Len(serverQ[g][p]) \in Nat
          /\ Len(serverQ'[g][p]) = Len(serverQ[g][p]) + 1
          /\ \A k \in 1 .. Len(serverQ[g][p]) : serverQ'[g][p][k] = serverQ[g][p][k]
      BY <1>2, <2>1
    <3> QED  BY <3>1
  <2>2. CASE ~(g = opened[c] /\ p = Of(m.type))
    BY <1>2, <2>2
  <2> QED  BY <2>1, <2>2
<1>6. QueueInv'
  <2> SUFFICES ASSUME NEW g \in Queues
      PROVE  /\ \A j \in 1 .. Len(serverQ'[g][1]) : serverQ'[g][1][j].type \in {"INIT", "TEXT"}
             /\ \A j \in 1 .. Len(serverQ'[g][2]) : serverQ'[g][2][j].type = "CLIENT_EXIT"
             /\ g > made => serverQ'[g][1] = <<>> /\ serverQ'[g][2] = <<>>
    BY DEF QueueInv
  <2>1. g > made => serverQ'[g][1] = <<>> /\ serverQ'[g][2] = <<>>
    <3> SUFFICES ASSUME g > made PROVE serverQ'[g][1] = <<>> /\ serverQ'[g][2] = <<>>
      OBVIOUS
    <3>1. g # opened[c]
      BY <1>2, QueueType DEF Queues
    <3> QED  BY <1>2, <3>1 DEF QueueInv
  <2>2. \A j \in 1 .. Len(serverQ'[g][1]) : serverQ'[g][1][j].type \in {"INIT", "TEXT"}
    <3> TAKE j \in 1 .. Len(serverQ'[g][1])
    <3>1. \/ j \in 1 .. Len(serverQ[g][1]) /\ serverQ'[g][1][j] = serverQ[g][1][j]
          \/ serverQ'[g][1][j] = m /\ 1 = Of(m.type)
      BY <1>4
    <3> QED  BY <1>1, <3>1 DEF QueueInv, Of
  <2>3. \A j \in 1 .. Len(serverQ'[g][2]) : serverQ'[g][2][j].type = "CLIENT_EXIT"
    <3> TAKE j \in 1 .. Len(serverQ'[g][2])
    <3>1. \/ j \in 1 .. Len(serverQ[g][2]) /\ serverQ'[g][2][j] = serverQ[g][2][j]
          \/ serverQ'[g][2][j] = m /\ 2 = Of(m.type)
      BY <1>4
    <3> QED  BY <1>1, <3>1 DEF QueueInv, Of
  <2> QED  BY <2>1, <2>2, <2>3
<1>7. \A g \in Queues : \A j \in 1 .. Len(serverQ[g][1]) : serverQ[g][1][j].type = "INIT" =>
        serverQ[g][1][j] \in Messages /\ serverQ[g][1][j].text \in Clients
        /\ serverQ[g][1][j] = Message("INIT", -1, serverQ[g][1][j].text)
  <2> TAKE g \in Queues
  <2> TAKE j \in 1 .. Len(serverQ[g][1])
  <2>1. serverQ[g][1] \in Seq(Messages)
    BY QueueType
  <2>2. serverQ[g][1][j] \in Messages
    BY <2>1, ElementOfSeq
  <2> QED  BY <2>2, MessageFacts
<1>8. ASSUME NEW g \in Queues, NEW j \in 1 .. Len(serverQ'[g][1]), serverQ'[g][1][j].type = "INIT"
      PROVE  /\ opened[serverQ'[g][1][j].text] = g
             /\ parent'[serverQ'[g][1][j].text] \in {"await", "gone"}
             /\ \A k \in 1 .. Len(serverQ'[g][1]) : serverQ'[g][1][k] = serverQ'[g][1][j] => k = j
  <2>1. CASE j \in 1 .. Len(serverQ[g][1]) /\ serverQ'[g][1][j] = serverQ[g][1][j]
    <3> DEFINE d == serverQ[g][1][j].text
    <3>1. /\ opened[d] = g /\ parent[d] \in {"await", "gone"} /\ d \in Clients
          /\ \A k \in 1 .. Len(serverQ[g][1]) : serverQ[g][1][k] = serverQ[g][1][j] => k = j
      BY <1>7, <1>8, <2>1 DEF InitInv
    <3>2. d # c
      <4>1. parent[c] \in {"init", "sending", "bye"}
        OBVIOUS
      <4> QED  BY <3>1, <4>1
    <3>3. m # serverQ[g][1][j]
      <4>1. m.type = "INIT" => m.text = c
        BY DEF Message
      <4> QED  BY <1>8, <2>1, <3>2, <4>1
    <3>4. \A k \in 1 .. Len(serverQ'[g][1]) : serverQ'[g][1][k] = serverQ'[g][1][j] => k = j
      <4> TAKE k \in 1 .. Len(serverQ'[g][1])
      <4>1. \/ k \in 1 .. Len(serverQ[g][1]) /\ serverQ'[g][1][k] = serverQ[g][1][k]
            \/ serverQ'[g][1][k] = m
        BY <1>4
      <4> QED  BY <2>1, <3>1, <3>3, <4>1
    <3> QED  BY <2>1, <3>1, <3>2, <3>4
  <2>2. CASE j = Len(serverQ[g][1]) + 1 /\ serverQ'[g][1][j] = m /\ g = opened[c] /\ 1 = Of(m.type)
    <3>1. m = Message("INIT", -1, c) /\ m.text = c /\ m.type = "INIT"
      BY <1>8, <2>2 DEF Message
    <3>2. parent[c] = "init" /\ parent'[c] = "await"
      BY <3>1
    <3>3. \A k \in 1 .. Len(serverQ[g][1]) : serverQ[g][1][k] # m
      BY <3>1, <3>2 DEF InitInv
    <3>4. \A k \in 1 .. Len(serverQ'[g][1]) : serverQ'[g][1][k] = serverQ'[g][1][j] => k = j
      <4> TAKE k \in 1 .. Len(serverQ'[g][1])
      <4>1. \/ k \in 1 .. Len(serverQ[g][1]) /\ serverQ'[g][1][k] = serverQ[g][1][k]
            \/ k = Len(serverQ[g][1]) + 1
        BY <1>4
      <4> QED  BY <2>2, <3>3, <4>1
    <3> QED  BY <2>2, <3>1, <3>2, <3>4
  <2> QED  BY <1>4, <2>1, <2>2
<1>9. InitInv'
  BY <1>8 DEF InitInv
<1>10. ASSUME NEW d PROVE Waiting(d)' <=> Waiting(d) \/ (m.type = "INIT" /\ d = c)
  <2>1. ASSUME Waiting(d)' PROVE Waiting(d) \/ (m.type = "INIT" /\ d = c)
    <3>1. PICK g \in Queues : \E j \in 1 .. Len(serverQ'[g][1]) : serverQ'[g][1][j] = Message("INIT", -1, d)
      BY <2>1 DEF Waiting
    <3>2. PICK j \in 1 .. Len(serverQ'[g][1]) : serverQ'[g][1][j] = Message("INIT", -1, d)
      BY <3>1
    <3>3. CASE j \in 1 .. Len(serverQ[g][1]) /\ serverQ'[g][1][j] = serverQ[g][1][j]
      BY <3>2, <3>3 DEF Waiting
    <3>4. CASE serverQ'[g][1][j] = m
      BY <3>2, <3>4 DEF Message
    <3> QED  BY <1>4, <3>3, <3>4
  <2>2. ASSUME Waiting(d) PROVE Waiting(d)'
    BY <1>5, <2>2 DEF Waiting
  <2>3. ASSUME m.type = "INIT" PROVE Waiting(c)'
    <3>1. m = Message("INIT", -1, c) /\ Of(m.type) = 1
      BY <2>3 DEF Of
    <3>2. /\ Len(serverQ[opened[c]][1]) \in Nat
          /\ Len(serverQ'[opened[c]][1]) = Len(serverQ[opened[c]][1]) + 1
          /\ serverQ'[opened[c]][1][Len(serverQ[opened[c]][1]) + 1] = m
      BY <1>2, <3>1
    <3>3. Len(serverQ[opened[c]][1]) + 1 \in 1 .. Len(serverQ'[opened[c]][1])
      BY <3>2
    <3> QED  BY <1>2, <3>1, <3>2, <3>3 DEF Waiting
  <2> QED  BY <2>1, <2>2, <2>3
<1> QED  BY <1>6, <1>9, <1>10

(* A step that leaves the queues alone, and the clients whose INIT is      *)
(* there.                                                                  *)
LEMMA QueuesStay ==
  ASSUME TypeOK, QueueInv, InitInv, serverQ' = serverQ, made' \in Nat, made' >= made,
         \A c \in Clients : parent[c] \in {"await", "gone"} /\ Waiting(c) =>
           opened'[c] = opened[c] /\ parent'[c] \in {"await", "gone"}
  PROVE  QueueInv' /\ InitInv' /\ \A w : Waiting(w)' <=> Waiting(w)
<1>1. QueueInv'
  BY DEF QueueInv, TypeOK, Queues
<1>2. ASSUME NEW g \in Queues, NEW j \in 1 .. Len(serverQ[g][1]), serverQ[g][1][j].type = "INIT"
      PROVE  /\ opened'[serverQ[g][1][j].text] = g
             /\ parent'[serverQ[g][1][j].text] \in {"await", "gone"}
             /\ \A k \in 1 .. Len(serverQ[g][1]) : serverQ[g][1][k] = serverQ[g][1][j] => k = j
  <2>1. serverQ[g][1] \in Seq(Messages)
    BY QueueType
  <2>2. serverQ[g][1][j] \in Messages
    BY <2>1, ElementOfSeq
  <2>3. /\ serverQ[g][1][j].text \in Clients
        /\ serverQ[g][1][j] = Message("INIT", -1, serverQ[g][1][j].text)
    BY <1>2, <2>2, MessageFacts
  <2>4. Waiting(serverQ[g][1][j].text)
    BY <2>3 DEF Waiting
  <2> QED  BY <1>2, <2>3, <2>4 DEF InitInv
<1>3. InitInv'
  BY <1>2 DEF InitInv
<1> QED  BY <1>1, <1>3 DEF Waiting

-----------------------------------------------------------------------------
(* One number for each client that has been handled, so never more numbers *)
(* than there are entries.                                                 *)

LEMMA ClosedType ==
  ASSUME MqChatAssumption
  PROVE  Closed \in [Entry -> Clients \cup {None}] /\ 0 \in 0 .. MaxClients
  BY DEF MqChatAssumption, Closed

LEMMA HandledFinite ==
  ASSUME MqChatAssumption
  PROVE  /\ IsFiniteSet(Handled) /\ Cardinality(Handled) \in Nat
         /\ Cardinality(Handled) <= MaxClients
<1>1. IsFiniteSet(Clients) /\ Handled \subseteq Clients /\ MaxClients \in Nat
      /\ Cardinality(Clients) <= MaxClients
  BY FS_CardinalityType DEF MqChatAssumption, Handled
<1>2. IsFiniteSet(Handled) /\ Cardinality(Handled) <= Cardinality(Clients)
  BY <1>1, FS_Subset
<1> QED  BY <1>1, <1>2, FS_CardinalityType

LEMMA NumberStays ==
  ASSUME MqChatAssumption, TypeOK, NumberInv,
         number' = 0 \/ (number' = number /\ Handled \subseteq Handled')
  PROVE  NumberInv'
<1>1. IsFiniteSet(Handled)' /\ Cardinality(Handled)' \in Nat
  <2>1. IsFiniteSet(Clients) /\ Handled' \subseteq Clients
    BY DEF MqChatAssumption, Handled
  <2> QED  BY <2>1, FS_Subset, FS_CardinalityType
<1>2. CASE number' = 0
  BY <1>1, <1>2 DEF NumberInv
<1>3. CASE number' = number /\ Handled \subseteq Handled'
  <2>1. Cardinality(Handled) <= Cardinality(Handled')
    BY <1>1, <1>3, FS_Subset
  <2>2. Cardinality(Handled) \in Nat /\ number \in Nat
    BY HandledFinite DEF TypeOK
  <2> QED  BY <1>1, <1>3, <2>1, <2>2 DEF NumberInv
<1> QED  BY <1>2, <1>3

LEMMA NumberGrows ==
  ASSUME MqChatAssumption, TypeOK, NumberInv, NEW c \in Clients, c \notin Handled, c \in Handled',
         Handled \subseteq Handled'
  PROVE  /\ number + 1 <= MaxClients
         /\ number' = number + 1 => NumberInv'
<1>1. IsFiniteSet(Clients) /\ Handled' \subseteq Clients /\ MaxClients \in Nat
      /\ Cardinality(Clients) <= MaxClients /\ Cardinality(Clients) \in Nat
  BY FS_CardinalityType DEF MqChatAssumption, Handled
<1>2. IsFiniteSet(Handled') /\ Cardinality(Handled') <= Cardinality(Clients) /\ Cardinality(Handled') \in Nat
  BY <1>1, FS_Subset, FS_CardinalityType
<1>3. IsFiniteSet(Handled) /\ Cardinality(Handled) \in Nat /\ number \in Nat
  BY HandledFinite DEF TypeOK
<1>4. Cardinality(Handled \cup {c}) = Cardinality(Handled) + 1
  BY <1>3, FS_AddElement
<1>5. Cardinality(Handled \cup {c}) <= Cardinality(Handled')
  <2>1. (Handled \cup {c}) \subseteq Handled'
    OBVIOUS
  <2> QED  BY <1>2, <2>1, FS_Subset
<1>6. number + 1 <= Cardinality(Handled')
  BY <1>2, <1>3, <1>4, <1>5 DEF NumberInv
<1> QED  BY <1>1, <1>2, <1>3, <1>6 DEF NumberInv

-----------------------------------------------------------------------------
(* A step of one client leaves the others, and what the server knows of    *)
(* those it has handled, as they are.                                      *)

Unmoved(c) ==
  /\ parent'[c] = parent[c] /\ listener'[c] = listener[c] /\ opened'[c] = opened[c]
  /\ linked'[c] = linked[c] /\ id'[c] = id[c] /\ line'[c] = line[c] /\ clientQ'[c] = clientQ[c]

(* A client that a step leaves alone still has what it needs.              *)
LEMMA UnmovedFits ==
  ASSUME NEW c \in Clients, ClientFit(c), Unmoved(c), made' = made, Waiting(c)' => Waiting(c)
  PROVE  ClientFit(c)'
<1>1. opened'[c] <= made'
  BY DEF ClientFit, Unmoved
<1>2. /\ parent'[c] \in {"init", "await"} \cup Present => opened'[c] > 0 /\ linked'[c]
      /\ parent'[c] \in Present => id'[c] \in Entry
      /\ parent'[c] = "sending" => line'[c] \in Texts
      /\ parent'[c] \in {"start", "init", "await"} => listener'[c] = "none"
  BY DEF ClientFit, Unmoved
<1>3. /\ \A j \in 1 .. Len(clientQ'[c]) : clientQ'[c][j].type \in {"RECEIVE_ID", "TEXT"}
      /\ parent'[c] \in {"start", "init"} \/ Waiting(c)' => clientQ'[c] = <<>>
  BY DEF ClientFit, Unmoved
<1> QED  BY <1>1, <1>2, <1>3 DEF ClientFit

(* So after a step of c it is enough to look at c.                         *)
LEMMA ClientsStay ==
  ASSUME ClientInv, NEW c \in Clients, made' = made, ClientFit(c)',
         \A d \in Clients \ {c} : Unmoved(d) /\ (Waiting(d)' => Waiting(d))
  PROVE  ClientInv'
<1> SUFFICES ASSUME NEW d \in Clients, d # c PROVE ClientFit(d)'
  BY DEF ClientInv
<1>1. ClientFit(d)
  BY DEF ClientInv
<1> QED  BY <1>1, UnmovedFits

(* What the server has is not touched by a step of a client.               *)
LEMMA ServerStays ==
  ASSUME TypeOK, ServerInv,
         server' = server, message' = message, number' = number,
         client_queues' = client_queues, made' = made, clientQ' = clientQ,
         \A d \in Clients : parent[d] \notin {"start", "init"} =>
           /\ opened'[d] = opened[d] /\ parent'[d] \notin {"start", "init"}
           /\ Waiting(d)' => Waiting(d)
  PROVE  ServerInv'
<1>1. ASSUME NEW e \in Entry, NEW c, c = client_queues[e], c # None
      PROVE  opened'[c] = made /\ parent'[c] \notin {"start", "init"} /\ ~Waiting(c)'
  <2>1. c \in Clients
    BY <1>1 DEF TypeOK
  <2>2. opened[c] = made /\ parent[c] \notin {"start", "init"} /\ ~Waiting(c)
    BY <1>1 DEF ServerInv
  <2> QED  BY <2>1, <2>2
<1>2. ASSUME NEW e \in Entry, client_queues'[e] # None
      PROVE  /\ opened'[client_queues'[e]] = made'
             /\ parent'[client_queues'[e]] \notin {"start", "init"}
             /\ ~Waiting(client_queues[e])'
  <2>1. PICK c : c = client_queues'[e]
    OBVIOUS
  <2>2. opened'[c] = made /\ parent'[c] \notin {"start", "init"} /\ ~Waiting(c)'
    BY <1>1, <1>2, <2>1
  <2> QED  BY <2>1, <2>2
<1> QED  BY <1>2 DEF ServerInv

-----------------------------------------------------------------------------
(* Every step keeps Base: first those of the server.                       *)

LEMMA ServerStartBase ==
  ASSUME MqChatAssumption, Base, ServerStart
  PROVE  Base'
<1> USE DEF Base
<1>1. TypeOK'
  <2>1. made' \in 0 .. ServerRuns /\ named' \in BOOLEAN /\ (named' => made' > 0)
    <3>1. named \in BOOLEAN /\ made \in 0 .. ServerRuns /\ ServerRuns \in Nat /\ (named => made > 0)
      BY DEF TypeOK, MqChatAssumption
    <3>2. IF named THEN named' = named /\ made' = made
                   ELSE made < ServerRuns /\ made' = made + 1 /\ named' = TRUE
      BY DEF ServerStart, nameVars
    <3>3. CASE named
      BY <3>1, <3>2, <3>3
    <3>4. CASE ~named
      <4>1. made' \in 0 .. ServerRuns /\ made' > 0
        BY <3>1, <3>2, <3>4
      <4>2. named' = TRUE
        BY <3>2, <3>4
      <4> QED  BY <4>1, <4>2
    <3> QED  BY <3>3, <3>4
  <2>2. client_queues' \in [Entry -> Clients \cup {None}] /\ number' \in 0 .. MaxClients
    BY ClosedType DEF ServerStart
  <2> QED  BY <2>1, <2>2 DEF TypeOK, ServerStart, clientVars
<1>2. QueueInv' /\ InitInv' /\ \A w : Waiting(w)' <=> Waiting(w)
  <2>1. /\ serverQ' = serverQ /\ made' \in Nat /\ made' >= made
        /\ \A w \in Clients : parent[w] \in {"await", "gone"} /\ Waiting(w) =>
             opened'[w] = opened[w] /\ parent'[w] \in {"await", "gone"}
    BY DEF ServerStart, TypeOK, clientVars, nameVars
  <2> QED  BY <2>1, QueuesStay
<1>3. ClientInv'
  <2>1. \A c \in Clients : opened'[c] <= made'
    BY <1>1 DEF ClientInv, ClientFit, ServerStart, clientVars, nameVars, TypeOK
  <2>2. /\ parent' = parent /\ listener' = listener /\ opened' = opened /\ linked' = linked
        /\ id' = id /\ line' = line /\ clientQ' = clientQ
    BY DEF ServerStart, clientVars
  <2> QED  BY <1>2, <2>1, <2>2 DEF ClientInv, ClientFit
<1>4. ServerInv'
  BY <1>2 DEF ServerInv, ServerStart, clientVars, nameVars, TypeOK, Closed
<1>5. NumberInv'
  <2>1. number' = 0
    BY DEF ServerStart
  <2> QED  BY <2>1, NumberStays
<1> QED  BY <1>1, <1>2, <1>3, <1>4, <1>5

LEMMA ServerEndBase ==
  ASSUME MqChatAssumption, Base, Interrupted \/ Crash
  PROVE  Base'
<1> USE DEF Base
<1>1. TypeOK'
  <2>1. made' \in 0 .. ServerRuns /\ named' \in BOOLEAN /\ (named' => made' > 0) /\ crashed' \in BOOLEAN
    <3>1. named \in BOOLEAN /\ crashed \in BOOLEAN /\ made \in 0 .. ServerRuns /\ (named => made > 0)
      BY DEF TypeOK
    <3>2. CASE Interrupted
      <4>1. made' = made /\ named' = FALSE /\ crashed' = crashed
        BY <3>2 DEF Interrupted
      <4> QED  BY <3>1, <4>1
    <3>3. CASE Crash
      <4>1. made' = made /\ named' = named /\ crashed' = TRUE
        BY <3>3 DEF Crash, nameVars
      <4> QED  BY <3>1, <4>1
    <3> QED  BY <3>2, <3>3
  <2>2. client_queues' \in [Entry -> Clients \cup {None}] /\ number' \in 0 .. MaxClients
    BY ClosedType DEF Interrupted, Crash, Gone
  <2> QED  BY <2>1, <2>2 DEF TypeOK, Interrupted, Crash, Gone, clientVars
<1>2. QueueInv' /\ InitInv' /\ \A w : Waiting(w)' <=> Waiting(w)
  <2>1. /\ serverQ' = serverQ /\ made' \in Nat /\ made' >= made
        /\ \A w \in Clients : parent[w] \in {"await", "gone"} /\ Waiting(w) =>
             opened'[w] = opened[w] /\ parent'[w] \in {"await", "gone"}
    BY DEF Interrupted, Crash, TypeOK, clientVars, nameVars
  <2> QED  BY <2>1, QueuesStay
<1>3. ClientInv'
  <2>1. made' = made /\ \A c \in Clients : Unmoved(c)
    BY DEF Interrupted, Crash, clientVars, nameVars, Unmoved
  <2> QED  BY <1>2, <2>1, UnmovedFits DEF ClientInv
<1>4. ServerInv'
  BY <1>2 DEF ServerInv, Interrupted, Crash, Gone, clientVars, nameVars, TypeOK, Closed
<1>5. NumberInv'
  <2>1. number' = 0
    BY DEF Interrupted, Crash, Gone
  <2> QED  BY <2>1, NumberStays
<1> QED  BY <1>1, <1>2, <1>3, <1>4, <1>5

LEMMA BroadcastDoneBase ==
  ASSUME MqChatAssumption, Base, BroadcastDone
  PROVE  Base'
<1> USE DEF Base
<1>1. TypeOK'
  BY DEF TypeOK, BroadcastDone, clientVars, nameVars
<1>2. QueueInv' /\ InitInv' /\ \A w : Waiting(w)' <=> Waiting(w)
  <2>1. /\ serverQ' = serverQ /\ made' \in Nat /\ made' >= made
        /\ \A w \in Clients : parent[w] \in {"await", "gone"} /\ Waiting(w) =>
             opened'[w] = opened[w] /\ parent'[w] \in {"await", "gone"}
    BY DEF BroadcastDone, TypeOK, clientVars, nameVars
  <2> QED  BY <2>1, QueuesStay
<1>3. ClientInv'
  BY <1>2 DEF ClientInv, ClientFit, BroadcastDone, clientVars, nameVars, TypeOK, Present
<1>4. ServerInv'
  BY <1>2 DEF ServerInv, BroadcastDone, clientVars, nameVars, TypeOK
<1>5. NumberInv'
  <2>1. number' = number /\ Handled \subseteq Handled'
    BY <1>2 DEF BroadcastDone, Handled, clientVars, nameVars
  <2> QED  BY <2>1, NumberStays
<1> QED  BY <1>1, <1>2, <1>3, <1>4, <1>5

(* A message that goes to the queue of a client which is known or is being *)
(* made known.                                                             *)
LEMMA ToClientFacts ==
  ASSUME TypeOK, NEW c \in Clients, NEW m \in Messages, m.type \in {"RECEIVE_ID", "TEXT"}, ToClient(c, m)
  PROVE  /\ clientQ' \in [Clients -> Seq(Messages)]
         /\ \A d \in Clients \ {c} : clientQ'[d] = clientQ[d]
         /\ clientQ'[c] = Append(clientQ[c], m)
         /\ clientQ'[c] # <<>>
         /\ Head(clientQ'[c]) = IF clientQ[c] = <<>> THEN m ELSE Head(clientQ[c])
         /\ (\A j \in 1 .. Len(clientQ[c]) : clientQ[c][j].type \in {"RECEIVE_ID", "TEXT"}) =>
               \A j \in 1 .. Len(clientQ'[c]) : clientQ'[c][j].type \in {"RECEIVE_ID", "TEXT"}
<1>1. clientQ \in [Clients -> Seq(Messages)] /\ clientQ' = [clientQ EXCEPT ![c] = Append(@, m)]
  BY DEF TypeOK, ToClient
<1>2. clientQ[c] \in Seq(Messages)
  BY <1>1
<1>3. /\ Append(clientQ[c], m) \in Seq(Messages) /\ Len(clientQ[c]) \in Nat
      /\ Len(Append(clientQ[c], m)) = Len(clientQ[c]) + 1
      /\ Append(clientQ[c], m)[Len(clientQ[c]) + 1] = m
      /\ \A j \in 1 .. Len(clientQ[c]) : Append(clientQ[c], m)[j] = clientQ[c][j]
      /\ Append(clientQ[c], m) # <<>>
      /\ Head(Append(clientQ[c], m)) = IF clientQ[c] = <<>> THEN m ELSE Head(clientQ[c])
  BY <1>2, AppendFacts
<1>4. /\ clientQ'[c] = Append(clientQ[c], m) /\ clientQ' \in [Clients -> Seq(Messages)]
      /\ \A d \in Clients \ {c} : clientQ'[d] = clientQ[d]
  BY <1>1, <1>3
<1>5. ASSUME \A j \in 1 .. Len(clientQ[c]) : clientQ[c][j].type \in {"RECEIVE_ID", "TEXT"},
             NEW j \in 1 .. Len(clientQ'[c])
      PROVE  clientQ'[c][j].type \in {"RECEIVE_ID", "TEXT"}
  <2>1. j \in 1 .. Len(clientQ[c]) \/ j = Len(clientQ[c]) + 1
    BY <1>3, <1>4
  <2> QED  BY <1>3, <1>4, <1>5, <2>1
<1> QED  BY <1>3, <1>4, <1>5

LEMMA SendIdBase ==
  ASSUME MqChatAssumption, Base, SendId
  PROVE  Base'
<1> USE DEF Base
<1> DEFINE c == message.text
           m == Message("RECEIVE_ID", number - 1, None)
<1>a. c \in Clients /\ parent[c] \notin {"start", "init"} /\ ~Waiting(c) /\ number - 1 \in Entry
  <2>1. message \in Messages /\ message.type = "INIT" /\ number - 1 \in Entry /\ client_queues[number - 1] = c
    BY DEF SendId, ServerInv, TypeOK, Entry
  <2>2. c \in Clients
    BY <2>1, MessageFacts
  <2> QED  BY <2>1, <2>2 DEF ServerInv, MqChatAssumption
<1>m. m \in Messages /\ m.type = "RECEIVE_ID" /\ ToClient(c, m)
  BY <1>a, MessageTypes DEF Message, SendId
<1> HIDE DEF c, m
<1>b. /\ clientQ' \in [Clients -> Seq(Messages)]
      /\ \A d \in Clients \ {c} : clientQ'[d] = clientQ[d]
      /\ (\A j \in 1 .. Len(clientQ[c]) : clientQ[c][j].type \in {"RECEIVE_ID", "TEXT"}) =>
            \A j \in 1 .. Len(clientQ'[c]) : clientQ'[c][j].type \in {"RECEIVE_ID", "TEXT"}
  BY <1>a, <1>m, ToClientFacts
<1>1. TypeOK'
  BY <1>b DEF TypeOK, SendId, clientVars, nameVars
<1>2. QueueInv' /\ InitInv' /\ \A w : Waiting(w)' <=> Waiting(w)
  <2>1. /\ serverQ' = serverQ /\ made' \in Nat /\ made' >= made
        /\ \A w \in Clients : parent[w] \in {"await", "gone"} /\ Waiting(w) =>
             opened'[w] = opened[w] /\ parent'[w] \in {"await", "gone"}
    BY DEF SendId, TypeOK, clientVars, nameVars
  <2> QED  BY <2>1, QueuesStay
<1>3. ClientInv'
  BY <1>a, <1>b, <1>2 DEF ClientInv, ClientFit, SendId, clientVars, nameVars, Present
<1>4. ServerInv'
  BY <1>2 DEF ServerInv, SendId, clientVars, nameVars
<1>5. NumberInv'
  <2>1. number' = number /\ Handled \subseteq Handled'
    BY <1>2 DEF SendId, Handled, clientVars, nameVars
  <2> QED  BY <2>1, NumberStays
<1> QED  BY <1>1, <1>2, <1>3, <1>4, <1>5

LEMMA BroadcastNextBase ==
  ASSUME MqChatAssumption, Base, BroadcastNext
  PROVE  Base'
<1> USE DEF Base
<1> DEFINE c == client_queues[i]
<1>a. i \in Entry /\ i + 1 \in 0 .. MaxClients /\ message \in Messages /\ message.type = "TEXT"
  BY DEF BroadcastNext, ServerInv, TypeOK, Entry
<1>b. c # None => c \in Clients /\ parent[c] \notin {"start", "init"} /\ ~Waiting(c) /\ ToClient(c, message)
  BY <1>a DEF ServerInv, TypeOK, BroadcastNext
<1>c. c = None => clientQ' = clientQ
  BY DEF BroadcastNext, ToClient, TypeOK
<1> HIDE DEF c
<1>d. c # None =>
      /\ clientQ' \in [Clients -> Seq(Messages)]
      /\ \A d \in Clients \ {c} : clientQ'[d] = clientQ[d]
      /\ (\A j \in 1 .. Len(clientQ[c]) : clientQ[c][j].type \in {"RECEIVE_ID", "TEXT"}) =>
            \A j \in 1 .. Len(clientQ'[c]) : clientQ'[c][j].type \in {"RECEIVE_ID", "TEXT"}
  BY <1>a, <1>b, ToClientFacts
<1>1. TypeOK'
  BY <1>a, <1>c, <1>d DEF TypeOK, BroadcastNext, clientVars, nameVars
<1>2. QueueInv' /\ InitInv' /\ \A w : Waiting(w)' <=> Waiting(w)
  <2>1. /\ serverQ' = serverQ /\ made' \in Nat /\ made' >= made
        /\ \A w \in Clients : parent[w] \in {"await", "gone"} /\ Waiting(w) =>
             opened'[w] = opened[w] /\ parent'[w] \in {"await", "gone"}
    BY DEF BroadcastNext, TypeOK, clientVars, nameVars
  <2> QED  BY <2>1, QueuesStay
<1>3. ClientInv'
  BY <1>b, <1>c, <1>d, <1>2 DEF ClientInv, ClientFit, BroadcastNext, clientVars, nameVars, Present
<1>4. ServerInv'
  BY <1>2 DEF ServerInv, BroadcastNext, clientVars, nameVars
<1>5. NumberInv'
  <2>1. number' = number /\ Handled \subseteq Handled'
    BY <1>2 DEF BroadcastNext, Handled, clientVars, nameVars
  <2> QED  BY <2>1, NumberStays
<1> QED  BY <1>1, <1>2, <1>3, <1>4, <1>5

(* The steps in which the server receives.                                 *)

LEMMA HandleTextBase ==
  ASSUME MqChatAssumption, Base, HandleText
  PROVE  Base'
<1> USE DEF Base
<1>r. /\ server = "receive" /\ message' \in Messages /\ message'.type = "TEXT"
      /\ serverQ' \in [Queues -> [{1, 2} -> Seq(Messages)]]
  BY ReceiveFacts, ReceiveQueues DEF HandleText
<1>2. /\ QueueInv' /\ InitInv'
      /\ \A w : Waiting(w)' <=> Waiting(w) /\ ~("TEXT" = "INIT" /\ message'.text = w)
      /\ "TEXT" = "INIT" => /\ Waiting(message'.text) /\ opened[message'.text] = made
                            /\ parent[message'.text] \in {"await", "gone"}
  <2>1. Receive("TEXT") /\ made' = made /\ opened' = opened /\ parent' = parent
    BY DEF HandleText, clientVars, nameVars
  <2> QED  BY <2>1, ReceiveInv
<1>1. TypeOK'
  <2>1. message'.text \in Texts /\ 0 \in 0 .. MaxClients
    BY <1>r, MessageFacts, ClosedType
  <2>2. log' \in Seq(Texts)
    BY <2>1 DEF HandleText, TypeOK
  <2> QED  BY <1>r, <2>1, <2>2 DEF TypeOK, HandleText, clientVars, nameVars, Queues
<1>3. ClientInv'
  BY <1>2 DEF ClientInv, ClientFit, HandleText, clientVars, nameVars, Present
<1>4. ServerInv'
  BY <1>r, <1>2 DEF ServerInv, HandleText, clientVars, nameVars
<1>5. NumberInv'
  <2>1. number' = number /\ Handled \subseteq Handled'
    BY <1>2 DEF HandleText, Handled, clientVars, nameVars
  <2> QED  BY <2>1, NumberStays
<1> QED  BY <1>1, <1>2, <1>3, <1>4, <1>5

LEMMA HandleClientExitBase ==
  ASSUME MqChatAssumption, Base, HandleClientExit
  PROVE  Base'
<1> USE DEF Base
<1>r. /\ server = "receive" /\ message' \in Messages /\ message'.type = "CLIENT_EXIT"
      /\ serverQ' \in [Queues -> [{1, 2} -> Seq(Messages)]]
  BY ReceiveFacts, ReceiveQueues DEF HandleClientExit
<1>2. /\ QueueInv' /\ InitInv'
      /\ \A w : Waiting(w)' <=> Waiting(w) /\ ~("CLIENT_EXIT" = "INIT" /\ message'.text = w)
      /\ "CLIENT_EXIT" = "INIT" => /\ Waiting(message'.text) /\ opened[message'.text] = made
                            /\ parent[message'.text] \in {"await", "gone"}
  <2>1. Receive("CLIENT_EXIT") /\ made' = made /\ opened' = opened /\ parent' = parent
    BY DEF HandleClientExit, clientVars, nameVars
  <2> QED  BY <2>1, ReceiveInv
<1>c. /\ client_queues' \in [Entry -> Clients \cup {None}]
      /\ \A e \in Entry : client_queues'[e] = client_queues[e] \/ client_queues'[e] = None
  BY DEF HandleClientExit, TypeOK
<1>1. TypeOK'
  BY <1>r, <1>c DEF TypeOK, HandleClientExit, clientVars, nameVars, Queues
<1>3. ClientInv'
  BY <1>2 DEF ClientInv, ClientFit, HandleClientExit, clientVars, nameVars, Present
<1>4. ServerInv'
  BY <1>r, <1>c, <1>2 DEF ServerInv, HandleClientExit, clientVars, nameVars
<1>5. NumberInv'
  <2>1. number' = number /\ Handled \subseteq Handled'
    BY <1>2 DEF HandleClientExit, Handled, clientVars, nameVars
  <2> QED  BY <2>1, NumberStays
<1> QED  BY <1>1, <1>2, <1>3, <1>4, <1>5

LEMMA HandleInitBase ==
  ASSUME MqChatAssumption, Base, HandleInit
  PROVE  /\ Base' /\ number \in Entry
         /\ server = "receive" /\ message'.text \in Clients /\ Waiting(message'.text)
         /\ clientQ[message'.text] = <<>>
         /\ opened[message'.text] = made /\ parent[message'.text] \in {"await", "gone"}
         /\ \A w : Waiting(w)' <=> Waiting(w) /\ ~(message'.text = w)
<1> USE DEF Base
<1>r. /\ server = "receive" /\ message' \in Messages /\ message'.type = "INIT"
      /\ serverQ' \in [Queues -> [{1, 2} -> Seq(Messages)]]
  BY ReceiveFacts, ReceiveQueues DEF HandleInit
<1>2. /\ QueueInv' /\ InitInv'
      /\ \A w : Waiting(w)' <=> Waiting(w) /\ ~("INIT" = "INIT" /\ message'.text = w)
      /\ "INIT" = "INIT" => /\ Waiting(message'.text) /\ opened[message'.text] = made
                            /\ parent[message'.text] \in {"await", "gone"}
  <2>1. Receive("INIT") /\ made' = made /\ opened' = opened /\ parent' = parent
    BY DEF HandleInit, clientVars, nameVars
  <2> QED  BY <2>1, ReceiveInv
<1>p. PICK c : c = message'.text
  OBVIOUS
<1>c. /\ c \in Clients /\ Waiting(c) /\ ~Waiting(c)' /\ opened[c] = made /\ parent[c] \in {"await", "gone"}
  BY <1>p, <1>r, <1>2, MessageFacts
<1>q. clientQ[c] = <<>>
  BY <1>c DEF ClientInv, ClientFit
<1>n. /\ number + 1 <= MaxClients /\ (number' = number + 1 => NumberInv')
      /\ Handled \subseteq Handled'
  <2>1. made' = made /\ opened' = opened /\ parent' = parent
    BY DEF HandleInit, clientVars, nameVars
  <2>2. c \notin Handled /\ c \in Handled' /\ Handled \subseteq Handled'
    BY <1>c, <1>2, <1>p, <2>1 DEF Handled
  <2> QED  BY <1>c, <2>2, NumberGrows
<1>e. number \in Entry /\ number + 1 \in 0 .. MaxClients /\ number + 1 > 0
  BY <1>n DEF TypeOK, Entry, MqChatAssumption
<1>f. \/ /\ server' = "reply" /\ client_queues' = [client_queues EXCEPT ![number] = c] /\ number' = number + 1
      \/ /\ server' = "receive" /\ client_queues' = [client_queues EXCEPT ![number] = None] /\ number' = number
  BY <1>p, <1>r DEF HandleInit
<1>1. TypeOK'
  <2>1. /\ client_queues' \in [Entry -> Clients \cup {None}] /\ number' \in 0 .. MaxClients
        /\ server' \in {"off", "receive", "reply", "broadcast"}
    BY <1>c, <1>e, <1>f DEF TypeOK
  <2> QED  BY <1>r, <2>1 DEF TypeOK, HandleInit, clientVars, nameVars, Queues
<1>3. ClientInv'
  BY <1>2 DEF ClientInv, ClientFit, HandleInit, clientVars, nameVars, Present
<1>4. ServerInv'
  <2>0. /\ made' = made /\ opened' = opened /\ parent' = parent /\ clientQ' = clientQ
    BY DEF HandleInit, clientVars, nameVars
  <2>1. made' > 0
    BY <1>r, <2>0 DEF ServerInv
  <2>2. ASSUME NEW e \in Entry, e >= number' PROVE client_queues'[e] = None
    <3>1. e \in Int /\ number \in Int /\ client_queues \in [Entry -> Clients \cup {None}]
      BY DEF Entry, TypeOK
    <3> QED  BY <1>e, <1>f, <2>2, <3>1 DEF ServerInv
  <2>3. ASSUME NEW e \in Entry, client_queues'[e] # None
        PROVE  /\ opened[client_queues'[e]] = made /\ parent[client_queues'[e]] \notin {"start", "init"}
               /\ ~Waiting(client_queues[e])'
    <3>1. PICK d : d = client_queues'[e]
      OBVIOUS
    <3>2. d = c \/ d = client_queues[e]
      BY <1>e, <1>f, <2>3, <3>1 DEF TypeOK
    <3>3. opened[d] = made /\ parent[d] \notin {"start", "init"} /\ ~Waiting(d)'
      BY <1>c, <1>2, <2>3, <3>1, <3>2 DEF ServerInv
    <3> QED  BY <3>1, <3>3
  <2>4. server' = "reply" => number' > 0 /\ client_queues'[number' - 1] = c
    <3>1. number \in Int /\ client_queues \in [Entry -> Clients \cup {None}]
      BY DEF TypeOK
    <3>2. (number + 1) - 1 = number
      BY <3>1
    <3> QED  BY <1>e, <1>f, <3>1, <3>2
  <2>5. server' # "broadcast" /\ server' # "off"
    BY <1>f
  <2> QED  BY <1>p, <1>r, <1>q, <2>0, <2>1, <2>2, <2>3, <2>4, <2>5 DEF ServerInv
<1>5. NumberInv'
  BY <1>f, <1>n, NumberStays
<1> QED  BY <1>p, <1>r, <1>c, <1>e, <1>q, <1>1, <1>2, <1>3, <1>4, <1>5

(* The steps of a client.                                                  *)

LEMMA OpenBase ==
  ASSUME MqChatAssumption, Base, NEW c \in Clients, Open(c)
  PROVE  Base'
<1> USE DEF Base
<1>b. \/ named /\ linked' = [linked EXCEPT ![c] = TRUE] /\ opened' = [opened EXCEPT ![c] = made]
         /\ parent' = [parent EXCEPT ![c] = "init"] /\ made > 0
      \/ ~named /\ linked' = [linked EXCEPT ![c] = FALSE] /\ opened' = [opened EXCEPT ![c] = 0]
         /\ parent' = [parent EXCEPT ![c] = "gone"]
  <2>1. CASE named
    <3>1. named = TRUE
      BY <2>1 DEF TypeOK
    <3> QED  BY <3>1 DEF Open, TypeOK
  <2>2. CASE ~named
    <3>1. named = FALSE
      BY <2>2 DEF TypeOK
    <3> QED  BY <3>1 DEF Open, TypeOK
  <2> QED  BY <2>1, <2>2
<1>1. TypeOK'
  <2>1. parent' \in [Clients -> {"start", "init", "await", "typing", "sending", "kill", "bye", "gone"}]
    BY <1>b DEF TypeOK
  <2>2. linked \in [Clients -> BOOLEAN] /\ opened \in [Clients -> 0 .. ServerRuns]
    BY DEF TypeOK
  <2>3. 0 \in 0 .. ServerRuns /\ made \in 0 .. ServerRuns
    BY DEF TypeOK, MqChatAssumption
  <2>4. linked' \in [Clients -> BOOLEAN]
    BY <1>b, <2>2
  <2>5. opened' \in [Clients -> 0 .. ServerRuns]
    BY <1>b, <2>2, <2>3
  <2> QED  BY <2>1, <2>4, <2>5 DEF TypeOK, Open, serverVars, nameVars
<1>2. QueueInv' /\ InitInv' /\ \A d : Waiting(d)' <=> Waiting(d)
  <2>1. serverQ' = serverQ /\ made' \in Nat /\ made' >= made
    BY DEF Open, nameVars, TypeOK
  <2>2. \A d \in Clients : parent[d] \in {"await", "gone"} /\ Waiting(d) =>
          opened'[d] = opened[d] /\ parent'[d] \in {"await", "gone"}
    BY DEF Open, TypeOK
  <2> QED  BY <2>1, <2>2, QueuesStay
<1>3. ClientInv'
  <2>1. \A d \in Clients \ {c} : parent'[d] = parent[d] /\ opened'[d] = opened[d] /\ linked'[d] = linked[d]
    BY <1>b DEF TypeOK
  <2>2. \/ parent'[c] = "init" /\ opened'[c] = made /\ made > 0 /\ linked'[c]
        \/ parent'[c] = "gone" /\ opened'[c] = 0
    BY <1>b DEF TypeOK
  <2>3. /\ parent[c] = "start" /\ made' = made /\ listener' = listener /\ clientQ' = clientQ
        /\ id' = id /\ line' = line /\ made \in Nat
    BY DEF Open, nameVars, TypeOK
  <2> QED  BY <1>2, <2>1, <2>2, <2>3 DEF ClientInv, ClientFit, Present
<1>4. ServerInv'
  <2>1. /\ server' = server /\ message' = message /\ number' = number
        /\ client_queues' = client_queues /\ made' = made /\ clientQ' = clientQ
    BY DEF Open, serverVars, nameVars
  <2>2. \A d \in Clients : parent[d] \notin {"start", "init"} =>
          opened'[d] = opened[d] /\ parent'[d] \notin {"start", "init"}
    BY DEF Open, TypeOK
  <2> QED  BY <1>2, <2>1, <2>2, ServerStays
<1>5. NumberInv'
  <2>1. number' = number /\ Handled \subseteq Handled'
    BY <1>2 DEF Open, Handled, serverVars, nameVars, TypeOK
  <2> QED  BY <2>1, NumberStays
<1> QED  BY <1>1, <1>2, <1>3, <1>4, <1>5

LEMMA TypeBase ==
  ASSUME MqChatAssumption, Base, NEW c \in Clients, Type(c)
  PROVE  Base'
<1> USE DEF Base
<1>l. line'[c] \in Texts /\ \A d \in Clients \ {c} : line'[d] = line[d]
  BY DEF Type, TypeOK, Texts, MqChatAssumption
<1>1. TypeOK'
  <2>1. typed' \in 0 .. MaxTexts /\ line' \in [Clients -> 0 .. MaxTexts]
    <3>1. typed \in 0 .. MaxTexts /\ typed < MaxTexts /\ typed' = typed + 1 /\ MaxTexts \in Nat
      BY DEF Type, TypeOK, MqChatAssumption
    <3>2. typed' \in 0 .. MaxTexts
      BY <3>1
    <3> QED  BY <3>2 DEF Type, TypeOK
  <2>2. parent' \in [Clients -> {"start", "init", "await", "typing", "sending", "kill", "bye", "gone"}]
    BY DEF Type, TypeOK
  <2> QED  BY <2>1, <2>2 DEF TypeOK, Type, serverVars, nameVars
<1>2. QueueInv' /\ InitInv' /\ \A d : Waiting(d)' <=> Waiting(d)
  <2>1. serverQ' = serverQ /\ made' \in Nat /\ made' >= made
    BY DEF Type, nameVars, TypeOK
  <2>2. \A d \in Clients : parent[d] \in {"await", "gone"} /\ Waiting(d) =>
          opened'[d] = opened[d] /\ parent'[d] \in {"await", "gone"}
    BY DEF Type, TypeOK
  <2> QED  BY <2>1, <2>2, QueuesStay
<1>3. ClientInv'
  <2>1. made' = made /\ \A d \in Clients \ {c} : Unmoved(d) /\ (Waiting(d)' => Waiting(d))
    BY <1>2 DEF Type, nameVars, Unmoved, TypeOK
  <2>2. parent[c] = "typing" /\ parent'[c] = "sending"
    BY DEF Type, TypeOK
  <2>3. /\ opened'[c] = opened[c] /\ id'[c] = id[c] /\ clientQ'[c] = clientQ[c]
        /\ listener'[c] = listener[c] /\ linked'[c] = linked[c]
    BY DEF Type
  <2>4. ClientFit(c) /\ (Waiting(c)' => Waiting(c))
    BY <1>2 DEF ClientInv
  <2>5. ClientFit(c)'
    BY <2>1, <2>2, <2>3, <2>4, <1>l DEF ClientFit, Present
  <2> QED  BY <2>1, <2>5, ClientsStay
<1>4. ServerInv'
  <2>1. /\ server' = server /\ message' = message /\ number' = number
        /\ client_queues' = client_queues /\ made' = made /\ clientQ' = clientQ
    BY DEF Type, serverVars, nameVars
  <2>2. \A d \in Clients : parent[d] \notin {"start", "init"} =>
          opened'[d] = opened[d] /\ parent'[d] \notin {"start", "init"}
    BY DEF Type, TypeOK
  <2> QED  BY <1>2, <2>1, <2>2, ServerStays
<1>5. NumberInv'
  <2>1. number' = number /\ Handled \subseteq Handled'
    BY <1>2 DEF Type, Handled, serverVars, nameVars, TypeOK
  <2> QED  BY <2>1, NumberStays
<1> QED  BY <1>1, <1>2, <1>3, <1>4, <1>5

LEMMA QuitBase ==
  ASSUME MqChatAssumption, Base, NEW c \in Clients, Quit(c)
  PROVE  Base'
<1> USE DEF Base
<1>1. TypeOK'
  BY DEF TypeOK, Quit, serverVars, nameVars
<1>2. QueueInv' /\ InitInv' /\ \A d : Waiting(d)' <=> Waiting(d)
  <2>1. serverQ' = serverQ /\ made' \in Nat /\ made' >= made
    BY DEF Quit, nameVars, TypeOK
  <2>2. \A d \in Clients : parent[d] \in {"await", "gone"} /\ Waiting(d) =>
          opened'[d] = opened[d] /\ parent'[d] \in {"await", "gone"}
    BY DEF Quit, TypeOK
  <2> QED  BY <2>1, <2>2, QueuesStay
<1>3. ClientInv'
  <2>1. made' = made /\ \A d \in Clients \ {c} : Unmoved(d) /\ (Waiting(d)' => Waiting(d))
    BY <1>2 DEF Quit, nameVars, Unmoved, TypeOK
  <2>2. parent[c] = "typing" /\ parent'[c] = "kill"
    BY DEF Quit, TypeOK
  <2>3. /\ opened'[c] = opened[c] /\ id'[c] = id[c] /\ clientQ'[c] = clientQ[c]
        /\ listener'[c] = listener[c] /\ linked'[c] = linked[c] /\ line'[c] = line[c]
    BY DEF Quit
  <2>4. ClientFit(c) /\ (Waiting(c)' => Waiting(c))
    BY <1>2 DEF ClientInv
  <2>5. ClientFit(c)'
    BY <2>1, <2>2, <2>3, <2>4 DEF ClientFit, Present
  <2> QED  BY <2>1, <2>5, ClientsStay
<1>4. ServerInv'
  <2>1. /\ server' = server /\ message' = message /\ number' = number
        /\ client_queues' = client_queues /\ made' = made /\ clientQ' = clientQ
    BY DEF Quit, serverVars, nameVars
  <2>2. \A d \in Clients : parent[d] \notin {"start", "init"} =>
          opened'[d] = opened[d] /\ parent'[d] \notin {"start", "init"}
    BY DEF Quit, TypeOK
  <2> QED  BY <1>2, <2>1, <2>2, ServerStays
<1>5. NumberInv'
  <2>1. number' = number /\ Handled \subseteq Handled'
    BY <1>2 DEF Quit, Handled, serverVars, nameVars, TypeOK
  <2> QED  BY <2>1, NumberStays
<1> QED  BY <1>1, <1>2, <1>3, <1>4, <1>5

LEMMA KillListenerBase ==
  ASSUME MqChatAssumption, Base, NEW c \in Clients, KillListener(c)
  PROVE  Base'
<1> USE DEF Base
<1>1. TypeOK'
  BY DEF TypeOK, KillListener, serverVars, nameVars
<1>2. QueueInv' /\ InitInv' /\ \A d : Waiting(d)' <=> Waiting(d)
  <2>1. serverQ' = serverQ /\ made' \in Nat /\ made' >= made
    BY DEF KillListener, nameVars, TypeOK
  <2>2. \A d \in Clients : parent[d] \in {"await", "gone"} /\ Waiting(d) =>
          opened'[d] = opened[d] /\ parent'[d] \in {"await", "gone"}
    BY DEF KillListener, TypeOK
  <2> QED  BY <2>1, <2>2, QueuesStay
<1>3. ClientInv'
  <2>1. made' = made /\ \A d \in Clients \ {c} : Unmoved(d) /\ (Waiting(d)' => Waiting(d))
    BY <1>2 DEF KillListener, nameVars, Unmoved, TypeOK
  <2>2. parent[c] = "kill" /\ parent'[c] = "bye"
    BY DEF KillListener, TypeOK
  <2>3. /\ opened'[c] = opened[c] /\ id'[c] = id[c] /\ clientQ'[c] = clientQ[c]
        /\ linked'[c] = linked[c] /\ line'[c] = line[c]
    BY DEF KillListener
  <2>4. ClientFit(c) /\ (Waiting(c)' => Waiting(c))
    BY <1>2 DEF ClientInv
  <2>5. ClientFit(c)'
    BY <2>1, <2>2, <2>3, <2>4 DEF ClientFit, Present
  <2> QED  BY <2>1, <2>5, ClientsStay
<1>4. ServerInv'
  <2>1. /\ server' = server /\ message' = message /\ number' = number
        /\ client_queues' = client_queues /\ made' = made /\ clientQ' = clientQ
    BY DEF KillListener, serverVars, nameVars
  <2>2. \A d \in Clients : parent[d] \notin {"start", "init"} =>
          opened'[d] = opened[d] /\ parent'[d] \notin {"start", "init"}
    BY DEF KillListener, TypeOK
  <2> QED  BY <1>2, <2>1, <2>2, ServerStays
<1>5. NumberInv'
  <2>1. number' = number /\ Handled \subseteq Handled'
    BY <1>2 DEF KillListener, Handled, serverVars, nameVars, TypeOK
  <2> QED  BY <2>1, NumberStays
<1> QED  BY <1>1, <1>2, <1>3, <1>4, <1>5

LEMMA CtrlCBase ==
  ASSUME MqChatAssumption, Base, NEW c \in Clients, CtrlC(c)
  PROVE  Base'
<1> USE DEF Base
<1>1. TypeOK'
  BY DEF TypeOK, CtrlC, serverVars, nameVars
<1>2. QueueInv' /\ InitInv' /\ \A d : Waiting(d)' <=> Waiting(d)
  <2>1. serverQ' = serverQ /\ made' \in Nat /\ made' >= made
    BY DEF CtrlC, nameVars, TypeOK
  <2>2. \A d \in Clients : parent[d] \in {"await", "gone"} /\ Waiting(d) =>
          opened'[d] = opened[d] /\ parent'[d] \in {"await", "gone"}
    BY DEF CtrlC, TypeOK
  <2> QED  BY <2>1, <2>2, QueuesStay
<1>3. ClientInv'
  <2>1. made' = made /\ \A d \in Clients \ {c} : Unmoved(d) /\ (Waiting(d)' => Waiting(d))
    BY <1>2 DEF CtrlC, nameVars, Unmoved, TypeOK
  <2>2. \/ parent[c] \in {"init", "await"} /\ parent'[c] = "gone"
        \/ parent'[c] = parent[c]
    BY DEF CtrlC, TypeOK
  <2>3. /\ opened'[c] = opened[c] /\ id'[c] = id[c] /\ clientQ'[c] = clientQ[c]
        /\ listener'[c] = listener[c] /\ linked'[c] = linked[c] /\ line'[c] = line[c]
    BY DEF CtrlC
  <2>4. ClientFit(c) /\ (Waiting(c)' => Waiting(c))
    BY <1>2 DEF ClientInv
  <2>5. ClientFit(c)'
    BY <2>1, <2>2, <2>3, <2>4 DEF ClientFit, Present
  <2> QED  BY <2>1, <2>5, ClientsStay
<1>4. ServerInv'
  <2>1. /\ server' = server /\ message' = message /\ number' = number
        /\ client_queues' = client_queues /\ made' = made /\ clientQ' = clientQ
    BY DEF CtrlC, serverVars, nameVars
  <2>2. \A d \in Clients : parent[d] \notin {"start", "init"} =>
          opened'[d] = opened[d] /\ parent'[d] \notin {"start", "init"}
    BY DEF CtrlC, TypeOK
  <2> QED  BY <1>2, <2>1, <2>2, ServerStays
<1>5. NumberInv'
  <2>1. number' = number /\ Handled \subseteq Handled'
    BY <1>2 DEF CtrlC, Handled, serverVars, nameVars, TypeOK
  <2> QED  BY <2>1, NumberStays
<1> QED  BY <1>1, <1>2, <1>3, <1>4, <1>5

LEMMA SendInitBase ==
  ASSUME MqChatAssumption, Base, NEW c \in Clients, SendInit(c)
  PROVE  Base'
<1> USE DEF Base
<1>m. PICK m : m = Message("INIT", -1, c)
  OBVIOUS
<1>s. m \in Messages /\ m.type = "INIT" /\ opened[c] > 0 /\ ToServer(c, m)
  <2>1. ToServer(c, m) /\ m.type = "INIT"
    BY <1>m DEF SendInit, Message
  <2>2. opened[c] > 0
    BY DEF SendInit, ClientInv, ClientFit, Present
  <2> QED  BY <1>m, <2>1, <2>2, MessageTypes
<1>1. TypeOK'
  <2>1. serverQ' \in [Queues -> [{1, 2} -> Seq(Messages)]]
    BY <1>s, SendQueues
  <2> QED  BY <2>1 DEF TypeOK, SendInit, serverVars, nameVars, Queues
<1>2. /\ QueueInv' /\ InitInv'
      /\ \A d : Waiting(d)' <=> Waiting(d) \/ ("INIT" = "INIT" /\ d = c)
  <2>1. /\ m.type \in {"TEXT", "CLIENT_EXIT"} \/ m = Message("INIT", -1, c)
        /\ m.type = "INIT" => parent[c] = "init" /\ parent'[c] = "await"
        /\ m.type # "INIT" => parent[c] \in {"sending", "bye"}
        /\ \A d \in Clients \ {c} : parent'[d] = parent[d]
        /\ made' = made /\ opened' = opened
    BY <1>m, <1>s DEF SendInit, TypeOK, nameVars
  <2> QED  BY <1>s, <2>1, SendInv
<1>3. ClientInv'
  <2>1. made' = made /\ \A d \in Clients \ {c} : Unmoved(d) /\ (Waiting(d)' => Waiting(d))
    BY <1>2 DEF SendInit, nameVars, Unmoved, TypeOK
  <2>2. parent[c] = "init" /\ parent'[c] = "await"
    BY DEF SendInit, TypeOK
  <2>3. /\ opened'[c] = opened[c] /\ id'[c] = id[c] /\ clientQ'[c] = clientQ[c]
        /\ listener'[c] = listener[c] /\ linked'[c] = linked[c] /\ line'[c] = line[c]
    BY DEF SendInit
  <2>4. ClientFit(c) /\ (Waiting(c)' => Waiting(c) \/ parent[c] = "init")
    BY <1>2, <2>2 DEF ClientInv
  <2>5. ClientFit(c)'
    BY <2>1, <2>2, <2>3, <2>4 DEF ClientFit, Present
  <2> QED  BY <2>1, <2>5, ClientsStay
<1>4. ServerInv'
  <2>1. /\ server' = server /\ message' = message /\ number' = number
        /\ client_queues' = client_queues /\ made' = made /\ clientQ' = clientQ
    BY DEF SendInit, serverVars, nameVars
  <2>2. \A d \in Clients : parent[d] \notin {"start", "init"} =>
          opened'[d] = opened[d] /\ parent'[d] \notin {"start", "init"}
    BY DEF SendInit, TypeOK
  <2>3. \A d \in Clients : parent[d] \notin {"start", "init"} => (Waiting(d)' => Waiting(d))
    BY <1>2 DEF SendInit
  <2> QED  BY <1>2, <2>1, <2>2, <2>3, ServerStays
<1>5. NumberInv'
  <2>1. number' = number /\ Handled \subseteq Handled'
    BY <1>2 DEF SendInit, Handled, serverVars, nameVars, TypeOK
  <2> QED  BY <2>1, NumberStays
<1> QED  BY <1>1, <1>2, <1>3, <1>4, <1>5

LEMMA SendTextBase ==
  ASSUME MqChatAssumption, Base, NEW c \in Clients, SendText(c)
  PROVE  Base'
<1> USE DEF Base
<1>m. PICK m : m = Message("TEXT", id[c], line[c])
  OBVIOUS
<1>s. m \in Messages /\ m.type = "TEXT" /\ opened[c] > 0 /\ ToServer(c, m)
  <2>1. ToServer(c, m) /\ m.type = "TEXT"
    BY <1>m DEF SendText, Message
  <2>2. opened[c] > 0 /\ id[c] \in Entry /\ line[c] \in Texts
    BY DEF SendText, ClientInv, ClientFit, Present
  <2> QED  BY <1>m, <2>1, <2>2, MessageTypes
<1>1. TypeOK'
  <2>1. serverQ' \in [Queues -> [{1, 2} -> Seq(Messages)]]
    BY <1>s, SendQueues
  <2> QED  BY <2>1 DEF TypeOK, SendText, serverVars, nameVars, Queues
<1>2. /\ QueueInv' /\ InitInv'
      /\ \A d : Waiting(d)' <=> Waiting(d) \/ ("TEXT" = "INIT" /\ d = c)
  <2>1. /\ m.type \in {"TEXT", "CLIENT_EXIT"} \/ m = Message("INIT", -1, c)
        /\ m.type = "INIT" => parent[c] = "init" /\ parent'[c] = "await"
        /\ m.type # "INIT" => parent[c] \in {"sending", "bye"}
        /\ \A d \in Clients \ {c} : parent'[d] = parent[d]
        /\ made' = made /\ opened' = opened
    BY <1>m, <1>s DEF SendText, TypeOK, nameVars
  <2> QED  BY <1>s, <2>1, SendInv
<1>3. ClientInv'
  <2>1. made' = made /\ \A d \in Clients \ {c} : Unmoved(d) /\ (Waiting(d)' => Waiting(d))
    BY <1>2 DEF SendText, nameVars, Unmoved, TypeOK
  <2>2. parent[c] = "sending" /\ parent'[c] \in {"typing", "kill"}
    BY DEF SendText, TypeOK
  <2>3. /\ opened'[c] = opened[c] /\ id'[c] = id[c] /\ clientQ'[c] = clientQ[c]
        /\ listener'[c] = listener[c] /\ linked'[c] = linked[c] /\ line'[c] = line[c]
    BY DEF SendText
  <2>4. ClientFit(c) /\ (Waiting(c)' => Waiting(c))
    BY <1>2 DEF ClientInv
  <2>5. ClientFit(c)'
    BY <2>1, <2>2, <2>3, <2>4 DEF ClientFit, Present
  <2> QED  BY <2>1, <2>5, ClientsStay
<1>4. ServerInv'
  <2>1. /\ server' = server /\ message' = message /\ number' = number
        /\ client_queues' = client_queues /\ made' = made /\ clientQ' = clientQ
    BY DEF SendText, serverVars, nameVars
  <2>2. \A d \in Clients : parent[d] \notin {"start", "init"} =>
          opened'[d] = opened[d] /\ parent'[d] \notin {"start", "init"}
    BY DEF SendText, TypeOK
  <2>3. \A d \in Clients : parent[d] \notin {"start", "init"} => (Waiting(d)' => Waiting(d))
    BY <1>2 DEF SendText
  <2> QED  BY <1>2, <2>1, <2>2, <2>3, ServerStays
<1>5. NumberInv'
  <2>1. number' = number /\ Handled \subseteq Handled'
    BY <1>2 DEF SendText, Handled, serverVars, nameVars, TypeOK
  <2> QED  BY <2>1, NumberStays
<1> QED  BY <1>1, <1>2, <1>3, <1>4, <1>5

LEMMA SendExitBase ==
  ASSUME MqChatAssumption, Base, NEW c \in Clients, SendExit(c)
  PROVE  Base'
<1> USE DEF Base
<1>m. PICK m : m = Message("CLIENT_EXIT", id[c], None)
  OBVIOUS
<1>s. m \in Messages /\ m.type = "CLIENT_EXIT" /\ opened[c] > 0 /\ ToServer(c, m)
  <2>1. ToServer(c, m) /\ m.type = "CLIENT_EXIT"
    BY <1>m DEF SendExit, Message
  <2>2. opened[c] > 0 /\ id[c] \in Entry
    BY DEF SendExit, ClientInv, ClientFit, Present
  <2> QED  BY <1>m, <2>1, <2>2, MessageTypes
<1>1. TypeOK'
  <2>1. serverQ' \in [Queues -> [{1, 2} -> Seq(Messages)]]
    BY <1>s, SendQueues
  <2> QED  BY <2>1 DEF TypeOK, SendExit, serverVars, nameVars, Queues
<1>2. /\ QueueInv' /\ InitInv'
      /\ \A d : Waiting(d)' <=> Waiting(d) \/ ("CLIENT_EXIT" = "INIT" /\ d = c)
  <2>1. /\ m.type \in {"TEXT", "CLIENT_EXIT"} \/ m = Message("INIT", -1, c)
        /\ m.type = "INIT" => parent[c] = "init" /\ parent'[c] = "await"
        /\ m.type # "INIT" => parent[c] \in {"sending", "bye"}
        /\ \A d \in Clients \ {c} : parent'[d] = parent[d]
        /\ made' = made /\ opened' = opened
    BY <1>m, <1>s DEF SendExit, TypeOK, nameVars
  <2> QED  BY <1>s, <2>1, SendInv
<1>3. ClientInv'
  <2>1. made' = made /\ \A d \in Clients \ {c} : Unmoved(d) /\ (Waiting(d)' => Waiting(d))
    BY <1>2 DEF SendExit, nameVars, Unmoved, TypeOK
  <2>2. parent[c] = "bye" /\ parent'[c] = "gone"
    BY DEF SendExit, TypeOK
  <2>3. /\ opened'[c] = opened[c] /\ id'[c] = id[c] /\ clientQ'[c] = clientQ[c]
        /\ listener'[c] = listener[c] /\ line'[c] = line[c]
    BY DEF SendExit
  <2>4. ClientFit(c) /\ (Waiting(c)' => Waiting(c))
    BY <1>2 DEF ClientInv
  <2>5. ClientFit(c)'
    BY <2>1, <2>2, <2>3, <2>4 DEF ClientFit, Present
  <2> QED  BY <2>1, <2>5, ClientsStay
<1>4. ServerInv'
  <2>1. /\ server' = server /\ message' = message /\ number' = number
        /\ client_queues' = client_queues /\ made' = made /\ clientQ' = clientQ
    BY DEF SendExit, serverVars, nameVars
  <2>2. \A d \in Clients : parent[d] \notin {"start", "init"} =>
          opened'[d] = opened[d] /\ parent'[d] \notin {"start", "init"}
    BY DEF SendExit, TypeOK
  <2>3. \A d \in Clients : parent[d] \notin {"start", "init"} => (Waiting(d)' => Waiting(d))
    BY <1>2 DEF SendExit
  <2> QED  BY <1>2, <2>1, <2>2, <2>3, ServerStays
<1>5. NumberInv'
  <2>1. number' = number /\ Handled \subseteq Handled'
    BY <1>2 DEF SendExit, Handled, serverVars, nameVars, TypeOK
  <2> QED  BY <2>1, NumberStays
<1> QED  BY <1>1, <1>2, <1>3, <1>4, <1>5

(* A message a client takes from its queue.                                *)
LEMMA TakeFacts ==
  ASSUME TypeOK, NEW c \in Clients, clientQ[c] # <<>>, clientQ' = [clientQ EXCEPT ![c] = Tail(@)],
         \A j \in 1 .. Len(clientQ[c]) : clientQ[c][j].type \in {"RECEIVE_ID", "TEXT"}
  PROVE  /\ clientQ' \in [Clients -> Seq(Messages)]
         /\ \A d \in Clients \ {c} : clientQ'[d] = clientQ[d]
         /\ \A j \in 1 .. Len(clientQ'[c]) : clientQ'[c][j].type \in {"RECEIVE_ID", "TEXT"}
         /\ Head(clientQ[c]) \in Messages /\ Head(clientQ[c]).type \in {"RECEIVE_ID", "TEXT"}
         /\ Head(clientQ[c]).id \in Entry
<1>1. clientQ \in [Clients -> Seq(Messages)] /\ clientQ[c] \in Seq(Messages)
  BY DEF TypeOK
<1>2. /\ Tail(clientQ[c]) \in Seq(Messages) /\ Len(clientQ[c]) \in Nat /\ Len(clientQ[c]) > 0
      /\ Len(Tail(clientQ[c])) = Len(clientQ[c]) - 1
      /\ Head(clientQ[c]) = clientQ[c][1] /\ Head(clientQ[c]) \in Messages
      /\ \A j \in 1 .. Len(Tail(clientQ[c])) : Tail(clientQ[c])[j] = clientQ[c][j + 1]
  BY <1>1, TailFacts
<1>3. /\ clientQ'[c] = Tail(clientQ[c]) /\ clientQ' \in [Clients -> Seq(Messages)]
      /\ \A d \in Clients \ {c} : clientQ'[d] = clientQ[d]
  BY <1>1, <1>2
<1>4. Head(clientQ[c]).type \in {"RECEIVE_ID", "TEXT"}
  BY <1>2
<1>5. Head(clientQ[c]).id \in Entry
  BY <1>2, <1>4, MessageFacts
<1>6. ASSUME NEW j \in 1 .. Len(clientQ'[c]) PROVE clientQ'[c][j].type \in {"RECEIVE_ID", "TEXT"}
  <2>1. j + 1 \in 1 .. Len(clientQ[c]) /\ clientQ'[c][j] = clientQ[c][j + 1]
    BY <1>2, <1>3
  <2> QED  BY <2>1
<1> QED  BY <1>2, <1>3, <1>4, <1>5, <1>6

LEMMA GetIdBase ==
  ASSUME MqChatAssumption, Base, NEW c \in Clients, GetId(c)
  PROVE  Base'
<1> USE DEF Base
<1>t. /\ clientQ' \in [Clients -> Seq(Messages)]
      /\ \A d \in Clients \ {c} : clientQ'[d] = clientQ[d]
      /\ \A j \in 1 .. Len(clientQ'[c]) : clientQ'[c][j].type \in {"RECEIVE_ID", "TEXT"}
      /\ Head(clientQ[c]) \in Messages /\ Head(clientQ[c]).type \in {"RECEIVE_ID", "TEXT"}
      /\ Head(clientQ[c]).id \in Entry
  BY TakeFacts DEF GetId, ClientInv, ClientFit
<1>w. ~Waiting(c) /\ parent[c] \notin {"start", "init"}
  BY DEF GetId, ClientInv, ClientFit
<1>1. TypeOK'
  BY <1>t DEF TypeOK, GetId, serverVars, nameVars
<1>2. QueueInv' /\ InitInv' /\ \A d : Waiting(d)' <=> Waiting(d)
  <2>1. serverQ' = serverQ /\ made' \in Nat /\ made' >= made
    BY DEF GetId, nameVars, TypeOK
  <2>2. \A d \in Clients : parent[d] \in {"await", "gone"} /\ Waiting(d) =>
          opened'[d] = opened[d] /\ parent'[d] \in {"await", "gone"}
    BY <1>w DEF GetId, TypeOK
  <2> QED  BY <2>1, <2>2, QueuesStay
<1>3. ClientInv'
  <2>1. \A d \in Clients \ {c} : /\ parent'[d] = parent[d] /\ id'[d] = id[d] /\ listener'[d] = listener[d]
                               /\ clientQ'[d] = clientQ[d]
    BY <1>t DEF GetId, TypeOK
  <2>2. parent'[c] = "typing" /\ id'[c] \in Entry /\ parent[c] = "await"
    BY <1>t DEF GetId, TypeOK
  <2>3. opened' = opened /\ made' = made /\ linked' = linked /\ line' = line
    BY DEF GetId, nameVars
  <2> QED  BY <1>t, <1>w, <1>2, <2>1, <2>2, <2>3 DEF ClientInv, ClientFit, Present
<1>4. ServerInv'
  <2>1. server = "reply" => message.text \in Clients
    BY MessageFacts DEF ServerInv, TypeOK
  <2>2. server = "reply" => clientQ'[message.text] = <<>>
    BY <1>t, <2>1 DEF ServerInv, GetId
  <2> QED  BY <1>2, <2>2 DEF ServerInv, GetId, serverVars, nameVars, TypeOK
<1>5. NumberInv'
  <2>1. number' = number /\ Handled \subseteq Handled'
    BY <1>2 DEF GetId, Handled, serverVars, nameVars, TypeOK
  <2> QED  BY <2>1, NumberStays
<1> QED  BY <1>1, <1>2, <1>3, <1>4, <1>5

LEMMA ListenBase ==
  ASSUME MqChatAssumption, Base, NEW c \in Clients, Listen(c)
  PROVE  Base'
<1> USE DEF Base
<1>t. /\ clientQ' \in [Clients -> Seq(Messages)]
      /\ \A d \in Clients \ {c} : clientQ'[d] = clientQ[d]
      /\ \A j \in 1 .. Len(clientQ'[c]) : clientQ'[c][j].type \in {"RECEIVE_ID", "TEXT"}
      /\ Head(clientQ[c]) \in Messages /\ Head(clientQ[c]).type \in {"RECEIVE_ID", "TEXT"}
      /\ Head(clientQ[c]).id \in Entry
  BY TakeFacts DEF Listen, ClientInv, ClientFit
<1>w. ~Waiting(c) /\ parent[c] \notin {"start", "init"}
  BY DEF Listen, ClientInv, ClientFit
<1>1. TypeOK'
  <2>1. Head(clientQ[c]).type = "TEXT" => Head(clientQ[c]).text \in Texts
    BY <1>t, MessageFacts
  <2>2. shown' \in [Clients -> Seq(Texts)]
    BY <2>1 DEF Listen, TypeOK
  <2> QED  BY <1>t, <2>2 DEF TypeOK, Listen, serverVars, nameVars
<1>2. QueueInv' /\ InitInv' /\ \A d : Waiting(d)' <=> Waiting(d)
  <2>1. serverQ' = serverQ /\ made' \in Nat /\ made' >= made
    BY DEF Listen, nameVars, TypeOK
  <2>2. \A d \in Clients : parent[d] \in {"await", "gone"} /\ Waiting(d) =>
          opened'[d] = opened[d] /\ parent'[d] \in {"await", "gone"}
    BY DEF Listen, TypeOK
  <2> QED  BY <2>1, <2>2, QueuesStay
<1>3. ClientInv'
  <2>1. \A d \in Clients \ {c} : listener'[d] = listener[d] /\ clientQ'[d] = clientQ[d]
    BY <1>t DEF Listen, TypeOK
  <2>2. listener[c] = "listening"
    BY DEF Listen
  <2>3. /\ opened' = opened /\ made' = made /\ linked' = linked /\ line' = line
        /\ parent' = parent /\ id' = id /\ parent[c] # "await"
    BY <2>2 DEF Listen, nameVars, ClientInv, ClientFit
  <2> SUFFICES ASSUME NEW d \in Clients
               PROVE  /\ opened[d] <= made
                      /\ parent[d] \in {"init", "await"} \cup Present => opened[d] > 0 /\ linked[d]
                      /\ parent[d] \in Present => id[d] \in Entry
                      /\ parent[d] = "sending" => line[d] \in Texts
                      /\ \A j \in 1 .. Len(clientQ'[d]) : clientQ'[d][j].type \in {"RECEIVE_ID", "TEXT"}
                      /\ parent[d] \in {"start", "init"} \/ Waiting(d) => clientQ'[d] = <<>>
                      /\ parent[d] \in {"start", "init", "await"} => listener'[d] = "none"
    BY <1>2, <2>3 DEF ClientInv, ClientFit
  <2>4. CASE d = c
    BY <1>t, <1>w, <2>3, <2>4 DEF ClientInv, ClientFit
  <2>5. CASE d # c
    BY <2>1, <2>5 DEF ClientInv, ClientFit
  <2> QED  BY <2>4, <2>5
<1>4. ServerInv'
  <2>1. server = "reply" => message.text \in Clients
    BY MessageFacts DEF ServerInv, TypeOK
  <2>2. server = "reply" => clientQ'[message.text] = <<>>
    BY <1>t, <2>1 DEF ServerInv, Listen
  <2> QED  BY <1>2, <2>2 DEF ServerInv, Listen, serverVars, nameVars, TypeOK
<1>5. NumberInv'
  <2>1. number' = number /\ Handled \subseteq Handled'
    BY <1>2 DEF Listen, Handled, serverVars, nameVars, TypeOK
  <2> QED  BY <2>1, NumberStays
<1> QED  BY <1>1, <1>2, <1>3, <1>4, <1>5

-----------------------------------------------------------------------------
(* Base always holds.                                                      *)

LEMMA InitBase ==
  ASSUME MqChatAssumption, Init
  PROVE  Base /\ OwnInv
<1>1. TypeOK
  <2>1. /\ message \in Messages /\ 0 \in 0 .. MaxClients /\ 0 \in 0 .. ServerRuns /\ 0 \in 0 .. MaxTexts
        /\ client_queues \in [Entry -> Clients \cup {None}]
    BY ClosedType DEF Init, Messages, MqChatAssumption
  <2>2. crashed \in BOOLEAN /\ named \in BOOLEAN /\ made \in 0 .. ServerRuns /\ (named => made > 0)
    BY <2>1 DEF Init
  <2>3. serverQ \in [1 .. ServerRuns -> [{1, 2} -> Seq(Messages)]] /\ log \in Seq(Texts)
    BY DEF Init
  <2>4. /\ parent \in [Clients -> {"start", "init", "await", "typing", "sending", "kill", "bye", "gone"}]
        /\ listener \in [Clients -> {"none", "listening", "ended", "killed"}]
        /\ running \in [Clients -> BOOLEAN] /\ linked \in [Clients -> BOOLEAN]
    BY DEF Init
  <2>5. /\ opened \in [Clients -> 0 .. ServerRuns] /\ id \in [Clients -> Entry \cup {-1}]
        /\ line \in [Clients -> 0 .. MaxTexts] /\ typed \in 0 .. MaxTexts
    BY <2>1 DEF Init
  <2>6. clientQ \in [Clients -> Seq(Messages)] /\ shown \in [Clients -> Seq(Texts)]
    BY DEF Init
  <2>7. server \in {"off", "receive", "reply", "broadcast"} /\ i \in 0 .. MaxClients /\ number \in 0 .. MaxClients
    BY <2>1 DEF Init
  <2> QED  BY <2>1, <2>2, <2>3, <2>4, <2>5, <2>6, <2>7 DEF TypeOK
<1>2. \A g \in Queues : serverQ[g][1] = <<>> /\ serverQ[g][2] = <<>>
  BY DEF Init, Queues
<1>3. QueueInv /\ InitInv /\ \A c : ~Waiting(c)
  BY <1>2 DEF QueueInv, InitInv, Waiting
<1>4. ClientInv
  BY <1>3 DEF Init, ClientInv, ClientFit, Present
<1>5. ServerInv
  BY DEF Init, ServerInv, Closed
<1>6. NumberInv
  BY HandledFinite DEF Init, NumberInv
<1>7. OwnInv
  <2>1. ~named /\ server = "off"
    BY DEF Init
  <2> QED  BY <2>1 DEF OwnInv, NumbersOwn, ExitsOwn, Served
<1> QED  BY <1>1, <1>3, <1>4, <1>5, <1>6, <1>7 DEF Base

LEMMA StutterBase ==
  ASSUME Base, UNCHANGED vars
  PROVE  Base'
<1>1. TypeOK'
  BY DEF Base, TypeOK, vars, serverVars, nameVars, clientVars
<1>2. QueueInv' /\ InitInv'
  BY DEF Base, QueueInv, InitInv, vars, serverVars, nameVars, clientVars
<1>3. \A w : Waiting(w)' <=> Waiting(w)
  BY DEF Waiting, vars
<1>4. ClientInv'
  BY <1>3 DEF Base, ClientInv, ClientFit, vars, serverVars, nameVars, clientVars
<1>5. ServerInv'
  BY <1>3 DEF Base, ServerInv, vars, serverVars, nameVars, clientVars
<1>6. Handled' = Handled
  BY <1>3 DEF Handled, vars, serverVars, nameVars, clientVars
<1>7. NumberInv'
  BY <1>6 DEF Base, NumberInv, vars, serverVars
<1> QED  BY <1>1, <1>2, <1>4, <1>5, <1>7 DEF Base

LEMMA NextBase ==
  ASSUME MqChatAssumption, Base, [Next]_vars
  PROVE  Base'
<1>1. CASE Handle
  BY <1>1, HandleInitBase, SendIdBase, HandleTextBase, BroadcastNextBase, BroadcastDoneBase,
     HandleClientExitBase DEF Handle
<1>2. CASE Operator
  BY <1>2, ServerStartBase, ServerEndBase DEF Operator
<1>3. ASSUME NEW c \in Clients, Send(c) PROVE Base'
  BY <1>3, SendInitBase, SendTextBase, SendExitBase DEF Send
<1>4. ASSUME NEW c \in Clients, Parent(c) PROVE Base'
  BY <1>4, OpenBase, GetIdBase, KillListenerBase DEF Parent
<1>5. ASSUME NEW c \in Clients, User(c) PROVE Base'
  BY <1>5, TypeBase, QuitBase, CtrlCBase DEF User
<1>6. ASSUME NEW c \in Clients, Listen(c) PROVE Base'
  BY <1>6, ListenBase
<1>7. CASE UNCHANGED vars
  BY <1>7, StutterBase
<1> QED  BY <1>1, <1>2, <1>3, <1>4, <1>5, <1>6, <1>7 DEF Next

(* Every variable of the chat has its type, the table is never left        *)
(* (server.c:17-32), and a queue holds only what its readers expect.       *)
THEOREM MqTypeCorrect == Spec => []TypeOK
<1>1. Init => Base
  BY MqChatAssumption, InitBase
<1>2. Base /\ [Next]_vars => Base'
  BY MqChatAssumption, NextBase
<1>3. Base => TypeOK
  BY DEF Base
<1> QED  BY <1>1, <1>2, <1>3, PTL DEF Spec

-----------------------------------------------------------------------------
(* So does OwnInv.                                                         *)

LEMMA ExitStays ==
  ASSUME MqChatAssumption, TypeOK, NEW m, ExitIsOwn(m), number' = number \/ number' = number + 1,
         \A e \in Entry : e < number => client_queues'[e] \in {client_queues[e], None},
         \A c \in Clients : parent[c] = "gone" => parent'[c] = "gone"
  PROVE  ExitIsOwn(m)'
<1>1. number \in Nat /\ MaxClients \in Nat /\ number <= MaxClients
  BY DEF TypeOK, MqChatAssumption
<1>2. m.id \in Entry /\ m.id < number /\ m.id \in 0 .. number' - 1
  BY <1>1 DEF ExitIsOwn, Entry
<1>3. client_queues[m.id] \in Clients \cup {None}
  BY <1>2 DEF TypeOK
<1>4. CASE client_queues'[m.id] = client_queues[m.id]
  BY <1>2, <1>3, <1>4 DEF ExitIsOwn
<1>5. CASE client_queues'[m.id] = None
  BY <1>2, <1>5 DEF ExitIsOwn
<1> QED  BY <1>2, <1>4, <1>5

LEMMA ExitsStay ==
  ASSUME MqChatAssumption, TypeOK, ExitsOwn, number' = number \/ number' = number + 1,
         \A e \in Entry : e < number => client_queues'[e] \in {client_queues[e], None},
         \A c \in Clients : parent[c] = "gone" => parent'[c] = "gone",
         server' # "off" =>
           /\ server # "off" /\ made' = made
           /\ \A j \in 1 .. Len(serverQ'[made][2]) :
                \E k \in 1 .. Len(serverQ[made][2]) : serverQ'[made][2][j] = serverQ[made][2][k]
  PROVE  ExitsOwn'
<1> SUFFICES ASSUME server' # "off", NEW j \in 1 .. Len(serverQ'[made][2])
             PROVE  ExitIsOwn(serverQ[made][2][j])'
  BY DEF ExitsOwn
<1>1. PICK m : m = serverQ'[made][2][j]
  OBVIOUS
<1>2. ExitIsOwn(m)
  BY <1>1 DEF ExitsOwn
<1> QED  BY <1>1, <1>2, ExitStays

LEMMA OwnStays ==
  ASSUME MqChatAssumption, TypeOK, NEW c \in Clients, OwnNumber(c), number' = number \/ number' = number + 1,
         \A e \in Entry : e < number /\ client_queues[e] = c => client_queues'[e] = c,
         parent'[c] = parent[c], id'[c] = id[c],
         \/ parent[c] # "await" \/ clientQ'[c] = clientQ[c]
         \/ clientQ[c] # <<>> /\ clientQ'[c] # <<>> /\ Head(clientQ'[c]) = Head(clientQ[c]),
         (Waiting(c) \/ (server = "reply" /\ message.text = c)) =>
           (Waiting(c)' \/ (server' = "reply" /\ message'.text = c))
  PROVE  OwnNumber(c)'
<1>1. number \in Nat /\ MaxClients \in Nat /\ number <= MaxClients
  BY DEF TypeOK, MqChatAssumption
<1>2. \A n \in 0 .. number - 1 : n \in Entry /\ n < number /\ n \in 0 .. number' - 1
  BY <1>1 DEF Entry
<1>3. parent'[c] \in Present => id'[c] \in 0 .. number' - 1 /\ client_queues'[id'[c]] = c
  BY <1>2 DEF OwnNumber
<1>4. ASSUME parent'[c] = "await", clientQ'[c] # <<>>
      PROVE  Head(clientQ'[c]).id \in 0 .. number' - 1 /\ client_queues'[Head(clientQ'[c]).id] = c
  <2>1. clientQ[c] # <<>> /\ Head(clientQ'[c]) = Head(clientQ[c]) /\ parent[c] = "await"
    BY <1>4
  <2> QED  BY <1>2, <2>1 DEF OwnNumber
<1>5. parent'[c] = "await" /\ clientQ'[c] = <<>> => Waiting(c)' \/ (server' = "reply" /\ message'.text = c)
  BY DEF OwnNumber
<1> QED  BY <1>3, <1>4, <1>5 DEF OwnNumber

LEMMA ServerEndOwn ==
  ASSUME MqChatAssumption, Base, Base', OwnInv, Interrupted \/ Crash
  PROVE  OwnInv'
<1>1. CASE Interrupted
  <2>1. ~named' /\ server' = "off"
    BY <1>1 DEF Interrupted, Gone
  <2> QED  BY <2>1 DEF OwnInv, NumbersOwn, ExitsOwn, Served
<1>2. CASE Crash
  BY <1>2 DEF Crash, OwnInv
<1> QED  BY <1>1, <1>2

LEMMA ServerStartOwn ==
  ASSUME MqChatAssumption, Base, Base', OwnInv, ServerStart
  PROVE  OwnInv'
<1> SUFFICES ASSUME ~crashed'
             PROVE  (named' <=> server' # "off") /\ NumbersOwn' /\ ExitsOwn'
  BY DEF OwnInv
<1>1. ~named /\ server = "off"
  BY DEF ServerStart, OwnInv
<1>2. /\ made' = made + 1 /\ made \in Nat /\ named' /\ server' = "receive"
      /\ opened' = opened /\ serverQ' = serverQ /\ made' \in Queues
  <2>1. made' = made + 1 /\ named' = TRUE /\ made < ServerRuns
    BY <1>1 DEF ServerStart
  <2>2. made \in Nat /\ ServerRuns \in Nat
    BY DEF Base, TypeOK, MqChatAssumption
  <2> QED  BY <2>1, <2>2 DEF ServerStart, clientVars, Queues
<1>3. \A c \in Clients : opened[c] # made'
  <2> TAKE c \in Clients
  <2>1. opened[c] <= made /\ opened[c] \in Nat
    BY DEF Base, TypeOK, ClientInv, ClientFit
  <2> QED  BY <1>2, <2>1
<1>4. serverQ[made'][2] = <<>>
  <2>1. made' > made
    BY <1>2
  <2> QED  BY <1>2, <2>1 DEF Base, QueueInv
<1>5. NumbersOwn'
  BY <1>2, <1>3 DEF NumbersOwn, Served
<1>6. ExitsOwn'
  BY <1>2, <1>4 DEF ExitsOwn
<1> QED  BY <1>2, <1>5, <1>6

LEMMA BroadcastDoneOwn ==
  ASSUME MqChatAssumption, Base, Base', OwnInv, BroadcastDone
  PROVE  OwnInv'
<1> SUFFICES ASSUME ~crashed'
             PROVE  (named' <=> server' # "off") /\ NumbersOwn' /\ ExitsOwn'
  BY DEF OwnInv
<1>1. /\ ~crashed /\ server = "broadcast" /\ server' = "receive" /\ named' = named /\ made' = made
      /\ client_queues' = client_queues /\ number' = number /\ serverQ' = serverQ
      /\ parent' = parent /\ opened' = opened /\ id' = id /\ clientQ' = clientQ
  BY DEF BroadcastDone, nameVars, clientVars
<1>2. \A w : Waiting(w)' <=> Waiting(w)
  BY <1>1 DEF Waiting
<1>3. (named <=> server # "off") /\ NumbersOwn /\ ExitsOwn
  BY <1>1 DEF OwnInv
<1>4. NumbersOwn'
  BY <1>1, <1>2, <1>3 DEF NumbersOwn, OwnNumber, Served
<1>5. ExitsOwn'
  BY <1>1, <1>3 DEF ExitsOwn, ExitIsOwn
<1> QED  BY <1>1, <1>3, <1>4, <1>5

LEMMA TypeOwn ==
  ASSUME MqChatAssumption, Base, Base', OwnInv, NEW c \in Clients, Type(c)
  PROVE  OwnInv'
<1> SUFFICES ASSUME ~crashed'
             PROVE  (named' <=> server' # "off") /\ NumbersOwn' /\ ExitsOwn'
  BY DEF OwnInv
<1>1. /\ ~crashed /\ server' = server /\ named' = named /\ made' = made /\ message' = message
      /\ client_queues' = client_queues /\ number' = number /\ serverQ' = serverQ
      /\ opened' = opened /\ id' = id /\ clientQ' = clientQ
  BY DEF Type, serverVars, nameVars
<1>2. /\ \A d \in Clients : parent[d] = "gone" => parent'[d] = "gone"
      /\ \A d \in Clients : parent'[d] \in Present => parent[d] \in Present
      /\ \A d \in Clients : parent'[d] = "await" => parent[d] = "await"
  BY DEF Type, Base, TypeOK, Present
<1>3. (named <=> server # "off") /\ NumbersOwn /\ ExitsOwn /\ \A d : Waiting(d)' <=> Waiting(d)
  BY <1>1 DEF OwnInv, Waiting
<1>4. NumbersOwn'
  BY <1>1, <1>2, <1>3 DEF NumbersOwn, OwnNumber, Served
<1>5. ExitsOwn'
  BY <1>1, <1>2, <1>3, ExitsStay DEF Base
<1> QED  BY <1>1, <1>3, <1>4, <1>5

LEMMA QuitOwn ==
  ASSUME MqChatAssumption, Base, Base', OwnInv, NEW c \in Clients, Quit(c)
  PROVE  OwnInv'
<1> SUFFICES ASSUME ~crashed'
             PROVE  (named' <=> server' # "off") /\ NumbersOwn' /\ ExitsOwn'
  BY DEF OwnInv
<1>1. /\ ~crashed /\ server' = server /\ named' = named /\ made' = made /\ message' = message
      /\ client_queues' = client_queues /\ number' = number /\ serverQ' = serverQ
      /\ opened' = opened /\ id' = id /\ clientQ' = clientQ
  BY DEF Quit, serverVars, nameVars
<1>2. /\ \A d \in Clients : parent[d] = "gone" => parent'[d] = "gone"
      /\ \A d \in Clients : parent'[d] \in Present => parent[d] \in Present
      /\ \A d \in Clients : parent'[d] = "await" => parent[d] = "await"
  BY DEF Quit, Base, TypeOK, Present
<1>3. (named <=> server # "off") /\ NumbersOwn /\ ExitsOwn /\ \A d : Waiting(d)' <=> Waiting(d)
  BY <1>1 DEF OwnInv, Waiting
<1>4. NumbersOwn'
  BY <1>1, <1>2, <1>3 DEF NumbersOwn, OwnNumber, Served
<1>5. ExitsOwn'
  BY <1>1, <1>2, <1>3, ExitsStay DEF Base
<1> QED  BY <1>1, <1>3, <1>4, <1>5

LEMMA KillListenerOwn ==
  ASSUME MqChatAssumption, Base, Base', OwnInv, NEW c \in Clients, KillListener(c)
  PROVE  OwnInv'
<1> SUFFICES ASSUME ~crashed'
             PROVE  (named' <=> server' # "off") /\ NumbersOwn' /\ ExitsOwn'
  BY DEF OwnInv
<1>1. /\ ~crashed /\ server' = server /\ named' = named /\ made' = made /\ message' = message
      /\ client_queues' = client_queues /\ number' = number /\ serverQ' = serverQ
      /\ opened' = opened /\ id' = id /\ clientQ' = clientQ
  BY DEF KillListener, serverVars, nameVars
<1>2. /\ \A d \in Clients : parent[d] = "gone" => parent'[d] = "gone"
      /\ \A d \in Clients : parent'[d] \in Present => parent[d] \in Present
      /\ \A d \in Clients : parent'[d] = "await" => parent[d] = "await"
  BY DEF KillListener, Base, TypeOK, Present
<1>3. (named <=> server # "off") /\ NumbersOwn /\ ExitsOwn /\ \A d : Waiting(d)' <=> Waiting(d)
  BY <1>1 DEF OwnInv, Waiting
<1>4. NumbersOwn'
  BY <1>1, <1>2, <1>3 DEF NumbersOwn, OwnNumber, Served
<1>5. ExitsOwn'
  BY <1>1, <1>2, <1>3, ExitsStay DEF Base
<1> QED  BY <1>1, <1>3, <1>4, <1>5

LEMMA CtrlCOwn ==
  ASSUME MqChatAssumption, Base, Base', OwnInv, NEW c \in Clients, CtrlC(c)
  PROVE  OwnInv'
<1> SUFFICES ASSUME ~crashed'
             PROVE  (named' <=> server' # "off") /\ NumbersOwn' /\ ExitsOwn'
  BY DEF OwnInv
<1>1. /\ ~crashed /\ server' = server /\ named' = named /\ made' = made /\ message' = message
      /\ client_queues' = client_queues /\ number' = number /\ serverQ' = serverQ
      /\ opened' = opened /\ id' = id /\ clientQ' = clientQ
  BY DEF CtrlC, serverVars, nameVars
<1>2. /\ \A d \in Clients : parent[d] = "gone" => parent'[d] = "gone"
      /\ \A d \in Clients : parent'[d] \in Present => parent[d] \in Present
      /\ \A d \in Clients : parent'[d] = "await" => parent[d] = "await"
  BY DEF CtrlC, Base, TypeOK, Present
<1>3. (named <=> server # "off") /\ NumbersOwn /\ ExitsOwn /\ \A d : Waiting(d)' <=> Waiting(d)
  BY <1>1 DEF OwnInv, Waiting
<1>4. NumbersOwn'
  BY <1>1, <1>2, <1>3 DEF NumbersOwn, OwnNumber, Served
<1>5. ExitsOwn'
  BY <1>1, <1>2, <1>3, ExitsStay DEF Base
<1> QED  BY <1>1, <1>3, <1>4, <1>5

(* The steps that move messages.                                           *)

LEMMA HandleTextOwn ==
  ASSUME MqChatAssumption, Base, Base', OwnInv, HandleText
  PROVE  OwnInv'
<1> SUFFICES ASSUME ~crashed'
             PROVE  (named' <=> server' # "off") /\ NumbersOwn' /\ ExitsOwn'
  BY DEF OwnInv
<1>1. /\ ~crashed /\ server = "receive" /\ server' # "off" /\ named' = named /\ made' = made
      /\ parent' = parent /\ opened' = opened /\ id' = id /\ clientQ' = clientQ
      /\ made \in Queues /\ message' \in Messages /\ message'.type = "TEXT"
      /\ message' = Head(serverQ[made][Of("TEXT")]) /\ serverQ[made][Of("TEXT")] # <<>>
  BY ReceiveFacts DEF HandleText, nameVars, clientVars, Base
<1>q. /\ QueueInv' /\ InitInv'
      /\ \A w : Waiting(w)' <=> Waiting(w) /\ ~("TEXT" = "INIT" /\ message'.text = w)
  <2>1. Receive("TEXT") /\ made' = made /\ opened' = opened /\ parent' = parent
    BY <1>1 DEF HandleText
  <2> QED  BY <2>1, ReceiveInv DEF Base
<1>e. \A j \in 1 .. Len(serverQ'[made][2]) :
        \E k \in 1 .. Len(serverQ[made][2]) : serverQ'[made][2][j] = serverQ[made][2][k]
  <2>1. Receive("TEXT") /\ Of("TEXT") = 1
    BY DEF HandleText, Of
  <2>2. serverQ'[made][2] = serverQ[made][2]
    BY <1>1, <2>1, ReceiveQueues DEF Base
  <2> QED  BY <2>2
<1>3. (named <=> server # "off") /\ NumbersOwn /\ ExitsOwn
  BY <1>1 DEF OwnInv
<1>c. client_queues' = client_queues /\ number' = number
  BY DEF HandleText
<1>4. NumbersOwn'
  <2> SUFFICES ASSUME NEW c \in Clients, Served(c)' PROVE OwnNumber(c)'
    BY DEF NumbersOwn
  <2>1. OwnNumber(c)
    BY <1>1, <1>3 DEF NumbersOwn, Served
  <2> QED  BY <1>1, <1>c, <1>q, <2>1, OwnStays DEF Base
<1>5. ExitsOwn'
  BY <1>1, <1>c, <1>e, <1>3, ExitsStay DEF Base
<1> QED  BY <1>1, <1>3, <1>4, <1>5

(* The entry that is closed is that of a client that has left.             *)
LEMMA ClosedHasLeft ==
  ASSUME MqChatAssumption, Base, OwnInv, ~crashed, HandleClientExit
  PROVE  /\ message'.id \in Entry /\ message'.id < number
         /\ client_queues' = [client_queues EXCEPT ![message'.id] = None]
         /\ client_queues[message'.id] # None => parent[client_queues[message'.id]] = "gone"
<1>1. /\ made \in Queues /\ server # "off" /\ message' = Head(serverQ[made][2]) /\ serverQ[made][2] # <<>>
  BY ReceiveFacts DEF HandleClientExit, Base, Of
<1>2. serverQ[made][2] \in Seq(Messages)
  BY <1>1, QueueType DEF Base
<1>3. 1 \in 1 .. Len(serverQ[made][2]) /\ message' = serverQ[made][2][1]
  BY <1>1, <1>2, TailFacts
<1>4. PICK m : m = message'
  OBVIOUS
<1>5. ExitIsOwn(m)
  BY <1>1, <1>3, <1>4 DEF OwnInv, ExitsOwn
<1>6. m.id \in Entry /\ m.id < number
  <2>1. number \in Nat /\ MaxClients \in Nat /\ number <= MaxClients
    BY DEF Base, TypeOK, MqChatAssumption
  <2> QED  BY <1>5, <2>1 DEF ExitIsOwn, Entry
<1> QED  BY <1>4, <1>5, <1>6 DEF ExitIsOwn, HandleClientExit

LEMMA HandleClientExitOwn ==
  ASSUME MqChatAssumption, Base, Base', OwnInv, HandleClientExit
  PROVE  OwnInv'
<1> SUFFICES ASSUME ~crashed'
             PROVE  (named' <=> server' # "off") /\ NumbersOwn' /\ ExitsOwn'
  BY DEF OwnInv
<1>1. /\ ~crashed /\ server = "receive" /\ server' # "off" /\ named' = named /\ made' = made
      /\ parent' = parent /\ opened' = opened /\ id' = id /\ clientQ' = clientQ
      /\ made \in Queues /\ message' \in Messages /\ message'.type = "CLIENT_EXIT"
      /\ message' = Head(serverQ[made][Of("CLIENT_EXIT")]) /\ serverQ[made][Of("CLIENT_EXIT")] # <<>>
  BY ReceiveFacts DEF HandleClientExit, nameVars, clientVars, Base
<1>q. /\ QueueInv' /\ InitInv'
      /\ \A w : Waiting(w)' <=> Waiting(w) /\ ~("CLIENT_EXIT" = "INIT" /\ message'.text = w)
  <2>1. Receive("CLIENT_EXIT") /\ made' = made /\ opened' = opened /\ parent' = parent
    BY <1>1 DEF HandleClientExit
  <2> QED  BY <2>1, ReceiveInv DEF Base
<1>e. \A j \in 1 .. Len(serverQ'[made][2]) :
        \E k \in 1 .. Len(serverQ[made][2]) : serverQ'[made][2][j] = serverQ[made][2][k]
  <2>1. Receive("CLIENT_EXIT") /\ Of("CLIENT_EXIT") = 2
    BY DEF HandleClientExit, Of
  <2>2. /\ Len(serverQ'[made][2]) = Len(serverQ[made][2]) - 1
        /\ \A j \in 1 .. Len(serverQ'[made][2]) : serverQ'[made][2][j] = serverQ[made][2][j + 1]
    BY <1>1, <2>1, ReceiveQueues DEF Base
  <2>3. PICK n \in Nat : n = Len(serverQ[made][2])
    BY <1>1, QueueType DEF Base
  <2>4. \A j \in 1 .. n - 1 : j + 1 \in 1 .. n
    BY <2>3
  <2> QED  BY <2>2, <2>3, <2>4
<1>3. (named <=> server # "off") /\ NumbersOwn /\ ExitsOwn
  BY <1>1 DEF OwnInv
<1>c. /\ message'.id \in Entry /\ number' = number
      /\ client_queues' = [client_queues EXCEPT ![message'.id] = None]
      /\ client_queues[message'.id] # None => parent[client_queues[message'.id]] = "gone"
  BY <1>1, ClosedHasLeft DEF HandleClientExit
<1>4. NumbersOwn'
  <2> SUFFICES ASSUME NEW c \in Clients, Served(c)' PROVE OwnNumber(c)'
    BY DEF NumbersOwn
  <2>1. OwnNumber(c)
    BY <1>1, <1>3 DEF NumbersOwn, Served
  <2>2. CASE parent[c] = "gone"
    BY <1>1, <2>2 DEF OwnNumber, Present
  <2>3. CASE parent[c] # "gone"
    <3>1. \A e \in Entry : client_queues[e] = c => client_queues'[e] = c
      BY <1>c, <2>3 DEF Base, TypeOK, MqChatAssumption
    <3> QED  BY <1>1, <1>c, <1>q, <2>1, <3>1, OwnStays DEF Base
  <2> QED  BY <2>2, <2>3
<1>5. ExitsOwn'
  <2>1. \A e \in Entry : client_queues'[e] \in {client_queues[e], None}
    BY <1>c DEF Base, TypeOK
  <2> QED  BY <1>1, <1>c, <1>e, <1>3, <2>1, ExitsStay DEF Base
<1> QED  BY <1>1, <1>3, <1>4, <1>5

LEMMA HandleInitOwn ==
  ASSUME MqChatAssumption, Base, Base', OwnInv, HandleInit
  PROVE  OwnInv'
<1> SUFFICES ASSUME ~crashed'
             PROVE  (named' <=> server' # "off") /\ NumbersOwn' /\ ExitsOwn'
  BY DEF OwnInv
<1>1. /\ ~crashed /\ server = "receive" /\ server' # "off" /\ named' = named /\ made' = made
      /\ parent' = parent /\ opened' = opened /\ id' = id /\ clientQ' = clientQ
      /\ made \in Queues /\ message' \in Messages /\ message'.type = "INIT"
      /\ message' = Head(serverQ[made][Of("INIT")]) /\ serverQ[made][Of("INIT")] # <<>>
  BY ReceiveFacts DEF HandleInit, nameVars, clientVars, Base
<1>q. /\ QueueInv' /\ InitInv'
      /\ \A w : Waiting(w)' <=> Waiting(w) /\ ~("INIT" = "INIT" /\ message'.text = w)
  <2>1. Receive("INIT") /\ made' = made /\ opened' = opened /\ parent' = parent
    BY <1>1 DEF HandleInit
  <2> QED  BY <2>1, ReceiveInv DEF Base
<1>e. \A j \in 1 .. Len(serverQ'[made][2]) :
        \E k \in 1 .. Len(serverQ[made][2]) : serverQ'[made][2][j] = serverQ[made][2][k]
  <2>1. Receive("INIT") /\ Of("INIT") = 1
    BY DEF HandleInit, Of
  <2>2. serverQ'[made][2] = serverQ[made][2]
    BY <1>1, <2>1, ReceiveQueues DEF Base
  <2> QED  BY <2>2
<1>3. (named <=> server # "off") /\ NumbersOwn /\ ExitsOwn
  BY <1>1 DEF OwnInv
<1>p. PICK d : d = message'.text
  OBVIOUS
<1>c. /\ d \in Clients /\ number \in Entry /\ parent[d] \in {"await", "gone"}
      /\ \A w : Waiting(w)' <=> Waiting(w) /\ w # d
      /\ \/ linked[d] /\ number' = number + 1 /\ server' = "reply"
            /\ client_queues' = [client_queues EXCEPT ![number] = d]
         \/ ~linked[d] /\ number' = number /\ client_queues' = [client_queues EXCEPT ![number] = None]
  <2>1. /\ d \in Clients /\ number \in Entry /\ parent[d] \in {"await", "gone"}
        /\ \A w : Waiting(w)' <=> Waiting(w) /\ w # d
    BY <1>p, HandleInitBase
  <2>2. \/ linked[d] /\ number' = number + 1 /\ server' = "reply"
            /\ client_queues' = [client_queues EXCEPT ![number] = d]
        \/ ~linked[d] /\ number' = number /\ client_queues' = [client_queues EXCEPT ![number] = None]
    BY <1>p DEF HandleInit
  <2> QED  BY <2>1, <2>2
<1>k. \A e \in Entry : e < number => client_queues'[e] = client_queues[e]
  <2>1. \A e \in Entry : e < number => e # number
    BY <1>c DEF Entry
  <2>2. client_queues \in [Entry -> Clients \cup {None}]
    BY DEF Base, TypeOK
  <2> QED  BY <1>c, <2>1, <2>2
<1>4. NumbersOwn'
  <2> SUFFICES ASSUME NEW c \in Clients, Served(c)' PROVE OwnNumber(c)'
    BY DEF NumbersOwn
  <2>1. OwnNumber(c)
    BY <1>1, <1>3 DEF NumbersOwn, Served
  <2>2. CASE parent[c] = "gone"
    BY <1>1, <2>2 DEF OwnNumber, Present
  <2>3. CASE parent[c] # "gone"
    <3>1. c = d => linked[d]
      BY <1>c, <2>3 DEF Base, ClientInv, ClientFit
    <3>2. Waiting(c) => Waiting(c)' \/ (server' = "reply" /\ message'.text = c)
      BY <1>p, <1>c, <3>1
    <3> QED  BY <1>1, <1>c, <1>k, <2>1, <3>2, OwnStays DEF Base
  <2> QED  BY <2>2, <2>3
<1>5. ExitsOwn'
  BY <1>1, <1>c, <1>k, <1>e, <1>3, ExitsStay DEF Base
<1> QED  BY <1>1, <1>3, <1>4, <1>5

(* The steps between a queue and a client.                                 *)

LEMMA SendIdOwn ==
  ASSUME MqChatAssumption, Base, Base', OwnInv, SendId
  PROVE  OwnInv'
<1> SUFFICES ASSUME ~crashed'
             PROVE  (named' <=> server' # "off") /\ NumbersOwn' /\ ExitsOwn'
  BY DEF OwnInv
<1>p. PICK d : d = message.text
  OBVIOUS
<1>1. /\ ~crashed /\ server = "reply" /\ server' = "receive" /\ named' = named /\ made' = made
      /\ client_queues' = client_queues /\ number' = number /\ serverQ' = serverQ /\ message' = message
      /\ parent' = parent /\ opened' = opened /\ id' = id
  BY DEF SendId, nameVars, clientVars
<1>3. (named <=> server # "off") /\ NumbersOwn /\ ExitsOwn
  BY <1>1 DEF OwnInv
<1>a. /\ d \in Clients /\ number - 1 \in Entry /\ number - 1 \in 0 .. number - 1
      /\ client_queues[number - 1] = d /\ clientQ[d] = <<>>
  <2>1. message \in Messages /\ message.type = "INIT" /\ number > 0 /\ client_queues[number - 1] = d
        /\ clientQ[d] = <<>> /\ number \in Nat /\ MaxClients \in Nat /\ number <= MaxClients
    BY <1>p, <1>1 DEF Base, ServerInv, TypeOK, MqChatAssumption
  <2>2. d \in Clients
    BY <1>p, <2>1, MessageFacts
  <2> QED  BY <2>1, <2>2 DEF Entry
<1>m. PICK m : m = Message("RECEIVE_ID", number - 1, None)
  OBVIOUS
<1>b. /\ m \in Messages /\ m.type = "RECEIVE_ID" /\ m.id = number - 1 /\ ToClient(d, m)
  BY <1>a, <1>m, <1>p, MessageTypes DEF Message, SendId
<1>c. /\ \A c \in Clients \ {d} : clientQ'[c] = clientQ[c]
      /\ clientQ'[d] # <<>> /\ Head(clientQ'[d]) = m
  BY <1>a, <1>b, ToClientFacts DEF Base
<1>w. \A w : Waiting(w)' <=> Waiting(w)
  BY <1>1 DEF Waiting
<1>4. NumbersOwn'
  <2> SUFFICES ASSUME NEW c \in Clients, Served(c)' PROVE OwnNumber(c)'
    BY DEF NumbersOwn
  <2>1. OwnNumber(c)
    BY <1>1, <1>3 DEF NumbersOwn, Served
  <2>2. CASE c = d
    BY <1>1, <1>a, <1>b, <1>c, <2>1, <2>2 DEF OwnNumber
  <2>3. CASE c # d
    BY <1>1, <1>c, <1>p, <1>w, <2>1, <2>3, OwnStays DEF Base
  <2> QED  BY <2>2, <2>3
<1>5. ExitsOwn'
  BY <1>1, <1>3, ExitsStay DEF Base
<1> QED  BY <1>1, <1>3, <1>4, <1>5

LEMMA BroadcastNextOwn ==
  ASSUME MqChatAssumption, Base, Base', OwnInv, BroadcastNext
  PROVE  OwnInv'
<1> SUFFICES ASSUME ~crashed'
             PROVE  (named' <=> server' # "off") /\ NumbersOwn' /\ ExitsOwn'
  BY DEF OwnInv
<1>p. PICK d : d = client_queues[i]
  OBVIOUS
<1>1. /\ ~crashed /\ server = "broadcast" /\ server' = "broadcast" /\ named' = named /\ made' = made
      /\ client_queues' = client_queues /\ number' = number /\ serverQ' = serverQ /\ message' = message
      /\ parent' = parent /\ opened' = opened /\ id' = id
  BY DEF BroadcastNext, nameVars, clientVars
<1>3. (named <=> server # "off") /\ NumbersOwn /\ ExitsOwn
  BY <1>1 DEF OwnInv
<1>a. i \in Entry /\ message \in Messages /\ message.type = "TEXT"
  BY DEF BroadcastNext, Base, ServerInv, TypeOK, Entry
<1>b. d # None => d \in Clients /\ opened[d] = made /\ ~Waiting(d) /\ ToClient(d, message)
  BY <1>a, <1>p DEF Base, ServerInv, TypeOK, BroadcastNext
<1>c. d = None => clientQ' = clientQ
  BY <1>p DEF BroadcastNext, ToClient, Base, TypeOK, MqChatAssumption
<1>d. d # None =>
      /\ \A c \in Clients \ {d} : clientQ'[c] = clientQ[c]
      /\ clientQ'[d] # <<>> /\ (clientQ[d] # <<>> => Head(clientQ'[d]) = Head(clientQ[d]))
  BY <1>a, <1>b, ToClientFacts DEF Base
<1>w. \A w : Waiting(w)' <=> Waiting(w)
  BY <1>1 DEF Waiting
<1>4. NumbersOwn'
  <2> SUFFICES ASSUME NEW c \in Clients, Served(c)' PROVE OwnNumber(c)'
    BY DEF NumbersOwn
  <2>1. OwnNumber(c)
    BY <1>1, <1>3 DEF NumbersOwn, Served
  <2>2. CASE c = d /\ d # None
    <3>1. parent[c] # "await" \/ clientQ[c] # <<>>
      BY <1>1, <1>b, <2>1, <2>2 DEF OwnNumber
    <3> QED  BY <1>1, <1>d, <1>w, <2>1, <2>2, <3>1, OwnStays DEF Base
  <2>3. CASE c # d \/ d = None
    <3>1. clientQ'[c] = clientQ[c]
      BY <1>c, <1>d, <2>3
    <3> QED  BY <1>1, <1>w, <2>1, <3>1, OwnStays DEF Base
  <2> QED  BY <2>2, <2>3
<1>5. ExitsOwn'
  BY <1>1, <1>3, ExitsStay DEF Base
<1> QED  BY <1>1, <1>3, <1>4, <1>5

LEMMA OpenOwn ==
  ASSUME MqChatAssumption, Base, Base', OwnInv, NEW d \in Clients, Open(d)
  PROVE  OwnInv'
<1> SUFFICES ASSUME ~crashed'
             PROVE  (named' <=> server' # "off") /\ NumbersOwn' /\ ExitsOwn'
  BY DEF OwnInv
<1>1. /\ ~crashed /\ server' = server /\ named' = named /\ made' = made /\ message' = message
      /\ client_queues' = client_queues /\ number' = number /\ serverQ' = serverQ
      /\ id' = id /\ clientQ' = clientQ
  BY DEF Open, serverVars, nameVars
<1>3. (named <=> server # "off") /\ NumbersOwn /\ ExitsOwn
  BY <1>1 DEF OwnInv
<1>a. /\ parent[d] = "start" /\ parent'[d] \in {"init", "gone"}
      /\ \A c \in Clients \ {d} : parent'[c] = parent[c] /\ opened'[c] = opened[c]
  BY DEF Open, Base, TypeOK
<1>w. \A w : Waiting(w)' <=> Waiting(w)
  BY <1>1 DEF Waiting
<1>4. NumbersOwn'
  <2> SUFFICES ASSUME NEW c \in Clients, Served(c)' PROVE OwnNumber(c)'
    BY DEF NumbersOwn
  <2>2. CASE c = d
    BY <1>a, <2>2 DEF OwnNumber, Present
  <2>3. CASE c # d
    <3>1. OwnNumber(c)
      BY <1>1, <1>3, <1>a, <2>3 DEF NumbersOwn, Served
    <3> QED  BY <1>1, <1>a, <1>w, <2>3, <3>1, OwnStays DEF Base
  <2> QED  BY <2>2, <2>3
<1>5. ExitsOwn'
  <2>1. \A c \in Clients : parent[c] = "gone" => parent'[c] = "gone"
    BY <1>a
  <2> QED  BY <1>1, <1>3, <2>1, ExitsStay DEF Base
<1> QED  BY <1>1, <1>3, <1>4, <1>5

LEMMA SendInitOwn ==
  ASSUME MqChatAssumption, Base, Base', OwnInv, NEW d \in Clients, SendInit(d)
  PROVE  OwnInv'
<1> SUFFICES ASSUME ~crashed'
             PROVE  (named' <=> server' # "off") /\ NumbersOwn' /\ ExitsOwn'
  BY DEF OwnInv
<1>1. /\ ~crashed /\ server' = server /\ named' = named /\ made' = made /\ message' = message
      /\ client_queues' = client_queues /\ number' = number
      /\ opened' = opened /\ id' = id /\ clientQ' = clientQ
  BY DEF SendInit, serverVars, nameVars
<1>3. (named <=> server # "off") /\ NumbersOwn /\ ExitsOwn
  BY <1>1 DEF OwnInv
<1>a. /\ parent[d] = "init" /\ parent'[d] = "await"
      /\ \A c \in Clients \ {d} : parent'[c] = parent[c]
  BY DEF SendInit, Base, TypeOK
<1>m. PICK m : m = Message("INIT", -1, d)
  OBVIOUS
<1>s. m \in Messages /\ m.type = "INIT" /\ opened[d] > 0 /\ ToServer(d, m)
  <2>1. ToServer(d, m) /\ m.type = "INIT"
    BY <1>m DEF SendInit, Message
  <2>2. opened[d] > 0
    BY <1>a DEF Base, ClientInv, ClientFit, Present
  <2> QED  BY <1>m, <2>1, <2>2, MessageTypes
<1>w. \A w : Waiting(w)' <=> Waiting(w) \/ ("INIT" = "INIT" /\ w = d)
  <2>1. /\ m.type \in {"TEXT", "CLIENT_EXIT"} \/ m = Message("INIT", -1, d)
        /\ m.type = "INIT" => parent[d] = "init" /\ parent'[d] = "await"
        /\ m.type # "INIT" => parent[d] \in {"sending", "bye"}
        /\ \A c \in Clients \ {d} : parent'[c] = parent[c]
        /\ made' = made /\ opened' = opened
    BY <1>1, <1>a, <1>m, <1>s
  <2> QED  BY <1>s, <2>1, SendInv DEF Base
<1>4. NumbersOwn'
  <2> SUFFICES ASSUME NEW c \in Clients, Served(c)' PROVE OwnNumber(c)'
    BY DEF NumbersOwn
  <2>1. OwnNumber(c)
    BY <1>1, <1>3 DEF NumbersOwn, Served
  <2>2. CASE c = d
    <3>1. clientQ[d] = <<>> /\ Waiting(d)'
      BY <1>a, <1>w DEF Base, ClientInv, ClientFit
    <3> QED  BY <1>1, <1>a, <2>2, <3>1 DEF OwnNumber, Present
  <2>3. CASE c # d
    BY <1>1, <1>a, <1>w, <2>1, <2>3, OwnStays DEF Base
  <2> QED  BY <2>2, <2>3
<1>5. ExitsOwn'
  <2>1. server' # "off" => serverQ'[made][2] = serverQ[made][2]
    <3> SUFFICES ASSUME server # "off" PROVE serverQ'[made][2] = serverQ[made][2]
      BY <1>1
    <3>1. made \in Queues
      BY DEF Base, TypeOK, ServerInv, Queues
    <3>2. Of(m.type) # 2
      BY <1>s DEF Of
    <3> QED  BY <1>s, <3>1, <3>2, SendQueues DEF Base
  <2>2. \A c \in Clients : parent[c] = "gone" => parent'[c] = "gone"
    BY <1>a
  <2> QED  BY <1>1, <1>3, <2>1, <2>2, ExitsStay DEF Base
<1> QED  BY <1>1, <1>3, <1>4, <1>5

LEMMA SendTextOwn ==
  ASSUME MqChatAssumption, Base, Base', OwnInv, NEW d \in Clients, SendText(d)
  PROVE  OwnInv'
<1> SUFFICES ASSUME ~crashed'
             PROVE  (named' <=> server' # "off") /\ NumbersOwn' /\ ExitsOwn'
  BY DEF OwnInv
<1>1. /\ ~crashed /\ server' = server /\ named' = named /\ made' = made /\ message' = message
      /\ client_queues' = client_queues /\ number' = number
      /\ opened' = opened /\ id' = id /\ clientQ' = clientQ
  BY DEF SendText, serverVars, nameVars
<1>3. (named <=> server # "off") /\ NumbersOwn /\ ExitsOwn
  BY <1>1 DEF OwnInv
<1>a. /\ parent[d] = "sending" /\ parent'[d] \in {"typing", "kill"}
      /\ \A c \in Clients \ {d} : parent'[c] = parent[c]
  BY DEF SendText, Base, TypeOK
<1>m. PICK m : m = Message("TEXT", id[d], line[d])
  OBVIOUS
<1>s. m \in Messages /\ m.type = "TEXT" /\ opened[d] > 0 /\ ToServer(d, m)
  <2>1. ToServer(d, m) /\ m.type = "TEXT"
    BY <1>m DEF SendText, Message
  <2>2. opened[d] > 0 /\ id[d] \in Entry /\ line[d] \in Texts
    BY <1>a DEF Base, ClientInv, ClientFit, Present
  <2> QED  BY <1>m, <2>1, <2>2, MessageTypes
<1>w. \A w : Waiting(w)' <=> Waiting(w) \/ ("TEXT" = "INIT" /\ w = d)
  <2>1. /\ m.type \in {"TEXT", "CLIENT_EXIT"} \/ m = Message("INIT", -1, d)
        /\ m.type = "INIT" => parent[d] = "init" /\ parent'[d] = "await"
        /\ m.type # "INIT" => parent[d] \in {"sending", "bye"}
        /\ \A c \in Clients \ {d} : parent'[c] = parent[c]
        /\ made' = made /\ opened' = opened
    BY <1>1, <1>a, <1>m, <1>s
  <2> QED  BY <1>s, <2>1, SendInv DEF Base
<1>4. NumbersOwn'
  <2> SUFFICES ASSUME NEW c \in Clients, Served(c)' PROVE OwnNumber(c)'
    BY DEF NumbersOwn
  <2>1. OwnNumber(c)
    BY <1>1, <1>3 DEF NumbersOwn, Served
  <2>2. CASE c = d
    BY <1>1, <1>a, <2>1, <2>2 DEF OwnNumber, Present
  <2>3. CASE c # d
    BY <1>1, <1>a, <1>w, <2>1, <2>3, OwnStays DEF Base
  <2> QED  BY <2>2, <2>3
<1>5. ExitsOwn'
  <2>1. server' # "off" => serverQ'[made][2] = serverQ[made][2]
    <3> SUFFICES ASSUME server # "off" PROVE serverQ'[made][2] = serverQ[made][2]
      BY <1>1
    <3>1. made \in Queues
      BY DEF Base, TypeOK, ServerInv, Queues
    <3>2. Of(m.type) # 2
      BY <1>s DEF Of
    <3> QED  BY <1>s, <3>1, <3>2, SendQueues DEF Base
  <2>2. \A c \in Clients : parent[c] = "gone" => parent'[c] = "gone"
    BY <1>a
  <2> QED  BY <1>1, <1>3, <2>1, <2>2, ExitsStay DEF Base
<1> QED  BY <1>1, <1>3, <1>4, <1>5

LEMMA SendExitOwn ==
  ASSUME MqChatAssumption, Base, Base', OwnInv, NEW d \in Clients, SendExit(d)
  PROVE  OwnInv'
<1> SUFFICES ASSUME ~crashed'
             PROVE  (named' <=> server' # "off") /\ NumbersOwn' /\ ExitsOwn'
  BY DEF OwnInv
<1>1. /\ ~crashed /\ server' = server /\ named' = named /\ made' = made /\ message' = message
      /\ client_queues' = client_queues /\ number' = number
      /\ opened' = opened /\ id' = id /\ clientQ' = clientQ
  BY DEF SendExit, serverVars, nameVars
<1>3. (named <=> server # "off") /\ NumbersOwn /\ ExitsOwn
  BY <1>1 DEF OwnInv
<1>a. /\ parent[d] = "bye" /\ parent'[d] = "gone"
      /\ \A c \in Clients \ {d} : parent'[c] = parent[c]
  BY DEF SendExit, Base, TypeOK
<1>m. PICK m : m = Message("CLIENT_EXIT", id[d], None)
  OBVIOUS
<1>s. m \in Messages /\ m.type = "CLIENT_EXIT" /\ opened[d] > 0 /\ ToServer(d, m)
  <2>1. ToServer(d, m) /\ m.type = "CLIENT_EXIT"
    BY <1>m DEF SendExit, Message
  <2>2. opened[d] > 0 /\ id[d] \in Entry
    BY <1>a DEF Base, ClientInv, ClientFit, Present
  <2> QED  BY <1>m, <2>1, <2>2, MessageTypes
<1>w. \A w : Waiting(w)' <=> Waiting(w) \/ ("CLIENT_EXIT" = "INIT" /\ w = d)
  <2>1. /\ m.type \in {"TEXT", "CLIENT_EXIT"} \/ m = Message("INIT", -1, d)
        /\ m.type = "INIT" => parent[d] = "init" /\ parent'[d] = "await"
        /\ m.type # "INIT" => parent[d] \in {"sending", "bye"}
        /\ \A c \in Clients \ {d} : parent'[c] = parent[c]
        /\ made' = made /\ opened' = opened
    BY <1>1, <1>a, <1>m, <1>s
  <2> QED  BY <1>s, <2>1, SendInv DEF Base
<1>4. NumbersOwn'
  <2> SUFFICES ASSUME NEW c \in Clients, Served(c)' PROVE OwnNumber(c)'
    BY DEF NumbersOwn
  <2>1. OwnNumber(c)
    BY <1>1, <1>3 DEF NumbersOwn, Served
  <2>2. CASE c = d
    BY <1>a, <2>2 DEF OwnNumber, Present
  <2>3. CASE c # d
    BY <1>1, <1>a, <1>w, <2>1, <2>3, OwnStays DEF Base
  <2> QED  BY <2>2, <2>3
<1>5. ExitsOwn'
  <2> SUFFICES ASSUME server # "off", NEW j \in 1 .. Len(serverQ'[made][2])
               PROVE  ExitIsOwn(serverQ[made][2][j])'
    BY <1>1 DEF ExitsOwn
  <2>1. PICK e : e = serverQ'[made][2][j]
    OBVIOUS
  <2>2. made \in Queues /\ Len(serverQ[made][2]) \in Nat
    <3>1. made \in Queues
      BY DEF Base, TypeOK, ServerInv, Queues
    <3> QED  BY <3>1, QueueType DEF Base
  <2>3. IF made = opened[d]
        THEN /\ Len(serverQ'[made][2]) = Len(serverQ[made][2]) + 1
             /\ serverQ'[made][2][Len(serverQ[made][2]) + 1] = m
             /\ \A k \in 1 .. Len(serverQ[made][2]) : serverQ'[made][2][k] = serverQ[made][2][k]
        ELSE serverQ'[made][2] = serverQ[made][2]
    <3>1. Of(m.type) = 2
      BY <1>s DEF Of
    <3>2. IF made = opened[d] /\ 2 = Of(m.type)
          THEN /\ Len(serverQ'[made][2]) = Len(serverQ[made][2]) + 1
               /\ serverQ'[made][2][Len(serverQ[made][2]) + 1] = m
               /\ \A k \in 1 .. Len(serverQ[made][2]) : serverQ'[made][2][k] = serverQ[made][2][k]
          ELSE serverQ'[made][2] = serverQ[made][2]
      BY <1>s, <2>2, SendQueues DEF Base
    <3> QED  BY <3>1, <3>2
  <2>4. \/ \E k \in 1 .. Len(serverQ[made][2]) : e = serverQ[made][2][k]
        \/ e = m /\ made = opened[d]
    <3>1. CASE made = opened[d]
      <4>1. j \in 1 .. Len(serverQ[made][2]) \/ j = Len(serverQ[made][2]) + 1
        BY <2>2, <2>3, <3>1
      <4> QED  BY <2>1, <2>3, <3>1, <4>1
    <3>2. CASE made # opened[d]
      BY <2>1, <2>3, <3>2
    <3> QED  BY <3>1, <3>2
  <2>5. ExitIsOwn(e)'
    <3>1. CASE \E k \in 1 .. Len(serverQ[made][2]) : e = serverQ[made][2][k]
      <4>1. ExitIsOwn(e)
        BY <1>3, <3>1 DEF ExitsOwn
      <4>2. \A c \in Clients : parent[c] = "gone" => parent'[c] = "gone"
        BY <1>a
      <4> QED  BY <1>1, <4>1, <4>2, ExitStays DEF Base
    <3>2. CASE e = m /\ made = opened[d]
      <4>1. e.id = id[d]
        BY <1>m, <3>2 DEF Message
      <4>2. id[d] \in 0 .. number - 1 /\ client_queues[id[d]] = d
        BY <1>3, <1>a, <3>2 DEF NumbersOwn, OwnNumber, Served, Present
      <4> QED  BY <1>1, <1>a, <4>1, <4>2 DEF ExitIsOwn
    <3> QED  BY <2>4, <3>1, <3>2
  <2> QED  BY <1>1, <2>1, <2>5
<1> QED  BY <1>1, <1>3, <1>4, <1>5

LEMMA GetIdOwn ==
  ASSUME MqChatAssumption, Base, Base', OwnInv, NEW d \in Clients, GetId(d)
  PROVE  OwnInv'
<1> SUFFICES ASSUME ~crashed'
             PROVE  (named' <=> server' # "off") /\ NumbersOwn' /\ ExitsOwn'
  BY DEF OwnInv
<1>1. /\ ~crashed /\ server' = server /\ named' = named /\ made' = made /\ message' = message
      /\ client_queues' = client_queues /\ number' = number /\ serverQ' = serverQ
      /\ opened' = opened
  BY DEF GetId, serverVars, nameVars
<1>3. (named <=> server # "off") /\ NumbersOwn /\ ExitsOwn
  BY <1>1 DEF OwnInv
<1>a. /\ parent[d] = "await" /\ clientQ[d] # <<>> /\ parent'[d] = "typing" /\ id'[d] = Head(clientQ[d]).id
      /\ \A c \in Clients \ {d} : parent'[c] = parent[c] /\ id'[c] = id[c] /\ clientQ'[c] = clientQ[c]
  BY DEF GetId, Base, TypeOK
<1>w. \A w : Waiting(w)' <=> Waiting(w)
  BY <1>1 DEF Waiting
<1>4. NumbersOwn'
  <2> SUFFICES ASSUME NEW c \in Clients, Served(c)' PROVE OwnNumber(c)'
    BY DEF NumbersOwn
  <2>1. OwnNumber(c)
    BY <1>1, <1>3 DEF NumbersOwn, Served
  <2>2. CASE c = d
    BY <1>1, <1>a, <2>1, <2>2 DEF OwnNumber
  <2>3. CASE c # d
    BY <1>1, <1>a, <1>w, <2>1, <2>3, OwnStays DEF Base
  <2> QED  BY <2>2, <2>3
<1>5. ExitsOwn'
  <2>1. \A c \in Clients : parent[c] = "gone" => parent'[c] = "gone"
    BY <1>a
  <2> QED  BY <1>1, <1>3, <2>1, ExitsStay DEF Base
<1> QED  BY <1>1, <1>3, <1>4, <1>5

LEMMA ListenOwn ==
  ASSUME MqChatAssumption, Base, Base', OwnInv, NEW d \in Clients, Listen(d)
  PROVE  OwnInv'
<1> SUFFICES ASSUME ~crashed'
             PROVE  (named' <=> server' # "off") /\ NumbersOwn' /\ ExitsOwn'
  BY DEF OwnInv
<1>1. /\ ~crashed /\ server' = server /\ named' = named /\ made' = made /\ message' = message
      /\ client_queues' = client_queues /\ number' = number /\ serverQ' = serverQ
      /\ opened' = opened /\ id' = id /\ parent' = parent
  BY DEF Listen, serverVars, nameVars
<1>3. (named <=> server # "off") /\ NumbersOwn /\ ExitsOwn
  BY <1>1 DEF OwnInv
<1>a. /\ parent[d] # "await" /\ \A c \in Clients \ {d} : clientQ'[c] = clientQ[c]
  BY DEF Listen, Base, TypeOK, ClientInv, ClientFit
<1>w. \A w : Waiting(w)' <=> Waiting(w)
  BY <1>1 DEF Waiting
<1>4. NumbersOwn'
  <2> SUFFICES ASSUME NEW c \in Clients, Served(c)' PROVE OwnNumber(c)'
    BY DEF NumbersOwn
  <2>1. OwnNumber(c)
    BY <1>1, <1>3 DEF NumbersOwn, Served
  <2>2. parent[c] # "await" \/ clientQ'[c] = clientQ[c]
    BY <1>a
  <2> QED  BY <1>1, <1>w, <2>1, <2>2, OwnStays DEF Base
<1>5. ExitsOwn'
  BY <1>1, <1>3, ExitsStay DEF Base
<1> QED  BY <1>1, <1>3, <1>4, <1>5

-----------------------------------------------------------------------------
(* What follows for a client.                                              *)

LEMMA StutterOwn ==
  ASSUME OwnInv, UNCHANGED vars
  PROVE  OwnInv'
<1>1. \A w : Waiting(w)' <=> Waiting(w)
  BY DEF Waiting, vars
<1>2. NumbersOwn' <=> NumbersOwn
  BY <1>1 DEF NumbersOwn, OwnNumber, Served, vars, serverVars, nameVars, clientVars
<1>3. ExitsOwn' <=> ExitsOwn
  BY DEF ExitsOwn, ExitIsOwn, vars, serverVars, nameVars, clientVars
<1>4. crashed' = crashed /\ named' = named /\ server' = server
  BY DEF vars, serverVars, nameVars
<1> QED  BY <1>2, <1>3, <1>4 DEF OwnInv

LEMMA NextOwn ==
  ASSUME MqChatAssumption, Base, OwnInv, [Next]_vars
  PROVE  OwnInv'
<1>0. Base'
  BY NextBase
<1>1. CASE Handle
  BY <1>0, <1>1, HandleInitOwn, SendIdOwn, HandleTextOwn, BroadcastNextOwn, BroadcastDoneOwn,
     HandleClientExitOwn DEF Handle
<1>2. CASE Operator
  BY <1>0, <1>2, ServerStartOwn, ServerEndOwn DEF Operator
<1>3. ASSUME NEW c \in Clients, Send(c) PROVE OwnInv'
  BY <1>0, <1>3, SendInitOwn, SendTextOwn, SendExitOwn DEF Send
<1>4. ASSUME NEW c \in Clients, Parent(c) PROVE OwnInv'
  BY <1>0, <1>4, OpenOwn, GetIdOwn, KillListenerOwn DEF Parent
<1>5. ASSUME NEW c \in Clients, User(c) PROVE OwnInv'
  BY <1>0, <1>5, TypeOwn, QuitOwn, CtrlCOwn DEF User
<1>6. ASSUME NEW c \in Clients, Listen(c) PROVE OwnInv'
  BY <1>0, <1>6, ListenOwn
<1>7. CASE UNCHANGED vars
  BY <1>7, StutterOwn
<1> QED  BY <1>1, <1>2, <1>3, <1>4, <1>5, <1>6, <1>7 DEF Next

(* The number a client goes by is that of its entry in the table           *)
(* (client.c:100-106, server.c:17-32), as long as no server is killed and  *)
(* leaves its queue behind.                                                *)
THEOREM NumbersAreOwn == Spec => []NumberIsOwn
<1>1. Init => Base /\ OwnInv
  BY MqChatAssumption, InitBase
<1>2. Base /\ OwnInv /\ [Next]_vars => Base' /\ OwnInv'
  BY MqChatAssumption, NextBase, NextOwn
<1>3. OwnInv => NumberIsOwn
  BY DEF OwnInv, NumbersOwn, OwnNumber, NumberIsOwn
<1> QED  BY <1>1, <1>2, <1>3, PTL DEF Spec

(* What OnlyLeaversClosed says of a step.                                  *)
ClosesLeaver ==
  ~crashed => \A e \in Entry :
    (client_queues[e] # None /\ client_queues'[e] = None /\ server' # "off")
      => parent[client_queues[e]] = "gone"

LEMMA NextCloses ==
  ASSUME MqChatAssumption, Base, OwnInv, [Next]_vars
  PROVE  ClosesLeaver
<1> SUFFICES ASSUME ~crashed, NEW e \in Entry, client_queues[e] # None, client_queues'[e] = None,
                    server' # "off"
             PROVE  parent[client_queues[e]] = "gone"
  BY DEF ClosesLeaver
<1>1. client_queues' # client_queues
  OBVIOUS
<1>2. HandleInit \/ HandleClientExit \/ ServerStart \/ Interrupted \/ Crash
  BY <1>1 DEF Next, vars, serverVars, Handle, Operator, Send, Parent, User, SendId, HandleText, BroadcastNext,
     BroadcastDone, SendInit, SendText, SendExit, Open, GetId, KillListener, Type, Quit, CtrlC, Listen
<1>3. e < number
  BY DEF Base, ServerInv, TypeOK, Entry
<1>4. CASE HandleInit
  <2>1. client_queues'[e] = client_queues[e]
    <3>1. e # number /\ client_queues \in [Entry -> Clients \cup {None}]
      BY <1>3 DEF Base, TypeOK, Entry
    <3> QED  BY <1>4, <3>1 DEF HandleInit
  <2> QED  BY <2>1
<1>5. CASE HandleClientExit
  <2>1. /\ message'.id \in Entry
        /\ client_queues' = [client_queues EXCEPT ![message'.id] = None]
        /\ client_queues[message'.id] # None => parent[client_queues[message'.id]] = "gone"
    BY <1>5, ClosedHasLeft
  <2>2. e = message'.id
    BY <2>1 DEF Base, TypeOK
  <2> QED  BY <2>1, <2>2
<1>6. CASE ServerStart
  <2>1. number = 0
    BY <1>6 DEF ServerStart, Base, ServerInv
  <2> QED  BY <1>3, <2>1 DEF Entry
<1>7. CASE Interrupted \/ Crash
  BY <1>7 DEF Interrupted, Crash, Gone
<1> QED  BY <1>2, <1>4, <1>5, <1>6, <1>7

(* handle_client_exit_message closes the queue of a client that has left   *)
(* and of no other (server.c:46-53), as long as no server is killed.       *)
THEOREM OnlyLeavers == Spec => OnlyLeaversClosed
<1>1. Init => Base /\ OwnInv
  BY MqChatAssumption, InitBase
<1>2. Base /\ OwnInv /\ [Next]_vars => Base' /\ OwnInv'
  BY MqChatAssumption, NextBase, NextOwn
<1>3. Base /\ OwnInv /\ [Next]_vars => [ClosesLeaver]_vars
  BY MqChatAssumption, NextCloses
<1>4. OnlyLeaversClosed <=> [][ClosesLeaver]_vars
  BY PTL DEF OnlyLeaversClosed, ClosesLeaver
<1> QED  BY <1>1, <1>2, <1>3, <1>4, PTL DEF Spec

-----------------------------------------------------------------------------
(* One order of the texts.  The text t is message j of server queue g.     *)
Holds(g, j, t) ==
  /\ j \in 1 .. Len(serverQ[g][1])
  /\ serverQ[g][1][j].type = "TEXT" /\ serverQ[g][1][j].text = t

InQueue(t) == \E g \in Queues : \E j \in Nat : Holds(g, j, t)
Logged(t)  == \E k \in 1 .. Len(log) : log[k] = t

QueuedOnce ==
  \A t \in Texts : \A g, h \in Queues : \A j, k \in Nat :
    Holds(g, j, t) /\ Holds(h, k, t) => g = h /\ j = k

(* A line that has been typed is with its client, in one place of one      *)
(* queue, or in the log, and in one of these only.                         *)
TextInv ==
  /\ QueuedOnce
  /\ \A t \in Texts : InQueue(t) \/ Logged(t) => t <= typed
  /\ \A t \in Texts : ~(InQueue(t) /\ Logged(t))
  /\ \A c \in Clients : parent[c] = "sending" =>
       /\ line[c] \in 1 .. typed /\ ~InQueue(line[c]) /\ ~Logged(line[c])
       /\ \A d \in Clients \ {c} : parent[d] = "sending" => line[d] # line[c]

LEMMA TextStays ==
  ASSUME TextInv, serverQ' = serverQ, log' = log, typed' = typed, line' = line,
         \A c \in Clients : parent'[c] = "sending" => parent[c] = "sending"
  PROVE  TextInv'
<1>1. \A t : (InQueue(t)' <=> InQueue(t)) /\ (Logged(t)' <=> Logged(t))
  BY DEF InQueue, Logged, Holds
<1>2. QueuedOnce'
  BY DEF TextInv, QueuedOnce, Holds
<1> QED  BY <1>1, <1>2 DEF TextInv

(* What the server receives is no longer queued: a text that it logs was   *)
(* not logged before.                                                      *)
LEMMA TextsReceived ==
  ASSUME TypeOK, QueueInv, ServerInv, TextInv,
         NEW type \in {"INIT", "TEXT", "CLIENT_EXIT"}, Receive(type),
         IF type = "TEXT" THEN log' = Append(log, message'.text) ELSE log' = log,
         typed' = typed, line' = line, parent' = parent
  PROVE  /\ TextInv'
         /\ type = "TEXT" => message'.text \in Texts /\ ~Logged(message'.text)
<1>1. /\ made \in Queues /\ serverQ[made][Of(type)] # <<>>
      /\ message' = Head(serverQ[made][Of(type)]) /\ message' \in Messages /\ message'.type = type
  BY ReceiveFacts
<1>2. \A g \in Queues : Len(serverQ[g][1]) \in Nat /\ serverQ[g][1] \in Seq(Messages)
  BY QueueType
<1>3. type = "TEXT" => message'.text \in Texts /\ Holds(made, 1, message'.text)
  <2> SUFFICES ASSUME type = "TEXT" PROVE message'.text \in Texts /\ Holds(made, 1, message'.text)
    OBVIOUS
  <2>1. serverQ[made][1] # <<>> /\ message' = Head(serverQ[made][1])
    BY <1>1 DEF Of
  <2>2. message' = serverQ[made][1][1] /\ 1 \in 1 .. Len(serverQ[made][1])
    BY <1>1, <1>2, <2>1, TailFacts
  <2> QED  BY <1>1, <2>2, MessageFacts DEF Holds
<1>4. \A g \in Queues : \A j \in Nat : \A t :
        Holds(g, j, t)' => IF g = made /\ type # "CLIENT_EXIT" THEN Holds(g, j + 1, t) /\ j > 0 ELSE Holds(g, j, t)
  <2> SUFFICES ASSUME NEW g \in Queues, NEW j \in Nat, NEW t, Holds(g, j, t)'
               PROVE  IF g = made /\ type # "CLIENT_EXIT" THEN Holds(g, j + 1, t) /\ j > 0 ELSE Holds(g, j, t)
    OBVIOUS
  <2>1. IF g = made /\ 1 = Of(type)
        THEN /\ Len(serverQ'[g][1]) = Len(serverQ[g][1]) - 1
             /\ \A k \in 1 .. Len(serverQ'[g][1]) : serverQ'[g][1][k] = serverQ[g][1][k + 1]
        ELSE serverQ'[g][1] = serverQ[g][1]
    BY ReceiveQueues
  <2>2. (1 = Of(type)) <=> type # "CLIENT_EXIT"
    BY DEF Of
  <2>3. CASE g = made /\ type # "CLIENT_EXIT"
    <3>1. /\ Len(serverQ'[g][1]) = Len(serverQ[g][1]) - 1
          /\ \A k \in 1 .. Len(serverQ'[g][1]) : serverQ'[g][1][k] = serverQ[g][1][k + 1]
      BY <2>1, <2>2, <2>3
    <3>2. PICK n \in Nat : n = Len(serverQ[g][1])
      BY <1>2
    <3>3. j \in 1 .. n - 1 /\ serverQ'[g][1][j].type = "TEXT" /\ serverQ'[g][1][j].text = t
      BY <3>1, <3>2 DEF Holds
    <3>4. j + 1 \in 1 .. n /\ j > 0
      BY <3>2, <3>3
    <3>5. serverQ[g][1][j + 1] = serverQ'[g][1][j]
      BY <3>1, <3>2, <3>3
    <3> QED  BY <2>3, <3>2, <3>3, <3>4, <3>5 DEF Holds
  <2>4. CASE ~(g = made /\ type # "CLIENT_EXIT")
    <3>1. serverQ'[g][1] = serverQ[g][1]
      BY <2>1, <2>2, <2>4
    <3> QED  BY <2>4, <3>1 DEF Holds
  <2> QED  BY <2>3, <2>4
<1>5. \A t : InQueue(t)' => InQueue(t)
  <2> SUFFICES ASSUME NEW t, NEW g \in Queues, NEW j \in Nat, Holds(g, j, t)' PROVE InQueue(t)
    BY DEF InQueue
  <2>1. Holds(g, j, t) \/ Holds(g, j + 1, t)
    BY <1>4
  <2> QED  BY <2>1 DEF InQueue
<1>6. QueuedOnce'
  <2> SUFFICES ASSUME NEW t \in Texts, NEW g \in Queues, NEW h \in Queues, NEW j \in Nat, NEW k \in Nat,
                      Holds(g, j, t)', Holds(h, k, t)'
               PROVE  g = h /\ j = k
    BY DEF QueuedOnce
  <2>1. \A a, b \in Queues : \A l, n \in Nat : Holds(a, l, t) /\ Holds(b, n, t) => a = b /\ l = n
    BY DEF TextInv, QueuedOnce
  <2>2. Holds(g, j, t) \/ (g = made /\ type # "CLIENT_EXIT" /\ Holds(g, j + 1, t))
    BY <1>4
  <2>3. Holds(h, k, t) \/ (h = made /\ type # "CLIENT_EXIT" /\ Holds(h, k + 1, t))
    BY <1>4
  <2>4. g = h
    BY <2>1, <2>2, <2>3
  <2>5. CASE g = made /\ type # "CLIENT_EXIT"
    <3>1. Holds(g, j + 1, t) /\ Holds(g, k + 1, t)
      BY <1>4, <2>4, <2>5
    <3>2. j + 1 = k + 1
      BY <2>1, <3>1
    <3> QED  BY <2>4, <3>2
  <2>6. CASE ~(g = made /\ type # "CLIENT_EXIT")
    BY <2>1, <2>2, <2>3, <2>4, <2>6
  <2> QED  BY <2>5, <2>6
<1>7. \A t \in Texts : type = "TEXT" /\ t = message'.text => ~InQueue(t)'
  <2> SUFFICES ASSUME NEW t \in Texts, type = "TEXT", t = message'.text,
                      NEW g \in Queues, NEW j \in Nat, Holds(g, j, t)'
               PROVE  FALSE
    BY DEF InQueue
  <2>1. \A h \in Queues : \A k \in Nat : Holds(h, k, t) => h = made /\ k = 1
    <3>1. 1 \in Nat /\ Holds(made, 1, t)
      BY <1>3
    <3> QED  BY <1>1, <3>1 DEF TextInv, QueuedOnce
  <2>2. IF g = made THEN Holds(g, j + 1, t) /\ j > 0 ELSE Holds(g, j, t)
    BY <1>4
  <2>3. CASE g = made
    <3>1. j + 1 \in Nat /\ j + 1 # 1
      BY <2>2, <2>3
    <3> QED  BY <2>1, <2>2, <2>3, <3>1
  <2>4. CASE g # made
    BY <2>1, <2>2, <2>4
  <2> QED  BY <2>3, <2>4
<1>8. \A t : Logged(t)' <=> Logged(t) \/ (type = "TEXT" /\ t = message'.text)
  <2>1. CASE type = "TEXT"
    <3>1. /\ Len(log) \in Nat /\ Len(log') = Len(log) + 1
          /\ log'[Len(log) + 1] = message'.text
          /\ \A j \in 1 .. Len(log) : log'[j] = log[j]
      <4>1. log \in Seq(Texts) /\ message'.text \in Texts /\ log' = Append(log, message'.text)
        BY <1>3, <2>1 DEF TypeOK
      <4> QED  BY <4>1, AppendFacts
    <3> QED  BY <2>1, <3>1 DEF Logged
  <2>2. CASE type # "TEXT"
    BY <2>2 DEF Logged
  <2> QED  BY <2>1, <2>2
<1>9. type = "TEXT" => InQueue(message'.text)
  BY <1>1, <1>3 DEF InQueue
<1>10. type = "TEXT" => message'.text <= typed /\ ~Logged(message'.text)
  BY <1>3, <1>9 DEF TextInv
<1>11. \A t \in Texts : InQueue(t)' \/ Logged(t)' => t <= typed
  BY <1>5, <1>8, <1>10 DEF TextInv
<1>12. \A t \in Texts : ~(InQueue(t)' /\ Logged(t)')
  BY <1>5, <1>7, <1>8 DEF TextInv
<1>13. \A c \in Clients : parent[c] = "sending" =>
         /\ line[c] \in 1 .. typed /\ ~InQueue(line[c])' /\ ~Logged(line[c])'
         /\ \A d \in Clients \ {c} : parent[d] = "sending" => line[d] # line[c]
  <2> SUFFICES ASSUME NEW c \in Clients, parent[c] = "sending"
               PROVE  /\ line[c] \in 1 .. typed /\ ~InQueue(line[c])' /\ ~Logged(line[c])'
                      /\ \A d \in Clients \ {c} : parent[d] = "sending" => line[d] # line[c]
    OBVIOUS
  <2>1. /\ line[c] \in 1 .. typed /\ ~InQueue(line[c]) /\ ~Logged(line[c])
        /\ \A d \in Clients \ {c} : parent[d] = "sending" => line[d] # line[c]
    BY DEF TextInv
  <2> QED  BY <1>5, <1>8, <1>9, <2>1
<1>14. TextInv'
  <2>1. \A c \in Clients : parent'[c] = "sending" =>
          /\ line'[c] \in 1 .. typed' /\ ~InQueue(line[c])' /\ ~Logged(line[c])'
          /\ \A d \in Clients \ {c} : parent'[d] = "sending" => line'[d] # line'[c]
    BY <1>13
  <2>2. \A t \in Texts : InQueue(t)' \/ Logged(t)' => t <= typed'
    BY <1>11
  <2> QED  BY <1>6, <1>12, <2>1, <2>2 DEF TextInv
<1> QED  BY <1>3, <1>10, <1>14

(* What a client sends is queued in one more place.                        *)
LEMMA SendHolds ==
  ASSUME TypeOK, ClientInv, NEW c \in Clients, opened[c] > 0, NEW m \in Messages,
         m.type \in {"INIT", "TEXT", "CLIENT_EXIT"}, ToServer(c, m)
  PROVE  \A g \in Queues : \A j \in Nat : \A t :
           Holds(g, j, t)' <=>
             \/ Holds(g, j, t)
             \/ /\ m.type = "TEXT" /\ t = m.text
                /\ g = opened[c] /\ j = Len(serverQ[g][1]) + 1
<1> SUFFICES ASSUME NEW g \in Queues, NEW j \in Nat, NEW t
             PROVE  Holds(g, j, t)' <=>
                      \/ Holds(g, j, t)
                      \/ /\ m.type = "TEXT" /\ t = m.text
                         /\ g = opened[c] /\ j = Len(serverQ[g][1]) + 1
  OBVIOUS
<1>1. IF g = opened[c] /\ 1 = Of(m.type)
      THEN /\ Len(serverQ[g][1]) \in Nat
           /\ Len(serverQ'[g][1]) = Len(serverQ[g][1]) + 1
           /\ serverQ'[g][1][Len(serverQ[g][1]) + 1] = m
           /\ \A k \in 1 .. Len(serverQ[g][1]) : serverQ'[g][1][k] = serverQ[g][1][k]
      ELSE serverQ'[g][1] = serverQ[g][1]
  BY SendQueues
<1>2. (1 = Of(m.type)) <=> m.type # "CLIENT_EXIT"
  BY DEF Of
<1>3. CASE g = opened[c] /\ m.type # "CLIENT_EXIT"
  <2>1. /\ Len(serverQ[g][1]) \in Nat
        /\ Len(serverQ'[g][1]) = Len(serverQ[g][1]) + 1
        /\ serverQ'[g][1][Len(serverQ[g][1]) + 1] = m
        /\ \A k \in 1 .. Len(serverQ[g][1]) : serverQ'[g][1][k] = serverQ[g][1][k]
    BY <1>1, <1>2, <1>3
  <2>2. CASE j \in 1 .. Len(serverQ[g][1])
    <3>1. j \in 1 .. Len(serverQ'[g][1]) /\ serverQ'[g][1][j] = serverQ[g][1][j]
      BY <2>1, <2>2
    <3> QED  BY <2>1, <2>2, <3>1 DEF Holds
  <2>3. CASE j = Len(serverQ[g][1]) + 1
    <3>1. /\ j \in 1 .. Len(serverQ'[g][1]) /\ serverQ'[g][1][j] = m
          /\ j \notin 1 .. Len(serverQ[g][1])
      BY <2>1, <2>3
    <3> QED  BY <1>3, <2>3, <3>1 DEF Holds
  <2>4. CASE j \notin 1 .. Len(serverQ[g][1]) /\ j # Len(serverQ[g][1]) + 1
    <3>1. j \notin 1 .. Len(serverQ'[g][1])
      BY <2>1, <2>4
    <3> QED  BY <2>4, <3>1 DEF Holds
  <2> QED  BY <2>2, <2>3, <2>4
<1>4. CASE ~(g = opened[c] /\ m.type # "CLIENT_EXIT")
  BY <1>1, <1>2, <1>4 DEF Holds
<1> QED  BY <1>3, <1>4

(* INIT and CLIENT_EXIT are not texts.                                     *)
LEMMA NoTextSent ==
  ASSUME TypeOK, ClientInv, TextInv, NEW c \in Clients, opened[c] > 0, NEW m \in Messages,
         m.type \in {"INIT", "CLIENT_EXIT"}, ToServer(c, m),
         log' = log, typed' = typed, line' = line,
         \A d \in Clients : parent'[d] = "sending" => parent[d] = "sending"
  PROVE  TextInv'
<1>1. \A g \in Queues : \A j \in Nat : \A t : Holds(g, j, t)' <=> Holds(g, j, t)
  BY SendHolds
<1>2. \A t : (InQueue(t)' <=> InQueue(t)) /\ (Logged(t)' <=> Logged(t))
  BY <1>1 DEF InQueue, Logged
<1>3. QueuedOnce'
  BY <1>1 DEF TextInv, QueuedOnce
<1> QED  BY <1>2, <1>3 DEF TextInv

LEMMA SendTextTexts ==
  ASSUME MqChatAssumption, Base, TextInv, NEW c \in Clients, SendText(c)
  PROVE  TextInv'
<1>m. PICK m : m = Message("TEXT", id[c], line[c])
  OBVIOUS
<1>s. /\ m \in Messages /\ m.type = "TEXT" /\ m.text = line[c] /\ opened[c] > 0 /\ ToServer(c, m)
      /\ line[c] \in Texts
  <2>1. ToServer(c, m) /\ m.type = "TEXT" /\ m.text = line[c]
    BY <1>m DEF SendText, Message
  <2>2. opened[c] > 0 /\ id[c] \in Entry /\ line[c] \in Texts
    BY DEF SendText, Base, ClientInv, ClientFit, Present
  <2> QED  BY <1>m, <2>1, <2>2, MessageTypes
<1>1. /\ parent[c] = "sending" /\ parent'[c] # "sending" /\ log' = log /\ typed' = typed /\ line' = line
      /\ \A d \in Clients \ {c} : parent'[d] = parent[d]
  BY DEF SendText, serverVars, Base, TypeOK
<1>2. \A g \in Queues : \A j \in Nat : \A t :
        Holds(g, j, t)' <=>
          \/ Holds(g, j, t)
          \/ t = line[c] /\ g = opened[c] /\ j = Len(serverQ[g][1]) + 1
  BY <1>s, SendHolds DEF Base
<1>3. \A t : Logged(t)' <=> Logged(t)
  BY <1>1 DEF Logged
<1>4. \A t : InQueue(t)' => InQueue(t) \/ t = line[c]
  BY <1>2 DEF InQueue
<1>5. line[c] <= typed /\ ~InQueue(line[c]) /\ ~Logged(line[c])
  BY <1>1, <1>s DEF TextInv, Base, TypeOK
<1>6. QueuedOnce'
  <2> SUFFICES ASSUME NEW t \in Texts, NEW g \in Queues, NEW h \in Queues, NEW j \in Nat, NEW k \in Nat,
                      Holds(g, j, t)', Holds(h, k, t)'
               PROVE  g = h /\ j = k
    BY DEF QueuedOnce
  <2>1. CASE t = line[c]
    <3>1. ~Holds(g, j, t) /\ ~Holds(h, k, t)
      BY <1>5, <2>1 DEF InQueue
    <3> QED  BY <1>2, <3>1
  <2>2. CASE t # line[c]
    <3>1. Holds(g, j, t) /\ Holds(h, k, t)
      BY <1>2, <2>2
    <3> QED  BY <3>1 DEF TextInv, QueuedOnce
  <2> QED  BY <2>1, <2>2
<1>7. \A d \in Clients : parent'[d] = "sending" =>
        /\ line[d] \in 1 .. typed /\ ~InQueue(line[d])' /\ ~Logged(line[d])'
        /\ \A e \in Clients \ {d} : parent'[e] = "sending" => line[e] # line[d]
  <2> SUFFICES ASSUME NEW d \in Clients, parent'[d] = "sending"
               PROVE  /\ line[d] \in 1 .. typed /\ ~InQueue(line[d])' /\ ~Logged(line[d])'
                      /\ \A e \in Clients \ {d} : parent'[e] = "sending" => line[e] # line[d]
    OBVIOUS
  <2>1. d # c /\ parent[d] = "sending"
    BY <1>1
  <2>2. /\ line[d] \in 1 .. typed /\ ~InQueue(line[d]) /\ ~Logged(line[d])
        /\ \A e \in Clients \ {d} : parent[e] = "sending" => line[e] # line[d]
    BY <2>1 DEF TextInv
  <2> QED  BY <1>1, <1>3, <1>4, <2>1, <2>2
<1>8. \A t \in Texts : (InQueue(t)' \/ Logged(t)' => t <= typed) /\ ~(InQueue(t)' /\ Logged(t)')
  BY <1>3, <1>4, <1>5 DEF TextInv
<1> QED  BY <1>1, <1>6, <1>7, <1>8 DEF TextInv

LEMMA TypeTexts ==
  ASSUME MqChatAssumption, Base, TextInv, NEW c \in Clients, Type(c)
  PROVE  TextInv'
<1>1. /\ parent[c] = "typing" /\ typed \in 0 .. MaxTexts /\ typed < MaxTexts /\ MaxTexts \in Nat
      /\ typed' = typed + 1 /\ line'[c] = typed + 1
      /\ log' = log /\ serverQ' = serverQ
      /\ \A d \in Clients \ {c} : parent'[d] = parent[d] /\ line'[d] = line[d]
  BY MqChatAssumption DEF Type, serverVars, Base, TypeOK
<1>2. \A t : (InQueue(t)' <=> InQueue(t)) /\ (Logged(t)' <=> Logged(t))
  BY <1>1 DEF InQueue, Logged, Holds
<1>3. QueuedOnce'
  BY <1>1 DEF TextInv, QueuedOnce, Holds
<1>4. \A t \in Texts : InQueue(t) \/ Logged(t) => t <= typed
  BY DEF TextInv
<1>5. typed + 1 \in Texts /\ ~InQueue(typed + 1) /\ ~Logged(typed + 1)
  <2>1. typed + 1 \in Texts /\ ~(typed + 1 <= typed)
    BY <1>1 DEF Texts
  <2> QED  BY <1>4, <2>1
<1>6. \A d \in Clients \ {c} : parent[d] = "sending" => line[d] \in 1 .. typed /\ line[d] # typed + 1
  BY <1>1 DEF TextInv
<1>7. \A d \in Clients : parent'[d] = "sending" =>
        /\ line'[d] \in 1 .. typed + 1 /\ ~InQueue(line'[d]) /\ ~Logged(line'[d])
        /\ \A e \in Clients \ {d} : parent'[e] = "sending" => line'[e] # line'[d]
  <2> SUFFICES ASSUME NEW d \in Clients, parent'[d] = "sending"
               PROVE  /\ line'[d] \in 1 .. typed + 1 /\ ~InQueue(line'[d]) /\ ~Logged(line'[d])
                      /\ \A e \in Clients \ {d} : parent'[e] = "sending" => line'[e] # line'[d]
    OBVIOUS
  <2>1. CASE d = c
    BY <1>1, <1>5, <1>6, <2>1
  <2>2. CASE d # c
    <3>1. parent[d] = "sending" /\ line'[d] = line[d]
      BY <1>1, <2>2
    <3>2. /\ line[d] \in 1 .. typed /\ ~InQueue(line[d]) /\ ~Logged(line[d])
          /\ \A e \in Clients \ {d} : parent[e] = "sending" => line[e] # line[d]
      BY <3>1 DEF TextInv
    <3> QED  BY <1>1, <1>6, <2>2, <3>1, <3>2
  <2> QED  BY <2>1, <2>2
<1>8. \A d \in Clients : ~InQueue(line'[d]) /\ ~Logged(line'[d]) => ~InQueue(line[d])' /\ ~Logged(line[d])'
  BY <1>1 DEF InQueue, Logged, Holds
<1>9. \A t \in Texts : InQueue(t)' \/ Logged(t)' => t <= typed'
  BY <1>1, <1>2, <1>4 DEF Texts
<1>10. \A t \in Texts : ~(InQueue(t)' /\ Logged(t)')
  BY <1>2 DEF TextInv
<1> QED  BY <1>1, <1>3, <1>7, <1>8, <1>9, <1>10 DEF TextInv

LEMMA NextTexts ==
  ASSUME MqChatAssumption, Base, TextInv, [Next]_vars
  PROVE  TextInv'
<1> USE DEF Base, serverVars, nameVars, clientVars
<1>1. CASE HandleInit
  <2>1. Receive("INIT") /\ log' = log /\ typed' = typed /\ line' = line /\ parent' = parent
    BY <1>1 DEF HandleInit
  <2> QED  BY <2>1, TextsReceived
<1>2. CASE HandleText
  <2>1. /\ Receive("TEXT") /\ log' = Append(log, message'.text)
        /\ typed' = typed /\ line' = line /\ parent' = parent
    BY <1>2 DEF HandleText
  <2> QED  BY <2>1, TextsReceived
<1>3. CASE HandleClientExit
  <2>1. Receive("CLIENT_EXIT") /\ log' = log /\ typed' = typed /\ line' = line /\ parent' = parent
    BY <1>3 DEF HandleClientExit
  <2> QED  BY <2>1, TextsReceived
<1>4. CASE SendId \/ BroadcastNext \/ BroadcastDone \/ Operator
  BY <1>4, TextStays DEF SendId, BroadcastNext, BroadcastDone, Operator, ServerStart, Interrupted, Crash
<1>5. ASSUME NEW c \in Clients, SendInit(c) PROVE TextInv'
  <2>m. PICK m : m = Message("INIT", -1, c)
    OBVIOUS
  <2>1. m \in Messages /\ m.type = "INIT" /\ opened[c] > 0 /\ ToServer(c, m)
    BY <1>5, <2>m, MessageTypes DEF SendInit, ClientInv, ClientFit, Message
  <2>2. /\ log' = log /\ typed' = typed /\ line' = line
        /\ \A d \in Clients : parent'[d] = "sending" => parent[d] = "sending"
    BY <1>5 DEF SendInit, TypeOK
  <2> QED  BY <2>1, <2>2, NoTextSent
<1>6. ASSUME NEW c \in Clients, SendExit(c) PROVE TextInv'
  <2>m. PICK m : m = Message("CLIENT_EXIT", id[c], None)
    OBVIOUS
  <2>1. opened[c] > 0 /\ id[c] \in Entry
    BY <1>6 DEF SendExit, ClientInv, ClientFit, Present
  <2>2. m \in Messages /\ m.type = "CLIENT_EXIT" /\ ToServer(c, m)
    BY <1>6, <2>1, <2>m, MessageTypes DEF SendExit, Message
  <2>3. /\ log' = log /\ typed' = typed /\ line' = line
        /\ \A d \in Clients : parent'[d] = "sending" => parent[d] = "sending"
    BY <1>6 DEF SendExit, TypeOK
  <2> QED  BY <2>1, <2>2, <2>3, NoTextSent
<1>7. ASSUME NEW c \in Clients, Open(c) \/ GetId(c) \/ KillListener(c) \/ Quit(c) \/ CtrlC(c) \/ Listen(c)
      PROVE  TextInv'
  <2>1. /\ serverQ' = serverQ /\ log' = log /\ typed' = typed /\ line' = line
        /\ \A d \in Clients : parent'[d] = "sending" => parent[d] = "sending"
    BY <1>7 DEF Open, GetId, KillListener, Quit, CtrlC, Listen, TypeOK
  <2> QED  BY <2>1, TextStays
<1>8. CASE UNCHANGED vars
  BY <1>8, TextStays DEF vars
<1> QED
  BY <1>1, <1>2, <1>3, <1>4, <1>5, <1>6, <1>7, <1>8, SendTextTexts, TypeTexts
     DEF Next, Handle, Send, Parent, User

(* How much of the log the client of entry e has been sent.                *)
UpTo(e) == IF server = "broadcast" /\ e >= i THEN Len(log) - 1 ELSE Len(log)

(* The first b texts of the log have been through the queue of c: those    *)
(* still in it end with text b, and what c was shown ends before them.     *)
Stretch(c, b) ==
  /\ \A j \in 1 .. Len(clientQ[c]) : clientQ[c][j].type = "TEXT" =>
       /\ b - Len(clientQ[c]) + j > 0
       /\ clientQ[c][j].text = log[b - Len(clientQ[c]) + j]
  /\ \A j \in 2 .. Len(clientQ[c]) : clientQ[c][j].type = "TEXT"
  /\ shown[c] # <<>> =>
       /\ b - Len(clientQ[c]) > 0
       /\ shown[c][Len(shown[c])] = log[b - Len(clientQ[c])]
       /\ \A j \in 1 .. Len(clientQ[c]) : clientQ[c][j].type = "TEXT"
  /\ \A e \in Entry : client_queues[e] = c => b = UpTo(e)

EntriesOnce ==
  \A e, f \in Entry : client_queues[e] # None /\ client_queues[e] = client_queues[f] => e = f

ShownInv ==
  /\ server = "broadcast" => Len(log) > 0 /\ message.text = log[Len(log)]
  /\ server = "reply" => shown[message.text] = <<>>
  /\ EntriesOnce
  /\ \A c \in Clients : listener[c] = "none" \/ Waiting(c) => shown[c] = <<>>
  /\ \A c \in Clients : \E b \in 0 .. Len(log) : Stretch(c, b)

(* A step that leaves queue, entry and output of a client alone.           *)
LEMMA StretchStays ==
  ASSUME NEW c \in Clients, NEW b \in 0 .. Len(log), Stretch(c, b),
         clientQ'[c] = clientQ[c], shown'[c] = shown[c], log' = log,
         \A e \in Entry : client_queues'[e] = c => client_queues[e] = c /\ UpTo(e)' = UpTo(e)
  PROVE  Stretch(c, b)'
  BY DEF Stretch

(* And one that leaves them alone for every client.                        *)
LEMMA ShownStays ==
  ASSUME TypeOK, ShownInv, clientQ' = clientQ, shown' = shown, log' = log,
         \A e \in Entry : client_queues'[e] # None =>
           client_queues'[e] = client_queues[e] /\ UpTo(e)' = UpTo(e),
         server' = "broadcast" => server = "broadcast" /\ message' = message,
         server' = "reply" => server = "reply" /\ message' = message,
         \A c \in Clients : (listener'[c] = "none" => listener[c] = "none"),
         \A c \in Clients : Waiting(c)' => Waiting(c) \/ listener[c] = "none",
         None \notin Clients
  PROVE  ShownInv'
<1>1. server' = "broadcast" => Len(log') > 0 /\ message'.text = log'[Len(log')]
  BY DEF ShownInv
<1>2. server' = "reply" => shown'[message'.text] = <<>>
  BY DEF ShownInv
<1>3. EntriesOnce'
  BY DEF ShownInv, EntriesOnce
<1>4. \A c \in Clients : listener'[c] = "none" \/ Waiting(c)' => shown'[c] = <<>>
  BY DEF ShownInv
<1>5. \A c \in Clients : \E b \in 0 .. Len(log') : Stretch(c, b)'
  <2> SUFFICES ASSUME NEW c \in Clients PROVE \E b \in 0 .. Len(log') : Stretch(c, b)'
    OBVIOUS
  <2>1. PICK b \in 0 .. Len(log) : Stretch(c, b)
    BY DEF ShownInv
  <2>2. \A e \in Entry : client_queues'[e] = c => client_queues[e] = c /\ UpTo(e)' = UpTo(e)
    OBVIOUS
  <2> QED  BY <2>1, <2>2, StretchStays
<1> QED  BY <1>1, <1>2, <1>3, <1>4, <1>5 DEF ShownInv

(* Starting or ending a server, the end of a broadcast, a CLIENT_EXIT, and *)
(* what a client does but for taking a message from its queue.             *)
LEMMA QuietShown ==
  ASSUME MqChatAssumption, Base, ShownInv,
         \/ Operator \/ BroadcastDone \/ HandleClientExit \/ UNCHANGED vars
         \/ \E c \in Clients : Send(c) \/ Open(c) \/ KillListener(c) \/ User(c)
  PROVE  ShownInv' /\ log' = log /\ shown' = shown
<1> USE DEF Base, serverVars, nameVars, clientVars
<1>0. None \notin Clients
  BY MqChatAssumption
<1>1. CASE Operator
  <2>1. /\ clientQ' = clientQ /\ shown' = shown /\ log' = log /\ listener' = listener /\ serverQ' = serverQ
        /\ client_queues' = Closed /\ server' \in {"receive", "off"}
    BY <1>1 DEF Operator, ServerStart, Interrupted, Crash, Gone
  <2>2. \A e \in Entry : client_queues'[e] = None
    BY <2>1 DEF Closed
  <2>3. \A c \in Clients : Waiting(c)' => Waiting(c)
    BY <2>1 DEF Waiting
  <2> QED  BY <1>0, <2>1, <2>2, <2>3, ShownStays
<1>2. CASE BroadcastDone
  <2>1. /\ clientQ' = clientQ /\ shown' = shown /\ log' = log /\ listener' = listener /\ serverQ' = serverQ
        /\ client_queues' = client_queues /\ server' = "receive" /\ i = number
    BY <1>2 DEF BroadcastDone
  <2>2. \A e \in Entry : client_queues[e] # None => UpTo(e)' = UpTo(e)
    <3>1. \A e \in Entry : client_queues[e] # None => ~(e >= i)
      BY <2>1 DEF ServerInv
    <3> QED  BY <2>1, <3>1 DEF UpTo
  <2>3. \A c \in Clients : Waiting(c)' => Waiting(c)
    BY <2>1 DEF Waiting
  <2> QED  BY <1>0, <2>1, <2>2, <2>3, ShownStays
<1>3. CASE HandleClientExit
  <2>1. /\ clientQ' = clientQ /\ shown' = shown /\ log' = log /\ listener' = listener
        /\ server' = server /\ i' = i /\ Receive("CLIENT_EXIT")
        /\ made' = made /\ opened' = opened /\ parent' = parent
    BY <1>3 DEF HandleClientExit, clientVars, nameVars
  <2>0. server = "receive"
    BY <2>1 DEF Receive
  <2>2. \A e \in Entry : client_queues'[e] # None => client_queues'[e] = client_queues[e]
    <3>1. client_queues \in [Entry -> Clients \cup {None}]
      BY DEF TypeOK
    <3>2. client_queues' \in {client_queues, [client_queues EXCEPT ![message'.id] = None]}
      BY <1>3 DEF HandleClientExit
    <3> QED  BY <3>1, <3>2
  <2>3. \A e \in Entry : UpTo(e)' = UpTo(e)
    BY <2>1 DEF UpTo
  <2>4. \A c \in Clients : Waiting(c)' => Waiting(c)
    BY <2>1, ReceiveInv
  <2> QED  BY <1>0, <2>0, <2>1, <2>2, <2>3, <2>4, ShownStays
<1>4. CASE UNCHANGED vars
  <2>1. /\ clientQ' = clientQ /\ shown' = shown /\ log' = log /\ listener' = listener /\ serverQ' = serverQ
        /\ client_queues' = client_queues /\ server' = server /\ message' = message /\ i' = i
    BY <1>4 DEF vars
  <2>2. \A e \in Entry : UpTo(e)' = UpTo(e)
    BY <2>1 DEF UpTo
  <2>3. \A c \in Clients : Waiting(c)' => Waiting(c)
    BY <2>1 DEF Waiting
  <2> QED  BY <1>0, <2>1, <2>2, <2>3, ShownStays
<1>5. ASSUME NEW c \in Clients, Send(c) \/ Open(c) \/ KillListener(c) \/ User(c)
      PROVE  ShownInv' /\ log' = log /\ shown' = shown
  <2>1. /\ clientQ' = clientQ /\ shown' = shown /\ log' = log
        /\ client_queues' = client_queues /\ server' = server /\ message' = message /\ i' = i
    BY <1>5 DEF Send, User, SendInit, SendText, SendExit, Open, KillListener, Type, Quit, CtrlC
  <2>2. \A e \in Entry : UpTo(e)' = UpTo(e)
    BY <2>1 DEF UpTo
  <2>3. \A d \in Clients : listener'[d] = "none" => listener[d] = "none"
    <3>1. \/ listener' = listener
          \/ listener' = [listener EXCEPT ![c] = "killed"]
      BY <1>5 DEF Send, User, SendInit, SendText, SendExit, Open, KillListener, Type, Quit, CtrlC
    <3>2. listener \in [Clients -> {"none", "listening", "ended", "killed"}]
      BY DEF TypeOK
    <3> QED  BY <3>1, <3>2
  <2>4. \A d \in Clients : Waiting(d)' => Waiting(d) \/ listener[d] = "none"
    <3>1. CASE SendInit(c)
      <4>m. PICK m : m = Message("INIT", -1, c)
        OBVIOUS
      <4>1. m \in Messages /\ m.type = "INIT" /\ opened[c] > 0 /\ ToServer(c, m)
        BY <3>1, <4>m, MessageTypes DEF SendInit, ClientInv, ClientFit, Message
      <4>2. /\ parent[c] = "init" /\ parent'[c] = "await"
            /\ \A d \in Clients \ {c} : parent'[d] = parent[d]
            /\ made' = made /\ opened' = opened
        BY <3>1 DEF SendInit, TypeOK
      <4>3. \A d : Waiting(d)' <=> Waiting(d) \/ d = c
        BY <4>m, <4>1, <4>2, SendInv
      <4> QED  BY <4>2, <4>3 DEF ClientInv, ClientFit
    <3>2. CASE SendText(c)
      <4>m. PICK m : m = Message("TEXT", id[c], line[c])
        OBVIOUS
      <4>1. m \in Messages /\ m.type = "TEXT" /\ opened[c] > 0 /\ ToServer(c, m)
        BY <3>2, <4>m, MessageTypes DEF SendText, ClientInv, ClientFit, Message, Present
      <4>2. /\ parent[c] = "sending"
            /\ \A d \in Clients \ {c} : parent'[d] = parent[d]
            /\ made' = made /\ opened' = opened
        BY <3>2 DEF SendText, TypeOK
      <4> QED  BY <4>1, <4>2, SendInv
    <3>3. CASE SendExit(c)
      <4>m. PICK m : m = Message("CLIENT_EXIT", id[c], None)
        OBVIOUS
      <4>1. opened[c] > 0 /\ id[c] \in Entry
        BY <3>3 DEF SendExit, ClientInv, ClientFit, Present
      <4>2. m \in Messages /\ m.type = "CLIENT_EXIT" /\ ToServer(c, m)
        BY <3>3, <4>1, <4>m, MessageTypes DEF SendExit, Message
      <4>3. /\ parent[c] = "bye"
            /\ \A d \in Clients \ {c} : parent'[d] = parent[d]
            /\ made' = made /\ opened' = opened
        BY <3>3 DEF SendExit, TypeOK
      <4> QED  BY <4>1, <4>2, <4>3, SendInv
    <3>4. CASE Open(c) \/ KillListener(c) \/ User(c)
      <4>1. serverQ' = serverQ
        BY <3>4 DEF User, Open, KillListener, Type, Quit, CtrlC
      <4> QED  BY <4>1 DEF Waiting
    <3> QED  BY <1>5, <3>1, <3>2, <3>3, <3>4 DEF Send
  <2> QED  BY <1>0, <2>1, <2>2, <2>3, <2>4, ShownStays
<1> QED  BY <1>1, <1>2, <1>3, <1>4, <1>5

(* A newcomer has been sent nothing and shown nothing.                     *)
LEMMA HandleInitShown ==
  ASSUME MqChatAssumption, Base, ShownInv, HandleInit
  PROVE  ShownInv' /\ log' = log /\ shown' = shown
<1> USE DEF Base
<1>1. /\ clientQ' = clientQ /\ shown' = shown /\ log' = log /\ listener' = listener
      /\ i' = i /\ server = "receive" /\ server' \in {"receive", "reply"}
  BY DEF HandleInit, clientVars, Receive
<1>2. /\ number \in Entry /\ message'.text \in Clients /\ Waiting(message'.text)
      /\ clientQ[message'.text] = <<>>
      /\ \A w : Waiting(w)' <=> Waiting(w) /\ ~(message'.text = w)
  BY HandleInitBase
<1>m. PICK c \in Clients : c = message'.text
  BY <1>2
<1>3. shown[c] = <<>> /\ clientQ[c] = <<>>
  BY <1>2, <1>m DEF ShownInv
<1>4. \A e \in Entry : \/ e = number /\ client_queues'[e] \in {c, None}
                       \/ e # number /\ client_queues'[e] = client_queues[e]
  BY <1>m DEF HandleInit, TypeOK
<1>5. \A e \in Entry : client_queues[e] # c
  BY <1>2, <1>m, MqChatAssumption DEF ServerInv
<1>6. EntriesOnce'
  BY <1>4, <1>5 DEF ShownInv, EntriesOnce
<1>7. \A e \in Entry : UpTo(e)' = Len(log) /\ UpTo(e) = Len(log)
  BY <1>1 DEF UpTo
<1>8. \A d \in Clients : \E b \in 0 .. Len(log') : Stretch(d, b)'
  <2> SUFFICES ASSUME NEW d \in Clients PROVE \E b \in 0 .. Len(log') : Stretch(d, b)'
    OBVIOUS
  <2>1. CASE d = c
    <3>1. Len(log) \in Nat
      BY LenProperties DEF TypeOK
    <3>2. PICK b \in 0 .. Len(log) : b = Len(log)
      BY <3>1
    <3>3. Stretch(d, b)'
      <4>1. clientQ'[d] = <<>> /\ Len(clientQ'[d]) = 0 /\ shown'[d] = <<>>
        BY <1>1, <1>3, <2>1
      <4>2. \A e \in Entry : b = UpTo(e)'
        BY <1>7, <3>2
      <4> QED  BY <4>1, <4>2 DEF Stretch
    <3> QED  BY <1>1, <3>3
  <2>2. CASE d # c
    <3>1. PICK b \in 0 .. Len(log) : Stretch(d, b)
      BY DEF ShownInv
    <3>2. \A e \in Entry : client_queues'[e] = d => client_queues[e] = d /\ UpTo(e)' = UpTo(e)
      BY <1>4, <1>7, <2>2, MqChatAssumption
    <3>3. Stretch(d, b)'
      BY <1>1, <3>1, <3>2, StretchStays
    <3> QED  BY <1>1, <3>3
  <2> QED  BY <2>1, <2>2
<1>9. \A d \in Clients : listener'[d] = "none" \/ Waiting(d)' => shown'[d] = <<>>
  BY <1>1, <1>2 DEF ShownInv
<1>10. server' = "reply" => shown'[message'.text] = <<>>
  BY <1>1, <1>3, <1>m
<1> QED  BY <1>1, <1>6, <1>8, <1>9, <1>10 DEF ShownInv

(* The number goes to a client that has been sent nothing else.            *)
LEMMA SendIdShown ==
  ASSUME MqChatAssumption, Base, ShownInv, SendId
  PROVE  ShownInv' /\ log' = log /\ shown' = shown
<1> USE DEF Base
<1>1. /\ server = "reply" /\ server' = "receive" /\ message' = message
      /\ client_queues' = client_queues /\ serverQ' = serverQ
      /\ shown' = shown /\ log' = log /\ listener' = listener
      /\ ToClient(message.text, Message("RECEIVE_ID", number - 1, None))
  BY DEF SendId, clientVars
<1>m. PICK c \in Clients : c = message.text
  BY <1>1, MessageFacts DEF ServerInv, TypeOK
<1>2. /\ clientQ[c] = <<>> /\ shown[c] = <<>>
      /\ number - 1 \in Entry
  <2>1. clientQ[c] = <<>> /\ shown[c] = <<>> /\ number > 0
    BY <1>1, <1>m DEF ServerInv, ShownInv
  <2>2. number \in 0 .. MaxClients /\ MaxClients \in Nat
    BY MqChatAssumption DEF TypeOK
  <2>3. number - 1 \in 0 .. MaxClients - 1
    BY <2>1, <2>2
  <2> QED  BY <2>1, <2>3 DEF Entry
<1>n. PICK m : m = Message("RECEIVE_ID", number - 1, None)
  OBVIOUS
<1>3. m \in Messages /\ m.type = "RECEIVE_ID" /\ ToClient(c, m)
  BY <1>1, <1>m, <1>2, <1>n, MessageTypes DEF Message
<1>4. clientQ'[c] = Append(clientQ[c], m) /\ \A d \in Clients \ {c} : clientQ'[d] = clientQ[d]
  BY <1>3, ToClientFacts
<1>5. Len(clientQ'[c]) = 1 /\ clientQ'[c][1] = m
  BY <1>2, <1>4
<1>6. \A e \in Entry : UpTo(e)' = UpTo(e)
  BY <1>1 DEF UpTo
<1>7. \A d \in Clients : \E b \in 0 .. Len(log') : Stretch(d, b)'
  <2> SUFFICES ASSUME NEW d \in Clients PROVE \E b \in 0 .. Len(log') : Stretch(d, b)'
    OBVIOUS
  <2>1. PICK b \in 0 .. Len(log) : Stretch(d, b)
    BY DEF ShownInv
  <2>2. Stretch(d, b)'
    <3>1. CASE d = c
      <4>1. /\ \A j \in 1 .. Len(clientQ'[d]) : clientQ'[d][j].type # "TEXT"
            /\ \A j \in 2 .. Len(clientQ'[d]) : FALSE
            /\ shown'[d] = <<>>
        <5>1. Len(clientQ'[d]) = 1 /\ clientQ'[d][1].type # "TEXT"
          BY <1>3, <1>5, <3>1
        <5>2. shown'[d] = <<>>
          BY <1>1, <1>2, <3>1
        <5>3. \A j \in 1 .. 1 : j = 1
          OBVIOUS
        <5> QED  BY <5>1, <5>2, <5>3
      <4>2. \A e \in Entry : client_queues'[e] = d => b = UpTo(e)'
        BY <1>1, <1>6, <2>1 DEF Stretch
      <4> QED  BY <4>1, <4>2 DEF Stretch
    <3>2. CASE d # c
      BY <1>1, <1>4, <1>6, <2>1, <3>2, StretchStays
    <3> QED  BY <3>1, <3>2
  <2> QED  BY <1>1, <2>2
<1>8. \A d \in Clients : listener'[d] = "none" \/ Waiting(d)' => shown'[d] = <<>>
  BY <1>1 DEF ShownInv, Waiting
<1>9. EntriesOnce'
  BY <1>1 DEF ShownInv, EntriesOnce
<1> QED  BY <1>1, <1>7, <1>8, <1>9 DEF ShownInv

(* A new text is posted; nobody has been sent it yet.                      *)
LEMMA HandleTextShown ==
  ASSUME MqChatAssumption, Base, TextInv, ShownInv, HandleText
  PROVE  ShownInv' /\ \E t \in Texts : Promise!Post(t)
<1> USE DEF Base
<1>1. /\ server = "receive" /\ server' = "broadcast" /\ i' = 0
      /\ client_queues' = client_queues /\ clientQ' = clientQ
      /\ shown' = shown /\ listener' = listener /\ Receive("TEXT")
      /\ log' = Append(log, message'.text)
      /\ made' = made /\ opened' = opened /\ parent' = parent /\ typed' = typed /\ line' = line
  BY DEF HandleText, clientVars, nameVars, Receive
<1>m. PICK t : t = message'.text
  OBVIOUS
<1>2. t \in Texts /\ ~Logged(t)
  BY <1>1, <1>m, TextsReceived
<1>3. \A w : Waiting(w)' => Waiting(w)
  BY <1>1, ReceiveInv
<1>4. /\ log \in Seq(Texts) /\ Len(log) \in Nat /\ Len(log') = Len(log) + 1
      /\ log'[Len(log) + 1] = t
      /\ \A k \in 1 .. Len(log) : log'[k] = log[k]
  <2>1. log \in Seq(Texts) /\ log' = Append(log, t)
    BY <1>1, <1>m DEF TypeOK
  <2> QED  BY <1>2, <2>1, AppendFacts
<1>5. Promise!Post(t)
  <2>1. \A k \in DOMAIN log : log[k] # t
    BY <1>2, <1>4 DEF Logged
  <2> QED  BY <1>1, <1>m, <2>1 DEF Promise!Post
<1>6. \A e \in Entry : UpTo(e)' = Len(log) /\ UpTo(e) = Len(log)
  BY <1>1, <1>4 DEF UpTo, Entry
<1>7. \A c \in Clients : \E b \in 0 .. Len(log') : Stretch(c, b)'
  <2> SUFFICES ASSUME NEW c \in Clients PROVE \E b \in 0 .. Len(log') : Stretch(c, b)'
    OBVIOUS
  <2>1. PICK b \in 0 .. Len(log) : Stretch(c, b)
    BY DEF ShownInv
  <2>2. PICK n \in Nat : n = Len(clientQ[c])
    BY LenProperties DEF TypeOK
  <2>3. \A j \in 1 .. n : clientQ[c][j].type = "TEXT" =>
          b - n + j > 0 /\ clientQ[c][j].text = log'[b - n + j]
    <3> SUFFICES ASSUME NEW j \in 1 .. n, clientQ[c][j].type = "TEXT"
                 PROVE  b - n + j > 0 /\ clientQ[c][j].text = log'[b - n + j]
      OBVIOUS
    <3>1. b - n + j > 0 /\ clientQ[c][j].text = log[b - n + j]
      BY <2>1, <2>2 DEF Stretch
    <3>2. b - n + j \in 1 .. Len(log)
      BY <1>4, <3>1
    <3> QED  BY <1>4, <3>1, <3>2
  <2>4. shown[c] # <<>> =>
          /\ b - n > 0
          /\ shown[c][Len(shown[c])] = log'[b - n]
          /\ \A j \in 1 .. n : clientQ[c][j].type = "TEXT"
    <3> SUFFICES ASSUME shown[c] # <<>>
                 PROVE  /\ b - n > 0
                        /\ shown[c][Len(shown[c])] = log'[b - n]
                        /\ \A j \in 1 .. n : clientQ[c][j].type = "TEXT"
      OBVIOUS
    <3>1. /\ b - n > 0
          /\ shown[c][Len(shown[c])] = log[b - n]
          /\ \A j \in 1 .. n : clientQ[c][j].type = "TEXT"
      BY <2>1, <2>2 DEF Stretch
    <3>2. b - n \in 1 .. Len(log)
      BY <1>4, <3>1
    <3> QED  BY <1>4, <3>1, <3>2
  <2>5. \A j \in 2 .. n : clientQ[c][j].type = "TEXT"
    BY <2>1, <2>2 DEF Stretch
  <2>6. \A e \in Entry : client_queues'[e] = c => b = UpTo(e)'
    BY <1>1, <1>6, <2>1 DEF Stretch
  <2>7. Stretch(c, b)'
    BY <1>1, <2>2, <2>3, <2>4, <2>5, <2>6 DEF Stretch
  <2>8. b \in 0 .. Len(log')
    BY <1>4
  <2> QED  BY <2>7, <2>8
<1>8. \A c \in Clients : listener'[c] = "none" \/ Waiting(c)' => shown'[c] = <<>>
  BY <1>1, <1>3 DEF ShownInv
<1>9. EntriesOnce'
  BY <1>1 DEF ShownInv, EntriesOnce
<1>10. Len(log') > 0 /\ message'.text = log'[Len(log')]
  BY <1>4, <1>m
<1> QED  BY <1>1, <1>2, <1>5, <1>7, <1>8, <1>9, <1>10 DEF ShownInv

(* The loop sends the text last logged to the client of entry i, which has *)
(* been sent all the texts before.                                         *)
LEMMA BroadcastNextShown ==
  ASSUME MqChatAssumption, Base, ShownInv, BroadcastNext
  PROVE  ShownInv' /\ log' = log /\ shown' = shown
<1> USE DEF Base
<1>1. /\ server = "broadcast" /\ server' = server /\ message' = message
      /\ i < number /\ i' = i + 1
      /\ client_queues' = client_queues /\ serverQ' = serverQ
      /\ shown' = shown /\ log' = log /\ listener' = listener
  BY DEF BroadcastNext, clientVars
<1>2. i \in Entry /\ \A e \in Entry : e \in Int
  BY <1>1, MqChatAssumption DEF TypeOK, Entry
<1>3. Len(log) \in Nat /\ Len(log) > 0 /\ message.text = log[Len(log)]
  BY <1>1, LenProperties DEF ShownInv, TypeOK
<1>k. PICK k \in Entry : k = i
  BY <1>2
<1>4. /\ UpTo(k) = Len(log) - 1 /\ UpTo(k)' = Len(log)
      /\ \A e \in Entry \ {k} : UpTo(e)' = UpTo(e)
  <2>1. UpTo(k) = Len(log) - 1
    BY <1>1, <1>k, <1>2 DEF UpTo
  <2>2. UpTo(k)' = Len(log)
    BY <1>1, <1>k, <1>2 DEF UpTo
  <2>3. ASSUME NEW e \in Entry \ {k} PROVE UpTo(e)' = UpTo(e)
    <3>1. e \in Int /\ i \in Int /\ e # i
      BY <1>2, <1>k, <2>3
    <3>2. (e >= i) <=> (e >= i + 1)
      BY <3>1
    <3> QED  BY <1>1, <3>2 DEF UpTo
  <2> QED  BY <2>1, <2>2, <2>3
<1>5. message \in Messages /\ message.type = "TEXT"
  BY <1>1 DEF ServerInv, TypeOK
<1>6. \A c \in Clients : \E b \in 0 .. Len(log') : Stretch(c, b)'
  <2> SUFFICES ASSUME NEW c \in Clients PROVE \E b \in 0 .. Len(log') : Stretch(c, b)'
    OBVIOUS
  <2>1. PICK b \in 0 .. Len(log) : Stretch(c, b)
    BY DEF ShownInv
  <2>2. CASE client_queues[k] = c
    <3>1. ToClient(c, message)
      BY <1>k, <2>2, MqChatAssumption DEF BroadcastNext
    <3>2. clientQ'[c] = Append(clientQ[c], message)
      BY <1>5, <3>1, ToClientFacts
    <3>3. clientQ[c] \in Seq(Messages)
      BY DEF TypeOK
    <3>4. PICK n \in Nat : n = Len(clientQ[c])
      BY <3>3, LenProperties
    <3>5. /\ Len(clientQ'[c]) = n + 1 /\ clientQ'[c][n + 1] = message
          /\ \A j \in 1 .. n : clientQ'[c][j] = clientQ[c][j]
      BY <1>5, <3>2, <3>3, <3>4, AppendFacts
    <3>6. b = Len(log) - 1
      BY <1>4, <2>1, <2>2 DEF Stretch
    <3>7. PICK l \in 0 .. Len(log) : l = b + 1 /\ l = Len(log)
      BY <1>3, <3>6
    <3>8. \A j \in 1 .. n + 1 : clientQ'[c][j].type = "TEXT" =>
            l - (n + 1) + j > 0 /\ clientQ'[c][j].text = log[l - (n + 1) + j]
      <4> SUFFICES ASSUME NEW j \in 1 .. n + 1, clientQ'[c][j].type = "TEXT"
                   PROVE  l - (n + 1) + j > 0 /\ clientQ'[c][j].text = log[l - (n + 1) + j]
        OBVIOUS
      <4>1. CASE j = n + 1
        <5>1. l - (n + 1) + j = Len(log)
          BY <1>3, <3>7, <4>1
        <5> QED  BY <1>3, <3>5, <4>1, <5>1
      <4>2. CASE j # n + 1
        <5>1. j \in 1 .. n /\ l - (n + 1) + j = b - n + j
          BY <3>7, <4>2
        <5>2. b - n + j > 0 /\ clientQ[c][j].text = log[b - n + j]
          BY <2>1, <3>4, <3>5, <5>1 DEF Stretch
        <5> QED  BY <3>5, <5>1, <5>2
      <4> QED  BY <4>1, <4>2
    <3>9. \A j \in 2 .. n + 1 : clientQ'[c][j].type = "TEXT"
      <4> SUFFICES ASSUME NEW j \in 2 .. n + 1 PROVE clientQ'[c][j].type = "TEXT"
        OBVIOUS
      <4>1. CASE j = n + 1
        BY <1>5, <3>5, <4>1
      <4>2. CASE j # n + 1
        <5>1. j \in 2 .. n /\ j \in 1 .. n
          BY <4>2
        <5> QED  BY <2>1, <3>4, <3>5, <5>1 DEF Stretch
      <4> QED  BY <4>1, <4>2
    <3>10. shown[c] # <<>> =>
             /\ l - (n + 1) > 0
             /\ shown[c][Len(shown[c])] = log[l - (n + 1)]
             /\ \A j \in 1 .. n + 1 : clientQ'[c][j].type = "TEXT"
      <4> SUFFICES ASSUME shown[c] # <<>>
                   PROVE  /\ l - (n + 1) > 0
                          /\ shown[c][Len(shown[c])] = log[l - (n + 1)]
                          /\ \A j \in 1 .. n + 1 : clientQ'[c][j].type = "TEXT"
        OBVIOUS
      <4>1. /\ b - n > 0 /\ shown[c][Len(shown[c])] = log[b - n]
            /\ \A j \in 1 .. n : clientQ[c][j].type = "TEXT"
        BY <2>1, <3>4 DEF Stretch
      <4>2. l - (n + 1) = b - n
        BY <3>7
      <4>3. \A j \in 1 .. n + 1 : j \in 1 .. n \/ j = n + 1
        OBVIOUS
      <4> QED  BY <1>5, <3>5, <4>1, <4>2, <4>3
    <3>11. \A e \in Entry : client_queues'[e] = c => l = UpTo(e)'
      <4>1. \A e \in Entry : client_queues'[e] = c => e = k
        BY <1>1, <2>2, MqChatAssumption DEF ShownInv, EntriesOnce
      <4> QED  BY <1>4, <3>7, <4>1
    <3>12. Stretch(c, l)'
      BY <1>1, <3>5, <3>8, <3>9, <3>10, <3>11 DEF Stretch
    <3> QED  BY <1>1, <3>12
  <2>3. CASE client_queues[k] # c
    <3>1. clientQ'[c] = clientQ[c]
      BY <1>k, <2>3 DEF BroadcastNext, ToClient, TypeOK
    <3>2. \A e \in Entry : client_queues'[e] = c => client_queues[e] = c /\ UpTo(e)' = UpTo(e)
      BY <1>1, <1>4, <2>3
    <3> QED  BY <1>1, <2>1, <3>1, <3>2, StretchStays
  <2> QED  BY <2>2, <2>3
<1>7. \A c \in Clients : listener'[c] = "none" \/ Waiting(c)' => shown'[c] = <<>>
  BY <1>1 DEF ShownInv, Waiting
<1>8. EntriesOnce'
  BY <1>1 DEF ShownInv, EntriesOnce
<1> QED  BY <1>1, <1>3, <1>6, <1>7, <1>8 DEF ShownInv

(* The first message of a queue taken: the rest keep their places.         *)
LEMMA StretchTaken ==
  ASSUME TypeOK, NEW c \in Clients, NEW b \in 0 .. Len(log), Stretch(c, b),
         clientQ[c] # <<>>, clientQ' = [clientQ EXCEPT ![c] = Tail(@)]
  PROVE  /\ Len(clientQ'[c]) \in Nat /\ Len(clientQ[c]) = Len(clientQ'[c]) + 1
         /\ \A j \in 1 .. Len(clientQ'[c]) :
              /\ clientQ'[c][j].type = "TEXT"
              /\ b - Len(clientQ'[c]) + j > 0
              /\ clientQ'[c][j].text = log[b - Len(clientQ'[c]) + j]
         /\ Head(clientQ[c]).type = "TEXT" =>
              /\ b - Len(clientQ'[c]) > 0
              /\ Head(clientQ[c]).text = log[b - Len(clientQ'[c])]
         /\ shown[c] # <<>> =>
              /\ b - Len(clientQ'[c]) > 1
              /\ shown[c][Len(shown[c])] = log[b - Len(clientQ'[c]) - 1]
              /\ Head(clientQ[c]).type = "TEXT"
<1>1. clientQ[c] \in Seq(Messages) /\ clientQ'[c] = Tail(clientQ[c])
  BY DEF TypeOK
<1>0. /\ Tail(clientQ[c]) \in Seq(Messages) /\ Len(clientQ[c]) \in Nat
      /\ Len(Tail(clientQ[c])) = Len(clientQ[c]) - 1 /\ Head(clientQ[c]) = clientQ[c][1]
      /\ \A j \in 1 .. Len(Tail(clientQ[c])) : Tail(clientQ[c])[j] = clientQ[c][j + 1]
  BY <1>1, TailFacts
<1>2. PICK n \in Nat : n = Len(clientQ'[c])
  BY <1>0, <1>1, LenProperties
<1>3. /\ Len(clientQ[c]) = n + 1 /\ Head(clientQ[c]) = clientQ[c][1]
      /\ \A j \in 1 .. n : clientQ'[c][j] = clientQ[c][j + 1]
  <2>1. Len(Tail(clientQ[c])) = n
    BY <1>1, <1>2
  <2>2. Len(clientQ[c]) = n + 1
    BY <1>0, <2>1
  <2>3. \A j \in 1 .. n : Tail(clientQ[c])[j] = clientQ[c][j + 1]
    BY <1>0, <2>1
  <2> QED  BY <1>0, <1>1, <2>2, <2>3
<1>4. ASSUME NEW j \in 1 .. n
      PROVE  clientQ'[c][j].type = "TEXT" /\ b - n + j > 0 /\ clientQ'[c][j].text = log[b - n + j]
  <2>1. j + 1 \in 2 .. n + 1 /\ j + 1 \in 1 .. n + 1 /\ b - (n + 1) + (j + 1) = b - n + j
    OBVIOUS
  <2>2. clientQ[c][j + 1].type = "TEXT"
    BY <1>3, <2>1 DEF Stretch
  <2>3. b - (n + 1) + (j + 1) > 0 /\ clientQ[c][j + 1].text = log[b - (n + 1) + (j + 1)]
    BY <1>3, <2>1, <2>2 DEF Stretch
  <2> QED  BY <1>3, <2>1, <2>2, <2>3
<1>5. ASSUME Head(clientQ[c]).type = "TEXT"
      PROVE  b - n > 0 /\ Head(clientQ[c]).text = log[b - n]
  <2>1. 1 \in 1 .. n + 1 /\ b - (n + 1) + 1 = b - n
    OBVIOUS
  <2>2. b - (n + 1) + 1 > 0 /\ clientQ[c][1].text = log[b - (n + 1) + 1]
    BY <1>3, <1>5, <2>1 DEF Stretch
  <2> QED  BY <1>3, <2>1, <2>2
<1>6. ASSUME shown[c] # <<>>
      PROVE  /\ b - n > 1 /\ shown[c][Len(shown[c])] = log[b - n - 1]
             /\ Head(clientQ[c]).type = "TEXT"
  <2>1. 1 \in 1 .. n + 1 /\ b - (n + 1) = b - n - 1
    OBVIOUS
  <2>2. /\ b - (n + 1) > 0 /\ shown[c][Len(shown[c])] = log[b - (n + 1)]
        /\ clientQ[c][1].type = "TEXT"
    BY <1>3, <1>6, <2>1 DEF Stretch
  <2> QED  BY <1>3, <2>1, <2>2
<1> QED  BY <1>2, <1>3, <1>4, <1>5, <1>6

(* What makes a stretch of a queue that holds texts only.                  *)
LEMMA StretchNow ==
  ASSUME NEW c \in Clients, NEW b \in Nat, NEW n \in Nat, Len(clientQ'[c]) = n,
         \A j \in 1 .. n :
           clientQ'[c][j].type = "TEXT" /\ b - n + j > 0 /\ clientQ'[c][j].text = log'[b - n + j],
         shown'[c] # <<>> => b - n > 0 /\ shown'[c][Len(shown'[c])] = log'[b - n],
         \A e \in Entry : client_queues'[e] = c => b = UpTo(e)'
  PROVE  Stretch(c, b)'
<1>1. \A j \in 1 .. Len(clientQ'[c]) : clientQ'[c][j].type = "TEXT" =>
        /\ b - Len(clientQ'[c]) + j > 0
        /\ clientQ'[c][j].text = log'[b - Len(clientQ'[c]) + j]
  OBVIOUS
<1>2. \A j \in 1 .. Len(clientQ'[c]) : clientQ'[c][j].type = "TEXT"
  OBVIOUS
<1>3. \A j \in 2 .. Len(clientQ'[c]) : clientQ'[c][j].type = "TEXT"
  <2>1. \A j \in 2 .. n : j \in 1 .. n
    OBVIOUS
  <2> QED  BY <2>1
<1>4. shown'[c] # <<>> =>
        /\ b - Len(clientQ'[c]) > 0
        /\ shown'[c][Len(shown'[c])] = log'[b - Len(clientQ'[c])]
  OBVIOUS
<1> QED  BY <1>1, <1>2, <1>3, <1>4 DEF Stretch

(* A client that takes its number has been shown nothing.                  *)
LEMMA GetIdShown ==
  ASSUME MqChatAssumption, Base, ShownInv, NEW c \in Clients, GetId(c)
  PROVE  ShownInv' /\ log' = log /\ shown' = shown
<1> USE DEF Base
<1>1. /\ server' = server /\ message' = message /\ i' = i
      /\ client_queues' = client_queues /\ serverQ' = serverQ
      /\ shown' = shown /\ log' = log
      /\ clientQ[c] # <<>> /\ clientQ' = [clientQ EXCEPT ![c] = Tail(@)] /\ parent[c] = "await"
  BY DEF GetId, serverVars
<1>2. \A d \in Clients \ {c} : clientQ'[d] = clientQ[d] /\ listener'[d] = listener[d]
  BY DEF GetId, TypeOK
<1>3. shown[c] = <<>>
  BY <1>1 DEF ClientInv, ClientFit, ShownInv
<1>4. \A e \in Entry : UpTo(e)' = UpTo(e)
  BY <1>1 DEF UpTo
<1>5. \A d \in Clients : \E b \in 0 .. Len(log') : Stretch(d, b)'
  <2> SUFFICES ASSUME NEW d \in Clients PROVE \E b \in 0 .. Len(log') : Stretch(d, b)'
    OBVIOUS
  <2>1. PICK b \in 0 .. Len(log) : Stretch(d, b)
    BY DEF ShownInv
  <2>2. CASE d = c
    <3>n. PICK n \in Nat : n = Len(clientQ'[d])
      BY <1>1, <2>1, <2>2, StretchTaken
    <3>1. \A j \in 1 .. n :
            clientQ'[d][j].type = "TEXT" /\ b - n + j > 0 /\ clientQ'[d][j].text = log'[b - n + j]
      <4>1. \A j \in 1 .. Len(clientQ'[d]) :
              /\ clientQ'[d][j].type = "TEXT"
              /\ b - Len(clientQ'[d]) + j > 0
              /\ clientQ'[d][j].text = log[b - Len(clientQ'[d]) + j]
        BY <1>1, <2>1, <2>2, StretchTaken
      <4> QED  BY <1>1, <3>n, <4>1
    <3>2. \A e \in Entry : client_queues'[e] = d => b = UpTo(e)'
      BY <1>1, <1>4, <2>1 DEF Stretch
    <3>3. Stretch(d, b)'
      <4>1. b \in Nat /\ shown'[d] = <<>>
        BY <1>1, <1>3, <2>2, LenProperties DEF TypeOK
      <4> QED  BY <3>n, <3>1, <3>2, <4>1, StretchNow
    <3> QED  BY <1>1, <3>3
  <2>3. CASE d # c
    BY <1>1, <1>2, <1>4, <2>1, <2>3, StretchStays
  <2> QED  BY <2>2, <2>3
<1>6. \A d \in Clients : listener'[d] = "none" \/ Waiting(d)' => shown'[d] = <<>>
  <2>1. \A d : Waiting(d)' <=> Waiting(d)
    BY <1>1 DEF Waiting
  <2> QED  BY <1>1, <1>2, <1>3, <2>1 DEF ShownInv
<1>7. EntriesOnce'
  BY <1>1 DEF ShownInv, EntriesOnce
<1>8. server' = "reply" => shown'[message'.text] = <<>>
  BY <1>1 DEF ShownInv
<1>9. server' = "broadcast" => Len(log') > 0 /\ message'.text = log'[Len(log')]
  BY <1>1 DEF ShownInv
<1> QED  BY <1>1, <1>5, <1>6, <1>7, <1>8, <1>9 DEF ShownInv

(* A listener shows the text that follows the one it showed last, or shows *)
(* nothing and has shown nothing.                                          *)
LEMMA ListenShown ==
  ASSUME MqChatAssumption, Base, ShownInv, NEW c \in Clients, Listen(c)
  PROVE  /\ ShownInv'
         /\ \/ log' = log /\ shown' = shown
            \/ \E k \in DOMAIN log : Promise!Show(c, k)
<1> USE DEF Base
<1>1. /\ server' = server /\ message' = message /\ i' = i
      /\ client_queues' = client_queues /\ serverQ' = serverQ /\ log' = log
      /\ clientQ[c] # <<>> /\ clientQ' = [clientQ EXCEPT ![c] = Tail(@)] /\ listener[c] = "listening"
  BY DEF Listen, serverVars
<1>2. /\ \A d \in Clients \ {c} : clientQ'[d] = clientQ[d] /\ listener'[d] = listener[d] /\ shown'[d] = shown[d]
      /\ listener'[c] # "none"
  BY DEF Listen, TypeOK
<1>3. PICK m : m = Head(clientQ[c])
  OBVIOUS
<1>4. /\ log \in Seq(Texts) /\ Len(log) \in Nat /\ shown[c] \in Seq(Texts) /\ Len(shown[c]) \in Nat
      /\ shown \in [Clients -> Seq(Texts)]
  BY LenProperties DEF TypeOK
<1>5. PICK b \in 0 .. Len(log) : Stretch(c, b)
  BY DEF ShownInv
<1>6. PICK n \in Nat : n = Len(clientQ'[c])
  BY <1>1, <1>5, StretchTaken
<1>7. /\ \A j \in 1 .. n : clientQ'[c][j].type = "TEXT" /\ b - n + j > 0 /\ clientQ'[c][j].text = log[b - n + j]
      /\ m.type = "TEXT" => b - n > 0 /\ m.text = log[b - n]
      /\ shown[c] # <<>> => b - n > 1 /\ shown[c][Len(shown[c])] = log[b - n - 1] /\ m.type = "TEXT"
  <2>1. \A j \in 1 .. Len(clientQ'[c]) :
          /\ clientQ'[c][j].type = "TEXT"
          /\ b - Len(clientQ'[c]) + j > 0
          /\ clientQ'[c][j].text = log[b - Len(clientQ'[c]) + j]
    BY <1>1, <1>5, StretchTaken
  <2>2. Head(clientQ[c]).type = "TEXT" =>
          b - Len(clientQ'[c]) > 0 /\ Head(clientQ[c]).text = log[b - Len(clientQ'[c])]
    BY <1>1, <1>5, StretchTaken
  <2>3. shown[c] # <<>> =>
          /\ b - Len(clientQ'[c]) > 1
          /\ shown[c][Len(shown[c])] = log[b - Len(clientQ'[c]) - 1]
          /\ Head(clientQ[c]).type = "TEXT"
    BY <1>1, <1>5, StretchTaken
  <2> QED  BY <1>3, <1>6, <2>1, <2>2, <2>3
<1>t. /\ Len(clientQ'[c]) = n
      /\ \A j \in 1 .. n :
           clientQ'[c][j].type = "TEXT" /\ b - n + j > 0 /\ clientQ'[c][j].text = log'[b - n + j]
  BY <1>1, <1>6, <1>7
<1>8. \A e \in Entry : UpTo(e)' = UpTo(e)
  BY <1>1 DEF UpTo
<1>9. \A e \in Entry : client_queues'[e] = c => b = UpTo(e)'
  BY <1>1, <1>5, <1>8 DEF Stretch
<1>10. /\ Stretch(c, b)'
       /\ \/ log' = log /\ shown' = shown
          \/ \E k \in DOMAIN log : Promise!Show(c, k)
  <2>1. CASE m.type = "TEXT"
    <3>1. b - n \in 1 .. Len(log)
      BY <1>4, <1>7, <2>1
    <3>2. PICK k \in 1 .. Len(log) : k = b - n
      BY <3>1
    <3>3. shown' = [shown EXCEPT ![c] = Append(@, log[k])]
      BY <1>3, <1>7, <2>1, <3>2 DEF Listen
    <3>4. log[k] \in Texts
      BY <1>4
    <3>5. shown'[c] = Append(shown[c], log[k])
      BY <1>4, <3>3
    <3>6. Len(shown'[c]) = Len(shown[c]) + 1 /\ shown'[c][Len(shown[c]) + 1] = log[k]
      BY <1>4, <3>4, <3>5, AppendFacts
    <3>7. Stretch(c, b)'
      <4>1. b \in Nat /\ b - n > 0 /\ shown'[c][Len(shown'[c])] = log'[b - n]
        BY <1>1, <1>4, <3>2, <3>6
      <4> QED  BY <1>t, <1>9, <4>1, StretchNow
    <3>8. Len(shown[c]) > 0 => k > 1 /\ shown[c][Len(shown[c])] = log[k - 1]
      <4>1. Len(shown[c]) > 0 => shown[c] # <<>>
        OBVIOUS
      <4> QED  BY <1>7, <3>2, <4>1
    <3>9. Promise!Show(c, k) /\ k \in DOMAIN log
      BY <1>1, <1>4, <3>3, <3>8 DEF Promise!Show
    <3> QED  BY <3>7, <3>9
  <2>2. CASE m.type # "TEXT"
    <3>1. shown' = shown /\ shown[c] = <<>>
      BY <1>3, <1>7, <2>2 DEF Listen
    <3>2. Stretch(c, b)'
      <4>1. b \in Nat /\ shown'[c] = <<>>
        BY <1>4, <3>1
      <4> QED  BY <1>t, <1>9, <4>1, StretchNow
    <3> QED  BY <1>1, <3>1, <3>2
  <2> QED  BY <2>1, <2>2
<1>11. \A d \in Clients : \E a \in 0 .. Len(log') : Stretch(d, a)'
  <2> SUFFICES ASSUME NEW d \in Clients PROVE \E a \in 0 .. Len(log') : Stretch(d, a)'
    OBVIOUS
  <2>1. CASE d = c
    BY <1>1, <1>10, <2>1
  <2>2. CASE d # c
    <3>1. PICK a \in 0 .. Len(log) : Stretch(d, a)
      BY DEF ShownInv
    <3> QED  BY <1>1, <1>2, <1>8, <2>2, <3>1, StretchStays
  <2> QED  BY <2>1, <2>2
<1>12. \A d : Waiting(d)' <=> Waiting(d)
  BY <1>1 DEF Waiting
<1>13. ~Waiting(c)
  BY <1>1 DEF ClientInv, ClientFit
<1>14. \A d \in Clients : listener'[d] = "none" \/ Waiting(d)' => shown'[d] = <<>>
  BY <1>2, <1>12, <1>13 DEF ShownInv
<1>15. EntriesOnce'
  BY <1>1 DEF ShownInv, EntriesOnce
<1>16. server' = "reply" => shown'[message'.text] = <<>>
  <2> SUFFICES ASSUME server = "reply" PROVE shown'[message.text] = <<>>
    BY <1>1
  <2>1. clientQ[message.text] = <<>> /\ shown[message.text] = <<>> /\ message.text \in Clients
    BY MessageFacts DEF ServerInv, ShownInv, TypeOK
  <2>2. message.text # c
    BY <1>1, <2>1
  <2> QED  BY <1>2, <2>1, <2>2
<1>17. server' = "broadcast" => Len(log') > 0 /\ message'.text = log'[Len(log')]
  BY <1>1 DEF ShownInv
<1> QED  BY <1>10, <1>11, <1>14, <1>15, <1>16, <1>17 DEF ShownInv

LEMMA InitShown ==
  ASSUME MqChatAssumption, Init
  PROVE  TextInv /\ ShownInv
<1>1. Base
  BY InitBase
<1>2. /\ server = "off" /\ client_queues = Closed /\ log = <<>> /\ Len(log) = 0
      /\ \A g \in Queues : serverQ[g][1] = <<>>
      /\ \A c \in Clients : parent[c] = "start" /\ clientQ[c] = <<>> /\ shown[c] = <<>>
  BY DEF Init, Queues
<1>3. \A g \in Queues : \A j \in Nat : \A t : ~Holds(g, j, t)
  BY <1>2 DEF Holds
<1>4. \A t : ~InQueue(t) /\ ~Logged(t)
  BY <1>2, <1>3 DEF InQueue, Logged
<1>5. TextInv
  BY <1>2, <1>3, <1>4 DEF TextInv, QueuedOnce
<1>6. \A e \in Entry : client_queues[e] = None
  BY <1>2 DEF Closed
<1>7. \A c \in Clients : Stretch(c, 0)
  BY <1>2, <1>6, MqChatAssumption DEF Stretch
<1>8. \A c \in Clients : \E b \in 0 .. Len(log) : Stretch(c, b)
  <2>1. 0 \in 0 .. Len(log)
    BY <1>2
  <2> QED  BY <1>7, <2>1
<1>9. ShownInv
  BY <1>2, <1>6, <1>8 DEF ShownInv, EntriesOnce
<1> QED  BY <1>5, <1>9

(* A step of the chat is a step of the promise, or none.                   *)
LEMMA NextShown ==
  ASSUME MqChatAssumption, Base, TextInv, ShownInv, [Next]_vars
  PROVE  ShownInv' /\ [Promise!Next]_<<log, shown>>
<1>1. CASE HandleText
  BY <1>1, HandleTextShown DEF Promise!Next
<1>2. ASSUME NEW c \in Clients, Listen(c) PROVE ShownInv' /\ [Promise!Next]_<<log, shown>>
  BY <1>2, ListenShown DEF Promise!Next
<1>3. CASE HandleInit
  BY <1>3, HandleInitShown
<1>4. CASE SendId
  BY <1>4, SendIdShown
<1>5. CASE BroadcastNext
  BY <1>5, BroadcastNextShown
<1>6. ASSUME NEW c \in Clients, GetId(c) PROVE ShownInv' /\ [Promise!Next]_<<log, shown>>
  BY <1>6, GetIdShown
<1>7. CASE \/ Operator \/ BroadcastDone \/ HandleClientExit \/ UNCHANGED vars
           \/ \E c \in Clients : Send(c) \/ Open(c) \/ KillListener(c) \/ User(c)
  BY <1>7, QuietShown
<1> QED  BY <1>1, <1>2, <1>3, <1>4, <1>5, <1>6, <1>7 DEF Next, Handle, Parent

(* The chat implements its promise: whoever comes, leaves or is            *)
(* interrupted, and whenever a server ends and another is started, what a  *)
(* listener prints (client.c:17-28) is a stretch without a gap of the one  *)
(* order in which the server has got the texts (server.c:34-43).           *)
THEOREM TextsHaveOneOrder == Spec => OneOrder
<1>1. Init => Base /\ TextInv /\ ShownInv
  BY MqChatAssumption, InitBase, InitShown
<1>2. Base /\ TextInv /\ ShownInv /\ [Next]_vars => Base' /\ TextInv' /\ ShownInv'
  BY MqChatAssumption, NextBase, NextTexts, NextShown
<1>3. Base /\ TextInv /\ ShownInv /\ [Next]_vars => [Promise!Next]_<<log, shown>>
  BY MqChatAssumption, NextShown
<1>4. Init => Promise!Init
  BY DEF Init, Promise!Init
<1> QED  BY <1>1, <1>2, <1>3, <1>4, PTL DEF Spec, OneOrder, Promise!Spec

=============================================================================
