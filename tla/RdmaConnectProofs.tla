------------------------- MODULE RdmaConnectProofs -------------------------
(***************************************************************************)
(* Clients and servers know each other by the same number, for every       *)
(* number of clients and servers, of clients that die, and of servers that *)
(* stop and start again, as long as node 1, which gives the numbers, does  *)
(* not stop.                                                               *)
(***************************************************************************)
EXTENDS RdmaConnect, TLAPS

(* What node 1 gives: numbers above those of the servers. *)
Number == {n \in Nat : n > ServerCount}

Msg == [kind: {"id", "meta"}, node: Nat \cup {NoId}, given: Number \cup {0}]

PCs == {"connect", "id", "meta", "done", "failed", "spin", "dead"}

(* Messages on their way, on every connection. *)
Channels == [Client -> [Server -> Seq(Msg)]]

ConnTypes ==
  /\ pc \in [Client -> PCs]
  /\ target \in [Client -> Server] /\ todo \in [Client -> SUBSET Server]
  /\ MyNodeID \in [Client -> Number \cup {NoId}]
  /\ serving \in [Server -> Client \cup {NoClient}]
  /\ phase \in [Server -> {"accept", "id", "meta"}]
  /\ \A s \in Server : phase[s] # "accept" => serving[s] \in Client
  /\ peerID \in [Server -> Nat \cup {NoId}]
  /\ MaxNodeID \in [Server -> Number]
  /\ peers \in [Server -> [NodeID -> Client \cup {NoClient}]]
  /\ backlog \in [Server -> Seq(Client)]
  /\ toServer \in Channels
  /\ toClient \in Channels
  /\ gone \in [Client -> {"no", "eof", "reset"}]

(* The number c has, or will have when it reads node 1's ExchangeID. *)
IdsOf(c) == ({MyNodeID[c]} \cup
             {toClient[c][1][k].given : k \in DOMAIN toClient[c][1]}) \ {0, NoId}

(* The clients whose number is nobody else's.  One that dies while node 1  *)
(* is at its connection may leave its number to the next.                  *)
Numbered == {c \in Client : c \notin Dead \/ target[c] # 1}

(* A client visits node 1 first and once, and has a number from then on. *)
ClientFacts ==
  \A c \in Client :
    /\ 1 \notin todo[c]
    /\ pc[c] \in {"connect", "id"} /\ target[c] = 1 => MyNodeID[c] = NoId
    /\ pc[c] = "meta" \/ target[c] # 1 => MyNodeID[c] # NoId
    /\ pc[c] = "connect" /\ target[c] = 1 => toClient[c][1] = << >>
    /\ c \in Dead => pc[c] = "dead"

(* Only the first message of node 1 gives a number. *)
AnswersInOrder ==
  \A c \in Client :
    /\ \A s \in Server : \A k \in DOMAIN toClient[c][s] :
         s # 1 \/ k # 1 \/ MyNodeID[c] # NoId => toClient[c][s][k].given = 0
    /\ pc[c] = "id" /\ target[c] = 1 /\ toClient[c][1] # << >>
         => toClient[c][1][1].given # 0

(* A client waits once for node 1's accept, having sent its ExchangeID. *)
QueueFacts ==
  /\ \A j, k \in DOMAIN backlog[1] : backlog[1][j] = backlog[1][k] => j = k
  /\ \A k \in DOMAIN backlog[1] :
       LET c == backlog[1][k] IN
       /\ pc[c] \notin {"connect", "meta"} /\ target[c] = 1
       /\ phase[1] # "accept" => serving[1] # c
       /\ toClient[c][1] = << >> /\ MyNodeID[c] = NoId
       /\ Len(toServer[c][1]) = 1

(* Node 1 has sent the next number and not counted on: its client has, or  *)
(* will read, just that number, and is not past node 1.                    *)
ServingID ==
  phase[1] = "id" =>
    LET c == serving[1] IN
    /\ target[c] = 1 /\ pc[c] # "connect"
    /\ Len(toClient[c][1]) <= 1
    /\ pc[c] = "meta" => toClient[c][1] = << >>
    /\ pc[c] = "id" => toClient[c][1] # << >>
    /\ MyNodeID[c] = NoId => Len(toServer[c][1]) <= 1
    /\ \A i \in IdsOf(c) : i = MaxNodeID[1]

(* Node 1 has counted on: the number is its client's and nobody else's. *)
ServingMeta ==
  phase[1] = "meta" =>
    LET c == serving[1] IN
    /\ pc[c] # "connect" \/ target[c] # 1
    /\ MyNodeID[c] = NoId => toServer[c][1] = << >>
    /\ \A i \in IdsOf(c) : i = peerID[1]
    /\ \A d \in Numbered \ {c} : peerID[1] \notin IdsOf(d)

IdsApart ==
  \A c \in Numbered : \A i \in IdsOf(c) :
    /\ i <= MaxNodeID[1]
    /\ i = MaxNodeID[1] => phase[1] = "id" /\ serving[1] = c
    /\ \A d \in Numbered : i \in IdsOf(d) => c = d

(* The other servers are told the number node 1 gave. *)
OtherServers ==
  \A s \in Server \ {1} :
    /\ \A c \in Client : \A k \in DOMAIN toServer[c][s] :
         target[c] # 1 /\ toServer[c][s][k].node = MyNodeID[c]
    /\ phase[s] = "meta" =>
         target[serving[s]] # 1 /\ peerID[s] = MyNodeID[serving[s]]

PeersAgree ==
  \A s \in Server, i \in NodeID :
    peers[s][i] # NoClient =>
      /\ s # 1 => target[peers[s][i]] # 1
      /\ s # 1 \/ peers[s][i] \notin Dead => i = MyNodeID[peers[s][i]]

JoinInv == /\ ConnTypes /\ ClientFacts /\ AnswersInOrder /\ QueueFacts
           /\ ServingID /\ ServingMeta /\ IdsApart /\ OtherServers /\ PeersAgree

-----------------------------------------------------------------------------
(* What the constants are. *)
LEMMA Basics ==
  /\ 1 \in Server /\ FirstID \in Number /\ NoId \notin Nat
  /\ NoClient \notin Client /\ Number \subseteq Nat
  /\ \A n \in Number : n # 0 /\ n # NoId /\ n + 1 \in Number
  BY ConnectAssumption DEF Server, FirstID, Number

(* The two messages of a connection and their fields. *)
LEMMA Messages ==
  /\ \A n \in Nat \cup {NoId}, g \in Number \cup {0} :
       ID(n, g) \in Msg /\ ID(n, g).node = n /\ ID(n, g).given = g
  /\ \A n \in Nat \cup {NoId} :
       Meta(n) \in Msg /\ Meta(n).node = n /\ Meta(n).given = 0
  BY DEF ID, Meta, Msg

(* A step puts the sequence q on one direction of one connection. *)
LEMMA PutMessages ==
  ASSUME NEW f \in Channels, NEW c \in Client, NEW s \in Server,
         NEW q \in Seq(Msg)
  PROVE  [f EXCEPT ![c][s] = q] \in Channels
<1>1. [f[c] EXCEPT ![s] = q] \in [Server -> Seq(Msg)]
  BY DEF Channels
<1> QED
  BY <1>1 DEF Channels

(* What reading and writing do to the messages of a connection. *)
LEMMA Reading ==
  ASSUME NEW q \in Seq(Msg), q # << >>
  PROVE  /\ Head(q) = q[1] /\ q[1] \in Msg /\ Tail(q) \in Seq(Msg)
         /\ 1 \in DOMAIN q /\ Len(q) \in Nat \ {0} /\ Len(Tail(q)) = Len(q) - 1
         /\ \A k \in DOMAIN Tail(q) : k + 1 \in DOMAIN q /\ Tail(q)[k] = q[k + 1]
                                     /\ k + 1 # 1
         /\ Len(q) <= 1 => Tail(q) = << >>
<1>1. /\ Head(q) = q[1] /\ Len(q) \in Nat \ {0} /\ DOMAIN q = 1 .. Len(q)
      /\ Tail(q) \in Seq(Msg) /\ Len(Tail(q)) = Len(q) - 1
      /\ \A k \in 1 .. Len(q) - 1 : Tail(q)[k] = q[k + 1]
  OBVIOUS
<1>2. DOMAIN Tail(q) = 1 .. Len(q) - 1
  BY <1>1
<1>3. Len(q) <= 1 => Tail(q) = << >>
  BY <1>1
<1>4. 1 \in DOMAIN q /\ q[1] \in Msg
  BY <1>1
<1> QED
  BY <1>1, <1>2, <1>3, <1>4

(* A write puts a message behind those already there. *)
LEMMA Writing ==
  ASSUME NEW q \in Seq(Msg), NEW m \in Msg
  PROVE  /\ Append(q, m) \in Seq(Msg) /\ Append(q, m) # << >>
         /\ \A k \in DOMAIN Append(q, m) :
              \/ k \in DOMAIN q /\ Append(q, m)[k] = q[k]
              \/ k = Len(q) + 1 /\ Append(q, m)[k] = m
         /\ q # << >> => Append(q, m)[1] = q[1] /\ 1 \in DOMAIN q
<1>1. /\ Append(q, m) \in Seq(Msg) /\ DOMAIN Append(q, m) = 1 .. Len(q) + 1
      /\ Len(q) \in Nat /\ DOMAIN q = 1 .. Len(q)
      /\ \A k \in 1 .. Len(q) : Append(q, m)[k] = q[k]
      /\ Append(q, m)[Len(q) + 1] = m
  OBVIOUS
<1>2. Append(q, m) # << >>
  <2>1. 1 \in DOMAIN Append(q, m)
    BY <1>1
  <2> QED
    BY <2>1
<1>3. q # << >> => 1 \in DOMAIN q
  BY <1>1
<1> QED
  BY <1>1, <1>2, <1>3

(* A client that waits for node 1's accept is one of the clients. *)
LEMMA Queued ==
  ASSUME JoinInv
  PROVE  /\ \A k \in DOMAIN backlog[1] : backlog[1][k] \in Client
         /\ \A d \in Numbered : d \in Client
<1>1. backlog[1] \in Seq(Client)
  BY Basics DEF JoinInv, ConnTypes
<1> QED
  BY <1>1 DEF Numbered

(* connect: c is new to the server, and its ExchangeID carries its number. *)
LEMMA SocketConnectKeepsInv ==
  ASSUME JoinInv, NEW c \in Client, SocketConnect(c)
  PROVE  JoinInv'
<1> DEFINE s == target[c]
<1> USE DEF JoinInv
<1>1. /\ s \in Server /\ pc[c] = "connect"
      /\ backlog' = [backlog EXCEPT ![s] = Append(@, c)]
      /\ toServer' = [toServer EXCEPT ![c][s] = <<ID(MyNodeID[c], 0)>>]
      /\ pc' = [pc EXCEPT ![c] = "id"]
      /\ UNCHANGED <<target, todo, MyNodeID, serverVars, toClient, gone>>
  BY DEF SocketConnect, Goto, ConnTypes
<1> HIDE DEF s
<1>2. /\ MyNodeID[c] \in Nat \cup {NoId}
      /\ ID(MyNodeID[c], 0) \in Msg /\ ID(MyNodeID[c], 0).node = MyNodeID[c]
  BY Messages, Basics DEF ConnTypes
<1>3. ConnTypes'
  <2>1. /\ <<ID(MyNodeID[c], 0)>> \in Seq(Msg) /\ toServer \in Channels
        /\ backlog[s] \in Seq(Client) /\ Append(backlog[s], c) \in Seq(Client)
    BY <1>1, <1>2 DEF ConnTypes
  <2>2. toServer' \in Channels
    BY <1>1, <2>1, PutMessages
  <2>3. backlog' \in [Server -> Seq(Client)]
    BY <1>1, <2>1 DEF ConnTypes
  <2>4. pc' \in [Client -> PCs]
    BY <1>1 DEF ConnTypes, PCs
  <2> QED
    BY <1>1, <2>2, <2>3, <2>4 DEF ConnTypes, serverVars
<1>4. /\ \A d \in Client : IdsOf(d)' = IdsOf(d)
      /\ Numbered' = Numbered /\ Dead' = Dead
  BY <1>1 DEF IdsOf, Numbered, Dead
<1>5. /\ \A d \in Client : pc'[d] = IF d = c THEN "id" ELSE pc[d]
      /\ \A d \in Client, t \in Server : toServer'[d][t] =
           IF d = c /\ t = s THEN <<ID(MyNodeID[c], 0)>> ELSE toServer[d][t]
      /\ \A t \in Server : backlog'[t] =
           IF t = s THEN Append(backlog[t], c) ELSE backlog[t]
  BY <1>1 DEF ConnTypes, Channels
<1>6. ClientFacts'
  BY <1>1, <1>4, <1>5 DEF ClientFacts
<1>7. AnswersInOrder'
  BY <1>1, <1>5 DEF AnswersInOrder, ClientFacts, s
<1>8. QueueFacts'
  <2>1. \A k \in DOMAIN backlog[1] : backlog[1][k] \in Client \ {c}
    BY <1>1, Queued DEF QueueFacts
  <2>2. CASE s # 1
    BY <1>1, <1>5, <2>1, <2>2, Basics DEF QueueFacts, serverVars
  <2>3. CASE s = 1
    <3>1. backlog[1] \in Seq(Client) /\ backlog'[1] = Append(backlog[1], c)
      BY <1>5, <2>3, Basics DEF ConnTypes
    <3>2. /\ DOMAIN backlog'[1] = 1 .. Len(backlog[1]) + 1
          /\ DOMAIN backlog[1] = 1 .. Len(backlog[1]) /\ Len(backlog[1]) \in Nat
          /\ \A k \in DOMAIN backlog[1] : backlog'[1][k] = backlog[1][k]
          /\ backlog'[1][Len(backlog[1]) + 1] = c
      BY <3>1
    <3>3. phase[1] # "accept" => serving[1] # c
      BY <1>1, <2>3, Basics DEF ServingID, ServingMeta, ConnTypes, s
    <3>4. toClient[c][1] = << >> /\ MyNodeID[c] = NoId /\ target[c] = 1
      BY <1>1, <2>3 DEF ClientFacts, s
    <3>5. Len(toServer'[c][1]) = 1 /\ pc'[c] = "id"
      BY <1>5, <2>3, Basics
    <3>6. \A j, k \in DOMAIN backlog'[1] : backlog'[1][j] = backlog'[1][k] => j = k
      BY <2>1, <3>2 DEF QueueFacts
    <3>7. ASSUME NEW k \in DOMAIN backlog'[1]
          PROVE  LET d == backlog'[1][k] IN
                 /\ pc'[d] \notin {"connect", "meta"} /\ target'[d] = 1
                 /\ phase'[1] # "accept" => serving'[1] # d
                 /\ toClient'[d][1] = << >> /\ MyNodeID'[d] = NoId
                 /\ Len(toServer'[d][1]) = 1
      <4>1. CASE k \in DOMAIN backlog[1]
        BY <1>1, <1>5, <2>1, <3>2, <4>1, Basics DEF QueueFacts, serverVars
      <4>2. CASE k = Len(backlog[1]) + 1
        BY <1>1, <3>2, <3>3, <3>4, <3>5, <4>2 DEF serverVars
      <4> QED
        BY <3>2, <4>1, <4>2
    <3> QED
      BY <3>6, <3>7 DEF QueueFacts
  <2> QED
    BY <2>2, <2>3
<1>9. UNCHANGED <<phase, serving, peerID, MaxNodeID, peers>>
  BY <1>1 DEF serverVars
<1>10. ServingID'
  <2>1. ASSUME phase[1] = "id"
        PROVE  /\ serving[1] \in Client \ {c}
               /\ pc'[serving[1]] = pc[serving[1]]
               /\ toServer'[serving[1]][1] = toServer[serving[1]][1]
    BY <1>1, <1>5, <2>1, Basics DEF ServingID, ConnTypes
  <2> QED
    BY <1>1, <1>4, <1>9, <2>1 DEF ServingID
<1>11. ServingMeta'
  <2>1. ASSUME phase[1] = "meta"
        PROVE  /\ serving[1] \in Client
               /\ pc'[serving[1]] # "connect" \/ target[serving[1]] # 1
               /\ toServer'[serving[1]][1] = toServer[serving[1]][1]
    BY <1>1, <1>5, <2>1, Basics DEF ServingMeta, ConnTypes, s
  <2>2. \A d \in Numbered : d \in Client
    BY DEF Numbered
  <2> QED
    BY <1>1, <1>4, <1>9, <2>1, <2>2 DEF ServingMeta
<1>12. IdsApart'
  BY <1>4, <1>9 DEF IdsApart, Numbered
<1>13. OtherServers'
  BY <1>1, <1>2, <1>5, <1>9 DEF OtherServers, s
<1>14. PeersAgree'
  BY <1>1, <1>4, <1>9 DEF PeersAgree
<1> QED
  BY <1>3, <1>6, <1>7, <1>8, <1>10, <1>11, <1>12, <1>13, <1>14

(* Clients stop where they are, servers go back to accept or lose what     *)
(* they know, and nobody gets a number or a message.                       *)
Retreat ==
  /\ UNCHANGED <<target, todo, MyNodeID, toServer, toClient>>
  /\ \A d \in Client : pc'[d] = pc[d] \/ pc'[d] \in {"failed", "dead", "spin"}
  /\ Dead \subseteq Dead' /\ \A d \in Dead' : pc'[d] = "dead"
  /\ \A t \in Server :
       \/ phase'[t] = "accept"
       \/ UNCHANGED <<phase[t], serving[t], peerID[t]>>
  /\ phase[1] = "id" /\ phase'[1] # "id" => serving[1] \in Dead
  /\ \A t \in Server, i \in NodeID : peers'[t][i] \in {peers[t][i], NoClient}
  /\ UNCHANGED <<backlog[1], MaxNodeID[1]>>

(* A step back gives nobody a number. *)
LEMMA RetreatKeepsInv ==
  ASSUME JoinInv, ConnTypes', Retreat
  PROVE  JoinInv'
<1> USE DEF JoinInv
<1>1. /\ UNCHANGED <<target, todo, MyNodeID, toServer, toClient>>
      /\ \A d \in Client : pc'[d] = pc[d] \/ pc'[d] \in {"failed", "dead", "spin"}
  BY DEF Retreat
<1>2. /\ \A d \in Client : IdsOf(d)' = IdsOf(d)
      /\ Dead \subseteq Dead' /\ Numbered' \subseteq Numbered
      /\ \A d \in Numbered : d \in Client
  <2>1. Dead \subseteq Dead'
    BY DEF Retreat
  <2>2. \A d \in Client : IdsOf(d)' = IdsOf(d)
    BY <1>1 DEF IdsOf
  <2> QED
    BY <1>1, <2>1, <2>2 DEF Numbered
<1>3. ClientFacts'
  <2>1. \A d \in Dead' : pc'[d] = "dead"
    BY DEF Retreat
  <2> QED
    BY <1>1, <2>1 DEF ClientFacts
<1>4. AnswersInOrder'
  BY <1>1 DEF AnswersInOrder
<1>5. backlog'[1] = backlog[1] /\ MaxNodeID'[1] = MaxNodeID[1]
  BY DEF Retreat
<1>6. \A t \in Server : phase'[t] # "accept" =>
        phase'[t] = phase[t] /\ serving'[t] = serving[t] /\ peerID'[t] = peerID[t]
  BY DEF Retreat
<1>7. QueueFacts'
  <2>1. \A k \in DOMAIN backlog[1] : backlog[1][k] \in Client
    BY Queued
  <2>2. phase'[1] # "accept" => serving'[1] = serving[1] /\ phase[1] # "accept"
    BY <1>6, Basics
  <2> QED
    BY <1>1, <1>5, <2>1, <2>2 DEF QueueFacts
<1>8. ServingID'
  <2>1. ASSUME phase'[1] = "id"
        PROVE  /\ phase[1] = "id" /\ serving'[1] = serving[1]
               /\ serving[1] \in Client
    BY <1>6, <2>1, Basics DEF ConnTypes
  <2> QED
    BY <1>1, <1>2, <1>5, <2>1 DEF ServingID
<1>9. ServingMeta'
  <2>1. ASSUME phase'[1] = "meta"
        PROVE  /\ phase[1] = "meta" /\ serving'[1] = serving[1]
               /\ serving[1] \in Client /\ peerID'[1] = peerID[1]
    BY <1>6, <2>1, Basics DEF ConnTypes
  <2> QED
    BY <1>1, <1>2, <2>1 DEF ServingMeta
<1>10. IdsApart'
  <2>1. ASSUME phase[1] = "id"
        PROVE  \/ phase'[1] = "id" /\ serving'[1] = serving[1]
               \/ serving[1] \notin Numbered'
    <3>1. CASE phase'[1] = "id"
      BY <1>6, <3>1, Basics
    <3>2. CASE phase'[1] # "id"
      BY <1>1, <1>2, <2>1, <3>2 DEF Retreat, Numbered, ServingID
    <3> QED
      BY <3>1, <3>2
  <2> QED
    BY <1>2, <1>5, <2>1 DEF IdsApart
<1>11. OtherServers'
  BY <1>1, <1>6 DEF OtherServers
<1>12. PeersAgree'
  <2>1. \A t \in Server, i \in NodeID :
          peers'[t][i] # NoClient => peers'[t][i] = peers[t][i]
    BY DEF Retreat
  <2> QED
    BY <1>1, <1>2, <2>1 DEF PeersAgree
<1> QED
  BY <1>3, <1>4, <1>7, <1>8, <1>9, <1>10, <1>11, <1>12

(* The steps of that kind. *)
LEMMA RetreatsKeepInv ==
  ASSUME JoinInv, 1 \notin Mortal,
         \/ \E c \in Client : ConnectRefused(c) \/ Timeout(c) \/ ClientCrash(c)
         \/ \E s \in Server : ServeError(s) \/ Stop(s) \/ Start(s)
         \/ UNCHANGED vars
  PROVE  JoinInv'
<1> USE DEF JoinInv
<1>1. ASSUME NEW c \in Client, ConnectRefused(c) \/ Timeout(c) \/ ClientCrash(c)
      PROVE  JoinInv'
  <2>1. /\ UNCHANGED <<target, todo, MyNodeID, toServer, toClient, serverVars, backlog>>
        /\ pc' \in [Client -> PCs]
        /\ \A d \in Client : pc'[d] = pc[d] \/ pc'[d] \in {"failed", "dead", "spin"}
    BY <1>1 DEF ConnectRefused, Timeout, ClientCrash, Goto, ConnTypes, PCs, netVars
  <2>2. gone' \in [Client -> {"no", "eof", "reset"}] /\ Dead \subseteq Dead'
    BY <1>1 DEF ConnectRefused, Timeout, ClientCrash, ConnTypes, netVars, Dead
  <2>3. ConnTypes'
    BY <2>1, <2>2 DEF ConnTypes, serverVars
  <2>4. \A d \in Dead' : pc'[d] = "dead"
    BY <1>1 DEF ConnectRefused, Timeout, ClientCrash, Goto, ConnTypes, netVars,
                Dead, ClientFacts
  <2>5. Retreat
    BY <2>1, <2>2, <2>4 DEF Retreat, serverVars
  <2> QED
    BY <2>3, <2>5, RetreatKeepsInv
<1>2. ASSUME NEW s \in Server, ServeError(s) PROVE JoinInv'
  <2>1. /\ UNCHANGED <<pc, target, todo, MyNodeID, toServer, toClient, gone,
                       MaxNodeID, peers, backlog>>
        /\ phase' = [phase EXCEPT ![s] = "accept"]
        /\ serving' = [serving EXCEPT ![s] = NoClient]
        /\ peerID' = [peerID EXCEPT ![s] = NoId]
        /\ gone[serving[s]] = "reset" /\ phase[s] # "accept"
    BY <1>2 DEF ServeError, Served, clientVars, netVars
  <2>2. serving[s] \in Dead /\ Dead' = Dead
    BY <2>1 DEF ConnTypes, Dead
  <2>3. ConnTypes'
    BY <2>1 DEF ConnTypes
  <2>4. Retreat
    BY <2>1, <2>2, Basics DEF Retreat, ConnTypes, ClientFacts, Dead
  <2> QED
    BY <2>3, <2>4, RetreatKeepsInv
<1>3. ASSUME NEW s \in Server, Stop(s) PROVE JoinInv'
  <2>1. /\ UNCHANGED <<target, todo, MyNodeID, toServer, toClient, gone>>
        /\ phase' = [phase EXCEPT ![s] = "accept"]
        /\ serving' = [serving EXCEPT ![s] = NoClient]
        /\ peerID' = [peerID EXCEPT ![s] = NoId]
        /\ MaxNodeID' = [MaxNodeID EXCEPT ![s] = FirstID]
        /\ peers' = [peers EXCEPT ![s] = NoPeers]
        /\ backlog' = [backlog EXCEPT ![s] = << >>]
        /\ s # 1
    BY <1>3 DEF Stop, Served
  <2>2. /\ pc' \in [Client -> PCs]
        /\ \A d \in Client : pc'[d] = pc[d] \/ pc'[d] \in {"failed", "dead", "spin"}
    BY <1>3 DEF Stop, ConnTypes, PCs
  <2>3. /\ << >> \in Seq(Client) /\ Dead' = Dead
        /\ NoPeers \in [NodeID -> Client \cup {NoClient}]
        /\ \A i \in NodeID : NoPeers[i] = NoClient
    BY <2>1 DEF NoPeers, Dead
  <2>4. ConnTypes'
    BY <2>1, <2>2, <2>3, Basics DEF ConnTypes
  <2>5. \A t \in Server, i \in NodeID : peers'[t][i] \in {peers[t][i], NoClient}
    BY <2>1, <2>3 DEF ConnTypes
  <2>6. \A t \in Server : \/ phase'[t] = "accept"
                          \/ UNCHANGED <<phase[t], serving[t], peerID[t]>>
    BY <2>1 DEF ConnTypes
  <2>7. UNCHANGED <<phase[1], backlog[1], MaxNodeID[1]>>
    BY <2>1, Basics DEF ConnTypes
  <2>8. \A d \in Dead' : pc'[d] = "dead"
    BY <1>3, <2>3 DEF Stop, Waiting, ClientFacts, Dead
  <2>9. Retreat
    BY <2>1, <2>2, <2>3, <2>5, <2>6, <2>7, <2>8 DEF Retreat
  <2> QED
    BY <2>4, <2>9, RetreatKeepsInv
<1>4. ASSUME UNCHANGED <<pc, target, todo, MyNodeID, toServer, toClient, gone,
                         serving, phase, peerID, MaxNodeID, peers, backlog>>
      PROVE  JoinInv'
  <2>1. ConnTypes'
    BY <1>4 DEF ConnTypes
  <2>2. Retreat
    BY <1>4 DEF Retreat, Dead, ClientFacts
  <2> QED
    BY <2>1, <2>2, RetreatKeepsInv
<1>5. ASSUME NEW s \in Server, Start(s) PROVE JoinInv'
  BY <1>4, <1>5 DEF Start, clientVars, netVars
<1>6. CASE UNCHANGED vars
  BY <1>4, <1>6 DEF vars, clientVars, serverVars, netVars
<1> QED
  BY <1>1, <1>2, <1>3, <1>5, <1>6

(* The client reads the server's ExchangeID. *)
LEMMA TakeIDKeepsInv ==
  ASSUME JoinInv, NEW c \in Client, TakeID(c)
  PROVE  JoinInv'
<1> DEFINE s == target[c]
           q == toClient[c][s]
           n == MyNodeID'[c]
<1> USE DEF JoinInv
<1>1. /\ s \in Server /\ pc[c] = "id" /\ q # << >>
      /\ toClient' = [toClient EXCEPT ![c][s] = Tail(q)]
      /\ MyNodeID' = [MyNodeID EXCEPT
                        ![c] = IF Head(q).given = 0 THEN @ ELSE Head(q).given]
      /\ toServer' = [toServer EXCEPT ![c][s] = Append(@, Meta(n))]
      /\ pc' = [pc EXCEPT ![c] = "meta"]
      /\ UNCHANGED <<target, todo, serverVars, backlog, gone>>
  BY DEF TakeID, Goto, ConnTypes
<1>2. /\ q \in Seq(Msg) /\ toServer[c][s] \in Seq(Msg)
      /\ toClient \in Channels /\ toServer \in Channels
  BY <1>1 DEF ConnTypes, Channels
<1>3. /\ Head(q) = q[1] /\ q[1] \in Msg /\ Tail(q) \in Seq(Msg)
      /\ q[1].given \in Number \cup {0} /\ 1 \in DOMAIN q
  BY <1>1, <1>2, Reading DEF Msg
<1>4. n = IF q[1].given = 0 THEN MyNodeID[c] ELSE q[1].given
  BY <1>1, <1>3 DEF ConnTypes
<1> HIDE DEF s, q, n
<1>5. /\ n \in Number \cup {NoId} /\ Meta(n) \in Msg /\ Meta(n).node = n
      /\ \A d \in Client : MyNodeID'[d] = IF d = c THEN n ELSE MyNodeID[d]
  <2>1. n \in Number \cup {NoId}
    BY <1>3, <1>4 DEF ConnTypes
  <2> QED
    BY <1>1, <2>1, Messages, Basics DEF ConnTypes, n
<1>6. ConnTypes'
  <2>1. Append(toServer[c][s], Meta(n)) \in Seq(Msg)
    BY <1>2, <1>5, Writing
  <2>2. toServer' \in Channels /\ toClient' \in Channels
    BY <1>1, <1>2, <1>3, <2>1, PutMessages
  <2>3. pc' \in [Client -> PCs]
    BY <1>1 DEF ConnTypes, PCs
  <2>4. MyNodeID' \in [Client -> Number \cup {NoId}]
    BY <1>1, <1>3 DEF ConnTypes
  <2> QED
    BY <1>1, <2>2, <2>3, <2>4 DEF ConnTypes, serverVars
<1>7. /\ \A d \in Client : pc'[d] = IF d = c THEN "meta" ELSE pc[d]
      /\ \A d \in Client, t \in Server : toClient'[d][t] =
           IF d = c /\ t = s THEN Tail(q) ELSE toClient[d][t]
      /\ \A d \in Client, t \in Server : toServer'[d][t] =
           IF d = c /\ t = s THEN Append(toServer[c][s], Meta(n))
           ELSE toServer[d][t]
  BY <1>1 DEF ConnTypes, Channels
<1>8. UNCHANGED <<target, todo, phase, serving, peerID, MaxNodeID, peers, backlog, gone>>
  BY <1>1 DEF serverVars
<1>9. Dead' = Dead /\ Numbered' = Numbered /\ c \notin Dead
  BY <1>1, <1>8 DEF Dead, Numbered, ClientFacts
<1>10. \A k \in DOMAIN Tail(q) : k + 1 \in DOMAIN q /\ Tail(q)[k] = q[k + 1]
                                /\ k + 1 # 1
  BY <1>1, <1>2, Reading
<1>11. /\ s = 1 => /\ n # NoId /\ n = q[1].given /\ MyNodeID[c] = NoId
                  /\ n \in IdsOf(c)
                  /\ \A k \in DOMAIN q : k # 1 => q[k].given = 0
       /\ s # 1 => n = MyNodeID[c] /\ n # NoId
  <2>1. CASE s = 1
    <3>1. q[1].given # 0
      BY <1>1, <2>1 DEF AnswersInOrder, s, q
    <3>2. n = q[1].given /\ n \in Number /\ MyNodeID[c] = NoId
      BY <1>1, <1>3, <1>4, <2>1, <3>1 DEF ClientFacts, s
    <3>3. n \in IdsOf(c)
      BY <1>3, <2>1, <3>2, Basics DEF IdsOf, q
    <3>4. \A k \in DOMAIN q : k # 1 => q[k].given = 0
      BY <1>1, <2>1 DEF AnswersInOrder, q
    <3> QED
      BY <2>1, <3>2, <3>3, <3>4, Basics
  <2>2. CASE s # 1
    <3>1. q[1].given = 0
      BY <1>1, <1>3, <2>2 DEF AnswersInOrder, q
    <3> QED
      BY <1>4, <2>2, <3>1 DEF ClientFacts, s
  <2> QED
    BY <2>1, <2>2
<1>12. \A k \in DOMAIN Tail(q) : Tail(q)[k].given = 0
  <2>1. ASSUME NEW k \in DOMAIN q, k # 1 PROVE q[k].given = 0
    BY <1>1, <2>1 DEF AnswersInOrder, q
  <2> QED
    BY <1>10, <2>1
<1>13. \A d \in Client : IdsOf(d)' \subseteq IdsOf(d)
  <2>1. ASSUME NEW d \in Client, d # c \/ s # 1 PROVE IdsOf(d)' = IdsOf(d)
    BY <1>5, <1>7, <1>11, <2>1, Basics DEF IdsOf
  <2>2. CASE s = 1
    <3>1. \A k \in DOMAIN toClient'[c][1] : toClient'[c][1][k].given = 0
      <4>1. toClient'[c][1] = Tail(q)
        BY <1>7, <2>2, Basics
      <4> QED
        BY <1>12, <4>1
    <3>2. MyNodeID'[c] \in IdsOf(c)
      BY <1>5, <1>11, <2>2
    <3> QED
      BY <2>1, <3>1, <3>2 DEF IdsOf
  <2> QED
    BY <2>1, <2>2
<1>14. ClientFacts'
  BY <1>1, <1>5, <1>7, <1>8, <1>9, <1>11 DEF ClientFacts, s
<1>15. AnswersInOrder'
  <2>1. ASSUME NEW d \in Client, NEW t \in Server, NEW k \in DOMAIN toClient'[d][t],
               t # 1 \/ k # 1 \/ MyNodeID'[d] # NoId
        PROVE  toClient'[d][t][k].given = 0
    <3>1. CASE d # c
      BY <1>5, <1>7, <2>1, <3>1 DEF AnswersInOrder
    <3>2. CASE d = c /\ t # s
      BY <1>1, <1>5, <1>7, <1>11, <2>1, <3>2 DEF AnswersInOrder, ClientFacts, s
    <3>3. CASE d = c /\ t = s
      <4>1. toClient'[c][s] = Tail(q)
        BY <1>1, <1>7
      <4> QED
        BY <1>12, <3>3, <4>1
    <3> QED
      BY <3>1, <3>2, <3>3
  <2>2. \A d \in Client : pc'[d] = "id" => pc[d] = "id" /\ d # c
    BY <1>7
  <2> QED
    BY <1>7, <1>8, <2>1, <2>2, Basics DEF AnswersInOrder
<1>16. QueueFacts'
  <2>1. \A k \in DOMAIN backlog[1] : backlog[1][k] \in Client \ {c}
    BY <1>1, Queued DEF QueueFacts, s, q
  <2>2. \A d \in Client \ {c} :
          /\ pc'[d] = pc[d] /\ MyNodeID'[d] = MyNodeID[d]
          /\ toClient'[d][1] = toClient[d][1] /\ toServer'[d][1] = toServer[d][1]
    BY <1>5, <1>7, Basics
  <2> QED
    BY <1>8, <2>1, <2>2 DEF QueueFacts
<1>17. ServingID'
  <2>1. ASSUME phase[1] = "id", serving[1] # c PROVE ServingID'
    <3>1. serving[1] \in Client
      BY <2>1, Basics DEF ConnTypes
    <3> QED
      BY <1>5, <1>7, <1>8, <1>13, <2>1, <3>1, Basics DEF ServingID
  <2>2. ASSUME phase[1] = "id", serving[1] = c PROVE ServingID'
    <3>1. /\ s = 1 /\ Len(q) <= 1 /\ \A i \in IdsOf(c) : i = MaxNodeID[1]
      BY <2>2 DEF ServingID, s, q
    <3>2. toClient'[c][1] = << >> /\ Len(toClient'[c][1]) <= 1
      <4>1. toClient'[c][1] = Tail(q)
        BY <1>7, <3>1, Basics
      <4>2. Tail(q) = << >>
        BY <1>1, <1>2, <3>1, Reading
      <4> QED
        BY <4>1, <4>2
    <3> QED
      BY <1>5, <1>7, <1>8, <1>11, <1>13, <2>2, <3>1, <3>2 DEF ServingID, s
  <2> QED
    BY <1>8, <2>1, <2>2 DEF ServingID
<1>18. ServingMeta'
  <2>1. ASSUME phase[1] = "meta"
        PROVE  /\ serving[1] \in Client
               /\ pc'[serving[1]] # "connect" \/ target[serving[1]] # 1
    BY <1>7, <2>1, Basics DEF ConnTypes, ServingMeta
  <2>2. ASSUME phase[1] = "meta", MyNodeID'[serving[1]] = NoId
        PROVE  toServer'[serving[1]][1] = << >>
    <3>1. serving[1] # c
      BY <1>5, <1>11, <2>2
    <3> QED
      BY <1>5, <1>7, <2>1, <2>2, <3>1, Basics DEF ServingMeta
  <2> QED
    BY <1>8, <1>9, <1>13, <2>1, <2>2, Queued DEF ServingMeta
<1>19. IdsApart'
  BY <1>8, <1>9, <1>13, Queued DEF IdsApart
<1>20. OtherServers'
  <2>1. ASSUME NEW t \in Server \ {1}, NEW d \in Client,
               NEW k \in DOMAIN toServer'[d][t]
        PROVE  target[d] # 1 /\ toServer'[d][t][k].node = MyNodeID'[d]
    <3>1. CASE d # c
      BY <1>5, <1>7, <3>1 DEF OtherServers
    <3>2. CASE d = c /\ t # s
      <4>1. toServer'[c][t] = toServer[c][t]
        BY <1>7, <3>2
      <4>2. target[c] # 1 /\ toServer[c][t][k].node = MyNodeID[c]
        BY <3>2, <4>1 DEF OtherServers
      <4> QED
        BY <1>5, <1>11, <3>2, <4>1, <4>2 DEF s
    <3>3. CASE d = c /\ t = s
      <4>1. \/ k \in DOMAIN toServer[c][s] /\ toServer'[c][s][k] = toServer[c][s][k]
            \/ toServer'[c][s][k] = Meta(n)
        BY <1>1, <1>2, <1>5, <1>7, <3>3, Writing
      <4> QED
        BY <1>5, <1>11, <3>3, <4>1 DEF OtherServers, s
    <3> QED
      BY <3>1, <3>2, <3>3
  <2>2. ASSUME NEW t \in Server \ {1}, phase[t] = "meta"
        PROVE  MyNodeID'[serving[t]] = MyNodeID[serving[t]]
    BY <1>5, <1>11, <2>2 DEF OtherServers, ConnTypes, s
  <2> QED
    BY <1>8, <2>1, <2>2 DEF OtherServers
<1>21. PeersAgree'
  <2>1. ASSUME NEW t \in Server, NEW i \in NodeID, peers[t][i] = c
        PROVE  n = MyNodeID[c]
    <3>1. CASE s # 1
      BY <1>11, <3>1
    <3>2. CASE s = 1
      <4>1. i \in Nat
        BY ConnectAssumption DEF NodeID
      <4> QED
        BY <1>9, <1>11, <2>1, <3>2, <4>1, Basics DEF PeersAgree, s
    <3> QED
      BY <3>1, <3>2
  <2>2. \A t \in Server, i \in NodeID : peers[t][i] # NoClient => peers[t][i] \in Client
    BY DEF ConnTypes
  <2> QED
    BY <1>5, <1>8, <1>9, <2>1, <2>2 DEF PeersAgree
<1> QED
  BY <1>6, <1>14, <1>15, <1>16, <1>17, <1>18, <1>19, <1>20,
     <1>21

(* The client reads the server's ExchangeMeta and goes on. *)
LEMMA TakeMetaKeepsInv ==
  ASSUME JoinInv, NEW c \in Client, TakeMeta(c)
  PROVE  JoinInv'
<1> DEFINE s == target[c]
           q == toClient[c][s]
<1> USE DEF JoinInv
<1>1. /\ s \in Server /\ pc[c] = "meta" /\ q # << >>
      /\ toClient' = [toClient EXCEPT ![c][s] = Tail(q)]
      /\ UNCHANGED <<MyNodeID, toServer, phase, serving, peerID, MaxNodeID,
                     peers, backlog, gone>>
  BY DEF TakeMeta, ConnTypes, serverVars
<1>2. /\ pc' \in [Client -> PCs] /\ target' \in [Client -> Server]
      /\ todo' \in [Client -> SUBSET Server]
      /\ \A d \in Client \ {c} : pc'[d] = pc[d] /\ target'[d] = target[d]
      /\ pc'[c] \in {"connect", "done"}
      /\ pc'[c] = "connect" => target'[c] # 1
      /\ target'[c] = 1 => target[c] = 1
      /\ \A d \in Client : 1 \notin todo'[d]
  <2>1. CASE UNCHANGED <<target, todo>> /\ pc' = [pc EXCEPT ![c] = "done"]
    BY <2>1 DEF ConnTypes, PCs, ClientFacts
  <2>2. CASE \E t \in todo[c] : /\ target' = [target EXCEPT ![c] = t]
                                /\ todo' = [todo EXCEPT ![c] = @ \ {t}]
                                /\ pc' = [pc EXCEPT ![c] = "connect"]
    <3>1. PICK t \in todo[c] : /\ target' = [target EXCEPT ![c] = t]
                               /\ todo' = [todo EXCEPT ![c] = @ \ {t}]
                               /\ pc' = [pc EXCEPT ![c] = "connect"]
      BY <2>2
    <3>2. t \in Server /\ t # 1
      BY DEF ConnTypes, ClientFacts
    <3>3. target' \in [Client -> Server] /\ todo' \in [Client -> SUBSET Server]
      BY <3>1, <3>2 DEF ConnTypes
    <3>4. \A d \in Client : 1 \notin todo'[d]
      BY <3>1 DEF ConnTypes, ClientFacts
    <3> QED
      BY <3>1, <3>2, <3>3, <3>4 DEF ConnTypes, PCs
  <2> QED
    BY <2>1, <2>2 DEF TakeMeta, Goto
<1>3. q \in Seq(Msg) /\ toClient \in Channels
  BY <1>1 DEF ConnTypes, Channels
<1> HIDE DEF s, q
<1>4. /\ Tail(q) \in Seq(Msg)
      /\ \A k \in DOMAIN Tail(q) : k + 1 \in DOMAIN q /\ Tail(q)[k] = q[k + 1]
  BY <1>1, <1>3, Reading
<1>5. ConnTypes'
  <2>1. toClient' \in Channels
    BY <1>1, <1>3, <1>4, PutMessages
  <2> QED
    BY <1>1, <1>2, <2>1 DEF ConnTypes
<1>6. \A d \in Client, t \in Server : toClient'[d][t] =
           IF d = c /\ t = s THEN Tail(q) ELSE toClient[d][t]
  BY <1>1 DEF ConnTypes, Channels
<1>7. MyNodeID[c] # NoId /\ c \notin Dead /\ Dead' = Dead
  BY <1>1 DEF ClientFacts, Dead
<1>8. \A k \in DOMAIN Tail(q) : Tail(q)[k].given = 0
  <2>1. \A k \in DOMAIN q : q[k].given = 0
    BY <1>1, <1>7 DEF AnswersInOrder, q
  <2> QED
    BY <1>4, <2>1
<1>9. \A d \in Client : IdsOf(d)' \subseteq IdsOf(d)
  <2>1. ASSUME NEW d \in Client, d # c \/ s # 1 PROVE IdsOf(d)' = IdsOf(d)
    BY <1>1, <1>6, <2>1, Basics DEF IdsOf
  <2>2. CASE s = 1
    <3>1. toClient'[c][1] = Tail(q)
      BY <1>6, <2>2, Basics
    <3> QED
      BY <1>1, <1>8, <2>1, <3>1 DEF IdsOf
  <2> QED
    BY <2>1, <2>2
<1>10. Numbered' \subseteq Numbered
  BY <1>2, <1>7 DEF Numbered
<1>11. ClientFacts'
  <2>1. \A d \in Client \ {c} : toClient'[d][1] = toClient[d][1]
    BY <1>6, Basics
  <2> QED
    BY <1>1, <1>2, <1>7, <2>1 DEF ClientFacts
<1>12. AnswersInOrder'
  <2>1. ASSUME NEW d \in Client, NEW t \in Server, NEW k \in DOMAIN toClient'[d][t],
               t # 1 \/ k # 1 \/ MyNodeID'[d] # NoId
        PROVE  toClient'[d][t][k].given = 0
    <3>1. CASE d # c \/ t # s
      BY <1>1, <1>6, <2>1, <3>1 DEF AnswersInOrder
    <3>2. CASE d = c /\ t = s
      <4>1. toClient'[c][s] = Tail(q)
        BY <1>1, <1>6
      <4> QED
        BY <1>8, <3>2, <4>1
    <3> QED
      BY <3>1, <3>2
  <2>2. \A d \in Client : pc'[d] = "id" =>
          /\ pc[d] = "id" /\ target'[d] = target[d]
          /\ toClient'[d][1] = toClient[d][1]
    BY <1>2, <1>6, Basics
  <2> QED
    BY <2>1, <2>2 DEF AnswersInOrder
<1>13. QueueFacts'
  <2>1. \A k \in DOMAIN backlog[1] : backlog[1][k] \in Client \ {c}
    BY <1>1, Queued DEF QueueFacts
  <2>2. \A d \in Client \ {c} : toClient'[d][1] = toClient[d][1]
    BY <1>6, Basics
  <2> QED
    BY <1>1, <1>2, <2>1, <2>2 DEF QueueFacts
<1>14. ServingID'
  <2>1. ASSUME phase[1] = "id"
        PROVE  /\ serving[1] \in Client \ {c}
               /\ toClient'[serving[1]][1] = toClient[serving[1]][1]
    <3>1. serving[1] \in Client
      BY <2>1, Basics DEF ConnTypes
    <3>2. serving[1] # c
      BY <1>1, <2>1 DEF ServingID, s, q
    <3> QED
      BY <1>6, <3>1, <3>2, Basics
  <2> QED
    BY <1>1, <1>2, <1>9, <2>1 DEF ServingID
<1>15. ServingMeta'
  <2>1. ASSUME phase[1] = "meta"
        PROVE  /\ serving[1] \in Client
               /\ pc'[serving[1]] # "connect" \/ target'[serving[1]] # 1
    BY <1>2, <2>1, Basics DEF ConnTypes, ServingMeta
  <2> QED
    BY <1>1, <1>9, <1>10, <2>1, Queued DEF ServingMeta
<1>16. IdsApart'
  BY <1>1, <1>9, <1>10, Queued DEF IdsApart
<1>17. \A d \in Client : target[d] # 1 => target'[d] # 1
  BY <1>2
<1>18. OtherServers'
  BY <1>1, <1>17 DEF OtherServers, ConnTypes
<1>19. PeersAgree'
  BY <1>1, <1>7, <1>17 DEF PeersAgree, ConnTypes
<1> QED
  BY <1>5, <1>11, <1>12, <1>13, <1>14, <1>15, <1>16, <1>18, <1>19

(* accept: node 1 offers the next number to a client that has none. *)
LEMMA RdmaAcceptKeepsInv ==
  ASSUME JoinInv, NEW s \in Server, RdmaAccept(s)
  PROVE  JoinInv'
<1> DEFINE m == ID(s, GivenID(s))
<1> USE DEF JoinInv
<1>0. PICK c \in Client : c = Head(backlog[s])
  <2>1. backlog[s] \in Seq(Client) /\ backlog[s] # << >>
    BY DEF ConnTypes, RdmaAccept
  <2> QED
    BY <2>1
<1>1. /\ phase[s] = "accept" /\ backlog[s] # << >>
      /\ backlog' = [backlog EXCEPT ![s] = Tail(@)]
      /\ serving' = [serving EXCEPT ![s] = c]
      /\ phase' = [phase EXCEPT ![s] = "id"]
      /\ toClient' = [toClient EXCEPT ![c][s] = <<m>>]
      /\ UNCHANGED <<pc, target, todo, MyNodeID, peerID, MaxNodeID, peers,
                     toServer, gone>>
  BY <1>0 DEF RdmaAccept, clientVars
<1>2. /\ backlog[s] \in Seq(Client) /\ c = backlog[s][1]
      /\ 1 \in DOMAIN backlog[s] /\ Tail(backlog[s]) \in Seq(Client)
      /\ \A k \in DOMAIN Tail(backlog[s]) :
           /\ k \in Nat \ {0} /\ k + 1 \in DOMAIN backlog[s]
           /\ Tail(backlog[s])[k] = backlog[s][k + 1]
  <2>1. backlog[s] \in Seq(Client)
    BY DEF ConnTypes
  <2>2. Len(backlog[s]) \in Nat \ {0} /\ DOMAIN backlog[s] = 1 .. Len(backlog[s])
    BY <1>1, <2>1
  <2>3. /\ Tail(backlog[s]) \in Seq(Client)
        /\ DOMAIN Tail(backlog[s]) = 1 .. Len(backlog[s]) - 1
        /\ \A k \in 1 .. Len(backlog[s]) - 1 :
             Tail(backlog[s])[k] = backlog[s][k + 1]
    BY <1>1, <2>1
  <2>4. c = backlog[s][1]
    BY <1>0, <1>1, <2>1, <2>2
  <2> QED
    BY <2>1, <2>2, <2>3, <2>4
<1>3. /\ m \in Msg /\ m.given = IF s = 1 THEN MaxNodeID[1] ELSE 0
      /\ <<m>> \in Seq(Msg) /\ MaxNodeID[1] \in Number
  <2>1. MaxNodeID[1] \in Number /\ s \in Nat
    BY Basics, ConnectAssumption DEF ConnTypes, Server
  <2>2. GivenID(s) \in Number \cup {0}
    BY <2>1 DEF GivenID
  <2>3. m \in Msg /\ m.given = GivenID(s)
    BY <2>1, <2>2, Messages
  <2> QED
    BY <2>1, <2>3 DEF GivenID
<1> HIDE DEF m
<1>4. ConnTypes'
  <2>1. toClient' \in Channels
    BY <1>1, <1>2, <1>3, PutMessages DEF ConnTypes
  <2>2. backlog' \in [Server -> Seq(Client)]
    BY <1>1, <1>2 DEF ConnTypes
  <2> QED
    BY <1>1, <1>2, <2>1, <2>2 DEF ConnTypes
<1>5. /\ \A d \in Client, t \in Server : toClient'[d][t] =
           IF d = c /\ t = s THEN <<m>> ELSE toClient[d][t]
      /\ phase'[s] = "id" /\ serving'[s] = c /\ backlog'[s] = Tail(backlog[s])
      /\ \A t \in Server \ {s} : /\ phase'[t] = phase[t] /\ serving'[t] = serving[t]
                                  /\ backlog'[t] = backlog[t]
  BY <1>1 DEF ConnTypes, Channels
<1>6. Dead' = Dead /\ Numbered' = Numbered
  BY <1>1 DEF Dead, Numbered
<1>7. /\ s = 1 => /\ toClient'[c][1] = <<m>> /\ m.given = MaxNodeID[1]
                  /\ pc[c] \notin {"connect", "meta"} /\ target[c] = 1
                  /\ MyNodeID[c] = NoId /\ Len(toServer[c][1]) = 1
      /\ \A d \in Client : d # c \/ s # 1 => toClient'[d][1] = toClient[d][1]
  BY <1>2, <1>3, <1>5, Basics DEF QueueFacts
<1>8. /\ s = 1 => IdsOf(c)' = {MaxNodeID[1]}
      /\ \A d \in Client : d # c \/ s # 1 => IdsOf(d)' = IdsOf(d)
  <2>1. \A d \in Client : d # c \/ s # 1 => IdsOf(d)' = IdsOf(d)
    BY <1>1, <1>7 DEF IdsOf
  <2>2. CASE s = 1
    <3>1. DOMAIN toClient'[c][1] = {1} /\ toClient'[c][1][1] = m
      BY <1>7, <2>2
    <3>2. {toClient'[c][1][k].given : k \in DOMAIN toClient'[c][1]} = {m.given}
      BY <3>1
    <3> QED
      <4>1. IdsOf(c)' = ({MyNodeID'[c]} \cup {m.given}) \ {0, NoId}
        BY <3>2 DEF IdsOf
      <4>2. MyNodeID'[c] = NoId /\ m.given = MaxNodeID[1]
        BY <1>1, <1>7, <2>2
      <4>3. MaxNodeID[1] \notin {0, NoId}
        BY <1>3, Basics
      <4>4. IdsOf(c)' = {MaxNodeID[1]}
        BY <4>1, <4>2, <4>3
      <4> QED
        BY <2>1, <2>2, <4>4
  <2> QED
    BY <2>1, <2>2
<1>9. ClientFacts'
  BY <1>1, <1>6, <1>7 DEF ClientFacts
<1>10. AnswersInOrder'
  <2>1. ASSUME NEW d \in Client, NEW t \in Server, NEW k \in DOMAIN toClient'[d][t],
               t # 1 \/ k # 1 \/ MyNodeID'[d] # NoId
        PROVE  toClient'[d][t][k].given = 0
    <3>1. CASE d # c \/ t # s
      BY <1>1, <1>5, <2>1, <3>1 DEF AnswersInOrder
    <3>2. CASE d = c /\ t = s
      <4>1. toClient'[c][s] = <<m>> /\ k = 1
        BY <1>2, <1>5, <3>2
      <4> QED
        BY <1>1, <1>3, <1>7, <2>1, <3>2, <4>1
    <3> QED
      BY <3>1, <3>2
  <2>2. ASSUME NEW d \in Client, pc[d] = "id", target[d] = 1, toClient'[d][1] # << >>
        PROVE  toClient'[d][1][1].given # 0
    <3>1. CASE d = c /\ s = 1
      BY <1>3, <1>7, <3>1, Basics
    <3>2. CASE d # c \/ s # 1
      BY <1>7, <2>2, <3>2 DEF AnswersInOrder
    <3> QED
      BY <3>1, <3>2
  <2> QED
    BY <1>1, <2>1, <2>2 DEF AnswersInOrder
<1>11. QueueFacts'
  <2>1. CASE s # 1
    BY <1>1, <1>5, <1>7, <2>1, Queued, Basics DEF QueueFacts
  <2>2. CASE s = 1
    <3>1. backlog'[1] = Tail(backlog[1])
      BY <1>5, <2>2, Basics
    <3>2. \A k \in DOMAIN Tail(backlog[1]) :
            /\ k \in Nat \ {0} /\ k + 1 \in DOMAIN backlog[1]
            /\ Tail(backlog[1])[k] = backlog[1][k + 1]
      BY <1>2, <2>2
    <3>3. \A j, k \in DOMAIN Tail(backlog[1]) :
            Tail(backlog[1])[j] = Tail(backlog[1])[k] => j = k
      <4>1. \A j, k \in DOMAIN Tail(backlog[1]) :
            Tail(backlog[1])[j] = Tail(backlog[1])[k] => j + 1 = k + 1
        BY <3>2 DEF QueueFacts
      <4> QED
        BY <3>2, <4>1
    <3>4. ASSUME NEW k \in DOMAIN Tail(backlog[1])
          PROVE  LET d == Tail(backlog[1])[k] IN
                 /\ pc[d] \notin {"connect", "meta"} /\ target[d] = 1
                 /\ c # d
                 /\ toClient'[d][1] = << >> /\ MyNodeID[d] = NoId
                 /\ Len(toServer[d][1]) = 1
      <4>1. k + 1 \in DOMAIN backlog[1] /\ k + 1 # 1
        BY <3>2
      <4>2. backlog[1][k + 1] # c
        BY <1>2, <2>2, <4>1 DEF QueueFacts
      <4>3. toClient'[backlog[1][k + 1]][1] = toClient[backlog[1][k + 1]][1]
        BY <1>7, <4>1, <4>2, Queued
      <4> QED
        BY <3>2, <4>1, <4>2, <4>3 DEF QueueFacts
    <3>5. serving'[1] = c
      BY <1>5, <2>2, Basics
    <3>6. UNCHANGED <<pc, target, MyNodeID, toServer>>
      BY <1>1
    <3> QED
      BY <3>1, <3>3, <3>4, <3>5, <3>6 DEF QueueFacts
  <2> QED
    BY <2>1, <2>2
<1>12. ServingID'
  <2>1. CASE s = 1
    <3>1. serving'[1] = c
      BY <1>5, <2>1, Basics
    <3>2. Len(<<m>>) = 1 /\ <<m>> # << >>
      OBVIOUS
    <3>3. /\ toClient'[c][1] = <<m>> /\ IdsOf(c)' = {MaxNodeID'[1]}
          /\ pc'[c] \notin {"connect", "meta"} /\ target'[c] = 1
          /\ Len(toServer'[c][1]) <= 1
      <4>1. UNCHANGED <<pc, target, toServer, MaxNodeID>>
        BY <1>1
      <4>2. Len(toServer[c][1]) = 1
        BY <1>7, <2>1
      <4>3. IdsOf(c)' = {MaxNodeID'[1]}
        BY <1>8, <2>1, <4>1
      <4>4. toClient'[c][1] = <<m>> /\ pc[c] \notin {"connect", "meta"} /\ target[c] = 1
        BY <1>7, <2>1
      <4> QED
        BY <4>1, <4>2, <4>3, <4>4
    <3> QED
      BY <3>1, <3>2, <3>3 DEF ServingID
  <2>2. CASE s # 1
    <3>1. phase'[1] = phase[1] /\ serving'[1] = serving[1]
      BY <1>5, <2>2, Basics
    <3>2. phase[1] = "id" => serving[1] \in Client
      BY Basics DEF ConnTypes
    <3> QED
      BY <1>1, <1>7, <1>8, <2>2, <3>1, <3>2 DEF ServingID
  <2> QED
    BY <2>1, <2>2
<1>13. ServingMeta'
  <2>1. ASSUME phase'[1] = "meta"
        PROVE  /\ s # 1 /\ phase[1] = "meta" /\ serving'[1] = serving[1]
               /\ serving[1] \in Client
    BY <1>5, <2>1, Basics DEF ConnTypes
  <2> QED
    BY <1>1, <1>6, <1>8, <2>1, Queued DEF ServingMeta
<1>14. IdsApart'
  <2>1. CASE s # 1
    <3>1. phase'[1] = phase[1] /\ serving'[1] = serving[1]
      BY <1>5, <2>1, Basics
    <3>2. \A d \in Numbered : IdsOf(d)' = IdsOf(d)
      BY <1>8, <2>1, Queued
    <3>3. MaxNodeID' = MaxNodeID
      BY <1>1
    <3> QED
      BY <1>6, <3>1, <3>2, <3>3 DEF IdsApart
  <2>2. CASE s = 1
    <3>0. phase'[1] = "id" /\ serving'[1] = c
      BY <1>5, <2>2
    <3>1. MaxNodeID[1] <= MaxNodeID[1]
      BY <1>3 DEF Number
    <3>2. \A d \in Numbered : MaxNodeID[1] \notin IdsOf(d)
      BY <1>1, <2>2 DEF IdsApart
    <3> SUFFICES ASSUME NEW d \in Numbered, NEW i \in IdsOf(d)'
                 PROVE  /\ i <= MaxNodeID[1]
                        /\ i = MaxNodeID[1] => d = c
                        /\ \A e \in Numbered : i \in IdsOf(e)' => d = e
      BY <1>1, <1>6, <3>0 DEF IdsApart
    <3>3. CASE d = c
      BY <1>8, <2>2, <3>1, <3>2, <3>3, Queued
    <3>4. CASE d # c
      <4>1. i \in IdsOf(d) /\ i # MaxNodeID[1]
        BY <1>8, <3>2, <3>4, Queued
      <4> QED
        BY <1>8, <2>2, <3>4, <4>1, Queued DEF IdsApart
    <3> QED
      BY <3>3, <3>4
  <2> QED
    BY <2>1, <2>2
<1>15. OtherServers'
  <2>1. \A t \in Server : phase'[t] = "meta" =>
          phase[t] = "meta" /\ serving'[t] = serving[t]
    BY <1>5
  <2> QED
    BY <1>1, <2>1 DEF OtherServers
<1>16. PeersAgree'
  BY <1>1, <1>6 DEF PeersAgree
<1> QED
  BY <1>4, <1>9, <1>10, <1>11, <1>12, <1>13, <1>14, <1>15, <1>16

(* The server reads the client's ExchangeID: node 1 counts on. *)
LEMMA ServeIDKeepsInv ==
  ASSUME JoinInv, NEW s \in Server, ServeID(s)
  PROVE  JoinInv'
<1> USE DEF JoinInv
<1>0. PICK c \in Client : c = serving[s]
  BY DEF ConnTypes, ServeID
<1> DEFINE q == toServer[c][s]
           m == Meta(s)
<1>1. /\ phase[s] = "id" /\ q # << >>
      /\ toServer' = [toServer EXCEPT ![c][s] = Tail(q)]
      /\ phase' = [phase EXCEPT ![s] = "meta"]
      /\ toClient' = [toClient EXCEPT ![c][s] = Append(@, m)]
      /\ UNCHANGED <<pc, target, todo, MyNodeID, serving, peers, backlog, gone>>
  BY <1>0 DEF ServeID, clientVars
<1>2. /\ q \in Seq(Msg) /\ toClient[c][s] \in Seq(Msg)
      /\ toClient \in Channels /\ toServer \in Channels
  BY DEF ConnTypes, Channels
<1>3. /\ Head(q) = q[1] /\ q[1] \in Msg /\ Tail(q) \in Seq(Msg) /\ 1 \in DOMAIN q
      /\ \A k \in DOMAIN Tail(q) : k + 1 \in DOMAIN q /\ Tail(q)[k] = q[k + 1]
      /\ Len(q) <= 1 => Tail(q) = << >>
      /\ q[1].node \in Nat \cup {NoId}
  BY <1>1, <1>2, Reading DEF Msg
<1>4. m \in Msg /\ m.given = 0
  <2>1. s \in Nat
    BY ConnectAssumption DEF Server
  <2> QED
    BY <2>1, Messages
<1>5. /\ peerID' = [peerID EXCEPT ![s] = IF s = 1 THEN MaxNodeID[1] ELSE q[1].node]
      /\ s = 1 => MaxNodeID' = [MaxNodeID EXCEPT ![1] = @ + 1]
      /\ s # 1 => MaxNodeID' = MaxNodeID
      /\ MaxNodeID[1] \in Number /\ MaxNodeID[1] \in Nat
  <2>1. Assign(s, q[1])
    BY <1>0, <1>3 DEF ServeID
  <2> QED
    BY <2>1, Basics DEF Assign, ConnTypes
<1> HIDE DEF q, m
<1>6. ConnTypes'
  <2>1. Append(toClient[c][s], m) \in Seq(Msg)
    BY <1>2, <1>4, Writing
  <2>2. toServer' \in Channels /\ toClient' \in Channels
    BY <1>1, <1>2, <1>3, <2>1, PutMessages
  <2>3. MaxNodeID' \in [Server -> Number]
    <3>1. MaxNodeID[1] + 1 \in Number
      BY <1>5, Basics
    <3> QED
      BY <1>5, <3>1 DEF ConnTypes
  <2>4. peerID' \in [Server -> Nat \cup {NoId}]
    BY <1>3, <1>5 DEF ConnTypes
  <2> QED
    BY <1>1, <2>2, <2>3, <2>4 DEF ConnTypes
<1>7. /\ \A d \in Client, t \in Server : toClient'[d][t] =
           IF d = c /\ t = s THEN Append(toClient[c][s], m) ELSE toClient[d][t]
      /\ \A d \in Client, t \in Server : toServer'[d][t] =
           IF d = c /\ t = s THEN Tail(q) ELSE toServer[d][t]
      /\ phase'[s] = "meta" /\ \A t \in Server \ {s} : phase'[t] = phase[t]
      /\ \A t \in Server \ {s} : peerID'[t] = peerID[t]
      /\ s = 1 => peerID'[1] = MaxNodeID[1] /\ MaxNodeID'[1] = MaxNodeID[1] + 1
      /\ s # 1 => peerID'[s] = q[1].node /\ MaxNodeID'[1] = MaxNodeID[1]
  <2>1. /\ \A d \in Client, t \in Server : toClient'[d][t] =
             IF d = c /\ t = s THEN Append(toClient[c][s], m) ELSE toClient[d][t]
        /\ \A d \in Client, t \in Server : toServer'[d][t] =
             IF d = c /\ t = s THEN Tail(q) ELSE toServer[d][t]
    BY <1>1 DEF ConnTypes, Channels
  <2>2. /\ phase'[s] = "meta" /\ \A t \in Server \ {s} : phase'[t] = phase[t]
        /\ \A t \in Server \ {s} : peerID'[t] = peerID[t]
    BY <1>1, <1>5 DEF ConnTypes
  <2>3. /\ s = 1 => peerID'[1] = MaxNodeID[1] /\ MaxNodeID'[1] = MaxNodeID[1] + 1
        /\ s # 1 => peerID'[s] = q[1].node /\ MaxNodeID'[1] = MaxNodeID[1]
    BY <1>5, Basics DEF ConnTypes
  <2> QED
    BY <2>1, <2>2, <2>3
<1>8. Dead' = Dead /\ Numbered' = Numbered
  BY <1>1 DEF Dead, Numbered
<1>9. \A k \in DOMAIN Append(toClient[c][s], m) :
        \/ /\ k \in DOMAIN toClient[c][s]
           /\ Append(toClient[c][s], m)[k] = toClient[c][s][k]
        \/ Append(toClient[c][s], m)[k].given = 0
  BY <1>2, <1>4, Writing
<1>10. \A d \in Client : IdsOf(d)' \subseteq IdsOf(d)
  <2>1. ASSUME NEW d \in Client, d # c \/ s # 1 PROVE IdsOf(d)' = IdsOf(d)
    <3>1. toClient'[d][1] = toClient[d][1] /\ MyNodeID'[d] = MyNodeID[d]
      BY <1>1, <1>7, <2>1, Basics
    <3> QED
      BY <3>1 DEF IdsOf
  <2>2. CASE s = 1
    <3>1. toClient'[c][1] = Append(toClient[c][s], m) /\ MyNodeID'[c] = MyNodeID[c]
      BY <1>1, <1>7, <2>2
    <3> QED
      BY <1>9, <2>1, <2>2, <3>1 DEF IdsOf
  <2> QED
    BY <2>1, <2>2
<1>11. /\ pc[c] = "connect" => target[c] # 1 \/ s # 1
       /\ \A d \in Client : d # c \/ s # 1 =>
            toClient'[d][1] = toClient[d][1] /\ toServer'[d][1] = toServer[d][1]
  BY <1>0, <1>1, <1>7, Basics DEF ServingID
<1>12. ClientFacts'
  BY <1>1, <1>8, <1>11 DEF ClientFacts
<1>13. AnswersInOrder'
  <2>1. ASSUME NEW d \in Client, NEW t \in Server, NEW k \in DOMAIN toClient'[d][t],
               t # 1 \/ k # 1 \/ MyNodeID[d] # NoId
        PROVE  toClient'[d][t][k].given = 0
    <3>1. CASE d # c \/ t # s
      BY <1>7, <2>1, <3>1 DEF AnswersInOrder
    <3>2. CASE d = c /\ t = s
      <4>1. toClient'[c][s] = Append(toClient[c][s], m)
        BY <1>7
      <4>2. \/ k \in DOMAIN toClient[c][s] /\ toClient'[d][t][k] = toClient[c][s][k]
            \/ toClient'[d][t][k].given = 0
        BY <1>9, <3>2, <4>1
      <4> QED
        BY <2>1, <3>2, <4>2 DEF AnswersInOrder
    <3> QED
      BY <3>1, <3>2
  <2>2. ASSUME NEW d \in Client, pc[d] = "id", target[d] = 1, toClient'[d][1] # << >>
        PROVE  toClient'[d][1][1].given # 0
    <3>1. CASE d = c /\ s = 1
      <4>1. toClient[c][1] # << >> /\ toClient[c][1][1].given # 0
        BY <1>0, <1>1, <2>2, <3>1 DEF ServingID, AnswersInOrder
      <4>2. toClient'[c][1] = Append(toClient[c][1], m)
        BY <1>7, <3>1
      <4>3. toClient'[c][1][1] = toClient[c][1][1]
        BY <1>2, <1>4, <3>1, <4>1, <4>2, Writing
      <4> QED
        BY <3>1, <4>1, <4>3
    <3>2. CASE d # c \/ s # 1
      BY <1>11, <2>2, <3>2 DEF AnswersInOrder
    <3> QED
      BY <3>1, <3>2
  <2> QED
    BY <1>1, <2>1, <2>2 DEF AnswersInOrder
<1>14. QueueFacts'
  <2>1. \A k \in DOMAIN backlog[1] :
          /\ backlog[1][k] \in Client
          /\ backlog[1][k] # c \/ s # 1
    BY <1>0, <1>1, Queued DEF QueueFacts
  <2>2. phase'[1] # "accept" => phase[1] # "accept"
    BY <1>1, <1>7, Basics
  <2> QED
    BY <1>1, <1>11, <2>1, <2>2 DEF QueueFacts
<1>15. ServingID'
  <2>1. ASSUME phase'[1] = "id"
        PROVE  s # 1 /\ phase[1] = "id" /\ serving[1] \in Client
    BY <1>7, <2>1, Basics DEF ConnTypes
  <2> QED
    BY <1>1, <1>7, <1>10, <1>11, <2>1 DEF ServingID
<1>16. ServingMeta'
  <2>1. CASE s # 1
    <3>1. phase'[1] = phase[1] /\ peerID'[1] = peerID[1]
      BY <1>7, <2>1, Basics
    <3>2. phase[1] = "meta" => serving[1] \in Client
      BY Basics DEF ConnTypes
    <3> QED
      BY <1>1, <1>8, <1>10, <1>11, <2>1, <3>1, <3>2, Queued DEF ServingMeta
  <2>2. CASE s = 1
    <3>1. /\ pc'[c] # "connect" \/ target'[c] # 1
          /\ peerID'[1] = MaxNodeID[1] /\ serving'[1] = c
      BY <1>0, <1>1, <1>7, <1>11, <2>2
    <3>2. MyNodeID[c] = NoId => toServer'[c][1] = << >>
      <4>1. toServer'[c][1] = Tail(q)
        BY <1>7, <2>2
      <4>2. MyNodeID[c] = NoId => Len(q) <= 1
        BY <1>0, <1>1, <2>2 DEF ServingID, q
      <4> QED
        BY <1>3, <4>1, <4>2
    <3>3. \A i \in IdsOf(c)' : i = MaxNodeID[1]
      BY <1>0, <1>1, <1>10, <2>2 DEF ServingID
    <3>4. \A d \in Numbered \ {c} : MaxNodeID[1] \notin IdsOf(d)'
      BY <1>0, <1>10, <2>2, Queued DEF IdsApart
    <3> QED
      BY <1>1, <1>8, <3>1, <3>2, <3>3, <3>4 DEF ServingMeta
  <2> QED
    BY <2>1, <2>2
<1>17. IdsApart'
  <2>1. CASE s # 1
    <3>1. phase'[1] = phase[1] /\ MaxNodeID'[1] = MaxNodeID[1] /\ serving' = serving
      BY <1>1, <1>7, <2>1, Basics
    <3> QED
      BY <1>8, <1>10, <3>1, Queued DEF IdsApart
  <2>2. CASE s = 1
    <3>1. MaxNodeID'[1] = MaxNodeID[1] + 1
      BY <1>7, <2>2
    <3>2. ASSUME NEW d \in Numbered, NEW i \in IdsOf(d)'
          PROVE  i <= MaxNodeID'[1] /\ i # MaxNodeID'[1]
      <4>1. i <= MaxNodeID[1] /\ i \in Nat
        <5>1. i \in IdsOf(d) /\ d \in Client
          BY <1>10, <3>2, Queued
        <5>2. i \in Nat
          <6>1. toClient[d][1] \in Seq(Msg)
            BY <5>1, Basics DEF ConnTypes, Channels
          <6>4. MyNodeID[d] \in Nat \cup {NoId}
            BY <5>1 DEF ConnTypes, Number
          <6>2. \A k \in DOMAIN toClient[d][1] : toClient[d][1][k] \in Msg
            BY <6>1
          <6>3. \A k \in DOMAIN toClient[d][1] : toClient[d][1][k].given \in Nat
            BY <6>2 DEF Msg, Number
          <6> QED
            BY <5>1, <6>3, <6>4 DEF IdsOf
        <5> QED
          BY <5>1, <5>2 DEF IdsApart
      <4> QED
        BY <1>5, <3>1, <4>1
    <3> QED
      BY <1>8, <1>10, <3>2, Queued DEF IdsApart
  <2> QED
    BY <2>1, <2>2
<1>18. OtherServers'
  <2>1. ASSUME NEW t \in Server \ {1}, NEW d \in Client,
               NEW k \in DOMAIN toServer'[d][t]
        PROVE  target[d] # 1 /\ toServer'[d][t][k].node = MyNodeID[d]
    <3>1. CASE d # c \/ t # s
      BY <1>7, <3>1 DEF OtherServers
    <3>2. CASE d = c /\ t = s
      <4>1. toServer'[c][s] = Tail(q)
        BY <1>7
      <4>2. k + 1 \in DOMAIN q /\ toServer'[d][t][k] = q[k + 1]
        BY <1>3, <3>2, <4>1
      <4> QED
        BY <3>2, <4>2 DEF OtherServers, q
    <3> QED
      BY <3>1, <3>2
  <2>2. ASSUME NEW t \in Server \ {1}, phase'[t] = "meta"
        PROVE  target[serving[t]] # 1 /\ peerID'[t] = MyNodeID[serving[t]]
    <3>1. CASE t = s
      BY <1>0, <1>3, <1>7, <3>1 DEF OtherServers, q
    <3>2. CASE t # s
      BY <1>7, <2>2, <3>2 DEF OtherServers
    <3> QED
      BY <3>1, <3>2
  <2> QED
    BY <1>1, <2>1, <2>2 DEF OtherServers
<1>19. PeersAgree'
  BY <1>1, <1>8 DEF PeersAgree
<1> QED
  BY <1>6, <1>12, <1>13, <1>14, <1>15, <1>16, <1>17, <1>18, <1>19

(* What the server enters in peers is the number its client has, unless    *)
(* that client is dead.                                                    *)
LEMMA EnteredUnderItsNumber ==
  ASSUME JoinInv, NEW s \in Server, ServeMeta(s)
  PROVE  /\ serving[s] \in Client
         /\ s # 1 => target[serving[s]] # 1
         /\ s # 1 \/ serving[s] \notin Dead => peerID[s] = MyNodeID[serving[s]]
<1> DEFINE c == serving[s]
<1> USE DEF JoinInv
<1>1. phase[s] = "meta" /\ toServer[c][s] # << >> /\ c \in Client
  BY DEF ServeMeta, ConnTypes
<1>2. CASE s # 1
  BY <1>1, <1>2 DEF OtherServers
<1>3. CASE s = 1
  <2>1. MyNodeID[c] # NoId
    BY <1>1, <1>3 DEF ServingMeta
  <2>2. MyNodeID[c] \in Number
    BY <1>1, <2>1 DEF ConnTypes
  <2>3. MyNodeID[c] \in IdsOf(c)
    BY <2>2, Basics DEF IdsOf
  <2> QED
    BY <1>1, <1>3, <2>3 DEF ServingMeta
<1> QED
  BY <1>2, <1>3

(* The server reads the client's ExchangeMeta and enters it in peers. *)
LEMMA ServeMetaKeepsInv ==
  ASSUME JoinInv, NEW s \in Server, ServeMeta(s)
  PROVE  JoinInv'
<1> USE DEF JoinInv
<1>0. PICK c \in Client : c = serving[s]
  BY DEF ConnTypes, ServeMeta
<1> DEFINE q == toServer[c][s]
<1>1. /\ phase[s] = "meta" /\ q # << >>
      /\ toServer' = [toServer EXCEPT ![c][s] = Tail(q)]
      /\ peers' = [peers EXCEPT ![s][peerID[s]] = c]
      /\ phase' = [phase EXCEPT ![s] = "accept"]
      /\ serving' = [serving EXCEPT ![s] = NoClient]
      /\ peerID' = [peerID EXCEPT ![s] = NoId]
      /\ UNCHANGED <<pc, target, todo, MyNodeID, MaxNodeID, backlog, toClient, gone>>
  BY <1>0 DEF ServeMeta, Served, clientVars
<1>2. q \in Seq(Msg) /\ toServer \in Channels
  BY DEF ConnTypes, Channels
<1>3. /\ Tail(q) \in Seq(Msg)
      /\ \A k \in DOMAIN Tail(q) : k + 1 \in DOMAIN q /\ Tail(q)[k] = q[k + 1]
  BY <1>1, <1>2, Reading
<1> HIDE DEF q
<1>4. ConnTypes'
  <2>1. toServer' \in Channels
    BY <1>1, <1>2, <1>3, PutMessages
  <2>2. peers' \in [Server -> [NodeID -> Client \cup {NoClient}]]
    BY <1>1 DEF ConnTypes
  <2> QED
    BY <1>1, <2>1, <2>2 DEF ConnTypes
<1>5. /\ \A d \in Client, t \in Server : toServer'[d][t] =
           IF d = c /\ t = s THEN Tail(q) ELSE toServer[d][t]
      /\ phase'[s] = "accept"
      /\ \A t \in Server \ {s} : /\ phase'[t] = phase[t] /\ serving'[t] = serving[t]
                                  /\ peerID'[t] = peerID[t]
  BY <1>1 DEF ConnTypes, Channels
<1>6. Dead' = Dead /\ Numbered' = Numbered
  BY <1>1 DEF Dead, Numbered
<1>7. \A d \in Client : IdsOf(d)' = IdsOf(d)
  BY <1>1 DEF IdsOf
<1>8. ClientFacts' /\ AnswersInOrder'
  BY <1>1, <1>6 DEF ClientFacts, AnswersInOrder
<1>9. \A d \in Client : d # c \/ s # 1 => toServer'[d][1] = toServer[d][1]
  BY <1>5, Basics
<1>10. QueueFacts'
  <2>1. \A k \in DOMAIN backlog[1] :
          /\ backlog[1][k] \in Client
          /\ backlog[1][k] # c \/ s # 1
    BY <1>0, <1>1, Queued DEF QueueFacts
  <2>2. phase'[1] # "accept" => phase[1] # "accept" /\ serving'[1] = serving[1]
    BY <1>5, Basics
  <2> QED
    BY <1>1, <1>9, <2>1, <2>2 DEF QueueFacts
<1>11. ASSUME phase'[1] # "accept"
       PROVE  /\ s # 1 /\ phase'[1] = phase[1] /\ serving'[1] = serving[1]
              /\ peerID'[1] = peerID[1] /\ serving[1] \in Client
  BY <1>5, <1>11, Basics DEF ConnTypes
<1>12. ServingID'
  BY <1>1, <1>7, <1>9, <1>11 DEF ServingID
<1>13. ServingMeta'
  BY <1>1, <1>6, <1>7, <1>9, <1>11, Queued DEF ServingMeta
<1>14. IdsApart'
  <2>1. phase[1] = "id" => phase'[1] = phase[1] /\ serving'[1] = serving[1]
    BY <1>1, <1>5, Basics
  <2> QED
    BY <1>1, <1>6, <1>7, <2>1, Queued DEF IdsApart
<1>15. OtherServers'
  <2>1. ASSUME NEW t \in Server \ {1}, NEW d \in Client,
               NEW k \in DOMAIN toServer'[d][t]
        PROVE  target[d] # 1 /\ toServer'[d][t][k].node = MyNodeID[d]
    <3>1. CASE d # c \/ t # s
      BY <1>5, <3>1 DEF OtherServers
    <3>2. CASE d = c /\ t = s
      <4>1. toServer'[c][s] = Tail(q)
        BY <1>5
      <4>2. k + 1 \in DOMAIN q /\ toServer'[d][t][k] = q[k + 1]
        BY <1>3, <3>2, <4>1
      <4> QED
        BY <3>2, <4>2 DEF OtherServers, q
    <3> QED
      BY <3>1, <3>2
  <2>2. ASSUME NEW t \in Server, phase'[t] = "meta"
        PROVE  /\ phase[t] = "meta" /\ serving'[t] = serving[t]
               /\ peerID'[t] = peerID[t]
    BY <1>5, <2>2
  <2> QED
    BY <1>1, <2>1, <2>2 DEF OtherServers
<1>16. PeersAgree'
  <2>1. /\ s # 1 => target[c] # 1
        /\ s # 1 \/ c \notin Dead => peerID[s] = MyNodeID[c]
    BY <1>0, EnteredUnderItsNumber
  <2>2. \A t \in Server, i \in NodeID :
          \/ peers'[t][i] = peers[t][i]
          \/ peers'[t][i] = c /\ t = s /\ i = peerID[s]
    BY <1>1 DEF ConnTypes
  <2> QED
    BY <1>1, <1>6, <2>1, <2>2 DEF PeersAgree
<1> QED
  BY <1>4, <1>8, <1>10, <1>12, <1>13, <1>14, <1>15, <1>16

-----------------------------------------------------------------------------
(* Every step of a client, a server or the network keeps the numbers. *)
LEMMA JoinInvStep ==
  ASSUME 1 \notin Mortal, JoinInv, [Next]_vars
  PROVE  JoinInv'
  BY SocketConnectKeepsInv, RetreatsKeepInv, TakeIDKeepsInv, TakeMetaKeepsInv,
     RdmaAcceptKeepsInv, ServeIDKeepsInv, ServeMetaKeepsInv
     DEF Next, ClientStep, ServerStep

(* No client has a number when the servers start. *)
LEMMA JoinInvStart == Init => JoinInv
<1> SUFFICES ASSUME Init PROVE JoinInv
  OBVIOUS
<1>1. /\ << >> \in Seq(Msg) /\ << >> \in Seq(Client) /\ 1 \in Server
      /\ NoPeers \in [NodeID -> Client \cup {NoClient}]
      /\ \A i \in NodeID : NoPeers[i] = NoClient
  BY Basics DEF NoPeers
<1>2. ConnTypes
  <2>1. toServer \in Channels /\ toClient \in Channels
    BY <1>1 DEF Init, Channels
  <2> QED
    BY <1>1, <2>1, Basics DEF Init, ConnTypes, PCs
<1>3. ClientFacts /\ AnswersInOrder
  BY <1>1 DEF Init, ClientFacts, AnswersInOrder, Dead
<1>4. QueueFacts /\ ServingID /\ ServingMeta
  BY <1>1 DEF Init, QueueFacts, ServingID, ServingMeta
<1>5. IdsApart
  BY <1>1 DEF Init, IdsApart, IdsOf, Numbered
<1>6. OtherServers /\ PeersAgree
  BY <1>1 DEF Init, OtherServers, PeersAgree
<1> QED
  BY <1>2, <1>3, <1>4, <1>5, <1>6 DEF JoinInv

(* The invariant is inductive as long as node 1 does not stop. *)
LEMMA JoinInvHolds == ASSUME 1 \notin Mortal PROVE Spec => []JoinInv
  BY JoinInvStart, JoinInvStep, PTL DEF Spec

(* Two running clients never have the same node id, although node 1 sends  *)
(* an id before it has read from the client and counts on only afterwards, *)
(* and however clients time out or die in between.  Node 1 itself must not *)
(* stop: it keeps MaxNodeID nowhere else.                                  *)
THEOREM NodeIDsUnique ==
  ASSUME 1 \notin Mortal PROVE Spec => []UniqueNodeIDs
<1>1. JoinInv => UniqueNodeIDs
  <2> SUFFICES ASSUME JoinInv, NEW c \in Client \ Dead, NEW d \in Client \ Dead,
                      MyNodeID[c] # NoId, MyNodeID[c] = MyNodeID[d]
               PROVE  c = d
    BY DEF UniqueNodeIDs
  <2>1. MyNodeID[c] \in Number
    BY DEF JoinInv, ConnTypes
  <2>2. MyNodeID[c] \in IdsOf(c) /\ MyNodeID[c] \in IdsOf(d)
    BY <2>1, Basics DEF IdsOf
  <2> QED
    BY <2>2 DEF JoinInv, IdsApart, Numbered
<1> QED
  BY <1>1, JoinInvHolds, PTL

(* A server has a running client in its peers under the id the client has, *)
(* and that id is not a server's.                                          *)
THEOREM PeersAgreeOnNumbers ==
  ASSUME 1 \notin Mortal PROVE Spec => []PeerAgreement
<1>1. JoinInv => PeerAgreement
  <2> SUFFICES ASSUME JoinInv, NEW s \in Server, NEW i \in NodeID,
                      peers[s][i] \in Client \ Dead
               PROVE  i = MyNodeID[peers[s][i]] /\ i > ServerCount
    BY DEF PeerAgreement
  <2>1. i = MyNodeID[peers[s][i]]
    BY Basics DEF JoinInv, PeersAgree
  <2>2. i \in Nat
    BY ConnectAssumption DEF NodeID
  <2>3. i \in Number
    BY <2>1, <2>2, Basics DEF JoinInv, ConnTypes
  <2> QED
    BY <2>1, <2>3 DEF Number
<1> QED
  BY <1>1, JoinInvHolds, PTL

(* A step leaves every server up or down. *)
LEMMA UpStays == Spec => [](DOMAIN up = Server)
<1>1. Init => DOMAIN up = Server
  BY DEF Init
<1>2. ASSUME DOMAIN up = Server, [Next]_vars PROVE (DOMAIN up = Server)'
  BY <1>2 DEF Next, ClientStep, ServerStep, SocketConnect, ConnectRefused, TakeID,
     TakeMeta, Timeout, ClientCrash, RdmaAccept, ServeID, ServeMeta, ServeError,
     Stop, Start, serverVars, vars
<1> QED
  BY <1>1, <1>2, PTL DEF Spec

(* While a server runs it never enters one client over another that is     *)
(* still running.                                                          *)
THEOREM PeersStay ==
  ASSUME 1 \notin Mortal PROVE Spec => PeersKept
<1> DEFINE Kept == \A s \in Server, i \in NodeID :
                     up[s] /\ up'[s] /\ peers[s][i] \in Client \ Dead
                         => peers'[s][i] = peers[s][i]
<1>1. ASSUME JoinInv, DOMAIN up = Server, [Next]_vars PROVE Kept
  <2> SUFFICES ASSUME NEW s \in Server, NEW i \in NodeID, up[s], up'[s],
                      peers[s][i] \in Client \ Dead
               PROVE  peers'[s][i] = peers[s][i]
    BY <1>1
  <2>1. \/ peers'[s] = peers[s] \/ ServeMeta(s)
    <3>1. peers \in [Server -> [NodeID -> Client \cup {NoClient}]]
      BY <1>1 DEF JoinInv, ConnTypes
    <3>2. CASE peers' = peers
      BY <3>2
    <3>3. ASSUME NEW t \in Server, Stop(t) PROVE peers'[s] = peers[s]
      BY <1>1, <3>1, <3>3 DEF Stop
    <3>4. ASSUME NEW t \in Server, ServeMeta(t)
          PROVE  peers'[s] = peers[s] \/ ServeMeta(s)
      BY <3>1, <3>4 DEF ServeMeta
    <3> QED
      BY <1>1, <3>2, <3>3, <3>4 DEF Next, ClientStep, ServerStep, SocketConnect,
         ConnectRefused, TakeID, TakeMeta, Timeout, ClientCrash, RdmaAccept,
         ServeID, ServeError, Start, serverVars, vars
  <2>2. CASE ServeMeta(s)
    <3>1. /\ serving[s] \in Client /\ peers \in [Server -> [NodeID -> Client \cup {NoClient}]]
          /\ s # 1 => target[serving[s]] # 1
          /\ s # 1 \/ serving[s] \notin Dead => peerID[s] = MyNodeID[serving[s]]
      BY <1>1, <2>2, EnteredUnderItsNumber DEF JoinInv, ConnTypes
    <3>2. peers' = [peers EXCEPT ![s][peerID[s]] = serving[s]]
      BY <2>2 DEF ServeMeta
    <3>3. CASE i # peerID[s]
      BY <3>1, <3>2, <3>3
    <3>4. CASE i = peerID[s]
      <4> DEFINE d == peers[s][i]
      <4>1. i = MyNodeID[d] /\ d \in Client \ Dead
        BY <1>1, Basics DEF JoinInv, PeersAgree
      <4>2. i \in Number
        <5>1. i \in Nat
          BY ConnectAssumption DEF NodeID
        <5> QED
          BY <1>1, <4>1, <5>1, Basics DEF JoinInv, ConnTypes
      <4>3. i \in IdsOf(d) /\ d \in Numbered
        BY <4>1, <4>2, Basics DEF IdsOf, Numbered
      <4>4. d = serving[s]
        <5>1. CASE s = 1
          <6>1. phase[1] = "meta"
            BY <2>2, <5>1 DEF ServeMeta
          <6> QED
            BY <1>1, <3>4, <4>3, <5>1, <6>1 DEF JoinInv, ServingMeta
        <5>2. CASE s # 1
          <6>1. i \in IdsOf(serving[s]) /\ serving[s] \in Numbered
            BY <3>1, <3>4, <4>2, <5>2, Basics DEF IdsOf, Numbered
          <6> QED
            BY <1>1, <4>3, <6>1 DEF JoinInv, IdsApart
        <5> QED
          BY <5>1, <5>2
      <4> QED
        BY <3>1, <3>2, <3>4, <4>4
    <3> QED
      BY <3>3, <3>4
  <2> QED
    BY <2>1, <2>2
<1> QED
  BY <1>1, JoinInvHolds, UpStays, PTL DEF Spec, PeersKept
=============================================================================
