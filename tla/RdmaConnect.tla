---------------------------- MODULE RdmaConnect -----------------------------
(***************************************************************************)
(* How the clients of SpongeBob connect to the storage servers             *)
(* (src/net/RdmaSocket.cpp): a client goes to node 1 first, which gives it *)
(* a node id, then to every other server.  On each connection both sides   *)
(* run ConnectQueuePair: they exchange an ExchangeID, create queue pairs,  *)
(* exchange an ExchangeMeta and bring the queue pairs up.  A server has    *)
(* one thread that accepts and serves one connection after the other.      *)
(*                                                                         *)
(* A client makes one connection to a server in its life, so <<c, s>>      *)
(* names it.  A client that is started again is another client.            *)
(***************************************************************************)
EXTENDS Naturals, Sequences, FiniteSets

CONSTANTS Client,
          ServerCount,      \* the servers are 1 .. ServerCount
          Late,             \* servers that are not up from the start
          Mortal,           \* servers that may stop and start again
          MaxStops,         \* bound on the stops of servers
          MaxCrashes,       \* bound on the clients that die
          Tries,            \* calls of connect: t goes from 3 down to 0
          NoId,             \* MyNodeID of a client before it is given one
          NoClient          \* nullptr in peers

Server == 1 .. ServerCount

ASSUME ConnectAssumption ==
    /\ ServerCount \in Nat \ {0} /\ Tries \in Nat \ {0}
    /\ Late \cup Mortal \subseteq Server
    /\ {MaxStops, MaxCrashes} \subseteq Nat
    /\ NoId \notin Nat /\ NoClient \notin Client /\ IsFiniteSet(Client)

(* The entries of peers that are used; the array has 1000. *)
NodeID == 1 .. ServerCount + Cardinality(Client)

VARIABLES
    pc, target, tries,  \* a client in RdmaConnect and SocketConnect
    todo,               \* servers its loop over id2ip has still to visit
    MyNodeID, linked,   \* its node id; the servers in its peers
    up, serving,        \* a server; whose connection its Listener is at
    phase,              \* where the Listener is in ConnectQueuePair
    peerID,             \* peer->NodeID there
    MaxNodeID, peers,
    backlog,            \* connections accept has not returned
    toServer, toClient, \* messages in the two directions of a connection
    gone,               \* how a client's end of its connections was closed
    stops               \* how often servers have stopped

clientVars == <<pc, target, tries, todo, MyNodeID, linked>>
serverVars == <<up, serving, phase, peerID, MaxNodeID, peers>>
netVars == <<backlog, toServer, toClient, gone>>
vars == <<clientVars, serverVars, netVars, stops>>

(* Mutant of FirstID: MaxNodeID starts with the last server's number. *)
FirstIDShared == ServerCount

(* The constructor of a server's RdmaSocket. *)
FirstID == ServerCount + 1

NoPeers == [i \in NodeID |-> NoClient]

Init ==
    /\ pc = [c \in Client |-> "connect"]
    /\ target = [c \in Client |-> 1]
    /\ tries = [c \in Client |-> Tries]
    /\ todo = [c \in Client |-> Server \ {1}]
    /\ MyNodeID = [c \in Client |-> NoId]
    /\ linked = [c \in Client |-> {}]
    /\ up = [s \in Server |-> s \notin Late]
    /\ serving = [s \in Server |-> NoClient]
    /\ phase = [s \in Server |-> "accept"]
    /\ peerID = [s \in Server |-> NoId]
    /\ MaxNodeID = [s \in Server |-> FirstID]
    /\ peers = [s \in Server |-> NoPeers]
    /\ backlog = [s \in Server |-> <<>>]
    /\ toServer = [c \in Client |-> [s \in Server |-> <<>>]]
    /\ toClient = [c \in Client |-> [s \in Server |-> <<>>]]
    /\ gone = [c \in Client |-> "no"]
    /\ stops = 0

Goto(c, l) == pc' = [pc EXCEPT ![c] = l]

ID(node, given) == [kind |-> "id", node |-> node, given |-> given]
Meta(from) == [kind |-> "meta", node |-> from, given |-> 0]

Message == [kind: {"id", "meta"}, node: NodeID \cup {NoId},
            given: NodeID \cup {0}]

-----------------------------------------------------------------------------
(***************************************************************************)
(* The client.  DataSyncwithSocket writes first and then reads: what a     *)
(* side writes is modelled with the step that leads to it.                 *)
(***************************************************************************)

(* connect succeeds; ConnectQueuePair sends the ExchangeID. *)
SocketConnect(c) ==
    LET s == target[c] IN
    /\ pc[c] = "connect" /\ up[s]
    /\ backlog' = [backlog EXCEPT ![s] = Append(@, c)]
    /\ toServer' = [toServer EXCEPT ![c][s] = <<ID(MyNodeID[c], 0)>>]
    /\ Goto(c, "id")
    /\ UNCHANGED <<target, tries, todo, MyNodeID, linked, serverVars,
                   toClient, gone, stops>>

(* Mutant of ConnectRefused: t is not counted down. *)
RefusedForEver(c) ==
    /\ pc[c] = "connect" /\ ~ up[target[c]]
    /\ UNCHANGED vars

(* connect is refused; after the last try RdmaConnect returns. *)
ConnectRefused(c) ==
    /\ pc[c] = "connect" /\ ~ up[target[c]]
    /\ tries' = [tries EXCEPT ![c] = @ - 1]
    /\ Goto(c, IF tries[c] = 1 THEN "failed" ELSE "connect")
    /\ UNCHANGED <<target, todo, MyNodeID, linked, serverVars, netVars, stops>>

(* The server's ExchangeID has come: the id it gives becomes MyNodeID. *)
TakeID(c) ==
    LET s == target[c]
        m == Head(toClient[c][s])
    IN  /\ pc[c] = "id" /\ toClient[c][s] # <<>>
        /\ toClient' = [toClient EXCEPT ![c][s] = Tail(@)]
        /\ MyNodeID' = [MyNodeID EXCEPT ![c] = IF m.given = 0 THEN @ ELSE m.given]
        /\ toServer' = [toServer EXCEPT ![c][s] = Append(@, Meta(MyNodeID'[c]))]
        /\ Goto(c, "meta")
        /\ UNCHANGED <<target, tries, todo, linked, serverVars, backlog, gone, stops>>

(* Mutant of TakeMeta: RdmaConnect returns after node 1. *)
TakeMetaOnce(c) ==
    LET s == target[c] IN
    /\ pc[c] = "meta" /\ toClient[c][s] # <<>>
    /\ toClient' = [toClient EXCEPT ![c][s] = Tail(@)]
    /\ linked' = [linked EXCEPT ![c] = @ \cup {s}]
    /\ Goto(c, "done")
    /\ UNCHANGED <<target, tries, todo, MyNodeID, serverVars, backlog, toServer,
                   gone, stops>>

(* The server's ExchangeMeta has come: the queue pairs are brought up, the *)
(* server is entered in peers, and the loop goes on to some other server.  *)
TakeMeta(c) ==
    LET s == target[c] IN
    /\ pc[c] = "meta" /\ toClient[c][s] # <<>>
    /\ toClient' = [toClient EXCEPT ![c][s] = Tail(@)]
    /\ linked' = [linked EXCEPT ![c] = @ \cup {s}]
    /\ \/ todo[c] = {} /\ Goto(c, "done") /\ UNCHANGED <<target, tries, todo>>
       \/ \E t \in todo[c] :
            /\ target' = [target EXCEPT ![c] = t]
            /\ todo' = [todo EXCEPT ![c] = @ \ {t}]
            /\ tries' = [tries EXCEPT ![c] = Tries]
            /\ Goto(c, "connect")
    /\ UNCHANGED <<MyNodeID, serverVars, backlog, toServer, gone, stops>>

(* read fails after three seconds without an answer; ConnectQueuePair and  *)
(* RdmaConnect return, and the socket stays open.                          *)
Timeout(c) ==
    /\ pc[c] \in {"id", "meta"} /\ toClient[c][target[c]] = <<>>
    /\ Goto(c, "failed")
    /\ UNCHANGED <<target, tries, todo, MyNodeID, linked, serverVars, netVars, stops>>

(* The client's process ends.  Its sockets are closed, which the servers   *)
(* see as end of file or, when data was left unread, as an error.          *)
Dead == {c \in Client : gone[c] # "no"}

ClientCrash(c) ==
    /\ c \notin Dead /\ Cardinality(Dead) < MaxCrashes
    /\ \E how \in {"eof", "reset"} : gone' = [gone EXCEPT ![c] = how]
    /\ Goto(c, "dead")
    /\ UNCHANGED <<target, tries, todo, MyNodeID, linked, serverVars, backlog,
                   toServer, toClient, stops>>

-----------------------------------------------------------------------------
(***************************************************************************)
(* The Listener of a server: RdmaAccept and ConnectQueuePair.              *)
(***************************************************************************)
GivenID(s) == IF s = 1 THEN MaxNodeID[s] ELSE 0

RdmaAccept(s) ==
    LET c == Head(backlog[s]) IN
    /\ up[s] /\ phase[s] = "accept" /\ backlog[s] # <<>>
    /\ backlog' = [backlog EXCEPT ![s] = Tail(@)]
    /\ serving' = [serving EXCEPT ![s] = c]
    /\ phase' = [phase EXCEPT ![s] = "id"]
    /\ toClient' = [toClient EXCEPT ![c][s] = <<ID(s, GivenID(s))>>]
    /\ UNCHANGED <<clientVars, up, peerID, MaxNodeID, peers, toServer, gone, stops>>

(* Back to accept. *)
Served(s) == /\ phase' = [phase EXCEPT ![s] = "accept"]
             /\ serving' = [serving EXCEPT ![s] = NoClient]
             /\ peerID' = [peerID EXCEPT ![s] = NoId]

(* Mutant of Assign: MaxNodeID is not counted on. *)
AssignSame(s, m) ==
    /\ peerID' = [peerID EXCEPT ![s] = IF s = 1 THEN MaxNodeID[s] ELSE m.node]
    /\ UNCHANGED MaxNodeID

(* Node 1 numbers the client, the other servers take the number it has.    *)
Assign(s, m) ==
    IF s = 1
    THEN /\ peerID' = [peerID EXCEPT ![s] = MaxNodeID[s]]
         /\ MaxNodeID' = [MaxNodeID EXCEPT ![s] = @ + 1]
    ELSE peerID' = [peerID EXCEPT ![s] = m.node] /\ UNCHANGED MaxNodeID

(* The client's ExchangeID has come: queue pairs are created and the       *)
(* ExchangeMeta is sent.                                                   *)
ServeID(s) ==
    LET c == serving[s] IN
    /\ up[s] /\ phase[s] = "id" /\ toServer[c][s] # <<>>
    /\ toServer' = [toServer EXCEPT ![c][s] = Tail(@)]
    /\ Assign(s, Head(toServer[c][s]))
    /\ phase' = [phase EXCEPT ![s] = "meta"]
    /\ toClient' = [toClient EXCEPT ![c][s] = Append(@, Meta(s))]
    /\ UNCHANGED <<clientVars, up, serving, peers, backlog, gone, stops>>

ServeMeta(s) ==
    LET c == serving[s] IN
    /\ up[s] /\ phase[s] = "meta" /\ toServer[c][s] # <<>>
    /\ toServer' = [toServer EXCEPT ![c][s] = Tail(@)]
    /\ peers' = [peers EXCEPT ![s][peerID[s]] = c]
    /\ Served(s)
    /\ UNCHANGED <<clientVars, up, MaxNodeID, backlog, toClient, gone, stops>>

(* write or read fails when the client's end was reset, and the peer is    *)
(* forgotten.  At end of file read answers 0 and DataSyncwithSocket reads  *)
(* on for ever: there is no step for it.                                   *)
ServeError(s) ==
    LET c == serving[s] IN
    /\ up[s] /\ phase[s] # "accept"
    /\ gone[c] = "reset"
    /\ Served(s)
    /\ UNCHANGED <<clientVars, up, MaxNodeID, peers, netVars, stops>>

-----------------------------------------------------------------------------
(* A server's process ends.  Clients that were waiting for its answer read *)
(* an error; at end of file they would go on reading.                      *)
Waiting(s) == {c \in Client : pc[c] \in {"id", "meta"} /\ target[c] = s}

Stop(s) ==
    /\ s \in Mortal /\ up[s] /\ stops < MaxStops
    /\ stops' = stops + 1
    /\ up' = [up EXCEPT ![s] = FALSE]
    /\ Served(s)
    /\ MaxNodeID' = [MaxNodeID EXCEPT ![s] = FirstID]
    /\ peers' = [peers EXCEPT ![s] = NoPeers]
    /\ backlog' = [backlog EXCEPT ![s] = <<>>]
    /\ \E errors \in SUBSET Waiting(s) :
          pc' = [c \in Client |-> IF c \in errors THEN "failed"
                                  ELSE IF c \in Waiting(s) THEN "spin" ELSE pc[c]]
    /\ UNCHANGED <<target, tries, todo, MyNodeID, linked, toServer, toClient, gone>>

(* RdmaListen *)
Start(s) == /\ ~ up[s]
            /\ up' = [up EXCEPT ![s] = TRUE]
            /\ UNCHANGED <<clientVars, serving, phase, peerID, MaxNodeID, peers,
                           netVars, stops>>

-----------------------------------------------------------------------------
ClientStep(c) == \/ SocketConnect(c) \/ ConnectRefused(c)
                 \/ TakeID(c) \/ TakeMeta(c) \/ Timeout(c)

ServerStep(s) == RdmaAccept(s) \/ ServeID(s) \/ ServeMeta(s) \/ ServeError(s)

Next == \/ \E c \in Client : ClientStep(c) \/ ClientCrash(c)
        \/ \E s \in Server : ServerStep(s) \/ Stop(s) \/ Start(s)

Spec == Init /\ [][Next]_vars

(* Processes that can run do run, and a timeout that is due fires. *)
FairSpec == /\ Spec
            /\ \A c \in Client : WF_vars(ClientStep(c))
            /\ \A s \in Server : WF_vars(ServerStep(s))

-----------------------------------------------------------------------------
(* Every variable holds a value of its type; in particular a server enters *)
(* its peers under numbers of the array only.                              *)
TypeOK ==
    /\ pc \in [Client -> {"connect", "id", "meta", "done", "failed", "spin", "dead"}]
    /\ target \in [Client -> Server] /\ tries \in [Client -> 0 .. Tries]
    /\ todo \in [Client -> SUBSET Server]
    /\ MyNodeID \in [Client -> NodeID \cup {NoId}]
    /\ linked \in [Client -> SUBSET Server]
    /\ up \in [Server -> BOOLEAN]
    /\ serving \in [Server -> Client \cup {NoClient}]
    /\ phase \in [Server -> {"accept", "id", "meta"}]
    /\ peerID \in [Server -> NodeID \cup {NoId}]
    /\ MaxNodeID \in [Server -> FirstID .. FirstID + Cardinality(Client)]
    /\ peers \in [Server -> [NodeID -> Client \cup {NoClient}]]
    /\ backlog \in [Server -> Seq(Client)]
    /\ {toServer, toClient} \subseteq [Client -> [Server -> Seq(Message)]]
    /\ gone \in [Client -> {"no", "eof", "reset"}]
    /\ stops \in 0 .. MaxStops

(***************************************************************************)
(* Two running clients never have the same node id while node 1 runs: it   *)
(* sends the next free id before it reads from the client, and counts on   *)
(* only after it has read.                                                 *)
(***************************************************************************)
UniqueNodeIDs ==
    \A c, d \in Client \ Dead : MyNodeID[c] # NoId /\ c # d =>
        MyNodeID[c] # MyNodeID[d]

(***************************************************************************)
(* A server knows a running client under the id the client has, and that   *)
(* is a client's number, for which both sides create the data queue pairs. *)
(***************************************************************************)
PeerAgreement ==
    \A s \in Server, i \in NodeID :
        peers[s][i] \in Client \ Dead =>
            i = MyNodeID[peers[s][i]] /\ i > ServerCount

(***************************************************************************)
(* A server overwrites an entry of peers only with the same client or when *)
(* the client that was there is dead.                                      *)
(***************************************************************************)
PeersKept ==
    [][\A s \in Server, i \in NodeID :
         up[s] /\ up'[s] /\ peers[s][i] \in Client \ Dead
             => peers'[s][i] = peers[s][i]]_vars

(***************************************************************************)
(* RdmaConnect returns, connected or not, whatever the other clients do,   *)
(* unless its server's process ended while it was reading.                 *)
(***************************************************************************)
ConnectReturns ==
    \A c \in Client : <>(pc[c] \in {"done", "failed", "dead", "spin"})

(* A client that RdmaConnect has left without all its connections. *)
GaveUp(c) == pc[c] \in {"failed", "dead", "spin"}

(***************************************************************************)
(* When every server stays up and no client gives up, every client ends up *)
(* connected to every server and known to it under its id, although each   *)
(* server has one thread for all of them.                                  *)
(***************************************************************************)
EveryoneJoins ==
    <>[](stops = 0 /\ ~ (\E c \in Client : GaveUp(c)) =>
            \A c \in Client, s \in Server :
                pc[c] = "done" /\ s \in linked[c] /\ peers[s][MyNodeID[c]] = c)

(***************************************************************************)
(* A node id tells connected clients apart ("My NodeID, used for           *)
(* identification", RdmaSocket.hpp:92).                                    *)
(***************************************************************************)
IDsIdentify ==
    \A c, d \in Client : pc[c] = "done" /\ pc[d] = "done" /\ c # d =>
        MyNodeID[c] # MyNodeID[d]

(***************************************************************************)
(* An exchange that does not succeed is given up ("failed to exchange      *)
(* connection data between sides", RdmaSocket.cpp:380, 427): the Listener  *)
(* gets back to accept.                                                    *)
(***************************************************************************)
ExchangeEnds == \A s \in Server : phase[s] # "accept" ~> phase[s] = "accept"
=============================================================================
