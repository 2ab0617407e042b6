--------------------------- MODULE RdmaResources ----------------------------
(***************************************************************************)
(* The verbs objects of one RdmaSocket (src/net/RdmaSocket.cpp):           *)
(* CreateResources in the constructor, CreateQueuePair and ModifyQPto* in  *)
(* ConnectQueuePair, and ResourcesDestroy in the destructor.  Every call   *)
(* of the verbs library may fail.  One thread runs them: the constructor's *)
(* caller, who goes on to RdmaConnect, or a server's Listener.             *)
(***************************************************************************)
EXTENDS Naturals, Sequences

CONSTANTS CqNums,           \* numbers of completion queues a server may have
          QP_NUMBER,        \* queue pairs of a connection
          PeerNodes         \* node ids of the other ends

ASSUME ResourcesAssumption ==
    CqNums \subseteq Nat \ {0, 1} /\ QP_NUMBER \in Nat \ {0} /\ PeerNodes \subseteq Nat

VARIABLES
    server,     \* isServer
    garbage,    \* the memory under the members was not zero
    stage,      \* where the socket's thread is
    made,       \* which of ctx, pd and mr exist
    cqs,        \* completion queues that exist
    cqNum, cqPtr,
    peer,       \* the PeerSockData of the connection that is being made
    dropped,    \* a connection failed and left its queue pairs behind
    entered     \* peers: connections by node id

resVars == <<server, garbage, stage, made, cqs, cqNum, cqPtr, peer, dropped, entered>>

NoPeer == [node |-> 0, cq |-> 0, qp |-> <<>>]

ResInit ==
    /\ server \in BOOLEAN /\ garbage \in BOOLEAN
    /\ cqNum \in (IF server THEN CqNums ELSE {1})
    /\ stage = "device" /\ made = {} /\ cqs = 0 /\ cqPtr = 0
    /\ peer = NoPeer /\ dropped = FALSE /\ entered = {}

ResGoto(l) == stage' = l

-----------------------------------------------------------------------------
(***************************************************************************)
(* CreateResources: open the device, query the port, create the completion *)
(* queues, the protection domain and the memory region.                    *)
(***************************************************************************)
Made(objects, queues) ==
    /\ made' = objects /\ cqs' = queues
    /\ UNCHANGED <<server, garbage, cqNum, cqPtr, peer, dropped, entered>>

OpenDevice == stage = "device" /\ Made({"ctx"}, cqs) /\ ResGoto("port")

QueryPort == stage = "port" /\ Made(made, cqs) /\ ResGoto("cq")

CreateCq == /\ stage = "cq"
            /\ Made(made, cqs + 1)
            /\ ResGoto(IF cqs + 1 < cqNum THEN "cq" ELSE "pd")

AllocPd == stage = "pd" /\ Made(made \cup {"pd"}, cqs) /\ ResGoto("mr")

RegMr == stage = "mr" /\ Made(made \cup {"mr"}, cqs) /\ ResGoto("ready")

(* A call fails: what was made is released again, in the order completion  *)
(* queues, protection domain, device.  Before the call that sets them, pd  *)
(* and ctx hold whatever was in memory, and are released as well.          *)
CreateFails ==
    /\ stage \in {"device", "port", "cq", "pd", "mr"}
    /\ IF garbage /\ stage \in {"device", "port", "cq"}
       THEN ResGoto("crashed") /\ Made(made, cqs)
       ELSE ResGoto("bare") /\ Made({}, 0)

-----------------------------------------------------------------------------
(***************************************************************************)
(* ConnectQueuePair without its messages, see RdmaConnect.                 *)
(***************************************************************************)

(* The constructor ignores that CreateResources failed; then the first     *)
(* ibv_create_qp reads through a null pd.                                  *)
ConnectBare == /\ stage = "bare"
               /\ ResGoto("crashed")
               /\ UNCHANGED <<server, garbage, made, cqs, cqNum, cqPtr, peer, dropped, entered>>

StartPeer(n) == /\ stage = "ready" /\ n \notin {p.node : p \in entered}
                /\ peer' = [NoPeer EXCEPT !.node = n]
                /\ ResGoto("create")
                /\ UNCHANGED <<server, garbage, made, cqs, cqNum, cqPtr, dropped, entered>>

(* Mutant of ServerCq: the queue changes with every queue pair. *)
ServerCqEach(offset) == IF cqPtr + 1 >= cqNum THEN 1 ELSE cqPtr + 1

(* cqPtr of a server for queue pair offset: a new one for the first only.  *)
ServerCq(offset) == IF offset > 0 THEN cqPtr
                    ELSE IF cqPtr + 1 >= cqNum THEN 1 ELSE cqPtr + 1

(* A client takes the queue at cqPtr and moves on. *)
CreateQueuePair ==
    LET offset == Len(peer.qp)
        q == IF server THEN ServerCq(offset) ELSE cqPtr
    IN  /\ stage = "create" /\ offset < QP_NUMBER
        /\ peer' = [peer EXCEPT !.cq = q,
                                !.qp = Append(@, [cq |-> q, state |-> "RESET"])]
        /\ cqPtr' = IF server THEN q ELSE (q + 1) % cqNum
        /\ ResGoto(IF offset + 1 = QP_NUMBER THEN "modify" ELSE "create")
        /\ UNCHANGED <<server, garbage, made, cqs, cqNum, dropped, entered>>

(* The number of the queue pair is printed before it is compared with NULL.*)
CreateQueuePairFails ==
    /\ stage = "create"
    /\ ResGoto("crashed")
    /\ UNCHANGED <<server, garbage, made, cqs, cqNum, cqPtr, peer, dropped, entered>>

Follows == [RESET |-> "INIT", INIT |-> "RTR", RTR |-> "RTS"]

(* The first queue pair that is not ready. *)
Unready(p) == {i \in DOMAIN p.qp : p.qp[i].state # "RTS"}

(* ModifyQPtoInit, ModifyQPtoRTR and ModifyQPtoRTS, one queue pair after   *)
(* the other; after the last one the peer is entered.                      *)
ModifyQP ==
    /\ stage = "modify" /\ Unready(peer) # {}
    /\ \E i \in Unready(peer) :
         /\ \A j \in Unready(peer) : i <= j
         /\ peer' = [peer EXCEPT !.qp[i].state = Follows[@]]
    /\ UNCHANGED <<server, garbage, stage, made, cqs, cqNum, cqPtr, dropped, entered>>

EnterPeer ==
    /\ stage = "modify" /\ Unready(peer) = {}
    /\ entered' = entered \cup {peer}
    /\ peer' = NoPeer /\ ResGoto("ready")
    /\ UNCHANGED <<server, garbage, made, cqs, cqNum, cqPtr, dropped>>

(* A ModifyQPto*, ibv_query_gid or the exchange of the ExchangeMeta fails  *)
(* and ConnectQueuePair returns false: a server accepts the next connection, a *)
(* client's RdmaConnect returns.  Nobody destroys the queue pairs.         *)
ModifyFails ==
    /\ stage = "modify"
    /\ dropped' = TRUE
    /\ peer' = NoPeer /\ ResGoto(IF server THEN "ready" ELSE "linked")
    /\ UNCHANGED <<server, garbage, made, cqs, cqNum, cqPtr, entered>>

-----------------------------------------------------------------------------
(***************************************************************************)
(* ResourcesDestroy.  The completion queues stay (their release is         *)
(* commented out), and a server does not look at its clients.  The library *)
(* refuses to release a protection domain that is in use.                  *)
(***************************************************************************)
(* Mutant of DestroyedPeers: no queue pair is destroyed. *)
DestroyedNone == {}

(* Those with ids up to ServerCount: all of a client's, none of a server's. *)
DestroyedPeers == IF server THEN {} ELSE entered

(* peers is never initialized: an entry of a server that was not set is    *)
(* followed.  A server has no entry for another server.                    *)
StrayPointer == garbage /\ (server \/ {p.node : p \in entered} # PeerNodes)

ResourcesDestroy ==
    LET busy == dropped \/ entered # DestroyedPeers IN
    /\ stage \in {"bare", "ready", "linked"} /\ ~ StrayPointer
    /\ entered' = entered \ DestroyedPeers
    /\ made' = made \ (IF busy THEN {"mr", "ctx"} ELSE {"mr", "pd", "ctx"})
    /\ ResGoto("closed")
    /\ UNCHANGED <<server, garbage, cqs, cqNum, cqPtr, peer, dropped>>

DestroyGarbage ==
    /\ stage \in {"bare", "ready", "linked"} /\ StrayPointer
    /\ ResGoto("crashed")
    /\ UNCHANGED <<server, garbage, made, cqs, cqNum, cqPtr, peer, dropped, entered>>

ResNext ==
    \/ OpenDevice \/ QueryPort \/ CreateCq \/ AllocPd \/ RegMr \/ CreateFails
    \/ ConnectBare \/ \E n \in PeerNodes : StartPeer(n)
    \/ CreateQueuePair \/ CreateQueuePairFails
    \/ ModifyQP \/ EnterPeer \/ ModifyFails
    \/ ResourcesDestroy \/ DestroyGarbage

ResSpec == ResInit /\ [][ResNext]_resVars

-----------------------------------------------------------------------------
(***************************************************************************)
(* A connection that others find in peers can be used: all its queue pairs *)
(* are ready to send, and all of them complete on the queue that           *)
(* PollCompletion polls for this peer ("Each client will create two qps,   *)
(* we use same cq at server side."), a queue that exists and is not the    *)
(* one kept for the other servers.                                         *)
(***************************************************************************)
PeersUsable ==
    stage # "closed" => \A p \in entered :
        /\ Len(p.qp) = QP_NUMBER
        /\ \A i \in DOMAIN p.qp : p.qp[i] = [cq |-> p.cq, state |-> "RTS"]
        /\ p.cq < cqs
        /\ server => p.cq # 0

(***************************************************************************)
(* A client that was connected to all its servers leaves no queue pair,    *)
(* memory region or protection domain behind when it closes its socket:    *)
(* they are released in an order in which the library refuses none.        *)
(***************************************************************************)
ClientReleases ==
    stage = "closed" /\ ~ server /\ ~ dropped =>
        entered = {} /\ made = {}
=============================================================================
