----------------------------- MODULE RdmaProofs -----------------------------
(* One RdmaSocket: its verbs objects, its transfers and its batch verbs. *)
EXTENDS RdmaResources, RdmaTransfer, BatchPost, FiniteSetTheorems, TLAPS

-----------------------------------------------------------------------------
(***************************************************************************)
(* The verbs objects (RdmaResources).                                      *)
(***************************************************************************)
ResStages == {"device", "port", "cq", "pd", "mr", "ready", "create", "modify",
              "linked", "bare", "closed", "crashed"}

QPStates == {"RESET", "INIT", "RTR", "RTS"}

QueuePair == [cq : Nat, state : QPStates]

PeerData == [node : Nat, cq : Nat, qp : Seq(QueuePair)]

ResTypeOK ==
  /\ server \in BOOLEAN /\ garbage \in BOOLEAN /\ dropped \in BOOLEAN
  /\ stage \in ResStages
  /\ made \subseteq {"ctx", "pd", "mr"}
  /\ cqs \in Nat /\ cqPtr \in Nat /\ cqNum \in Nat
  /\ peer \in PeerData
  /\ entered \subseteq PeerData

(* How far CreateResources has come says what there is; before it is done  *)
(* there are no connections.                                               *)
StageSays ==
  /\ IF server THEN cqNum > 1 ELSE cqNum = 1
  /\ stage \in {"device", "port"} => cqs = 0
  /\ stage = "cq" => cqs < cqNum
  /\ stage \in {"pd", "mr", "ready", "create", "modify", "linked"} => cqs = cqNum
  /\ stage = "bare" => made = {}
  /\ stage \in {"device", "port", "cq", "pd", "mr", "bare"} => entered = {}

(* All queue pairs of a connection have its completion queue, which the    *)
(* socket's cqPtr still points to while they are created.                  *)
OneQueue(p) ==
  /\ \A i \in DOMAIN p.qp : p.qp[i].cq = p.cq
  /\ p.qp # << >> => p.cq < cqNum /\ (server <=> p.cq # 0)

PeerGrows ==
  /\ cqPtr < cqNum
  /\ OneQueue(peer)
  /\ stage \in {"create", "modify"} /\ peer.qp # << >> => cqPtr = peer.cq
  /\ stage = "create" => Len(peer.qp) < QP_NUMBER
  /\ stage = "modify" => Len(peer.qp) = QP_NUMBER

EnteredUsable ==
  \A p \in entered :
    /\ Len(p.qp) = QP_NUMBER
    /\ \A i \in DOMAIN p.qp : p.qp[i] = [cq |-> p.cq, state |-> "RTS"]
    /\ p.cq < cqs
    /\ server => p.cq # 0

ResInv == ResTypeOK /\ StageSays /\ PeerGrows /\ EnteredUsable /\ ClientReleases

(* A failure leaves everything as it is or nothing at all. *)
LEMMA CreateFailsCases ==
  ASSUME CreateFails
  PROVE  \/ stage' = "crashed" /\ made' = made /\ cqs' = cqs
         \/ stage' = "bare" /\ made' = {} /\ cqs' = 0
<1>1. CASE garbage /\ stage \in {"device", "port", "cq"}
  BY <1>1, Zenon DEF CreateFails, Made, ResGoto
<1>2. CASE ~ (garbage /\ stage \in {"device", "port", "cq"})
  BY <1>2, Zenon DEF CreateFails, Made, ResGoto
<1> QED
  BY <1>1, <1>2

(* CreateResources, whether its calls succeed or not. *)
LEMMA CreateResourcesKeepsInv ==
  ASSUME ResInv,
         OpenDevice \/ QueryPort \/ CreateCq \/ AllocPd \/ RegMr \/ CreateFails
  PROVE  ResInv'
<1> USE DEF ResInv, ResTypeOK, Made, ResGoto
<1>0. UNCHANGED <<server, garbage, cqNum, cqPtr, peer, dropped, entered>>
  BY DEF OpenDevice, QueryPort, CreateCq, AllocPd, RegMr, CreateFails
<1>1. ResTypeOK'
  <2>1. stage' \in ResStages
    BY DEF OpenDevice, QueryPort, CreateCq, AllocPd, RegMr, CreateFails,
           ResStages
  <2>2. made' \subseteq {"ctx", "pd", "mr"}
    <3>1. \/ made' = made \/ made' = {} \/ made' = {"ctx"}
          \/ made' = made \cup {"pd"} \/ made' = made \cup {"mr"}
      BY CreateFailsCases, Zenon
         DEF OpenDevice, QueryPort, CreateCq, AllocPd, RegMr
    <3> QED
      BY <3>1
  <2>3. cqs' \in Nat
    <3>1. cqs' = cqs \/ cqs' = cqs + 1 \/ cqs' = 0
      BY CreateFailsCases, Zenon
         DEF OpenDevice, QueryPort, CreateCq, AllocPd, RegMr
    <3> QED
      BY <3>1
  <2> QED
    BY <1>0, <2>1, <2>2, <2>3
<1>2. StageSays'
  <2>1. CASE OpenDevice \/ QueryPort \/ CreateCq
    BY <1>0, <2>1 DEF OpenDevice, QueryPort, CreateCq, StageSays
  <2>2. CASE AllocPd \/ RegMr
    BY <1>0, <2>2 DEF AllocPd, RegMr, StageSays
  <2>3. CASE CreateFails
    <3>1. stage' = "crashed" \/ (stage' = "bare" /\ made' = {})
      BY <2>3, CreateFailsCases
    <3>2. entered = {}
      BY <2>3 DEF CreateFails, StageSays
    <3> QED
      BY <1>0, <3>1, <3>2 DEF StageSays
  <2> QED
    BY <2>1, <2>2, <2>3
<1>3. stage' \notin {"create", "modify", "closed"} /\ entered' = {}
  BY <1>0 DEF OpenDevice, QueryPort, CreateCq, AllocPd, RegMr, CreateFails,
              StageSays
<1>4. PeerGrows'
  BY <1>0, <1>3 DEF PeerGrows, OneQueue
<1>5. EnteredUsable' /\ ClientReleases'
  BY <1>3 DEF EnteredUsable, ClientReleases
<1> QED
  BY <1>1, <1>2, <1>4, <1>5

(* A new queue pair goes on the queue of those before it. *)
LEMMA CreateQueuePairKeepsInv ==
  ASSUME ResInv, CreateQueuePair
  PROVE  ResInv'
<1> USE DEF ResInv, ResTypeOK
<1> DEFINE had == Len(peer.qp)
           q == IF server THEN ServerCq(had) ELSE cqPtr
           new == [cq |-> q, state |-> "RESET"]
<1>1. /\ stage = "create" /\ had < QP_NUMBER
      /\ peer' = [peer EXCEPT !.cq = q, !.qp = Append(@, new)]
      /\ cqPtr' = IF server THEN q ELSE (q + 1) % cqNum
      /\ stage' = IF had + 1 = QP_NUMBER THEN "modify" ELSE "create"
      /\ UNCHANGED <<server, garbage, made, cqs, cqNum, dropped, entered>>
  BY DEF CreateQueuePair, ResGoto
<1>2. had \in Nat /\ peer.qp \in Seq(QueuePair)
  BY DEF PeerData
<1>3. had > 0 <=> peer.qp # << >>
  BY <1>2
<1>4. q \in Nat /\ q < cqNum /\ (server <=> q # 0)
  BY <1>1, <1>3 DEF ServerCq, PeerGrows, OneQueue, StageSays
<1>5. had > 0 => q = peer.cq
  BY <1>1, <1>3 DEF ServerCq, PeerGrows
<1>6. cqPtr' = q
  BY <1>1, <1>4 DEF StageSays
<1> HIDE DEF q
<1>7. /\ peer'.cq = q /\ peer'.qp = Append(peer.qp, new) /\ peer' \in PeerData
  <2>1. new \in QueuePair
    BY <1>4 DEF QueuePair, QPStates
  <2>2. Append(peer.qp, new) \in Seq(QueuePair)
    BY <1>2, <2>1
  <2> HIDE DEF new
  <2> QED
    BY <1>1, <1>4, <2>2 DEF PeerData
<1>8. /\ Len(peer'.qp) = had + 1
      /\ \A i \in DOMAIN peer'.qp : peer'.qp[i].cq = q
  <2>1. Len(peer'.qp) = had + 1
    BY <1>2, <1>7
  <2>2. ASSUME NEW i \in 1 .. had PROVE peer'.qp[i].cq = q
    BY <1>2, <1>5, <1>7 DEF PeerGrows, OneQueue
  <2>3. peer'.qp[had + 1].cq = q
    BY <1>2, <1>7
  <2>4. \A i \in DOMAIN peer'.qp : i \in 1 .. had \/ i = had + 1
    BY <1>2, <1>7
  <2> QED
    BY <2>1, <2>2, <2>3, <2>4
<1>9. ResTypeOK'
  BY <1>1, <1>4, <1>6, <1>7 DEF ResStages
<1>10. StageSays'
  BY <1>1 DEF StageSays
<1>11. PeerGrows'
  <2>1. OneQueue(peer)'
    BY <1>1, <1>4, <1>7, <1>8 DEF OneQueue
  <2>2. /\ stage' = "create" => Len(peer'.qp) < QP_NUMBER
        /\ stage' = "modify" => Len(peer'.qp) = QP_NUMBER
    BY <1>1, <1>2, <1>8, ResourcesAssumption
  <2> QED
    BY <1>1, <1>4, <1>6, <1>7, <2>1, <2>2 DEF PeerGrows
<1>12. EnteredUsable' /\ ClientReleases'
  BY <1>1 DEF EnteredUsable, ClientReleases
<1> QED
  BY <1>9, <1>10, <1>11, <1>12

(* ModifyQPto* changes the state of one queue pair and nothing else. *)
LEMMA ModifyQPKeepsInv ==
  ASSUME ResInv, ModifyQP
  PROVE  ResInv'
<1> USE DEF ResInv, ResTypeOK
<1>1. PICK i \in Unready(peer) : peer' = [peer EXCEPT !.qp[i].state = Follows[@]]
  BY DEF ModifyQP
<1>2. /\ stage = "modify"
      /\ UNCHANGED <<server, garbage, stage, made, cqs, cqNum, cqPtr, dropped,
                     entered>>
  BY DEF ModifyQP
<1>3. /\ i \in DOMAIN peer.qp /\ peer.qp[i].state \in {"RESET", "INIT", "RTR"}
      /\ peer.qp \in Seq(QueuePair)
  <2>1. peer.qp \in Seq(QueuePair)
    BY DEF PeerData
  <2>2. i \in DOMAIN peer.qp /\ peer.qp[i].state # "RTS"
    BY DEF Unready
  <2>3. peer.qp[i] \in QueuePair
    BY <2>1, <2>2
  <2> QED
    BY <2>1, <2>2, <2>3 DEF QueuePair, QPStates
<1> DEFINE qp == [peer.qp EXCEPT ![i].state = Follows[@]]
<1>4. Follows[peer.qp[i].state] \in QPStates
  BY <1>3 DEF Follows, QPStates
<1>5. peer'.node = peer.node /\ peer'.cq = peer.cq /\ peer'.qp = qp
  BY <1>1 DEF PeerData
<1>6. /\ qp \in Seq(QueuePair)
      /\ Len(qp) = Len(peer.qp) /\ DOMAIN qp = DOMAIN peer.qp
      /\ \A j \in DOMAIN qp : qp[j].cq = peer.qp[j].cq
  <2>1. peer.qp[i] \in QueuePair
    BY <1>3
  <2>2. /\ [peer.qp[i] EXCEPT !.state = Follows[@]] \in QueuePair
        /\ [peer.qp[i] EXCEPT !.state = Follows[@]].cq = peer.qp[i].cq
    BY <1>4, <2>1 DEF QueuePair
  <2>3. qp = [peer.qp EXCEPT ![i] = [peer.qp[i] EXCEPT !.state = Follows[@]]]
    BY <1>3, <2>1 DEF QueuePair
  <2> HIDE DEF qp
  <2> QED
    BY <1>3, <2>2, <2>3
<1>7. peer' \in PeerData
  BY <1>1, <1>5, <1>6 DEF PeerData
<1>8. PeerGrows'
  <2>1. qp # << >> <=> peer.qp # << >>
    BY <1>3, <1>6
  <2> HIDE DEF qp
  <2> QED
    BY <1>2, <1>5, <1>6, <2>1 DEF PeerGrows, OneQueue
<1> QED
  BY <1>2, <1>7, <1>8 DEF StageSays, EnteredUsable, ClientReleases

(* Every other step. *)
LEMMA OthersKeepInv ==
  ASSUME ResInv,
         \/ ConnectBare \/ \E n \in PeerNodes : StartPeer(n)
         \/ CreateQueuePairFails \/ EnterPeer \/ ModifyFails
         \/ ResourcesDestroy \/ DestroyGarbage
  PROVE  ResInv'
<1> USE DEF ResInv, ResTypeOK, ResGoto
<1>0. /\ NoPeer \in PeerData /\ NoPeer.qp = << >> /\ OneQueue(NoPeer)
      /\ NoPeer.qp # << >> => FALSE
  BY DEF NoPeer, PeerData, OneQueue
<1>1. CASE ConnectBare \/ CreateQueuePairFails \/ DestroyGarbage
  <2>1. /\ stage' = "crashed"
        /\ UNCHANGED <<server, garbage, made, cqs, cqNum, cqPtr, peer, dropped,
                       entered>>
    BY <1>1 DEF ConnectBare, CreateQueuePairFails, DestroyGarbage
  <2> QED
    BY <2>1 DEF ResStages, StageSays, PeerGrows, OneQueue, EnteredUsable,
                ClientReleases
<1>2. ASSUME NEW n \in PeerNodes, StartPeer(n) PROVE ResInv'
  <2>1. /\ stage = "ready" /\ stage' = "create"
        /\ peer' = [NoPeer EXCEPT !.node = n]
        /\ UNCHANGED <<server, garbage, made, cqs, cqNum, cqPtr, dropped, entered>>
    BY <1>2 DEF StartPeer
  <2>2. peer' \in PeerData /\ peer'.qp = << >>
    <3>1. NoPeer = [node |-> 0, cq |-> 0, qp |-> << >>] /\ n \in Nat
      BY ResourcesAssumption DEF NoPeer
    <3>2. peer' = [node |-> n, cq |-> 0, qp |-> << >>]
      BY <2>1, <3>1
    <3>3. << >> \in Seq(QueuePair)
      OBVIOUS
    <3> QED
      BY <3>1, <3>2, <3>3 DEF PeerData
  <2>3. PeerGrows'
    BY <2>1, <2>2, ResourcesAssumption DEF PeerGrows, OneQueue
  <2> QED
    BY <2>1, <2>2, <2>3
       DEF ResStages, StageSays, EnteredUsable, ClientReleases
<1>3. CASE EnterPeer
  <2>1. /\ stage = "modify" /\ Unready(peer) = {} /\ stage' = "ready"
        /\ entered' = entered \cup {peer} /\ peer' = NoPeer
        /\ UNCHANGED <<server, garbage, made, cqs, cqNum, cqPtr, dropped>>
    BY <1>3 DEF EnterPeer
  <2>2. EnteredUsable'
    <3>1. Len(peer.qp) = QP_NUMBER /\ peer.qp # << >>
      BY <2>1, ResourcesAssumption DEF PeerGrows, PeerData
    <3>2. ASSUME NEW i \in DOMAIN peer.qp
          PROVE  peer.qp[i] = [cq |-> peer.cq, state |-> "RTS"]
      <4>1. peer.qp[i] \in QueuePair
        <5>1. peer.qp \in Seq(QueuePair)
          BY DEF PeerData
        <5> QED
          BY <5>1
      <4>2. peer.qp[i].state = "RTS" /\ peer.qp[i].cq = peer.cq
        BY <2>1 DEF Unready, PeerGrows, OneQueue
      <4> QED
        BY <4>1, <4>2 DEF QueuePair
    <3>3. peer.cq < cqs /\ (server => peer.cq # 0)
      BY <2>1, <3>1 DEF PeerGrows, OneQueue, StageSays
    <3> QED
      BY <2>1, <3>1, <3>2, <3>3 DEF EnteredUsable
  <2>3. PeerGrows'
    BY <1>0, <2>1 DEF PeerGrows, OneQueue
  <2>4. ResTypeOK' /\ StageSays' /\ ClientReleases'
    BY <1>0, <2>1 DEF ResStages, StageSays, ClientReleases
  <2> QED
    BY <2>2, <2>3, <2>4
<1>4. CASE ModifyFails
  <2>1. /\ stage = "modify" /\ stage' \in {"ready", "linked"}
        /\ dropped' = TRUE /\ peer' = NoPeer
        /\ UNCHANGED <<server, garbage, made, cqs, cqNum, cqPtr, entered>>
    BY <1>4 DEF ModifyFails
  <2>2. PeerGrows'
    BY <1>0, <2>1 DEF PeerGrows, OneQueue
  <2> QED
    BY <1>0, <2>1, <2>2 DEF ResStages, StageSays, EnteredUsable, ClientReleases
<1>5. CASE ResourcesDestroy
  <2>1. /\ stage' = "closed" /\ entered' \subseteq entered
        /\ made' \subseteq made
        /\ UNCHANGED <<server, garbage, cqs, cqNum, cqPtr, peer, dropped>>
    BY <1>5 DEF ResourcesDestroy
  <2>2. ClientReleases'
    BY <1>5, <2>1 DEF ResourcesDestroy, DestroyedPeers, ClientReleases
  <2>3. ResTypeOK' /\ StageSays' /\ PeerGrows' /\ EnteredUsable'
    BY <2>1 DEF ResStages, StageSays, PeerGrows, OneQueue, EnteredUsable
  <2> QED
    BY <2>2, <2>3
<1> QED
  BY <1>1, <1>2, <1>3, <1>4, <1>5

(* The verbs objects keep their invariant. *)
LEMMA ResInvHolds == ResSpec => []ResInv
<1>1. ResInit => ResInv
  <2> SUFFICES ASSUME ResInit PROVE ResInv
    OBVIOUS
  <2>1. NoPeer \in PeerData /\ NoPeer.qp = << >>
    BY DEF NoPeer, PeerData
  <2>2. cqNum \in Nat /\ IF server THEN cqNum > 1 ELSE cqNum = 1
    BY ResourcesAssumption DEF ResInit
  <2>3. ResTypeOK /\ StageSays
    BY <2>1, <2>2 DEF ResInit, ResTypeOK, ResStages, StageSays
  <2>4. PeerGrows /\ EnteredUsable /\ ClientReleases
    BY <2>1, <2>2
       DEF ResInit, PeerGrows, OneQueue, EnteredUsable, ClientReleases
  <2> QED
    BY <2>3, <2>4 DEF ResInv
<1>2. ResInv /\ [ResNext]_resVars => ResInv'
  <2> SUFFICES ASSUME ResInv, [ResNext]_resVars PROVE ResInv'
    OBVIOUS
  <2>1. CASE ResNext
    BY <2>1, CreateResourcesKeepsInv, CreateQueuePairKeepsInv,
       ModifyQPKeepsInv, OthersKeepInv DEF ResNext
  <2>2. CASE UNCHANGED resVars
    BY <2>2 DEF resVars, ResInv, ResTypeOK, StageSays, PeerGrows, OneQueue,
                EnteredUsable, ClientReleases
  <2> QED
    BY <2>1, <2>2
<1> QED
  BY <1>1, <1>2, PTL DEF ResSpec

(* Whatever calls of the verbs library fail, and however many peers come   *)
(* and go: a connection in peers has all its queue pairs ready to send, on *)
(* the one existing queue that PollCompletion polls for it.                *)
THEOREM EnteredPeersUsable == ResSpec => []PeersUsable
<1>1. ResInv => PeersUsable
  BY DEF ResInv, EnteredUsable, PeersUsable
<1> QED
  BY <1>1, ResInvHolds, PTL

(* A client none of whose connections failed half way leaves nothing       *)
(* behind but its completion queues, for every number of servers.          *)
THEOREM ClientReleasesAll == ResSpec => []ClientReleases
<1>1. ResInv => ClientReleases
  BY DEF ResInv
<1> QED
  BY <1>1, ResInvHolds, PTL

-----------------------------------------------------------------------------
(***************************************************************************)
(* Transfers (RdmaTransfer), for any number of calling threads.            *)
(***************************************************************************)
Sending == {"loop", "post", "poll", "copy"}

(* A thread that sends is within its task, and tasks are within buffers. *)
Shape ==
  /\ \A t \in Threads :
       /\ job[t].base + job[t].size <= Cells
       /\ pc[t] \in Sending => done[t] <= job[t].size
       /\ pc[t] \in {"post", "poll", "copy"} => More(t)
  /\ \A c \in Callers :
       /\ \A w \in Workers : tasks[c][w].base + tasks[c][w].size <= Cells
       /\ pc[c] # "sub"
       /\ pc[c] \in {"push", "add"} => next[c] < WORKER_NUMBER
       /\ InLargeCall(c) => job[c].base = 0
  /\ \A w \in Workers :
       /\ pc[w] \notin {"push", "add", "wait"}
       /\ \A i \in 1 .. Len(posted[w]) :
            posted[w][i].at + posted[w][i].len <= Cells

(* The pushed tasks of a worker that its offset has counted. *)
Adding(w) == {c \in Callers : At(c, "add") /\ next[c] = w}

Counted(w) == (Len(queue[w]) - Cardinality(Adding(w))) + IF At(w, "sub") THEN 1 ELSE 0

(* The counter that a worker polls is never ahead of the vector. *)
OffsetCounts ==
  \A w \in Workers :
    /\ Counted(w) \in Nat
    /\ offset[w] = Counted(w) % OffsetWrap
    /\ At(w, "sub") => Counted(w) > 0

Balanced == CompletionBalance /\ IsFiniteSet(Outstanding)

TransferInv == TypeOK /\ Shape /\ OffsetCounts /\ Balanced

(* Workers are not callers, and task 0 is there. *)
LEMMA ThreadsApart ==
  /\ \A c \in Callers, w \in Workers : c # w
  /\ 0 \in Workers
  /\ \A t \in Threads : TaskID(t) \in Workers
  /\ IsFiniteSet(Threads) /\ IsFiniteSet(Workers)
<1>1. Workers \subseteq Int
  BY TransferAssumption DEF Workers
<1>2. IsFiniteSet(Workers)
  BY TransferAssumption, FS_Interval DEF Workers
<1>3. IsFiniteSet(Threads)
  BY <1>2, FS_Union, TransferAssumption DEF Threads
<1> QED
  BY <1>1, <1>2, <1>3, TransferAssumption DEF Workers, Threads, TaskID

(* A remainder is determined by being less than the divisor. *)
LEMMA Remainder ==
  ASSUME NEW n \in Nat, n > 0, NEW k \in Int, NEW m \in Nat, m < n, n * k + m \in Nat
  PROVE  (n * k + m) % n = m
<1> DEFINE y == n * k + m
<1>1. PICK q \in Int, r \in Nat : r < n /\ y = n * q + r /\ r = y % n
  <2>1. y % n \in Nat /\ y % n < n /\ y \div n \in Int /\ y = n * (y \div n) + (y % n)
    OBVIOUS
  <2> QED
    BY <2>1
<1>2. n * k - n * q = r - m /\ n * k \in Int /\ n * q \in Int
  BY <1>1
<1>3. CASE k = q
  BY <1>1, <1>2, <1>3
<1>4. CASE k > q
  <2>1. PICK d \in Nat : k = q + 1 + d
    <3>1. k - q - 1 \in Nat /\ k = q + 1 + (k - q - 1)
      BY <1>4
    <3> QED
      BY <3>1
  <2>2. n * k = n * q + n + n * d /\ n * d \in Nat
    BY <2>1
  <2> QED
    BY <1>1, <1>2, <2>2
<1>5. CASE k < q
  <2>1. PICK d \in Nat : q = k + 1 + d
    <3>1. q - k - 1 \in Nat /\ q = k + 1 + (q - k - 1)
      BY <1>5
    <3> QED
      BY <3>1
  <2>2. n * q = n * k + n + n * d /\ n * d \in Nat
    BY <2>1
  <2> QED
    BY <1>1, <1>2, <2>2
<1> QED
  BY <1>3, <1>4, <1>5

(* Division with remainder. *)
LEMMA Quotient ==
  ASSUME NEW n \in Nat, n > 0, NEW x \in Nat
  PROVE  /\ x \div n \in Nat /\ x % n \in Nat /\ x % n < n
         /\ x = n * (x \div n) + (x % n)
  OBVIOUS

(* A remainder after a step up or down. *)
LEMMA ModStep ==
  ASSUME NEW n \in Nat, n > 1, NEW x \in Nat
  PROVE  /\ ((x % n) + 1) % n = (x + 1) % n
         /\ x > 0 => ((x % n) + n - 1) % n = (x - 1) % n
         /\ x % n # 0 => x > 0
         /\ x % n \in 0 .. n - 1
<1>1. PICK q \in Nat, r \in Nat : r = x % n /\ r < n /\ x = n * q + r
  <2>1. x % n \in Nat /\ x % n < n /\ x \div n \in Nat /\ x = n * (x \div n) + (x % n)
    OBVIOUS
  <2> QED
    BY <2>1
<1>2. /\ n * (q + 1) = n * q + n /\ n * (q - 1) = n * q - n /\ n * q \in Nat
      /\ n * 0 = 0 /\ n * 1 = n
  BY <1>1
<1>3. (r + 1) % n = (x + 1) % n
  <2>1. CASE r + 1 < n
    <3>1. (n * q + (r + 1)) % n = r + 1 /\ (n * 0 + (r + 1)) % n = r + 1
      BY <1>2, <2>1, Remainder
    <3> QED
      BY <1>1, <1>2, <3>1
  <2>2. CASE r + 1 = n
    <3>1. (n * (q + 1) + 0) % n = 0 /\ (n * 1 + 0) % n = 0
      BY <1>2, Remainder
    <3>2. x + 1 = n * (q + 1) + 0 /\ r + 1 = n * 1 + 0
      BY <1>1, <1>2, <2>2
    <3> QED
      BY <3>1, <3>2
  <2> QED
    BY <1>1, <2>1, <2>2
<1>4. ASSUME x > 0 PROVE (r + n - 1) % n = (x - 1) % n
  <2>1. CASE r > 0
    <3>1. (n * q + (r - 1)) % n = r - 1 /\ (n * 1 + (r - 1)) % n = r - 1
      BY <1>1, <1>2, <2>1, Remainder
    <3>2. x - 1 = n * q + (r - 1) /\ r + n - 1 = n * 1 + (r - 1)
      BY <1>1, <1>2
    <3> QED
      BY <3>1, <3>2
  <2>2. CASE r = 0
    <3>1. n * (q - 1) + (n - 1) = x - 1 /\ n * 0 + (n - 1) = r + n - 1
      BY <1>1, <1>2, <2>2
    <3>2. n * (q - 1) + (n - 1) \in Nat /\ n - 1 \in Nat /\ n - 1 < n
      BY <1>4, <3>1
    <3>3. (n * (q - 1) + (n - 1)) % n = n - 1 /\ (n * 0 + (n - 1)) % n = n - 1
      BY <1>1, <1>2, <3>2, Remainder
    <3> QED
      BY <3>1, <3>3
  <2> QED
    BY <1>1, <2>1, <2>2
<1>5. r # 0 => x > 0
  BY <1>1, <1>2
<1>6. r = x % n /\ r \in 0 .. n - 1
  BY <1>1
<1> QED
  BY <1>3, <1>4, <1>5, <1>6, Zenon

(* Min of the community modules, of two numbers. *)
LEMMA MinOfTwo ==
  ASSUME NEW a \in Int, NEW b \in Int
  PROVE  Min({a, b}) = IF a <= b THEN a ELSE b
<1> DEFINE m == IF a <= b THEN a ELSE b
<1>1. m \in {a, b} /\ \A y \in {a, b} : m <= y
  OBVIOUS
<1>2. \A x \in {a, b} : (\A y \in {a, b} : x <= y) => x = m
  OBVIOUS
<1> QED
  BY <1>1, <1>2 DEF Min

(* A sequence without its head. *)
LEMMA AfterTail ==
  ASSUME NEW S, NEW q \in Seq(S), q # << >>
  PROVE  /\ Len(Tail(q)) = Len(q) - 1
         /\ \A i \in 1 .. Len(Tail(q)) :
              i + 1 \in 1 .. Len(q) /\ Tail(q)[i] = q[i + 1]
  OBVIOUS

(* A piece that is sent lies within its task and within a buffer. *)
LEMMA PieceFits ==
  ASSUME TypeOK, Shape, NEW t \in Threads, pc[t] \in Sending, More(t)
  PROVE  /\ SendSize(t) \in 1 .. Cells
         /\ done[t] \in Nat /\ done[t] + SendSize(t) <= job[t].size
         /\ job[t].base + done[t] \in Cell
         /\ (job[t].base + done[t]) + SendSize(t) <= Cells
<1>1. /\ job[t].base \in 0 .. Cells /\ job[t].size \in 0 .. Cells
      /\ done[t] \in 0 .. Cells
      /\ job[t].base + job[t].size <= Cells /\ done[t] < job[t].size
  BY DEF TypeOK, Shape, More, TransferTask
<1>2. SendSize(t) = IF SendPoolSize <= job[t].size - done[t]
                    THEN SendPoolSize ELSE job[t].size - done[t]
  BY <1>1, MinOfTwo, TransferAssumption DEF SendSize
<1> QED
  BY <1>1, <1>2, TransferAssumption DEF Cell

(* A copy within the buffers leaves cells in them. *)
LEMMA CopiedCells ==
  ASSUME NEW to \in [Cell -> Value], NEW from \in [Cell -> Value],
         NEW f \in Nat, NEW g \in Nat, NEW len \in Nat, f + len <= Cells
  PROVE  Copied(to, g, from, f, len) \in [Cell -> Value]
<1>1. ASSUME NEW k \in Cell, k \in g .. (g + len - 1)
      PROVE  k - g + f \in Cell
  BY <1>1, TransferAssumption DEF Cell
<1>2. ASSUME NEW k \in Cell
      PROVE  (IF k \in g .. (g + len - 1) THEN from[k - g + f] ELSE to[k]) \in Value
  BY <1>1
<1> QED
  BY <1>2 DEF Copied

(* The parts of a large transfer lie within the buffer. *)
LEMMA PartFits ==
  ASSUME NEW whole \in TransferTask, whole.base = 0, NEW i \in Workers
  PROVE  /\ Part(i, whole) \in TransferTask
         /\ Part(i, whole).base + Part(i, whole).size <= Cells
<1> DEFINE n == whole.size
           x == n \div WORKER_NUMBER
           s == ShipSize(n)
<1>1. n \in 0 .. Cells /\ Page \in Nat /\ Page > 0 /\ Cells \in Nat
      /\ WORKER_NUMBER \in 1 .. 4 /\ i \in 0 .. WORKER_NUMBER - 1
  BY TransferAssumption DEF TransferTask, Workers
<1>2. x \in Nat /\ WORKER_NUMBER * x <= n
  <2>1. WORKER_NUMBER = 1 \/ WORKER_NUMBER = 2 \/ WORKER_NUMBER = 3 \/ WORKER_NUMBER = 4
    BY <1>1
  <2> QED
    BY <1>1, <2>1
<1>3. s \in Nat /\ s <= x
  <2>1. PICK q \in Nat, r \in Nat : q = x \div Page /\ x = Page * q + r
    <3>1. /\ x \div Page \in Nat /\ x % Page \in Nat
          /\ x = Page * (x \div Page) + (x % Page)
      <4> HIDE DEF x
      <4> QED
        BY <1>1, <1>2
    <3> QED
      BY <3>1
  <2>2. s = q * Page
    BY <2>1, Zenon DEF ShipSize
  <2>3. q * Page = Page * q /\ Page * q \in Nat
    BY <1>1, <2>1
  <2> HIDE DEF s, x
  <2>4. x = s + r /\ s \in Nat
    BY <2>1, <2>2, <2>3, Zenon
  <2> QED
    BY <1>2, <2>4
<1> HIDE DEF x, s
<1>4. /\ i * s \in Nat /\ PartSize(i, n) \in Nat
      /\ i * s + PartSize(i, n) <= n
  <2>1. PartSize(i, n) = IF i < 3 THEN s ELSE n - 3 * s
    BY DEF PartSize, s
  <2>2. WORKER_NUMBER * s <= n
    BY <1>1, <1>2, <1>3
  <2>3. i = 0 \/ i = 1 \/ i = 2 \/ i = 3
    BY <1>1
  <2>4. \/ i = 0 /\ s <= n
        \/ i = 1 /\ 2 * s <= n
        \/ i = 2 /\ 3 * s <= n
        \/ i = 3 /\ 4 * s <= n
    <3>1. WORKER_NUMBER = 1 \/ WORKER_NUMBER = 2 \/ WORKER_NUMBER = 3 \/ WORKER_NUMBER = 4
      BY <1>1
    <3> QED
      BY <1>1, <1>3, <2>2, <2>3, <3>1
  <2> QED
    BY <1>1, <1>3, <2>1, <2>4
<1>5. Part(i, whole) = [whole EXCEPT !.base = i * s, !.size = PartSize(i, n)]
  BY DEF Part, s
<1> HIDE DEF n
<1>6. i * s \in 0 .. Cells /\ PartSize(i, n) \in 0 .. Cells
  BY <1>1, <1>4
<1>7. /\ Part(i, whole) \in TransferTask
      /\ Part(i, whole).base = i * s /\ Part(i, whole).size = PartSize(i, n)
  BY <1>5, <1>6 DEF TransferTask
<1> QED
  BY <1>1, <1>4, <1>7

-----------------------------------------------------------------------------
(* The threads in PollCompletion. *)
Pollers == {t \in Threads : At(t, "poll")}

(* Finitely many threads, finitely many of them polling. *)
LEMMA PollersAreFinite == IsFiniteSet(Pollers)
  BY ThreadsApart, FS_Subset DEF Pollers

(* A step of a thread changes who polls by that thread alone. *)
LEMMA PollersChange ==
  ASSUME TypeOK, NEW t \in Threads, NEW l, Goto(t, l)
  PROVE  Pollers' = IF l = "poll" THEN Pollers \cup {t} ELSE Pollers \ {t}
<1>1. /\ pc'[t] = l /\ \A u \in Threads \ {t} : pc'[u] = pc[u]
  BY DEF TypeOK, Goto
<1> QED
  BY <1>1 DEF Pollers, At

(* Steps that neither post nor poll. *)
LEMMA BalanceUndisturbed ==
  ASSUME TypeOK, Balanced, NEW t \in Threads, NEW l, Goto(t, l),
         pc[t] # "poll", l # "poll", UNCHANGED <<posted, cq, unposted>>
  PROVE  Balanced'
<1>1. Pollers' = Pollers
  BY PollersChange DEF Pollers, At
<1>2. Outstanding' = Outstanding
  BY DEF Outstanding
<1> QED
  BY <1>1, <1>2 DEF Balanced, CompletionBalance, Pollers

(* A new request: the thread that posts it goes on to poll. *)
LEMMA BalanceAfterPost ==
  ASSUME TypeOK, Balanced, NEW t \in Threads, NEW s \in Workers, NEW wr,
         Goto(t, "poll"), pc[t] # "poll", UNCHANGED <<cq, unposted>>,
         posted' = [posted EXCEPT ![s] = Append(@, wr)]
  PROVE  Balanced'
<1>1. Pollers' = Pollers \cup {t} /\ t \notin Pollers
  BY PollersChange DEF Pollers, At
<1>2. /\ Len(posted'[s]) = Len(posted[s]) + 1 /\ Len(posted[s]) \in Nat
      /\ \A u \in Workers \ {s} : posted'[u] = posted[u]
  <2>1. posted[s] \in Seq(WorkRequest) /\ posted'[s] = Append(posted[s], wr)
    BY DEF TypeOK
  <2>2. \A u \in Workers \ {s} : posted'[u] = posted[u]
    BY DEF TypeOK
  <2> QED
    BY <2>1, <2>2
<1> DEFINE new == <<s, Len(posted[s]) + 1>>
<1>3. Outstanding' = Outstanding \cup {new} /\ new \notin Outstanding
  <2>1. ASSUME NEW u \in Workers, u # s
        PROVE  {u} \X (1 .. Len(posted'[u])) = {u} \X (1 .. Len(posted[u]))
    BY <1>2, <2>1
  <2>2. {s} \X (1 .. Len(posted'[s])) = ({s} \X (1 .. Len(posted[s]))) \cup {new}
    BY <1>2
  <2>3. \A u \in Workers : new \notin {u} \X (1 .. Len(posted[u]))
    BY <1>2
  <2>4. new \notin Outstanding
    BY <2>3, Zenon DEF Outstanding
  <2>5. ASSUME NEW x, x \in Outstanding' PROVE x \in Outstanding \cup {new}
    <3>1. PICK u \in Workers : x \in {u} \X (1 .. Len(posted'[u]))
      BY <2>5, Zenon DEF Outstanding
    <3>2. x \in {u} \X (1 .. Len(posted[u])) \/ x = new
      BY <2>1, <2>2, <3>1, Zenon
    <3> QED
      BY <3>2, Zenon DEF Outstanding
  <2>6. ASSUME NEW x, x \in Outstanding \cup {new} PROVE x \in Outstanding'
    <3>1. PICK u \in Workers : x \in {u} \X (1 .. Len(posted'[u]))
      <4>1. CASE x = new
        BY <2>2, <4>1, Zenon
      <4>2. CASE x \in Outstanding
        <5>1. PICK u \in Workers : x \in {u} \X (1 .. Len(posted[u]))
          BY <4>2, Zenon DEF Outstanding
        <5> QED
          BY <2>1, <2>2, <5>1, Zenon
      <4> QED
        BY <2>6, <4>1, <4>2, Zenon
    <3> QED
      BY <3>1, Zenon DEF Outstanding
  <2> QED
    BY <2>4, <2>5, <2>6, Zenon
<1>4. /\ IsFiniteSet(Outstanding') /\ Cardinality(Outstanding') = Cardinality(Outstanding) + 1
      /\ Cardinality(Outstanding) \in Nat
  BY <1>3, FS_AddElement, FS_CardinalityType DEF Balanced
<1>5. Cardinality(Pollers') = Cardinality(Pollers) + 1 /\ Cardinality(Pollers) \in Nat
  BY <1>1, PollersAreFinite, FS_AddElement, FS_CardinalityType
<1>6. cq \in Nat /\ unposted \in Nat
  BY DEF TypeOK
<1> QED
  BY <1>4, <1>5, <1>6 DEF Balanced, CompletionBalance, Pollers

(* A request that was not posted: a poller more, for which nothing comes. *)
LEMMA BalanceAfterFailedPost ==
  ASSUME TypeOK, Balanced, NEW t \in Threads, Goto(t, "poll"), pc[t] # "poll",
         unposted' = unposted + 1, UNCHANGED <<posted, cq>>
  PROVE  Balanced'
<1>1. Pollers' = Pollers \cup {t} /\ t \notin Pollers
  BY PollersChange DEF Pollers, At
<1>2. Outstanding' = Outstanding
  BY DEF Outstanding
<1>3. Cardinality(Pollers') = Cardinality(Pollers) + 1 /\ Cardinality(Pollers) \in Nat
  BY <1>1, PollersAreFinite, FS_AddElement, FS_CardinalityType
<1>4. cq \in Nat /\ unposted \in Nat /\ Cardinality(Outstanding) \in Nat
  BY FS_CardinalityType DEF TypeOK, Balanced
<1> QED
  BY <1>2, <1>3, <1>4 DEF Balanced, CompletionBalance, Pollers

(* A completion that is taken, by whichever thread. *)
LEMMA BalanceAfterPoll ==
  ASSUME TypeOK, Balanced, NEW t \in Threads, NEW l, Goto(t, l),
         pc[t] = "poll", l # "poll", cq > 0, cq' = cq - 1,
         UNCHANGED <<posted, unposted>>
  PROVE  Balanced'
<1>1. Pollers' = Pollers \ {t} /\ t \in Pollers
  BY PollersChange DEF Pollers, At
<1>2. Outstanding' = Outstanding
  BY DEF Outstanding
<1>3. Cardinality(Pollers') = Cardinality(Pollers) - 1 /\ Cardinality(Pollers) \in Nat
  BY <1>1, PollersAreFinite, FS_RemoveElement, FS_CardinalityType
<1>4. cq \in Nat /\ unposted \in Nat /\ Cardinality(Outstanding) \in Nat
  BY FS_CardinalityType DEF TypeOK, Balanced
<1> QED
  BY <1>2, <1>3, <1>4 DEF Balanced, CompletionBalance, Pollers

(* A request that the card is done with, well or not, is a completion. *)
LEMMA BalanceAfterComplete ==
  ASSUME TypeOK, Balanced, NEW s \in Workers, Complete(s), UNCHANGED <<pc, unposted>>
  PROVE  Balanced'
<1>1. Pollers' = Pollers
  BY DEF Pollers, At
<1>2. /\ Len(posted'[s]) = Len(posted[s]) - 1 /\ Len(posted[s]) \in Nat \ {0}
      /\ \A u \in Workers \ {s} : posted'[u] = posted[u]
  <2>1. posted[s] \in Seq(WorkRequest) /\ posted'[s] = Tail(posted[s]) /\ posted[s] # <<>>
    BY DEF TypeOK, Complete
  <2>2. \A u \in Workers \ {s} : posted'[u] = posted[u]
    BY DEF TypeOK, Complete
  <2> QED
    BY <2>1, <2>2
<1> DEFINE old == <<s, Len(posted[s])>>
<1>3. Outstanding' = Outstanding \ {old} /\ old \in Outstanding
  <2>1. ASSUME NEW u \in Workers, u # s
        PROVE  /\ {u} \X (1 .. Len(posted'[u])) = {u} \X (1 .. Len(posted[u]))
               /\ old \notin {u} \X (1 .. Len(posted[u]))
    BY <1>2, <2>1
  <2>2. /\ {s} \X (1 .. Len(posted'[s])) = ({s} \X (1 .. Len(posted[s]))) \ {old}
        /\ old \in {s} \X (1 .. Len(posted[s]))
    BY <1>2
  <2>3. old \in Outstanding
    BY <2>2, Zenon DEF Outstanding
  <2>4. ASSUME NEW x, x \in Outstanding' PROVE x \in Outstanding \ {old}
    <3>1. PICK u \in Workers : x \in {u} \X (1 .. Len(posted'[u]))
      BY <2>4, Zenon DEF Outstanding
    <3>2. x \in {u} \X (1 .. Len(posted[u])) /\ x # old
      BY <2>1, <2>2, <3>1, Zenon
    <3> QED
      BY <3>2, Zenon DEF Outstanding
  <2>5. ASSUME NEW x, x \in Outstanding \ {old} PROVE x \in Outstanding'
    <3>1. PICK u \in Workers : x \in {u} \X (1 .. Len(posted[u]))
      BY <2>5, Zenon DEF Outstanding
    <3>2. x \in {u} \X (1 .. Len(posted'[u]))
      BY <2>1, <2>2, <2>5, <3>1, Zenon
    <3> QED
      BY <3>2, Zenon DEF Outstanding
  <2> QED
    BY <2>3, <2>4, <2>5, Zenon
<1>4. /\ IsFiniteSet(Outstanding') /\ Cardinality(Outstanding') = Cardinality(Outstanding) - 1
      /\ Cardinality(Outstanding) \in Nat
  BY <1>3, FS_RemoveElement, FS_CardinalityType DEF Balanced
<1>5. cq \in Nat /\ unposted \in Nat /\ cq' = cq + 1
  BY DEF TypeOK, Complete
<1>6. cq' + Cardinality(Outstanding') + unposted = cq + Cardinality(Outstanding) + unposted
  BY <1>4, <1>5
<1> QED
  BY <1>1, <1>4, <1>6 DEF Balanced, CompletionBalance, Pollers

-----------------------------------------------------------------------------
(* Finitely many callers are between the two steps of PushPolling. *)
LEMMA AddersAreFinite ==
  ASSUME NEW w
  PROVE  IsFiniteSet(Adding(w)) /\ Cardinality(Adding(w)) \in Nat
<1>1. IsFiniteSet(Callers)
  BY TransferAssumption
<1>2. Adding(w) \in SUBSET Callers
  BY DEF Adding
<1>3. IsFiniteSet(Adding(w))
  BY <1>1, <1>2, FS_Subset
<1> QED
  BY <1>3, FS_CardinalityType

(* Steps outside PushPolling and PopPolling. *)
LEMMA OffsetUndisturbed ==
  ASSUME TypeOK, OffsetCounts, NEW t \in Threads, NEW l, Goto(t, l),
         pc[t] \notin {"add", "sub"}, l \notin {"add", "sub"},
         UNCHANGED <<queue, offset>>,
         \A d \in Callers \ {t} : next'[d] = next[d]
  PROVE  OffsetCounts'
<1>1. pc'[t] = l /\ \A u \in Threads \ {t} : pc'[u] = pc[u]
  BY DEF TypeOK, Goto
<1>2. ASSUME NEW w \in Workers PROVE Counted(w)' = Counted(w) /\ (At(w, "sub")' <=> At(w, "sub"))
  <2>1. At(w, "sub")' <=> At(w, "sub")
    BY <1>1 DEF At, Threads
  <2>2. \A d \in Callers : (At(d, "add") /\ next[d] = w)' <=> At(d, "add") /\ next[d] = w
    BY <1>1 DEF At, Threads
  <2>3. Adding(w)' = Adding(w)
    BY <2>2 DEF Adding
  <2> QED
    BY <2>1, <2>3 DEF Counted
<1> QED
  BY <1>2 DEF OffsetCounts

(* Of the types and the shape, what a step of a thread has to show. *)
LEMMA ThreadShape ==
  ASSUME TypeOK, Shape, NEW t \in Threads, NEW l, Goto(t, l),
         UNCHANGED <<tasks, posted>>,
         \A u \in Threads \ {t} : job'[u] = job[u] /\ done'[u] = done[u],
         \A d \in Callers \ {t} : next'[d] = next[d],
         job'[t].base + job'[t].size <= Cells,
         l \in Sending => done'[t] <= job'[t].size,
         l \in {"post", "poll", "copy"} => done'[t] < job'[t].size,
         t \in Callers => /\ l # "sub"
                          /\ l \in {"push", "add"} => next'[t] < WORKER_NUMBER
                          /\ l \in {"push", "add", "wait"} => job'[t].base = 0,
         t \in Workers => l \notin {"push", "add", "wait"}
  PROVE  Shape'
<1>1. pc'[t] = l /\ \A u \in Threads \ {t} : pc'[u] = pc[u]
  BY DEF TypeOK, Goto
<1>2. ASSUME NEW u \in Threads
      PROVE  /\ job'[u].base + job'[u].size <= Cells
             /\ pc'[u] \in Sending => done'[u] <= job'[u].size
             /\ pc'[u] \in {"post", "poll", "copy"} => done'[u] < job'[u].size
  <2>1. CASE u = t
    BY <1>1, <2>1
  <2>2. CASE u # t
    BY <1>1, <2>2 DEF Shape, More
  <2> QED
    BY <2>1, <2>2
<1>3. ASSUME NEW c \in Callers
      PROVE  /\ \A w \in Workers : tasks'[c][w].base + tasks'[c][w].size <= Cells
             /\ pc'[c] # "sub"
             /\ pc'[c] \in {"push", "add"} => next'[c] < WORKER_NUMBER
             /\ InLargeCall(c)' => job'[c].base = 0
  <2>1. CASE c = t
    BY <1>1, <2>1 DEF Shape, InLargeCall
  <2>2. CASE c # t
    BY <1>1, <2>2 DEF Shape, InLargeCall, Threads
  <2> QED
    BY <2>1, <2>2
<1>4. ASSUME NEW w \in Workers
      PROVE  /\ pc'[w] \notin {"push", "add", "wait"}
             /\ \A i \in 1 .. Len(posted'[w]) :
                  posted'[w][i].at + posted'[w][i].len <= Cells
  <2>1. pc'[w] = l \/ pc'[w] = pc[w]
    BY <1>1 DEF Threads
  <2> QED
    BY <1>1, <2>1 DEF Shape, Threads
<1> QED
  BY <1>2, <1>3, <1>4 DEF Shape, More

(* RemoteRead and RemoteWrite begin. *)
LEMMA CallKeepsInv ==
  ASSUME TransferInv, NEW c \in Callers, NEW r \in Requests,
         CallSmall(c, r) \/ CallLarge(c, r)
  PROVE  TransferInv'
<1> USE DEF TransferInv
<1>0. c \in Threads /\ r.write \in BOOLEAN /\ r.size \in 1 .. Cells
  BY TransferAssumption DEF Threads
<1>1. /\ pc[c] = "idle" /\ calls < MaxCalls
      /\ job' = [job EXCEPT ![c] = Whole(c, r)]
      /\ user' = [user EXCEPT ![c] = UserBuffer(r.write)]
      /\ calls' = calls + 1 /\ shared' \in BOOLEAN
      /\ UNCHANGED <<tasks, queueVars, nicVars, bounce, remote>>
  BY DEF CallSmall, CallLarge, Enter, At, stackVars
<1>2. PICK l \in {"loop", "push"} :
        /\ Goto(c, l)
        /\ l = "loop" => /\ done' = [done EXCEPT ![c] = 0]
                         /\ next' = next /\ TransferSignal' = TransferSignal
        /\ l = "push" => /\ next' = [next EXCEPT ![c] = 0]
                         /\ done' = done /\ TransferSignal' = 0
  BY DEF CallSmall, CallLarge, stackVars
<1>3. Whole(c, r) \in TransferTask
  <2>1. 0 \in 0 .. Cells /\ r.size \in 0 .. Cells
    BY <1>0, TransferAssumption
  <2> QED
    BY <1>0, <2>1 DEF Whole, TransferTask
<1>4. job'[c] = Whole(c, r) /\ \A u \in Threads \ {c} : job'[u] = job[u] /\ done'[u] = done[u]
  BY <1>0, <1>1, <1>2 DEF TypeOK
<1>5. UserBuffer(r.write) \in [Cell -> Value]
  <2>1. calls \in 0 .. MaxCalls /\ calls < MaxCalls
    BY <1>1 DEF TypeOK
  <2>2. calls + 1 \in 0 .. MaxCalls
    BY <2>1, TransferAssumption
  <2> QED
    BY <2>2 DEF UserBuffer, Value
<1>6. TypeOK'
  <2>1. 0 \in 0 .. Cells /\ 0 \in 0 .. WORKER_NUMBER /\ 0 \in 0 .. SignalWrap - 1
    BY TransferAssumption
  <2>2. pc' \in [Threads -> {"idle", "push", "add", "wait", "sub", "loop",
                             "post", "poll", "copy"}]
    BY <1>2 DEF TypeOK, Goto
  <2>3. job' \in [Threads -> TransferTask] /\ done' \in [Threads -> 0 .. Cells]
        /\ next' \in [Callers -> 0 .. WORKER_NUMBER]
        /\ TransferSignal' \in 0 .. SignalWrap - 1
    <3>1. job' \in [Threads -> TransferTask]
      BY <1>1, <1>3 DEF TypeOK
    <3>2. CASE l = "loop"
      BY <1>2, <2>1, <3>1, <3>2 DEF TypeOK
    <3>3. CASE l = "push"
      <4>1. next' = [next EXCEPT ![c] = 0] /\ done' = done /\ TransferSignal' = 0
        BY <1>2, <3>3
      <4>2. next' \in [Callers -> 0 .. WORKER_NUMBER]
        BY <2>1, <4>1 DEF TypeOK
      <4> QED
        BY <2>1, <3>1, <4>1, <4>2 DEF TypeOK
    <3> QED
      BY <3>2, <3>3
  <2>4. user' \in [Callers -> [Cell -> Value]] /\ calls' \in 0 .. MaxCalls
    BY <1>1, <1>5, TransferAssumption DEF TypeOK
  <2> QED
    BY <1>1, <2>2, <2>3, <2>4 DEF TypeOK, queueVars, nicVars
<1>7. Shape'
  <2>1. /\ job'[c].base = 0 /\ job'[c].size = r.size
    BY <1>4 DEF Whole
  <2>2. l = "loop" => done'[c] = 0
    BY <1>0, <1>2 DEF TypeOK
  <2>3. l = "push" => next'[c] = 0
    BY <1>2 DEF TypeOK
  <2>4. \A d \in Callers \ {c} : next'[d] = next[d]
    BY <1>2 DEF TypeOK
  <2>5. c \notin Workers
    BY ThreadsApart
  <2> QED
    BY <1>0, <1>1, <1>2, <1>4, <2>1, <2>2, <2>3, <2>4, <2>5, ThreadShape,
       TransferAssumption DEF Sending, nicVars
<1>8. OffsetCounts'
  <2>1. \A d \in Callers \ {c} : next'[d] = next[d]
    BY <1>2 DEF TypeOK
  <2> QED
    BY <1>0, <1>1, <1>2, <2>1, OffsetUndisturbed DEF queueVars
<1>9. Balanced'
  BY <1>0, <1>1, <1>2, BalanceUndisturbed DEF nicVars
<1> QED
  BY <1>6, <1>7, <1>8, <1>9

(* PushPolling. *)
LEMMA PushBackKeepsInv ==
  ASSUME TransferInv, NEW c \in Callers, PushBack(c)
  PROVE  TransferInv'
<1> USE DEF TransferInv
<1>0. c \in Threads /\ c \notin Workers
  BY ThreadsApart DEF Threads
<1>1. PICK i \in Workers :
        /\ i = next[c] /\ pc[c] = "push"
        /\ tasks' = [tasks EXCEPT ![c][i] = Part(i, job[c])]
        /\ queue' = [queue EXCEPT ![i] = Append(@, c)]
  <2>1. next[c] \in 0 .. WORKER_NUMBER /\ next[c] < WORKER_NUMBER
    BY DEF PushBack, TypeOK, Shape, At
  <2>2. next[c] \in Workers
    BY <2>1, TransferAssumption DEF Workers
  <2> QED
    BY <2>2 DEF PushBack, At
<1>2. Goto(c, "add") /\ UNCHANGED <<job, done, next, offset, held, TransferSignal,
                                    nicVars, memVars, useVars>>
  BY DEF PushBack
<1>3. pc'[c] = "add" /\ \A u \in Threads \ {c} : pc'[u] = pc[u]
  BY <1>0, <1>2 DEF TypeOK, Goto
<1>4. /\ Part(i, job[c]) \in TransferTask
      /\ Part(i, job[c]).base + Part(i, job[c]).size <= Cells
  <2>1. job[c] \in TransferTask /\ job[c].base = 0
    BY <1>0, <1>1 DEF TypeOK, Shape, InLargeCall
  <2> QED
    BY <2>1, PartFits
<1>5. \A d \in Callers, w \in Workers :
        tasks'[d][w] = IF d = c /\ w = i THEN Part(i, job[c]) ELSE tasks[d][w]
  BY <1>1 DEF TypeOK
<1>6. /\ queue'[i] = Append(queue[i], c) /\ Len(queue'[i]) = Len(queue[i]) + 1
      /\ Len(queue[i]) \in Nat /\ queue' \in [Workers -> Seq(Callers)]
      /\ \A w \in Workers \ {i} : queue'[w] = queue[w]
  <2>1. queue[i] \in Seq(Callers) /\ Append(queue[i], c) \in Seq(Callers)
    BY DEF TypeOK
  <2>2. queue'[i] = Append(queue[i], c)
    BY <1>1 DEF TypeOK
  <2>3. queue' \in [Workers -> Seq(Callers)] /\ \A w \in Workers \ {i} : queue'[w] = queue[w]
    BY <1>1, <2>1 DEF TypeOK
  <2> QED
    BY <2>1, <2>2, <2>3
<1>7. TypeOK'
  <2>1. tasks' \in [Callers -> [Workers -> TransferTask]]
    BY <1>1, <1>4 DEF TypeOK
  <2>2. pc' \in [Threads -> {"idle", "push", "add", "wait", "sub", "loop",
                             "post", "poll", "copy"}]
    BY <1>2 DEF TypeOK, Goto
  <2> QED
    BY <1>2, <1>6, <2>1, <2>2 DEF TypeOK, nicVars, memVars, useVars
<1>8. Shape'
  <2>1. \A d \in Callers, w \in Workers : tasks'[d][w].base + tasks'[d][w].size <= Cells
    BY <1>4, <1>5 DEF Shape
  <2>2. \A u \in Threads : pc'[u] = pc[u] \/ (u = c /\ pc'[u] = "add" /\ pc[u] = "push")
    BY <1>1, <1>3
  <2> QED
    BY <1>0, <1>2, <2>1, <2>2
       DEF Shape, More, InLargeCall, Sending, nicVars, Threads
<1>9. OffsetCounts'
  <2>1. ASSUME NEW w \in Workers
        PROVE  Counted(w)' = Counted(w) /\ (At(w, "sub")' <=> At(w, "sub"))
    <3>1. At(w, "sub")' <=> At(w, "sub")
      BY <1>0, <1>3 DEF At, Threads
    <3>2. CASE w = i
      <4>1. Adding(w)' = Adding(w) \cup {c} /\ c \notin Adding(w)
        BY <1>0, <1>1, <1>2, <1>3, <3>2 DEF Adding, At, Threads
      <4>2. Cardinality(Adding(w)') = Cardinality(Adding(w)) + 1
            /\ Cardinality(Adding(w)) \in Nat
        BY <4>1, AddersAreFinite, FS_AddElement
      <4> QED
        BY <1>6, <3>1, <3>2, <4>2 DEF Counted
    <3>3. CASE w # i
      <4>1. Adding(w)' = Adding(w)
        BY <1>0, <1>1, <1>2, <1>3, <3>3 DEF Adding, At, Threads
      <4> QED
        BY <1>6, <3>1, <3>3, <4>1 DEF Counted
    <3> QED
      BY <3>2, <3>3
  <2> QED
    BY <1>2, <2>1 DEF OffsetCounts
<1>10. Balanced'
  BY <1>0, <1>1, <1>2, BalanceUndisturbed DEF nicVars
<1> QED
  BY <1>7, <1>8, <1>9, <1>10

(* The caller counts the task it has pushed; only then does the worker see it. *)
LEMMA AddOffsetKeepsInv ==
  ASSUME TransferInv, NEW c \in Callers, AddOffset(c)
  PROVE  TransferInv'
<1> USE DEF TransferInv
<1>0. c \in Threads /\ c \notin Workers
  BY ThreadsApart DEF Threads
<1>1. PICK i \in Workers :
        /\ i = next[c] /\ pc[c] = "add"
        /\ offset' = [offset EXCEPT ![i] = (@ + 1) % OffsetWrap]
        /\ next' = [next EXCEPT ![c] = i + 1]
        /\ Goto(c, IF i + 1 < WORKER_NUMBER THEN "push" ELSE "wait")
  <2>1. next[c] \in 0 .. WORKER_NUMBER /\ next[c] < WORKER_NUMBER
    BY DEF AddOffset, TypeOK, Shape, At
  <2>2. next[c] \in Workers
    BY <2>1, TransferAssumption DEF Workers
  <2> QED
    BY <2>2 DEF AddOffset, At
<1>2. UNCHANGED <<job, done, tasks, queue, held, TransferSignal, nicVars,
                  memVars, useVars>>
  BY DEF AddOffset
<1>3. PICK l \in {"push", "wait"} : Goto(c, l) /\ (l = "push" => i + 1 < WORKER_NUMBER)
  BY <1>1
<1>4. pc'[c] = l /\ \A u \in Threads \ {c} : pc'[u] = pc[u]
  BY <1>0, <1>3 DEF TypeOK, Goto
<1>5. next'[c] = i + 1 /\ \A d \in Callers \ {c} : next'[d] = next[d]
  BY <1>1 DEF TypeOK
<1>6. /\ Counted(i) \in Nat /\ offset[i] = Counted(i) % OffsetWrap
      /\ offset'[i] = (Counted(i) + 1) % OffsetWrap
      /\ offset'[i] \in 0 .. OffsetWrap - 1
      /\ \A w \in Workers \ {i} : offset'[w] = offset[w]
  <2>1. Counted(i) \in Nat /\ offset[i] = Counted(i) % OffsetWrap
    BY DEF OffsetCounts
  <2>2. OffsetWrap \in Nat /\ OffsetWrap > 1 /\ Counted(i) + 1 \in Nat
    BY <2>1, TransferAssumption
  <2>3. ((Counted(i) % OffsetWrap) + 1) % OffsetWrap = (Counted(i) + 1) % OffsetWrap
    BY <2>1, <2>2, ModStep
  <2>4. (Counted(i) + 1) % OffsetWrap \in 0 .. OffsetWrap - 1
    BY <2>2, ModStep
  <2>5. /\ offset'[i] = (offset[i] + 1) % OffsetWrap
        /\ \A w \in Workers \ {i} : offset'[w] = offset[w]
    BY <1>1 DEF TypeOK
  <2> QED
    BY <2>1, <2>3, <2>4, <2>5, Zenon
<1>7. TypeOK'
  <2>1. offset' \in [Workers -> 0 .. OffsetWrap - 1]
    <3>1. \A w \in Workers : offset'[w] \in 0 .. OffsetWrap - 1
      BY <1>6 DEF TypeOK
    <3>2. offset' = [w \in Workers |-> offset'[w]]
      BY <1>1 DEF TypeOK
    <3> QED
      BY <3>1, <3>2
  <2>2. next' \in [Callers -> 0 .. WORKER_NUMBER]
    <3>1. i + 1 \in 0 .. WORKER_NUMBER
      BY TransferAssumption DEF Workers
    <3> QED
      BY <1>1, <3>1 DEF TypeOK
  <2>3. pc' \in [Threads -> {"idle", "push", "add", "wait", "sub", "loop",
                             "post", "poll", "copy"}]
    BY <1>3 DEF TypeOK, Goto
  <2> QED
    BY <1>2, <2>1, <2>2, <2>3 DEF TypeOK, nicVars, memVars, useVars
<1>8. Shape'
  <2>1. job'[c].base = 0 /\ job'[c].base + job'[c].size <= Cells
    BY <1>0, <1>1, <1>2 DEF Shape, InLargeCall
  <2> QED
    BY <1>0, <1>2, <1>3, <1>5, <2>1, ThreadShape DEF Sending, nicVars
<1>9. OffsetCounts'
  <2>1. ASSUME NEW w \in Workers PROVE At(w, "sub")' <=> At(w, "sub")
    BY <1>0, <1>4 DEF At, Threads
  <2>2. Counted(i)' = Counted(i) + 1
    <3>1. Adding(i)' = Adding(i) \ {c} /\ c \in Adding(i)
      BY <1>0, <1>1, <1>4, <1>5 DEF Adding, At, Threads
    <3>2. Cardinality(Adding(i)') = Cardinality(Adding(i)) - 1
          /\ Cardinality(Adding(i)) \in Nat
      BY <3>1, AddersAreFinite, FS_RemoveElement
    <3>3. Len(queue[i]) \in Nat
      BY DEF TypeOK
    <3> QED
      BY <1>2, <2>1, <3>2, <3>3 DEF Counted
  <2>3. ASSUME NEW w \in Workers, w # i PROVE Counted(w)' = Counted(w)
    <3>1. i + 1 # i
      BY DEF Workers
    <3>2. Adding(w)' = Adding(w)
      BY <1>0, <1>1, <1>4, <1>5, <2>3 DEF Adding, At, Threads
    <3> QED
      BY <1>2, <2>1, <3>2 DEF Counted
  <2>4. Counted(i) + 1 \in Nat /\ Counted(i) + 1 > 0
    BY <1>6
  <2>5. ASSUME NEW w \in Workers
        PROVE  /\ Counted(w)' \in Nat
               /\ offset'[w] = Counted(w)' % OffsetWrap
               /\ At(w, "sub")' => Counted(w)' > 0
    <3>1. CASE w = i
      BY <1>6, <2>2, <2>4, <3>1
    <3>2. CASE w # i
      BY <1>6, <2>1, <2>3, <3>2 DEF OffsetCounts
    <3> QED
      BY <3>1, <3>2
  <2> QED
    BY <2>5 DEF OffsetCounts
<1>10. Balanced'
  BY <1>0, <1>1, <1>2, <1>3, BalanceUndisturbed DEF nicVars
<1> QED
  BY <1>7, <1>8, <1>9, <1>10

(* A call returns: it leaves everything but the place of its thread. *)
LEMMA ReturnKeepsInv ==
  ASSUME TransferInv, NEW t \in Threads, pc[t] \in {"wait", "loop"},
         Goto(t, "idle"), TransferSignal' \in 0 .. SignalWrap - 1,
         UNCHANGED <<job, done, stackVars, queueVars, nicVars, memVars, useVars>>
  PROVE  TransferInv'
<1> USE DEF TransferInv
<1>1. TypeOK'
  <2>1. pc' \in [Threads -> {"idle", "push", "add", "wait", "sub", "loop",
                             "post", "poll", "copy"}]
    BY DEF TypeOK, Goto
  <2> QED
    BY <2>1 DEF TypeOK, stackVars, queueVars, nicVars, memVars, useVars
<1>2. Shape'
  <2>1. job'[t].base + job'[t].size <= Cells
    BY DEF Shape
  <2> QED
    BY <2>1, ThreadShape DEF Sending, nicVars, stackVars
<1>3. OffsetCounts'
  BY OffsetUndisturbed DEF queueVars, stackVars
<1>4. Balanced'
  BY BalanceUndisturbed DEF nicVars
<1> QED
  BY <1>1, <1>2, <1>3, <1>4

(* PopPolling: there is a task to take when the counter says so. *)
LEMMA TakeFrontKeepsInv ==
  ASSUME TransferInv, NEW w \in Workers, TakeFront(w)
  PROVE  TransferInv' /\ queue[w] # << >>
<1> USE DEF TransferInv
<1>0. w \in Threads /\ w \notin Callers
  BY ThreadsApart DEF Threads
<1>1. /\ pc[w] = "idle" /\ offset[w] # 0 /\ Goto(w, "sub")
      /\ held' = [held EXCEPT ![w] = Head(queue[w])]
      /\ queue' = [queue EXCEPT ![w] = Tail(@)]
      /\ UNCHANGED <<job, done, stackVars, offset, TransferSignal, nicVars,
                     memVars, useVars>>
  BY DEF TakeFront, At
<1>2. pc'[w] = "sub" /\ \A u \in Threads \ {w} : pc'[u] = pc[u]
  BY <1>0, <1>1 DEF TypeOK, Goto
<1>3. Counted(w) \in Nat /\ Counted(w) > 0
  <2>1. Counted(w) \in Nat /\ offset[w] = Counted(w) % OffsetWrap
    BY DEF OffsetCounts
  <2>2. OffsetWrap \in Nat /\ OffsetWrap > 1
    BY TransferAssumption
  <2> QED
    BY <1>1, <2>1, <2>2, ModStep
<1>4. /\ queue[w] \in Seq(Callers) /\ Len(queue[w]) \in Nat
      /\ Counted(w) = Len(queue[w]) - Cardinality(Adding(w))
      /\ Cardinality(Adding(w)) \in Nat
  BY <1>1, AddersAreFinite DEF TypeOK, Counted, At
<1>5. /\ queue[w] # << >> /\ Head(queue[w]) \in Callers
      /\ Tail(queue[w]) \in Seq(Callers) /\ Len(Tail(queue[w])) = Len(queue[w]) - 1
  <2>1. Len(queue[w]) > 0
    BY <1>3, <1>4
  <2> QED
    BY <1>4, <2>1
<1>6. TypeOK'
  <2>1. held' \in [Workers -> Callers] /\ queue' \in [Workers -> Seq(Callers)]
    BY <1>1, <1>5 DEF TypeOK
  <2>2. pc' \in [Threads -> {"idle", "push", "add", "wait", "sub", "loop",
                             "post", "poll", "copy"}]
    BY <1>1 DEF TypeOK, Goto
  <2> QED
    BY <1>1, <2>1, <2>2 DEF TypeOK, stackVars, nicVars, memVars, useVars
<1>7. Shape'
  <2>1. job'[w].base + job'[w].size <= Cells
    BY <1>0, <1>1 DEF Shape
  <2> QED
    BY <1>0, <1>1, <2>1, ThreadShape DEF Sending, nicVars, stackVars
<1>8. OffsetCounts'
  <2>1. ASSUME NEW u \in Workers
        PROVE Adding(u)' = Adding(u)
    BY <1>0, <1>1, <1>2 DEF Adding, At, Threads, stackVars
  <2>2. queue'[w] = Tail(queue[w]) /\ \A u \in Workers \ {w} : queue'[u] = queue[u]
    BY <1>1 DEF TypeOK
  <2>3. Counted(w)' = Counted(w)
    BY <1>2, <1>4, <1>5, <2>1, <2>2 DEF Counted, At
  <2>4. ASSUME NEW u \in Workers, u # w
        PROVE  Counted(u)' = Counted(u) /\ (At(u, "sub")' <=> At(u, "sub"))
    BY <1>2, <2>1, <2>2, <2>4 DEF Counted, At, Threads
  <2> QED
    BY <1>1, <1>3, <2>3, <2>4 DEF OffsetCounts
<1>9. Balanced'
  BY <1>0, <1>1, BalanceUndisturbed DEF nicVars
<1> QED
  BY <1>5, <1>6, <1>7, <1>8, <1>9

(* The worker reads its task from the caller's stack. *)
LEMMA SubOffsetKeepsInv ==
  ASSUME TransferInv, NEW w \in Workers, SubOffset(w)
  PROVE  TransferInv'
<1> USE DEF TransferInv
<1>0. w \in Threads /\ w \notin Callers
  BY ThreadsApart DEF Threads
<1>1. /\ pc[w] = "sub" /\ Goto(w, "loop")
      /\ offset' = [offset EXCEPT ![w] = (@ + OffsetWrap - 1) % OffsetWrap]
      /\ job' = [job EXCEPT ![w] = tasks[held[w]][w]]
      /\ done' = [done EXCEPT ![w] = 0]
      /\ UNCHANGED <<stackVars, queue, held, TransferSignal, nicVars, memVars, useVars>>
  BY DEF SubOffset, At
<1>2. pc'[w] = "loop" /\ \A u \in Threads \ {w} : pc'[u] = pc[u]
  BY <1>0, <1>1 DEF TypeOK, Goto
<1>3. /\ job'[w] = tasks[held[w]][w] /\ done'[w] = 0
      /\ \A u \in Threads \ {w} : job'[u] = job[u] /\ done'[u] = done[u]
      /\ held[w] \in Callers /\ tasks[held[w]][w] \in TransferTask
  BY <1>0, <1>1 DEF TypeOK
<1>4. /\ Counted(w) \in Nat /\ Counted(w) > 0 /\ Counted(w) - 1 \in Nat
      /\ offset'[w] = (Counted(w) - 1) % OffsetWrap
      /\ offset'[w] \in 0 .. OffsetWrap - 1
      /\ \A u \in Workers \ {w} : offset'[u] = offset[u]
  <2>1. /\ Counted(w) \in Nat /\ Counted(w) > 0 /\ Counted(w) - 1 \in Nat
        /\ offset[w] = Counted(w) % OffsetWrap
    BY <1>1 DEF OffsetCounts, At
  <2>2. OffsetWrap \in Nat /\ OffsetWrap > 1
    BY TransferAssumption
  <2>3. ((Counted(w) % OffsetWrap) + OffsetWrap - 1) % OffsetWrap
          = (Counted(w) - 1) % OffsetWrap
    BY <2>1, <2>2, ModStep
  <2>4. (Counted(w) - 1) % OffsetWrap \in 0 .. OffsetWrap - 1
    BY <2>1, <2>2, ModStep
  <2>5. /\ offset'[w] = (offset[w] + OffsetWrap - 1) % OffsetWrap
        /\ \A u \in Workers \ {w} : offset'[u] = offset[u]
    BY <1>1 DEF TypeOK
  <2> QED
    BY <2>1, <2>3, <2>4, <2>5, Zenon
<1>5. TypeOK'
  <2>1. offset' \in [Workers -> 0 .. OffsetWrap - 1]
    <3>1. \A u \in Workers : offset'[u] \in 0 .. OffsetWrap - 1
      BY <1>4 DEF TypeOK
    <3>2. offset' = [u \in Workers |-> offset'[u]]
      BY <1>1 DEF TypeOK
    <3> QED
      BY <3>1, <3>2
  <2>2. job' \in [Threads -> TransferTask] /\ done' \in [Threads -> 0 .. Cells]
    <3>1. 0 \in 0 .. Cells
      BY TransferAssumption
    <3> QED
      BY <1>1, <1>3, <3>1 DEF TypeOK
  <2>3. pc' \in [Threads -> {"idle", "push", "add", "wait", "sub", "loop",
                             "post", "poll", "copy"}]
    BY <1>1 DEF TypeOK, Goto
  <2> QED
    BY <1>1, <2>1, <2>2, <2>3 DEF TypeOK, stackVars, nicVars, memVars, useVars
<1>6. Shape'
  <2>1. job'[w].base + job'[w].size <= Cells /\ done'[w] <= job'[w].size
    BY <1>3 DEF Shape, TransferTask
  <2> QED
    BY <1>0, <1>1, <1>3, <2>1, ThreadShape DEF Sending, nicVars, stackVars
<1>7. OffsetCounts'
  <2>1. ASSUME NEW u \in Workers
        PROVE Adding(u)' = Adding(u)
    BY <1>0, <1>1, <1>2 DEF Adding, At, Threads, stackVars
  <2>2. Counted(w)' = Counted(w) - 1 /\ ~ At(w, "sub")'
    <3>1. Len(queue[w]) \in Nat /\ Cardinality(Adding(w)) \in Nat
      BY AddersAreFinite DEF TypeOK
    <3> QED
      BY <1>1, <1>2, <2>1, <3>1 DEF Counted, At
  <2>3. ASSUME NEW u \in Workers, u # w
        PROVE  Counted(u)' = Counted(u) /\ (At(u, "sub")' <=> At(u, "sub"))
    BY <1>1, <1>2, <2>1, <2>3 DEF Counted, At, Threads
  <2> QED
    BY <1>4, <2>2, <2>3 DEF OffsetCounts
<1>8. Balanced'
  BY <1>0, <1>1, BalanceUndisturbed DEF nicVars
<1> QED
  BY <1>5, <1>6, <1>7, <1>8

(* The copies to and from a bounce buffer. *)
LEMMA CopyKeepsInv ==
  ASSUME TransferInv, NEW t \in Threads, CopyIn(t) \/ CopyOut(t)
  PROVE  TransferInv'
<1> USE DEF TransferInv
<1>0. TaskID(t) \in Workers /\ job[t].owner \in Callers
  BY ThreadsApart DEF TypeOK, TransferTask
<1>1. pc[t] \in {"loop", "copy"} /\ More(t)
  BY DEF CopyIn, CopyOut, At, Shape
<1>2. /\ SendSize(t) \in 1 .. Cells
      /\ done[t] \in Nat /\ done[t] + SendSize(t) <= job[t].size
      /\ job[t].base + done[t] \in Cell
      /\ (job[t].base + done[t]) + SendSize(t) <= Cells
  BY <1>1, PieceFits DEF Sending
<1>3. PICK l \in {"post", "loop"} :
        /\ Goto(t, l)
        /\ done' = done \/ (l = "loop" /\ done' = [done EXCEPT ![t] = @ + SendSize(t)])
        /\ l = "post" => done' = done
  BY DEF CopyIn, CopyOut
<1>4. UNCHANGED <<job, stackVars, queueVars, TransferSignal, nicVars, remote, useVars>>
  BY DEF CopyIn, CopyOut
<1>5. job[t].size \in 0 .. Cells /\ done[t] \in 0 .. Cells /\ Cells \in Nat
  BY TransferAssumption DEF TypeOK, TransferTask
<1>6. /\ done'[t] \in 0 .. Cells /\ done'[t] <= job[t].size
      /\ (l = "post" => done'[t] < job[t].size)
      /\ \A u \in Threads \ {t} : done'[u] = done[u]
      /\ done' \in [Threads -> 0 .. Cells]
  <2>1. done[t] + SendSize(t) \in 0 .. Cells
    BY <1>2, <1>5
  <2>2. CASE done' = done
    BY <1>1, <1>5, <2>2 DEF TypeOK, More
  <2>3. CASE l = "loop" /\ done' = [done EXCEPT ![t] = @ + SendSize(t)]
    BY <1>2, <2>1, <2>3 DEF TypeOK
  <2> QED
    BY <1>3, <2>2, <2>3
<1>7. user' \in [Callers -> [Cell -> Value]] /\ bounce' \in [Workers -> [Cell -> Value]]
  <2>1. /\ user \in [Callers -> [Cell -> Value]] /\ bounce \in [Workers -> [Cell -> Value]]
        /\ user[job[t].owner] \in [Cell -> Value] /\ bounce[TaskID(t)] \in [Cell -> Value]
    BY <1>0 DEF TypeOK
  <2>2. /\ job[t].base + done[t] \in Nat /\ SendSize(t) \in Nat /\ 0 \in Nat
        /\ 0 + SendSize(t) <= Cells
    BY <1>2, <1>5 DEF Cell
  <2>3. CASE CopyIn(t)
    <3>1. Copied(bounce[TaskID(t)], 0, user[job[t].owner], job[t].base + done[t],
                 SendSize(t)) \in [Cell -> Value]
      BY <1>2, <2>1, <2>2, CopiedCells
    <3>2. /\ bounce' = [bounce EXCEPT ![TaskID(t)] =
                Copied(bounce[TaskID(t)], 0, user[job[t].owner],
                       job[t].base + done[t], SendSize(t))]
          /\ user' = user
      BY <2>3 DEF CopyIn
    <3> QED
      BY <2>1, <3>1, <3>2
  <2>4. CASE CopyOut(t)
    <3>1. Copied(user[job[t].owner], job[t].base + done[t], bounce[TaskID(t)], 0,
                 SendSize(t)) \in [Cell -> Value]
      BY <1>2, <2>1, <2>2, CopiedCells
    <3>2. /\ user' = [user EXCEPT ![job[t].owner] =
                Copied(user[job[t].owner], job[t].base + done[t], bounce[TaskID(t)],
                       0, SendSize(t))]
          /\ bounce' = bounce
      BY <2>4 DEF CopyOut
    <3> QED
      BY <2>1, <3>1, <3>2
  <2> QED
    BY <2>3, <2>4
<1>8. TypeOK'
  <2>1. pc' \in [Threads -> {"idle", "push", "add", "wait", "sub", "loop",
                             "post", "poll", "copy"}]
    BY <1>3 DEF TypeOK, Goto
  <2> QED
    BY <1>4, <1>6, <1>7, <2>1 DEF TypeOK, stackVars, queueVars, nicVars, useVars
<1>9. Shape'
  <2>1. job'[t].base + job'[t].size <= Cells /\ job'[t] = job[t]
    BY <1>4 DEF Shape
  <2> QED
    BY <1>3, <1>4, <1>6, <2>1, ThreadShape DEF Sending, nicVars, stackVars
<1>10. OffsetCounts'
  BY <1>1, <1>3, <1>4, OffsetUndisturbed DEF queueVars, stackVars
<1>11. Balanced'
  BY <1>1, <1>3, <1>4, BalanceUndisturbed DEF nicVars
<1> QED
  BY <1>8, <1>9, <1>10, <1>11

(* RdmaRead and RdmaWrite. *)
LEMMA PostKeepsInv ==
  ASSUME TransferInv, NEW t \in Threads, Post(t)
  PROVE  TransferInv'
<1> USE DEF TransferInv
<1> DEFINE wr == [write |-> job[t].write, owner |-> job[t].owner,
                  at |-> job[t].base + done[t], len |-> SendSize(t)]
<1>0. PICK s \in Workers : s = TaskID(t)
  BY ThreadsApart
<1>1. pc[t] \in {"loop", "post"} /\ More(t)
  BY DEF Post, MayPost, At, Shape
<1>2. /\ Goto(t, "poll")
      /\ posted' = [posted EXCEPT ![s] = Append(@, wr)]
      /\ UNCHANGED <<job, done, stackVars, queueVars, TransferSignal, cq, broken,
                     unposted, memVars, useVars>>
  BY <1>0 DEF Post
<1>3. /\ SendSize(t) \in 1 .. Cells
      /\ job[t].base + done[t] \in Cell
      /\ (job[t].base + done[t]) + SendSize(t) <= Cells
  BY <1>1, PieceFits DEF Sending
<1>4. wr \in WorkRequest /\ wr.at + wr.len <= Cells
  BY <1>3 DEF TypeOK, TransferTask, WorkRequest
<1> HIDE DEF wr
<1>5. posted[s] \in Seq(WorkRequest) /\ posted'[s] = Append(posted[s], wr)
      /\ \A u \in Workers \ {s} : posted'[u] = posted[u]
  BY <1>2 DEF TypeOK
<1>6. TypeOK'
  <2>1. Append(posted[s], wr) \in Seq(WorkRequest)
    BY <1>4, <1>5
  <2>2. posted' \in [Workers -> Seq(WorkRequest)]
    BY <1>2, <2>1 DEF TypeOK
  <2>3. pc' \in [Threads -> {"idle", "push", "add", "wait", "sub", "loop",
                             "post", "poll", "copy"}]
    BY <1>2 DEF TypeOK, Goto
  <2> QED
    BY <1>2, <2>2, <2>3 DEF TypeOK, stackVars, queueVars, memVars, useVars
<1>7. pc'[t] = "poll" /\ \A u \in Threads \ {t} : pc'[u] = pc[u]
  BY <1>2 DEF TypeOK, Goto
<1>8. Shape'
  <2>1. ASSUME NEW u \in Workers, NEW i \in 1 .. Len(posted'[u])
        PROVE  posted'[u][i].at + posted'[u][i].len <= Cells
    <3>1. CASE u # s
      BY <1>5, <2>1, <3>1 DEF Shape
    <3>2. CASE u = s /\ i = Len(posted[s]) + 1
      <4>1. posted'[u][i] = wr
        BY <1>5, <3>2
      <4> QED
        BY <1>4, <4>1
    <3>3. CASE u = s /\ i # Len(posted[s]) + 1
      <4>1. i \in 1 .. Len(posted[s]) /\ posted'[u][i] = posted[s][i]
        BY <1>5, <2>1, <3>3
      <4> QED
        BY <4>1 DEF Shape
    <3> QED
      BY <3>1, <3>2, <3>3
  <2>2. \A u \in Threads : pc'[u] = pc[u] \/ (u = t /\ pc'[u] = "poll")
    BY <1>7
  <2>3. done[t] <= job[t].size
    BY <1>1 DEF Shape, Sending
  <2> QED
    BY <1>1, <1>2, <2>1, <2>2, <2>3
       DEF Shape, More, InLargeCall, Sending, stackVars, Threads
<1>9. OffsetCounts'
  BY <1>1, <1>2, OffsetUndisturbed DEF queueVars, stackVars
<1>10. Balanced'
  BY <1>1, <1>2, BalanceAfterPost
<1> QED
  BY <1>6, <1>8, <1>9, <1>10

(* RdmaRead and RdmaWrite when the verbs library refuses the request. *)
LEMMA PostFailsKeepsInv ==
  ASSUME TransferInv, NEW t \in Threads, PostFails(t)
  PROVE  TransferInv'
<1> USE DEF TransferInv
<1>1. pc[t] \in {"loop", "post"} /\ More(t)
  BY DEF PostFails, MayPost, At, Shape
<1>2. /\ Goto(t, "poll") /\ unposted' = unposted + 1
      /\ UNCHANGED <<job, done, stackVars, queueVars, TransferSignal, posted, cq,
                     broken, memVars, useVars>>
  BY DEF PostFails
<1>3. TypeOK'
  <2>1. pc' \in [Threads -> {"idle", "push", "add", "wait", "sub", "loop",
                             "post", "poll", "copy"}]
    BY <1>2 DEF TypeOK, Goto
  <2>2. unposted' \in Nat
    BY <1>2 DEF TypeOK
  <2> QED
    BY <1>2, <2>1, <2>2 DEF TypeOK, stackVars, queueVars, memVars, useVars
<1>4. Shape'
  <2>1. /\ job'[t].base + job'[t].size <= Cells /\ done'[t] <= job'[t].size
        /\ done'[t] < job'[t].size
    BY <1>1, <1>2 DEF Shape, More, Sending
  <2> QED
    BY <1>2, <2>1, ThreadShape DEF Sending, stackVars
<1>5. OffsetCounts'
  BY <1>1, <1>2, OffsetUndisturbed DEF queueVars, stackVars
<1>6. Balanced'
  BY <1>1, <1>2, BalanceAfterFailedPost
<1> QED
  BY <1>3, <1>4, <1>5, <1>6

(* PollCompletion and what follows it. *)
LEMMA PollKeepsInv ==
  ASSUME TransferInv, NEW t \in Threads, Poll(t)
  PROVE  TransferInv'
<1> USE DEF TransferInv
<1>1. pc[t] = "poll" /\ cq > 0 /\ cq' = cq - 1 /\ More(t)
  BY DEF Poll, At, Shape
<1>2. UNCHANGED <<job, stackVars, queueVars, TransferSignal, posted, broken,
                  unposted, memVars, useVars>>
  BY DEF Poll, Polled
<1>3. PICK l \in {"copy", "loop"} :
        /\ Goto(t, l)
        /\ l = "copy" => done' = done
        /\ l = "loop" => done' = [done EXCEPT ![t] = @ + SendSize(t)]
  BY DEF Poll, Polled
<1>4. /\ SendSize(t) \in 1 .. Cells
      /\ done[t] \in Nat /\ done[t] + SendSize(t) <= job[t].size
      /\ job[t].size \in 0 .. Cells /\ Cells \in Nat
  <2>1. job[t].size \in 0 .. Cells /\ Cells \in Nat
    BY TransferAssumption DEF TypeOK, TransferTask
  <2> QED
    BY <1>1, <2>1, PieceFits DEF Sending
<1>5. /\ done' \in [Threads -> 0 .. Cells] /\ done'[t] <= job[t].size
      /\ (l = "copy" => done'[t] < job[t].size)
      /\ \A u \in Threads \ {t} : done'[u] = done[u]
  <2>1. done[t] + SendSize(t) \in 0 .. Cells
    BY <1>4
  <2>2. CASE l = "copy"
    BY <1>1, <1>3, <1>4, <2>2 DEF TypeOK, More
  <2>3. CASE l = "loop"
    <3>1. done' = [done EXCEPT ![t] = @ + SendSize(t)]
      BY <1>3, <2>3
    <3> QED
      BY <1>4, <2>1, <2>3, <3>1 DEF TypeOK
  <2> QED
    BY <2>2, <2>3
<1>6. TypeOK'
  <2>1. pc' \in [Threads -> {"idle", "push", "add", "wait", "sub", "loop",
                             "post", "poll", "copy"}]
    BY <1>3 DEF TypeOK, Goto
  <2>2. cq' \in Nat
    BY <1>1 DEF TypeOK
  <2> QED
    BY <1>2, <1>5, <2>1, <2>2 DEF TypeOK, stackVars, queueVars, memVars, useVars
<1>7. Shape'
  <2>1. job'[t].base + job'[t].size <= Cells /\ job'[t] = job[t]
    BY <1>2 DEF Shape
  <2> QED
    BY <1>2, <1>3, <1>5, <2>1, ThreadShape DEF Sending, stackVars
<1>8. OffsetCounts'
  BY <1>1, <1>2, <1>3, OffsetUndisturbed DEF queueVars, stackVars
<1>9. Balanced'
  BY <1>1, <1>2, <1>3, BalanceAfterPoll
<1> QED
  BY <1>6, <1>7, <1>8, <1>9

(* The card, whether the request succeeds or not. *)
LEMMA NicKeepsInv ==
  ASSUME TransferInv, NEW s \in Workers, NicStep(s)
  PROVE  TransferInv'
<1> USE DEF TransferInv
<1> DEFINE wr == Head(posted[s])
<1>1. /\ posted[s] # << >> /\ posted' = [posted EXCEPT ![s] = Tail(@)] /\ cq' = cq + 1
      /\ UNCHANGED <<pc, job, done, stackVars, queueVars, TransferSignal, unposted, user,
                     useVars>>
      /\ broken' = broken \/ broken' = broken \cup {s}
  BY DEF NicStep, NicDone, NicFail, Complete, memVars, useVars
<1>2. /\ posted[s] \in Seq(WorkRequest) /\ posted'[s] = Tail(posted[s])
      /\ \A u \in Workers \ {s} : posted'[u] = posted[u]
      /\ wr = posted[s][1] /\ wr \in WorkRequest
      /\ wr.at + wr.len <= Cells
  <2>1. posted[s] \in Seq(WorkRequest)
    BY DEF TypeOK
  <2>2. posted'[s] = Tail(posted[s]) /\ \A u \in Workers \ {s} : posted'[u] = posted[u]
    BY <1>1 DEF TypeOK
  <2>3. wr = posted[s][1] /\ wr \in WorkRequest /\ 1 \in 1 .. Len(posted[s])
    BY <1>1, <2>1
  <2> QED
    BY <2>1, <2>2, <2>3 DEF Shape
<1>3. remote' \in [Callers -> [Cell -> Value]] /\ bounce' \in [Workers -> [Cell -> Value]]
  <2>1. /\ remote \in [Callers -> [Cell -> Value]] /\ bounce \in [Workers -> [Cell -> Value]]
    BY DEF TypeOK
  <2>2. /\ wr.owner \in Callers /\ wr.at \in Nat /\ wr.len \in Nat /\ 0 \in Nat
        /\ 0 + wr.len <= Cells /\ wr.at + wr.len <= Cells
    <3> HIDE DEF wr
    <3>1. wr.owner \in Callers /\ wr.at \in Cell /\ wr.len \in 1 .. Cells
      BY <1>2 DEF WorkRequest
    <3> QED
      BY <1>2, <3>1, TransferAssumption DEF Cell
  <2> HIDE DEF wr
  <2>3. /\ Copied(remote[wr.owner], wr.at, bounce[s], 0, wr.len) \in [Cell -> Value]
        /\ Copied(bounce[s], 0, remote[wr.owner], wr.at, wr.len) \in [Cell -> Value]
    <3>1. remote[wr.owner] \in [Cell -> Value] /\ bounce[s] \in [Cell -> Value]
      BY <2>1, <2>2
    <3> QED
      BY <2>2, <3>1, CopiedCells
  <2>4. \/ remote' = remote /\ bounce' = bounce
        \/ /\ remote' = [remote EXCEPT ![wr.owner] =
                Copied(remote[wr.owner], wr.at, bounce[s], 0, wr.len)]
           /\ bounce' = bounce
        \/ /\ bounce' = [bounce EXCEPT ![s] =
                Copied(bounce[s], 0, remote[wr.owner], wr.at, wr.len)]
           /\ remote' = remote
    BY DEF NicStep, NicDone, NicFail, Carried, memVars, wr
  <2> QED
    BY <2>1, <2>2, <2>3, <2>4
<1>4. TypeOK'
  <2>1. Tail(posted[s]) \in Seq(WorkRequest)
    BY <1>1, <1>2
  <2>2. posted' \in [Workers -> Seq(WorkRequest)] /\ cq' \in Nat /\ broken' \subseteq Workers
    BY <1>1, <2>1 DEF TypeOK
  <2> QED
    BY <1>1, <1>3, <2>2 DEF TypeOK, stackVars, queueVars, useVars
<1>5. Shape'
  <2>1. ASSUME NEW u \in Workers, NEW i \in 1 .. Len(posted'[u])
        PROVE  posted'[u][i].at + posted'[u][i].len <= Cells
    <3>1. CASE u # s
      BY <1>2, <2>1, <3>1 DEF Shape
    <3>2. CASE u = s
      <4>1. i + 1 \in 1 .. Len(posted[s]) /\ posted'[u][i] = posted[s][i + 1]
        <5>1. posted[s] \in Seq(WorkRequest) /\ posted[s] # << >>
          BY <1>1, <1>2
        <5>2. posted'[u] = Tail(posted[s])
          BY <1>2, <3>2
        <5>3. \A j \in 1 .. Len(Tail(posted[s])) :
                j + 1 \in 1 .. Len(posted[s]) /\ Tail(posted[s])[j] = posted[s][j + 1]
          BY <5>1, AfterTail
        <5> QED
          BY <2>1, <5>2, <5>3, Zenon
      <4> QED
        BY <4>1 DEF Shape
    <3> QED
      BY <3>1, <3>2
  <2> QED
    BY <1>1, <2>1 DEF Shape, More, InLargeCall, stackVars
<1>6. OffsetCounts'
  BY <1>1 DEF OffsetCounts, Counted, Adding, At, stackVars, queueVars
<1>7. Balanced'
  BY <1>1, BalanceAfterComplete DEF Complete
<1> QED
  BY <1>4, <1>5, <1>6, <1>7

(* The start of a client. *)
LEMMA TransferInvStart == ASSUME Init PROVE TransferInv
<1>1. NoTask \in TransferTask /\ NoTask.base = 0 /\ NoTask.size = 0 /\ NoTask.owner \in Callers
  <2>1. (CHOOSE c \in Callers : TRUE) \in Callers
    BY TransferAssumption
  <2>2. 0 \in 0 .. Cells
    BY TransferAssumption
  <2> QED
    BY <2>1, <2>2 DEF NoTask, TransferTask
<1>2. TypeOK
  <2>1. /\ 0 \in 0 .. Cells /\ 0 \in 0 .. WORKER_NUMBER /\ 0 \in 0 .. OffsetWrap - 1
        /\ 0 \in 0 .. SignalWrap - 1 /\ 0 \in 0 .. MaxCalls
    BY TransferAssumption
  <2>2. << >> \in Seq(Callers) /\ << >> \in Seq(WorkRequest)
    OBVIOUS
  <2>3. << >> \in Value /\ \A k \in Cell : <<0, k>> \in Value
    BY <2>1 DEF Value
  <2>4. /\ user \in [Callers -> [Cell -> Value]] /\ remote \in [Callers -> [Cell -> Value]]
        /\ bounce \in [Workers -> [Cell -> Value]]
    BY <2>3 DEF Init
  <2>5. /\ pc \in [Threads -> {"idle", "push", "add", "wait", "sub", "loop",
                               "post", "poll", "copy"}]
        /\ job \in [Threads -> TransferTask] /\ done \in [Threads -> 0 .. Cells]
        /\ next \in [Callers -> 0 .. WORKER_NUMBER]
        /\ tasks \in [Callers -> [Workers -> TransferTask]]
    BY <1>1, <2>1 DEF Init
  <2>6. /\ queue \in [Workers -> Seq(Callers)] /\ offset \in [Workers -> 0 .. OffsetWrap - 1]
        /\ held \in [Workers -> Callers] /\ TransferSignal \in 0 .. SignalWrap - 1
        /\ posted \in [Workers -> Seq(WorkRequest)]
        /\ cq \in Nat /\ broken \subseteq Workers /\ calls \in 0 .. MaxCalls
        /\ unposted \in Nat /\ shared \in BOOLEAN
    BY <1>1, <2>1, <2>2 DEF Init
  <2> QED
    BY <2>4, <2>5, <2>6 DEF TypeOK
<1>3. \A t \in Threads : pc[t] = "idle" /\ job[t] = NoTask
  BY DEF Init
<1>4. Shape
  <2>1. \A w \in Workers : Len(posted[w]) = 0
    BY DEF Init
  <2>2. \A c \in Callers, w \in Workers : tasks[c][w] = NoTask
    BY DEF Init
  <2>3. Cells \in Nat
    BY TransferAssumption
  <2> QED
    BY <1>1, <1>3, <2>1, <2>2, <2>3 DEF Shape, Sending, InLargeCall, Threads
<1>5. OffsetCounts
  <2>1. ASSUME NEW w \in Workers PROVE Counted(w) = 0 /\ offset[w] = 0 /\ ~ At(w, "sub")
    <3>1. Adding(w) = {}
      BY <1>3 DEF Adding, At, Threads
    <3>2. Cardinality(Adding(w)) = 0 /\ Len(queue[w]) = 0
      BY <3>1, FS_EmptySet DEF Init
    <3> QED
      BY <1>3, <3>2 DEF Counted, At, Threads, Init
  <2>2. 0 % OffsetWrap = 0
    BY TransferAssumption
  <2> QED
    BY <2>1, <2>2 DEF OffsetCounts
<1>6. Balanced
  <2>1. Pollers = {}
    BY <1>3 DEF Pollers, At
  <2>2. Outstanding = {}
    <3>1. \A s \in Workers : {s} \X (1 .. Len(posted[s])) = {}
      BY DEF Init
    <3> QED
      BY <3>1 DEF Outstanding
  <2>3. cq = 0 /\ unposted = 0
    BY DEF Init
  <2> QED
    BY <2>1, <2>2, <2>3, FS_EmptySet DEF Balanced, CompletionBalance, Pollers
<1> QED
  BY <1>2, <1>4, <1>5, <1>6 DEF TransferInv

(* Every step of a caller, a worker or the card. *)
LEMMA TransferStep ==
  ASSUME TransferInv, [Next]_vars
  PROVE  TransferInv'
<1>1. ASSUME NEW c \in Callers, Call(c) PROVE TransferInv'
  BY <1>1, CallKeepsInv DEF Call
<1>2. ASSUME NEW c \in Callers, CallerStep(c) PROVE TransferInv'
  <2>1. CASE ReturnLarge(c)
    BY <2>1, ReturnKeepsInv DEF ReturnLarge, At, Threads, TransferInv, TypeOK
  <2> QED
    BY <1>2, <2>1, PushBackKeepsInv, AddOffsetKeepsInv DEF CallerStep
<1>3. ASSUME NEW w \in Workers, WorkerStep(w) PROVE TransferInv'
  BY <1>3, TakeFrontKeepsInv, SubOffsetKeepsInv DEF WorkerStep
<1>4. ASSUME NEW t \in Threads, HamalStep(t) PROVE TransferInv'
  <2>1. CASE Finish(t)
    <3>1. (TransferSignal + 1) % SignalWrap \in 0 .. SignalWrap - 1
      <4>1. TransferSignal + 1 \in Nat /\ SignalWrap \in Nat /\ SignalWrap > 1
        BY TransferAssumption DEF TransferInv, TypeOK
      <4> QED
        BY <4>1, ModStep
    <3> QED
      BY <2>1, <3>1, ReturnKeepsInv DEF Finish, At
  <2> QED
    BY <1>4, <2>1, CopyKeepsInv, PostKeepsInv, PostFailsKeepsInv,
       PollKeepsInv DEF HamalStep
<1>5. CASE UNCHANGED vars
  BY <1>5 DEF TransferInv, TypeOK, Shape, More, InLargeCall, OffsetCounts, Counted,
              Adding, At, Balanced, CompletionBalance, Outstanding,
              vars, stackVars, queueVars, nicVars, memVars, useVars
<1> QED
  BY <1>1, <1>2, <1>3, <1>4, <1>5, NicKeepsInv DEF Next

(* The invariant is inductive. *)
LEMMA TransferInvHolds == Spec => []TransferInv
  BY TransferInvStart, TransferStep, PTL DEF Spec

(* However many threads call and whoever takes whose completion: there is  *)
(* one completion, in the queue or to come, for every thread that polls,   *)
(* but for as many as there were calls of ibv_post_send that failed.       *)
THEOREM CompletionsBalance == Spec => []CompletionBalance
<1>1. TransferInv => CompletionBalance
  BY DEF TransferInv, Balanced
<1> QED
  BY <1>1, TransferInvHolds, PTL

-----------------------------------------------------------------------------
(***************************************************************************)
(* One thread calls at a time (~ shared).  Each worker it has given a task *)
(* is on its way through it, and TransferSignal counts those that came     *)
(* through.                                                                *)
(***************************************************************************)
Free(w) == pc[w] = "idle" /\ queue[w] = << >> /\ offset[w] = 0

Given(c, w) == InLargeCall(c) /\ w < next[c]

Pushed(c, w) == pc[c] = "add" /\ w = next[c]

UnderWay(c, w) ==
  \/ pc[w] = "idle" /\ queue[w] = <<c>> /\ offset[w] = 1
  \/ pc[w] = "sub" /\ queue[w] = << >> /\ offset[w] = 1 /\ held[w] = c
  \/ /\ pc[w] \in Sending /\ queue[w] = << >> /\ offset[w] = 0
     /\ job[w] = tasks[c][w]

WorkerAt(c, w) ==
  /\ Given(c, w) => Free(w) \/ UnderWay(c, w)
  /\ Pushed(c, w) => pc[w] = "idle" /\ queue[w] = <<c>> /\ offset[w] = 0
  /\ ~ Given(c, w) /\ ~ Pushed(c, w) => Free(w)
  /\ Given(c, w) \/ Pushed(c, w) => tasks[c][w].owner = c

Returnees(c) == {w \in Workers : Given(c, w) /\ Free(w)}

SignalCounts(c) ==
  /\ pc[c] = "wait" => next[c] = WORKER_NUMBER
  /\ InLargeCall(c) => TransferSignal = Cardinality(Returnees(c))

Handoff(c) ==
  /\ SignalCounts(c) /\ \A w \in Workers : WorkerAt(c, w)
  /\ pc[c] # "idle" => job[c].owner = c

(* Finitely many workers, finitely many of them done. *)
LEMMA ReturnedAreFinite ==
  ASSUME NEW c
  PROVE  /\ IsFiniteSet(Returnees(c)) /\ Cardinality(Returnees(c)) \in 0 .. WORKER_NUMBER
         /\ Cardinality(Returnees(c)) = WORKER_NUMBER => Returnees(c) = Workers
<1>1. IsFiniteSet(Workers) /\ Cardinality(Workers) = WORKER_NUMBER
  <2>1. /\ 0 \in Int /\ WORKER_NUMBER - 1 \in Int /\ ~ (0 > WORKER_NUMBER - 1)
        /\ WORKER_NUMBER - 1 - 0 + 1 = WORKER_NUMBER
    BY TransferAssumption
  <2> QED
    BY <2>1, FS_Interval DEF Workers
<1>2. Returnees(c) \in SUBSET Workers
  BY DEF Returnees
<1>3. /\ IsFiniteSet(Returnees(c)) /\ Cardinality(Returnees(c)) <= WORKER_NUMBER
      /\ Cardinality(Returnees(c)) = WORKER_NUMBER => Returnees(c) = Workers
  BY <1>1, <1>2, FS_Subset
<1>4. Cardinality(Returnees(c)) \in Nat
  BY <1>3, FS_CardinalityType
<1> QED
  BY <1>3, <1>4, TransferAssumption

(* Steps of the caller and of its small transfers. *)
LEMMA CallerKeepsHandoff ==
  ASSUME NEW c \in Callers, TransferInv, Handoff(c),
         Call(c) \/ CallerStep(c) \/ HamalStep(c)
  PROVE  Handoff(c)'
<1> USE DEF TransferInv
<1>0. c \in Callers /\ c \in Threads /\ c \notin Workers /\ next[c] \in Nat
      /\ \A w \in Workers : w \in Threads /\ w \in Nat /\ w < WORKER_NUMBER /\ w # c
  <2>1. c \in Callers
    OBVIOUS
  <2>2. c \notin Workers
    BY <2>1, ThreadsApart
  <2>3. next[c] \in Nat
    BY <2>1, TransferAssumption DEF TypeOK
  <2> QED
    BY <2>1, <2>2, <2>3, TransferAssumption DEF Threads, Workers
<1>1. ASSUME NEW l, Goto(c, l)
      PROVE  pc'[c] = l /\ \A w \in Workers : pc'[w] = pc[w]
  BY <1>0, <1>1 DEF TypeOK, Goto
<1>2. ASSUME NEW r \in Requests, CallSmall(c, r) PROVE Handoff(c)'
  <2>1. /\ pc[c] = "idle" /\ Goto(c, "loop") /\ UNCHANGED <<queue, offset>>
        /\ job'[c].owner = c
    BY <1>0, <1>2 DEF CallSmall, At, queueVars, TypeOK, Whole
  <2>2. pc'[c] = "loop" /\ \A w \in Workers : pc'[w] = pc[w]
    BY <1>1, <2>1
  <2> QED
    BY <2>1, <2>2 DEF Handoff, SignalCounts, WorkerAt, Given, Pushed, InLargeCall, Free
<1>3. ASSUME NEW r \in Requests, CallLarge(c, r) PROVE Handoff(c)'
  <2>1. /\ pc[c] = "idle" /\ Goto(c, "push") /\ UNCHANGED <<queue, offset>>
        /\ next'[c] = 0 /\ TransferSignal' = 0 /\ job'[c].owner = c
    BY <1>0, <1>3 DEF CallLarge, At, queueVars, TypeOK, Whole
  <2>2. pc'[c] = "push" /\ \A w \in Workers : pc'[w] = pc[w]
    BY <1>1, <2>1
  <2>3. \A w \in Workers : ~ Given(c, w)'
    BY <1>0, <2>1 DEF Given
  <2>4. Returnees(c)' = {}
    BY <2>3 DEF Returnees
  <2> QED
    BY <2>1, <2>2, <2>3, <2>4, FS_EmptySet
       DEF Handoff, SignalCounts, WorkerAt, Given, Pushed, InLargeCall, Free
<1>4. CASE PushBack(c)
  <2>1. PICK i \in Workers : i = next[c]
    <3>1. pc[c] = "push"
      BY <1>4 DEF PushBack, At
    <3>2. next[c] < WORKER_NUMBER
      BY <1>0, <3>1 DEF Shape
    <3> QED
      BY <1>0, <3>2, TransferAssumption DEF Workers
  <2>2. /\ pc[c] = "push" /\ Goto(c, "add")
        /\ queue' = [queue EXCEPT ![i] = Append(@, c)]
        /\ tasks' = [tasks EXCEPT ![c][i] = Part(i, job[c])]
        /\ UNCHANGED <<job, next, offset, held, TransferSignal>>
    BY <1>4, <2>1 DEF PushBack, At
  <2>3. pc'[c] = "add" /\ \A w \in Workers : pc'[w] = pc[w]
    BY <1>1, <2>2
  <2>4. /\ Free(i) /\ queue'[i] = <<c>>
        /\ \A w \in Workers \ {i} : queue'[w] = queue[w] /\ tasks'[c][w] = tasks[c][w]
    <3>1. Free(i)
      BY <1>0, <2>1, <2>2 DEF Handoff, WorkerAt, Given, Pushed
    <3>2. queue'[i] = Append(queue[i], c)
      BY <2>2 DEF TypeOK
    <3>3. Append(<< >>, c) = <<c>>
      OBVIOUS
    <3> QED
      BY <1>0, <2>2, <3>1, <3>2, <3>3 DEF Free, TypeOK
  <2>5. ASSUME NEW w \in Workers
        PROVE  (Given(c, w)' <=> Given(c, w)) /\ (Given(c, w) => w # i)
    BY <1>0, <2>1, <2>2, <2>3 DEF Given, InLargeCall
  <2>6. ASSUME NEW w \in Workers, w # i
        PROVE  (Free(w)' <=> Free(w)) /\ (UnderWay(c, w)' <=> UnderWay(c, w))
    BY <2>2, <2>3, <2>4, <2>6 DEF Free, UnderWay
  <2>7. Returnees(c)' = Returnees(c)
    BY <2>5, <2>6 DEF Returnees
  <2>8. SignalCounts(c)'
    BY <2>2, <2>3, <2>7 DEF Handoff, SignalCounts, InLargeCall
  <2>9. job[c].owner = c /\ tasks'[c][i].owner = c
    <3>1. job[c].owner = c /\ job[c] \in TransferTask
      BY <1>0, <2>2 DEF Handoff, TypeOK
    <3>2. tasks'[c][i] = Part(i, job[c])
      BY <1>0, <2>2 DEF TypeOK
    <3>3. Part(i, job[c]).owner = job[c].owner
      BY <3>1 DEF Part, TransferTask
    <3> QED
      BY <3>1, <3>2, <3>3
  <2>10. ASSUME NEW w \in Workers PROVE WorkerAt(c, w)'
    <3>1. CASE w = i
      BY <2>1, <2>2, <2>3, <2>4, <2>5, <2>9, <3>1 DEF WorkerAt, Pushed, Free
    <3>2. CASE w # i
      BY <2>1, <2>2, <2>3, <2>4, <2>5, <2>6, <3>2 DEF Handoff, WorkerAt, Pushed
    <3> QED
      BY <3>1, <3>2
  <2> QED
    BY <2>2, <2>8, <2>10, <2>9 DEF Handoff
<1>5. CASE AddOffset(c)
  <2>1. PICK i \in Workers : i = next[c]
    <3>1. pc[c] = "add"
      BY <1>5 DEF AddOffset, At
    <3>2. next[c] < WORKER_NUMBER
      BY <1>0, <3>1 DEF Shape
    <3> QED
      BY <1>0, <3>2, TransferAssumption DEF Workers
  <2>2. /\ pc[c] = "add"
        /\ offset' = [offset EXCEPT ![i] = (@ + 1) % OffsetWrap]
        /\ next' = [next EXCEPT ![c] = i + 1]
        /\ UNCHANGED <<job, tasks, queue, held, TransferSignal>>
    BY <1>5, <2>1 DEF AddOffset, At
  <2>3. PICK l \in {"push", "wait"} :
          /\ Goto(c, l)
          /\ l = "wait" => i + 1 = WORKER_NUMBER
    <3>1. Goto(c, IF i + 1 < WORKER_NUMBER THEN "push" ELSE "wait")
      BY <1>5, <2>1 DEF AddOffset
    <3>2. ~ (i + 1 < WORKER_NUMBER) => i + 1 = WORKER_NUMBER
      BY TransferAssumption DEF Workers
    <3> QED
      BY <3>1, <3>2
  <2>4. pc'[c] = l /\ \A w \in Workers : pc'[w] = pc[w]
    BY <1>1, <2>3
  <2>5. pc[i] = "idle" /\ queue[i] = <<c>> /\ offset[i] = 0
    BY <2>1, <2>2 DEF Handoff, WorkerAt, Pushed
  <2>6. offset'[i] = 1 /\ \A w \in Workers \ {i} : offset'[w] = offset[w]
    <3>1. (0 + 1) % OffsetWrap = 1
      <4>1. OffsetWrap \in Nat /\ OffsetWrap > 0 /\ 1 < OffsetWrap /\ OffsetWrap * 0 + 1 = 1
        BY TransferAssumption
      <4> QED
        BY <4>1, Remainder
    <3>2. offset'[i] = (offset[i] + 1) % OffsetWrap /\ \A w \in Workers \ {i} : offset'[w] = offset[w]
      BY <2>2 DEF TypeOK
    <3> QED
      BY <2>5, <3>1, <3>2
  <2>7. next'[c] = i + 1
    BY <1>0, <2>2 DEF TypeOK
  <2>8. UnderWay(c, i)' /\ ~ Free(i)'
    BY <2>2, <2>4, <2>5, <2>6 DEF UnderWay, Free
  <2>9. ASSUME NEW w \in Workers, w # i
        PROVE  /\ (Free(w)' <=> Free(w)) /\ (UnderWay(c, w)' <=> UnderWay(c, w))
               /\ (Given(c, w)' <=> Given(c, w))
    <3>1. w < i + 1 <=> w < i
      BY <1>0, <2>9
    <3> QED
      BY <2>1, <2>2, <2>4, <2>6, <2>7, <2>9, <3>1 DEF Free, UnderWay, Given, InLargeCall
  <2>10. Given(c, i)' /\ ~ Given(c, i)
    BY <1>0, <2>1, <2>4, <2>7 DEF Given, InLargeCall
  <2>11. Returnees(c)' = Returnees(c)
    BY <2>8, <2>9, <2>10 DEF Returnees
  <2>12. SignalCounts(c)'
    BY <2>2, <2>3, <2>4, <2>7, <2>11 DEF Handoff, SignalCounts, InLargeCall
  <2>13. ASSUME NEW w \in Workers PROVE WorkerAt(c, w)'
    <3>1. ~ Pushed(c, w)'
      BY <2>4 DEF Pushed
    <3>2. CASE w = i
      BY <2>1, <2>2, <2>8, <2>10, <3>1, <3>2 DEF Handoff, WorkerAt, Pushed
    <3>3. CASE w # i
      BY <2>1, <2>2, <2>9, <3>1, <3>3 DEF Handoff, WorkerAt, Pushed
    <3> QED
      BY <3>2, <3>3
  <2> QED
    BY <2>2, <2>12, <2>13 DEF Handoff
<1>6. CASE ReturnLarge(c)
  <2>1. /\ pc[c] = "wait" /\ TransferSignal = WORKER_NUMBER /\ Goto(c, "idle")
        /\ UNCHANGED <<queue, offset>>
    BY <1>6 DEF ReturnLarge, At, queueVars
  <2>2. pc'[c] = "idle" /\ \A w \in Workers : pc'[w] = pc[w]
    BY <1>1, <2>1
  <2>3. Returnees(c) = Workers
    BY <2>1, ReturnedAreFinite DEF Handoff, SignalCounts, InLargeCall
  <2>4. \A w \in Workers : Free(w)
    BY <2>3 DEF Returnees
  <2>5. \A w \in Workers : Free(w)' /\ ~ Given(c, w)' /\ ~ Pushed(c, w)'
    BY <2>1, <2>2, <2>4 DEF Free, Given, Pushed, InLargeCall
  <2> QED
    BY <2>2, <2>5 DEF Handoff, SignalCounts, WorkerAt, InLargeCall
<1>7. CASE HamalStep(c)
  <2>1. pc[c] \in Sending /\ UNCHANGED <<queue, offset, job>>
    BY <1>7 DEF HamalStep, CopyIn, Post, PostFails, MayPost, Poll, Polled, CopyOut, Finish,
                At, queueVars, Sending
  <2>2. PICK l \in Sending \cup {"idle"} : Goto(c, l)
    BY <1>7 DEF HamalStep, CopyIn, Post, PostFails, Poll, Polled, CopyOut, Finish, Sending
  <2>3. pc'[c] = l /\ \A w \in Workers : pc'[w] = pc[w]
    BY <1>1, <2>2
  <2>4. \A w \in Workers : /\ ~ Given(c, w) /\ ~ Pushed(c, w)
                           /\ ~ Given(c, w)' /\ ~ Pushed(c, w)'
    BY <2>1, <2>2, <2>3 DEF Given, Pushed, InLargeCall, Sending
  <2>5. \A w \in Workers : Free(w)'
    BY <2>1, <2>3, <2>4 DEF Handoff, WorkerAt, Free
  <2>6. ~ InLargeCall(c)' /\ pc'[c] # "wait"
    BY <2>2, <2>3 DEF InLargeCall, Sending
  <2>7. job'[c].owner = c
    BY <2>1 DEF Handoff, Sending
  <2> QED
    BY <2>4, <2>5, <2>6, <2>7 DEF Handoff, SignalCounts, WorkerAt
<1> QED
  BY <1>2, <1>3, <1>4, <1>5, <1>6, <1>7 DEF Call, CallerStep

(* Steps of a worker that has a task. *)
LEMMA WorkerKeepsHandoff ==
  ASSUME NEW c \in Callers, TransferInv, Handoff(c),
         NEW w \in Workers, WorkerStep(w) \/ HamalStep(w)
  PROVE  Handoff(c)'
<1> USE DEF TransferInv
<1>0. /\ c \in Callers /\ c \in Threads /\ w \in Threads /\ w # c
      /\ \A u \in Workers : u \in Threads /\ u # c
  BY ThreadsApart DEF Threads
<1>1. PICK l \in Sending \cup {"sub", "idle"} : Goto(w, l)
  BY DEF WorkerStep, HamalStep, TakeFront, SubOffset, CopyIn, Post, PostFails, Poll,
         Polled, CopyOut, Finish, Sending
<1>2. pc'[w] = l /\ pc'[c] = pc[c] /\ \A u \in Workers \ {w} : pc'[u] = pc[u]
  BY <1>0, <1>1 DEF TypeOK, Goto
<1>3. UNCHANGED <<next, tasks>>
  BY DEF WorkerStep, HamalStep, TakeFront, SubOffset, CopyIn, Post, PostFails, Poll,
         Polled, CopyOut, Finish, stackVars
<1>4. /\ job'[c] = job[c]
      /\ \A u \in Workers \ {w} : /\ queue'[u] = queue[u] /\ offset'[u] = offset[u]
                                  /\ job'[u] = job[u] /\ held'[u] = held[u]
  <2>1. CASE TakeFront(w)
    BY <1>0, <2>1 DEF TakeFront, TypeOK
  <2>2. CASE SubOffset(w)
    BY <1>0, <2>2 DEF SubOffset, TypeOK
  <2>3. CASE HamalStep(w)
    BY <2>3 DEF HamalStep, CopyIn, Post, PostFails, Poll, Polled, CopyOut, Finish,
                queueVars
  <2> QED
    BY <2>1, <2>2, <2>3 DEF WorkerStep
<1>5. ASSUME NEW u \in Workers
      PROVE  (Given(c, u)' <=> Given(c, u)) /\ (Pushed(c, u)' <=> Pushed(c, u))
  BY <1>2, <1>3 DEF Given, Pushed, InLargeCall
<1>6. ASSUME NEW u \in Workers, u # w
      PROVE  /\ (Free(u)' <=> Free(u)) /\ (UnderWay(c, u)' <=> UnderWay(c, u))
             /\ WorkerAt(c, u)'
  <2>1. (Free(u)' <=> Free(u)) /\ (UnderWay(c, u)' <=> UnderWay(c, u))
    BY <1>2, <1>3, <1>4, <1>6 DEF Free, UnderWay
  <2> QED
    BY <1>2, <1>3, <1>4, <1>5, <1>6, <2>1 DEF Handoff, WorkerAt
<1>7. /\ Given(c, w) /\ ~ Pushed(c, w) /\ ~ Free(w) /\ UnderWay(c, w)
      /\ tasks'[c][w].owner = c /\ (pc'[c] # "idle" => job'[c].owner = c)
  <2>1. pc[w] # "idle" \/ offset[w] # 0
    BY DEF WorkerStep, HamalStep, TakeFront, SubOffset, CopyIn, Post, PostFails,
           MayPost, Poll, CopyOut, Finish, At
  <2> QED
    BY <1>2, <1>3, <1>4, <2>1 DEF Handoff, WorkerAt, Free
<1>8. CASE ~ Finish(w)
  <2>1. UnderWay(c, w)' /\ ~ Free(w)' /\ TransferSignal' = TransferSignal
    <3>1. CASE TakeFront(w)
      <4>1. pc[w] = "idle" /\ offset[w] # 0 /\ pc'[w] = "sub"
            /\ queue'[w] = Tail(queue[w]) /\ held'[w] = Head(queue[w])
            /\ UNCHANGED <<offset, TransferSignal>>
        BY <1>0, <3>1 DEF TakeFront, At, TypeOK, Goto
      <4>2. queue[w] = <<c>> /\ offset[w] = 1
        BY <1>7, <4>1 DEF UnderWay, Sending
      <4>3. Tail(<<c>>) = << >> /\ Head(<<c>>) = c
        OBVIOUS
      <4> QED
        BY <4>1, <4>2, <4>3 DEF UnderWay, Free
    <3>2. CASE SubOffset(w)
      <4>1. /\ pc[w] = "sub" /\ pc'[w] = "loop" /\ job'[w] = tasks[held[w]][w]
            /\ offset'[w] = (offset[w] + OffsetWrap - 1) % OffsetWrap
            /\ UNCHANGED <<queue, TransferSignal>>
        BY <1>0, <3>2 DEF SubOffset, At, TypeOK, Goto
      <4>2. queue[w] = << >> /\ offset[w] = 1
        BY <1>7, <4>1 DEF UnderWay, Sending
      <4>3. (1 + OffsetWrap - 1) % OffsetWrap = 0
        <5>1. /\ OffsetWrap \in Nat /\ OffsetWrap > 0
              /\ OffsetWrap * 1 + 0 = 1 + OffsetWrap - 1 /\ OffsetWrap * 1 + 0 \in Nat
          BY TransferAssumption
        <5> QED
          BY <5>1, Remainder
      <4>4. held[w] = c
        BY <1>7, <4>1 DEF UnderWay, Sending
      <4> QED
        BY <1>3, <4>1, <4>2, <4>3, <4>4 DEF UnderWay, Free, Sending
    <3>3. CASE CopyIn(w) \/ Post(w) \/ PostFails(w) \/ Poll(w) \/ CopyOut(w)
      <4>1. /\ pc[w] \in Sending /\ UNCHANGED <<job, queue, offset, TransferSignal>>
        BY <3>3 DEF CopyIn, Post, PostFails, MayPost, Poll, Polled, CopyOut, At, Sending,
                    queueVars
      <4>2. l \in Sending
        <5>1. PICK m \in Sending : Goto(w, m)
          BY <3>3 DEF CopyIn, Post, PostFails, Poll, Polled, CopyOut, Sending
        <5>2. pc'[w] = m
          BY <1>0, <5>1 DEF TypeOK, Goto
        <5> QED
          BY <1>2, <5>2
      <4> QED
        BY <1>2, <1>3, <1>7, <4>1, <4>2 DEF UnderWay, Free, Sending
    <3> QED
      BY <1>8, <3>1, <3>2, <3>3 DEF WorkerStep, HamalStep
  <2>2. Returnees(c)' = Returnees(c)
    BY <1>5, <1>6, <1>7, <2>1 DEF Returnees
  <2>3. SignalCounts(c)'
    BY <1>2, <1>3, <2>1, <2>2 DEF Handoff, SignalCounts, InLargeCall
  <2> QED
    BY <1>5, <1>6, <1>7, <2>1, <2>3 DEF Handoff, WorkerAt
<1>9. CASE Finish(w)
  <2>1. /\ pc[w] = "loop" /\ pc'[w] = "idle" /\ UNCHANGED <<queue, offset>>
        /\ TransferSignal' = (TransferSignal + 1) % SignalWrap
    BY <1>0, <1>9 DEF Finish, At, Goto, TypeOK, queueVars
  <2>2. Free(w)'
    BY <1>7, <2>1 DEF UnderWay, Free
  <2>3. Returnees(c)' = Returnees(c) \cup {w} /\ w \notin Returnees(c)
    BY <1>5, <1>6, <1>7, <2>2 DEF Returnees
  <2>4. Cardinality(Returnees(c)') = Cardinality(Returnees(c)) + 1
    BY <2>3, ReturnedAreFinite, FS_AddElement
  <2>5. TransferSignal = Cardinality(Returnees(c))
    BY <1>7 DEF Given, Handoff, SignalCounts
  <2>6. TransferSignal \in Nat /\ TransferSignal + 1 <= WORKER_NUMBER
    <3>1. Returnees(c) # Workers
      BY <2>3
    <3> QED
      BY <2>5, <3>1, ReturnedAreFinite, TransferAssumption
  <2>7. (TransferSignal + 1) % SignalWrap = TransferSignal + 1
    <3>1. /\ SignalWrap \in Nat /\ SignalWrap > 0 /\ TransferSignal + 1 < SignalWrap
          /\ SignalWrap * 0 + (TransferSignal + 1) = TransferSignal + 1
          /\ TransferSignal + 1 \in Nat
      BY <2>6, TransferAssumption
    <3> QED
      BY <3>1, Remainder
  <2>8. SignalCounts(c)'
    BY <1>2, <1>3, <2>1, <2>4, <2>5, <2>7 DEF Handoff, SignalCounts, InLargeCall
  <2> QED
    BY <1>5, <1>6, <1>7, <2>2, <2>8 DEF Handoff, WorkerAt
<1> QED
  BY <1>8, <1>9

-----------------------------------------------------------------------------
(***************************************************************************)
(* A small transfer, run by the caller with TaskID 0.                      *)
(***************************************************************************)
From(c) == job[c].base + done[c]

WorkOf(c) == [write |-> job[c].write, owner |-> job[c].owner,
              at |-> From(c), len |-> SendSize(c)]

Filled(c) == \A k \in 0 .. SendSize(c) - 1 : bounce[0][k] = user[c][From(c) + k]

Fetched(c) == \A k \in 0 .. SendSize(c) - 1 : bounce[0][k] = remote[c][From(c) + k]

Arrived(c) == \A k \in 0 .. SendSize(c) - 1 : user[c][From(c) + k] = remote[c][From(c) + k]

(* Where the cells of the piece are that is being sent. *)
PieceAt(c) ==
  /\ Moved(c, job[c].base, From(c))
  /\ \A s \in Workers \ {0} : posted[s] = << >>
  /\ pc[c] = "post" => job[c].write /\ Filled(c)
  /\ pc[c] = "copy" => ~ job[c].write /\ Fetched(c)
  /\ pc[c] = "poll" =>
       IF posted[0] = << >>
       THEN IF job[c].write THEN Arrived(c) ELSE Fetched(c)
       ELSE posted[0] = <<WorkOf(c)>> /\ (job[c].write => Filled(c))

(* After a failed post the transfer polls for ever. *)
SmallInv(c) ==
  pc[c] \in Sending /\ broken = {} =>
    IF unposted = 0 THEN PieceAt(c) ELSE pc[c] = "poll"

Alone(c) == \A d \in Callers \ {c} : pc[d] = "idle"

(* While nobody polls there is no request and no completion; while only    *)
(* the caller does, a completion that is there is the last.                *)
LEMMA NobodyElsePolls ==
  ASSUME NEW c \in Callers, Alone(c), TransferInv, Handoff(c), ~ InLargeCall(c)
  PROVE  /\ \A w \in Workers : pc[w] = "idle"
         /\ pc[c] # "poll" \/ cq > 0 =>
              unposted = 0 /\ \A s \in Workers : posted[s] = << >>
<1>1. \A w \in Workers : pc[w] = "idle"
  BY DEF Handoff, WorkerAt, Given, Pushed, InLargeCall, Free
<1>2. Pollers = IF pc[c] = "poll" THEN {c} ELSE {}
  BY <1>1 DEF Pollers, At, Threads, Alone
<1>3. Cardinality(Pollers) = IF pc[c] = "poll" THEN 1 ELSE 0
  BY <1>2, FS_EmptySet, FS_Singleton
<1>4. /\ cq \in Nat /\ Cardinality(Outstanding) \in Nat /\ IsFiniteSet(Outstanding)
      /\ unposted \in Nat /\ cq + Cardinality(Outstanding) + unposted = Cardinality(Pollers)
  BY FS_CardinalityType DEF TransferInv, TypeOK, Balanced, CompletionBalance, Pollers
<1>5. (pc[c] # "poll" \/ cq > 0) => Cardinality(Outstanding) = 0 /\ unposted = 0
  BY <1>3, <1>4
<1>6. (pc[c] # "poll" \/ cq > 0) => Outstanding = {}
  BY <1>4, <1>5, FS_EmptySet
<1>7. ASSUME Outstanding = {}, NEW s \in Workers PROVE posted[s] = << >>
  <2>1. posted[s] \in Seq(WorkRequest)
    BY DEF TransferInv, TypeOK
  <2>2. SUFFICES ASSUME posted[s] # << >> PROVE FALSE
    OBVIOUS
  <2>3. <<s, 1>> \in {s} \X (1 .. Len(posted[s]))
    BY <2>1, <2>2
  <2>4. <<s, 1>> \in Outstanding
    BY <2>3, Zenon DEF Outstanding
  <2> QED
    BY <1>7, <2>4
<1> QED
  BY <1>1, <1>5, <1>6, <1>7

(* A call of RemoteRead or RemoteWrite below the threshold. *)
LEMMA SmallCall ==
  ASSUME NEW c \in Callers, Alone(c), TransferInv, Handoff(c),
         NEW r \in Requests, CallSmall(c, r)
  PROVE  SmallInv(c)'
<1> USE DEF TransferInv
<1>0. c \in Callers /\ c \in Threads
  BY DEF Threads
<1>1. /\ pc[c] = "idle" /\ pc'[c] = "loop" /\ posted' = posted /\ unposted' = unposted
      /\ job'[c].base = 0 /\ done'[c] = 0
  BY <1>0 DEF CallSmall, At, Goto, TypeOK, nicVars, Whole
<1>2. unposted = 0 /\ \A s \in Workers : posted[s] = << >>
  BY <1>1, NobodyElsePolls DEF InLargeCall
<1>3. From(c)' = 0
  BY <1>1 DEF From
<1>4. Moved(c, job[c].base, From(c))'
  BY <1>1, <1>3 DEF Moved
<1> QED
  BY <1>1, <1>2, <1>4 DEF SmallInv, PieceAt

(* The steps of InboundHamal and OutboundHamal. *)
LEMMA SmallSteps ==
  ASSUME NEW c \in Callers, Alone(c), TransferInv, Handoff(c), SmallInv(c), HamalStep(c)
  PROVE  SmallInv(c)'
<1> USE DEF TransferInv
<1>0. pc[c] \in Sending /\ broken' = broken /\ ~ InLargeCall(c)
  BY DEF HamalStep, CopyIn, Post, PostFails, MayPost, Poll, Polled, CopyOut, Finish, At,
         Sending, InLargeCall, nicVars
<1>1. c \in Callers /\ c \in Threads /\ TaskID(c) = 0 /\ 0 \in Workers /\ job[c].owner = c
  BY <1>0, ThreadsApart DEF Threads, TaskID, Handoff, Sending
<1>2. \A l : Goto(c, l) => pc'[c] = l
  BY <1>1 DEF Goto, TypeOK
<1>3. CASE PostFails(c)
  <2>1. pc'[c] = "poll" /\ unposted' = unposted + 1 /\ unposted \in Nat
    BY <1>2, <1>3 DEF PostFails, TypeOK
  <2> QED
    BY <2>1 DEF SmallInv
<1> SUFFICES ASSUME ~ PostFails(c), broken' = {}, pc'[c] \in Sending
             PROVE  unposted' = 0 /\ PieceAt(c)'
  BY <1>3 DEF SmallInv
<1>4. job' = job /\ unposted' = unposted
  BY DEF HamalStep, CopyIn, Post, Poll, Polled, CopyOut, Finish, nicVars
<1>5. unposted = 0 /\ PieceAt(c)
  <2>1. unposted = 0
    <3>1. pc[c] # "poll" \/ cq > 0
      BY DEF HamalStep, CopyIn, Post, MayPost, Poll, CopyOut, Finish, At
    <3> QED
      BY <1>0, <3>1, NobodyElsePolls
  <2> QED
    BY <1>0, <2>1 DEF SmallInv
<1> SUFFICES PieceAt(c)'
  BY <1>5, <1>4
<1>6. job[c].base \in Nat /\ done[c] \in Nat /\ From(c) \in Nat
  <2>1. job[c].base \in 0 .. Cells /\ done[c] \in 0 .. Cells
    BY <1>1 DEF TypeOK, TransferTask
  <2> QED
    BY <2>1, TransferAssumption DEF From
<1>7. ASSUME More(c)
      PROVE  /\ SendSize(c) \in 1 .. Cells /\ From(c) + SendSize(c) <= Cells
             /\ \A k \in 0 .. SendSize(c) - 1 : From(c) + k \in Cell /\ k \in Cell
             /\ \A k \in job[c].base .. (From(c) - 1) : k \in Cell
  <2>1. SendSize(c) \in 1 .. Cells /\ From(c) + SendSize(c) <= Cells
    BY <1>1, <1>0, <1>7, PieceFits DEF From
  <2> QED
    BY <1>6, <2>1, TransferAssumption DEF Cell
<1>8. CASE CopyIn(c)
  <2>1. /\ pc[c] = "loop" /\ job[c].write /\ More(c)
        /\ bounce' = [bounce EXCEPT ![0] = Copied(@, 0, user[c], From(c), SendSize(c))]
        /\ pc'[c] = "post" /\ UNCHANGED <<done, posted, user, remote>>
    BY <1>1, <1>2, <1>8 DEF CopyIn, At, From, nicVars
  <2>2. bounce'[0] = Copied(bounce[0], 0, user[c], From(c), SendSize(c))
    BY <1>1, <2>1 DEF TypeOK
  <2>3. ASSUME NEW k \in 0 .. SendSize(c) - 1 PROVE bounce'[0][k] = user[c][From(c) + k]
    <3>1. k \in Cell /\ k \in 0 .. (0 + SendSize(c) - 1) /\ k - 0 + From(c) = From(c) + k
      BY <1>6, <1>7, <2>1
    <3> QED
      BY <2>2, <3>1 DEF Copied
  <2>4. SendSize(c)' = SendSize(c) /\ From(c)' = From(c)
    BY <1>4, <2>1 DEF SendSize, From
  <2>5. Filled(c)'
    BY <2>1, <2>3, <2>4 DEF Filled
  <2> QED
    BY <1>5, <1>4, <2>1, <2>4, <2>5 DEF PieceAt, Moved
<1>9. CASE Post(c)
  <2>1. /\ pc[c] # "poll" /\ pc'[c] = "poll" /\ UNCHANGED <<done, bounce, user, remote>>
        /\ posted' = [posted EXCEPT ![0] = Append(@, WorkOf(c))]
        /\ job[c].write => pc[c] = "post"
    BY <1>1, <1>2, <1>9 DEF Post, MayPost, At, From, WorkOf, memVars
  <2>2. posted[0] = << >>
    BY <1>1, <1>0, <2>1, NobodyElsePolls
  <2>3. posted'[0] = <<WorkOf(c)>> /\ \A s \in Workers \ {0} : posted'[s] = posted[s]
    BY <1>1, <2>1, <2>2 DEF TypeOK
  <2>4. SendSize(c)' = SendSize(c) /\ From(c)' = From(c) /\ WorkOf(c)' = WorkOf(c)
    BY <1>4, <2>1 DEF SendSize, From, WorkOf
  <2>5. job[c].write => Filled(c)'
    BY <1>5, <2>1, <2>4 DEF PieceAt, Filled
  <2>6. posted'[0] # << >>
    BY <2>3
  <2> HIDE DEF TransferInv
  <2> QED
    BY <1>5, <1>4, <2>1, <2>3, <2>4, <2>5, <2>6 DEF PieceAt, Moved
<1>10. CASE Poll(c)
  <2>1. pc[c] = "poll" /\ cq > 0 /\ UNCHANGED <<posted, bounce, user, remote>>
    BY <1>10 DEF Poll, Polled, At, memVars
  <2>2. \A s \in Workers : posted[s] = << >>
    BY <1>0, <2>1, NobodyElsePolls
  <2>3. More(c)
    BY <1>1, <2>1 DEF Shape
  <2>4. CASE job[c].write
    <3>1. done'[c] = done[c] + SendSize(c) /\ pc'[c] = "loop"
      BY <1>1, <1>2, <1>10, <2>4 DEF Poll, Polled, TypeOK
    <3>2. Arrived(c)
      BY <1>1, <1>5, <2>1, <2>2, <2>4 DEF PieceAt
    <3>3. From(c)' = From(c) + SendSize(c)
      BY <1>4, <1>6, <1>7, <2>3, <3>1 DEF From
    <3>4. ASSUME NEW k \in job[c].base .. (From(c) + SendSize(c) - 1)
          PROVE  user[c][k] = remote[c][k]
      <4>1. CASE k \in job[c].base .. (From(c) - 1)
        BY <1>5, <4>1 DEF PieceAt, Moved
      <4>2. CASE k \notin job[c].base .. (From(c) - 1)
        <5>1. k - From(c) \in 0 .. SendSize(c) - 1 /\ From(c) + (k - From(c)) = k
          BY <1>6, <1>7, <2>3, <3>4, <4>2
        <5> QED
          BY <3>2, <5>1 DEF Arrived
      <4> QED
        BY <4>1, <4>2
    <3>5. Moved(c, job[c].base, From(c))'
      <4> SUFFICES ASSUME NEW k \in job'[c].base .. (From(c)' - 1)
                   PROVE  user'[c][k] = remote'[c][k]
        BY Zenon DEF Moved
      <4>1. k \in job[c].base .. (From(c) + SendSize(c) - 1)
        BY <1>4, <1>6, <1>7, <2>3, <3>3
      <4> QED
        BY <2>1, <3>4, <4>1
    <3> QED
      BY <2>1, <2>2, <3>1, <3>5 DEF PieceAt
  <2>5. CASE ~ job[c].write
    <3>1. done' = done /\ pc'[c] = "copy"
      BY <1>2, <1>10, <2>5 DEF Poll, Polled
    <3>2. SendSize(c)' = SendSize(c) /\ From(c)' = From(c)
      BY <1>4, <3>1 DEF SendSize, From
    <3>3. Fetched(c)'
      BY <1>1, <1>5, <2>1, <2>2, <2>5, <3>2 DEF PieceAt, Fetched
    <3> QED
      BY <1>5, <1>4, <2>1, <2>2, <2>5, <3>1, <3>2, <3>3 DEF PieceAt, Moved
  <2> QED
    BY <2>4, <2>5
<1>11. CASE CopyOut(c)
  <2>1. /\ pc[c] = "copy" /\ pc'[c] = "loop" /\ UNCHANGED <<posted, remote>>
        /\ user' = [user EXCEPT ![c] = Copied(@, From(c), bounce[0], 0, SendSize(c))]
        /\ done'[c] = done[c] + SendSize(c)
    BY <1>1, <1>2, <1>11 DEF CopyOut, At, From, TypeOK, nicVars
  <2>2. user'[c] = Copied(user[c], From(c), bounce[0], 0, SendSize(c))
    BY <1>1, <2>1 DEF TypeOK
  <2>3. More(c) /\ Fetched(c)
    BY <1>1, <1>5, <2>1 DEF Shape, PieceAt
  <2>4. From(c)' = From(c) + SendSize(c)
    BY <1>4, <1>6, <1>7, <2>1, <2>3 DEF From
  <2>5. ASSUME NEW k \in job[c].base .. (From(c) + SendSize(c) - 1)
        PROVE  user'[c][k] = remote[c][k]
    <3>1. CASE k \in job[c].base .. (From(c) - 1)
      <4>1. k \in Cell /\ k \notin From(c) .. (From(c) + SendSize(c) - 1)
        BY <1>6, <1>7, <2>3, <3>1
      <4>2. user'[c][k] = user[c][k]
        BY <2>2, <4>1 DEF Copied
      <4> QED
        BY <1>5, <3>1, <4>2 DEF PieceAt, Moved
    <3>2. CASE k \notin job[c].base .. (From(c) - 1)
      <4>1. /\ k - From(c) \in 0 .. SendSize(c) - 1 /\ From(c) + (k - From(c)) = k
            /\ k \in From(c) .. (From(c) + SendSize(c) - 1)
            /\ k - From(c) + 0 = k - From(c)
        BY <1>6, <1>7, <2>3, <2>5, <3>2
      <4>2. k \in Cell
        BY <1>7, <2>3, <4>1
      <4>3. user'[c][k] = bounce[0][k - From(c)]
        BY <2>2, <4>1, <4>2 DEF Copied
      <4> QED
        BY <2>3, <4>1, <4>3 DEF Fetched
    <3> QED
      BY <3>1, <3>2
  <2>6. Moved(c, job[c].base, From(c))'
    <3> SUFFICES ASSUME NEW k \in job'[c].base .. (From(c)' - 1)
                 PROVE  user'[c][k] = remote'[c][k]
      BY Zenon DEF Moved
    <3>1. k \in job[c].base .. (From(c) + SendSize(c) - 1)
      BY <1>4, <1>6, <1>7, <2>3, <2>4
    <3> QED
      BY <2>1, <2>5, <3>1
  <2> QED
    BY <1>5, <2>1, <2>6 DEF PieceAt
<1>12. CASE Finish(c)
  <2>1. pc'[c] = "idle"
    BY <1>2, <1>12 DEF Finish
  <2> QED
    BY <2>1 DEF Sending
<1> QED
  BY <1>8, <1>9, <1>10, <1>11, <1>12 DEF HamalStep

(* The card carries out the one request there is. *)
LEMMA SmallNic ==
  ASSUME NEW c \in Callers, Alone(c), TransferInv, Handoff(c), SmallInv(c),
         NEW s \in Workers, NicStep(s)
  PROVE  SmallInv(c)'
<1> USE DEF TransferInv
<1>0. UNCHANGED <<pc, job, done, user, unposted>> /\ posted[s] # << >>
  BY DEF NicStep, NicDone, NicFail, Complete, memVars
<1> SUFFICES ASSUME broken' = {}, pc[c] \in Sending, broken = {} => unposted = 0
             PROVE  PieceAt(c)'
  BY <1>0 DEF SmallInv, NicStep, NicDone, NicFail
<1>1. c \in Callers /\ c \in Threads /\ 0 \in Workers /\ job[c].owner = c
  BY ThreadsApart DEF Threads, Handoff, Sending
<1>2. NicDone(s) /\ broken = {}
  BY DEF NicStep, NicDone, NicFail
<1>3. PieceAt(c)
  BY <1>2 DEF SmallInv
<1>4. pc[c] = "poll" /\ s = 0
  <2>1. ~ InLargeCall(c)
    BY DEF Sending, InLargeCall
  <2> QED
    BY <1>0, <1>3, <2>1, NobodyElsePolls DEF PieceAt
<1>5. posted[0] = <<WorkOf(c)>> /\ (job[c].write => Filled(c))
  BY <1>0, <1>3, <1>4 DEF PieceAt
<1>6. posted'[0] = << >> /\ \A u \in Workers \ {0} : posted'[u] = << >>
  <2>1. posted' = [posted EXCEPT ![0] = Tail(@)]
    BY <1>2, <1>4 DEF NicDone, Complete
  <2>2. Tail(<<WorkOf(c)>>) = << >>
    OBVIOUS
  <2> QED
    BY <1>1, <1>3, <1>5, <2>1, <2>2 DEF TypeOK, PieceAt
<1>7. /\ Head(posted[0]) = WorkOf(c)
      /\ WorkOf(c).write = job[c].write /\ WorkOf(c).owner = c
      /\ WorkOf(c).at = From(c) /\ WorkOf(c).len = SendSize(c)
  <2>1. Head(<<WorkOf(c)>>) = WorkOf(c)
    OBVIOUS
  <2> QED
    BY <1>1, <1>5, <2>1 DEF WorkOf
<1>8. /\ SendSize(c) \in 1 .. Cells /\ From(c) + SendSize(c) <= Cells /\ From(c) \in Nat
      /\ job[c].base \in Nat
      /\ \A k \in 0 .. SendSize(c) - 1 : From(c) + k \in Cell /\ k \in Cell
      /\ \A k \in job[c].base .. (From(c) - 1) : k \in Cell
  <2>1. SendSize(c) \in 1 .. Cells /\ From(c) + SendSize(c) <= Cells
    BY <1>1, <1>4, PieceFits DEF From, Shape, Sending
  <2>2. From(c) \in Nat /\ job[c].base \in Nat
    <3>1. job[c].base \in 0 .. Cells /\ done[c] \in 0 .. Cells
      BY <1>1 DEF TypeOK, TransferTask
    <3> QED
      BY <3>1, TransferAssumption DEF From
  <2> QED
    BY <2>1, <2>2, TransferAssumption DEF Cell
<1>9. SendSize(c)' = SendSize(c) /\ From(c)' = From(c)
  BY <1>0 DEF SendSize, From
<1>10. CASE job[c].write
  <2>1. /\ remote' = [remote EXCEPT ![c] = Copied(@, From(c), bounce[0], 0, SendSize(c))]
        /\ bounce' = bounce
    BY <1>2, <1>4, <1>7, <1>10 DEF NicDone, Carried
  <2>2. remote'[c] = Copied(remote[c], From(c), bounce[0], 0, SendSize(c))
    BY <1>1, <2>1 DEF TypeOK
  <2>3. ASSUME NEW k \in 0 .. SendSize(c) - 1
        PROVE  remote'[c][From(c) + k] = user[c][From(c) + k]
    <3>1. PICK x \in Cell : /\ x = From(c) + k /\ x - From(c) + 0 = k
                            /\ x \in From(c) .. (From(c) + SendSize(c) - 1)
      BY <1>8
    <3>2. remote'[c][x] = bounce[0][k]
      BY <2>2, <3>1 DEF Copied
    <3> QED
      BY <1>5, <1>10, <3>1, <3>2 DEF Filled
  <2>4. ASSUME NEW k \in job[c].base .. (From(c) - 1)
        PROVE  user[c][k] = remote'[c][k]
    <3>1. k \in Cell /\ k \notin From(c) .. (From(c) + SendSize(c) - 1)
      BY <1>8
    <3>2. remote'[c][k] = remote[c][k]
      BY <2>2, <3>1 DEF Copied
    <3> QED
      BY <1>3, <3>2 DEF PieceAt, Moved
  <2>5. Arrived(c)' /\ Moved(c, job[c].base, From(c))'
    BY <1>0, <1>9, <2>3, <2>4 DEF Arrived, Moved
  <2> QED
    BY <1>0, <1>4, <1>6, <1>10, <2>5 DEF PieceAt
<1>11. CASE ~ job[c].write
  <2>1. /\ bounce' = [bounce EXCEPT ![0] = Copied(@, 0, remote[c], From(c), SendSize(c))]
        /\ remote' = remote
    BY <1>2, <1>4, <1>7, <1>11 DEF NicDone, Carried
  <2>2. bounce'[0] = Copied(bounce[0], 0, remote[c], From(c), SendSize(c))
    BY <1>1, <2>1 DEF TypeOK
  <2>3. ASSUME NEW k \in 0 .. SendSize(c) - 1
        PROVE  bounce'[0][k] = remote[c][From(c) + k]
    <3>1. k \in Cell /\ k \in 0 .. (0 + SendSize(c) - 1) /\ k - 0 + From(c) = From(c) + k
      BY <1>8
    <3> QED
      BY <2>2, <3>1 DEF Copied
  <2>4. Fetched(c)' /\ Moved(c, job[c].base, From(c))'
    BY <1>0, <1>3, <1>9, <2>1, <2>3 DEF Fetched, Moved, PieceAt
  <2> QED
    BY <1>0, <1>4, <1>6, <1>11, <2>4 DEF PieceAt
<1> QED
  BY <1>10, <1>11

(* What the one call that is under way keeps true. *)
Sole(c) == Alone(c) /\ Handoff(c) /\ SmallInv(c)

SoleCaller == ~ shared => \E c \in Callers : Sole(c)

(* The caller's own steps, its next call included. *)
LEMMA SoleCallerSteps ==
  ASSUME NEW c \in Callers, TransferInv, Sole(c), Call(c) \/ CallerStep(c) \/ HamalStep(c)
  PROVE  Sole(c)'
<1>0. c \in Threads /\ c \notin Workers
  BY ThreadsApart DEF Threads
<1>1. PICK l \in Sending \cup {"push", "add", "wait", "idle"} :
         Goto(c, l) /\ (l \in Sending => HamalStep(c) \/ \E r \in Requests : CallSmall(c, r))
  <2>1. CASE \E r \in Requests : CallSmall(c, r)
    BY <2>1 DEF CallSmall, Sending
  <2>2. CASE (\E r \in Requests : CallLarge(c, r)) \/ CallerStep(c)
    BY <2>2 DEF CallLarge, CallerStep, PushBack, AddOffset, ReturnLarge, Sending
  <2>3. CASE HamalStep(c)
    BY <2>3 DEF HamalStep, CopyIn, Post, PostFails, Poll, Polled, CopyOut, Finish, Sending
  <2> QED
    BY <2>1, <2>2, <2>3 DEF Call
<1>2. pc'[c] = l /\ \A d \in Callers \ {c} : pc'[d] = pc[d]
  BY <1>0, <1>1 DEF Goto, TransferInv, TypeOK, Threads
<1>3. Alone(c)'
  BY <1>2 DEF Sole, Alone
<1>4. Handoff(c)'
  BY CallerKeepsHandoff DEF Sole
<1>5. SmallInv(c)'
  <2>1. CASE l \in Sending
    BY <1>1, <2>1, SmallCall, SmallSteps DEF Sole
  <2>2. CASE l \notin Sending
    BY <1>2, <2>2 DEF SmallInv
  <2> QED
    BY <2>1, <2>2
<1> QED
  BY <1>3, <1>4, <1>5 DEF Sole

(* Steps of the workers and of the card. *)
LEMMA SoleOtherSteps ==
  ASSUME NEW c \in Callers, TransferInv, Sole(c),
         NEW w \in Workers, WorkerStep(w) \/ HamalStep(w) \/ NicStep(w)
  PROVE  Sole(c)'
<1>0. \A d \in Callers : d \in Threads /\ d \notin Workers
  BY ThreadsApart DEF Threads
<1>1. CASE NicStep(w)
  <2>1. UNCHANGED <<pc, job, tasks, next, queue, offset, held, TransferSignal>>
    BY <1>1 DEF NicStep, NicDone, NicFail, stackVars, queueVars
  <2>2. Handoff(c)'
    BY <2>1 DEF Sole, Handoff, SignalCounts, WorkerAt, Given, Pushed, InLargeCall, Free,
                UnderWay, Returnees
  <2> QED
    BY <1>1, <2>1, <2>2, SmallNic DEF Sole, Alone
<1>2. CASE WorkerStep(w) \/ HamalStep(w)
  <2>1. InLargeCall(c)
    <3>1. pc[w] # "idle" \/ offset[w] # 0
      BY <1>2 DEF WorkerStep, HamalStep, TakeFront, SubOffset, CopyIn, Post, PostFails,
                  MayPost, Poll, CopyOut, Finish, At
    <3> QED
      BY <3>1 DEF Sole, Handoff, WorkerAt, Free, Given, Pushed, InLargeCall
  <2>2. PICK l : Goto(w, l)
    BY <1>2 DEF WorkerStep, HamalStep, TakeFront, SubOffset, CopyIn, Post, PostFails,
                Poll, Polled, CopyOut, Finish
  <2>3. \A d \in Callers : pc'[d] = pc[d]
    BY <1>0, <2>2 DEF Goto, TransferInv, TypeOK
  <2>4. SmallInv(c)' /\ Alone(c)'
    BY <2>1, <2>3 DEF SmallInv, Sending, InLargeCall, Sole, Alone
  <2> QED
    BY <1>2, <2>4, WorkerKeepsHandoff DEF Sole
<1> QED
  BY <1>1, <1>2

(* The hand-over and the piece in flight, at every step. *)
LEMMA SoleCallerHolds == Spec => []SoleCaller
<1>0. ASSUME NEW c \in Callers, TransferInv,
             \A t \in Threads : pc[t] = "idle",
             \A w \in Workers : queue[w] = << >> /\ offset[w] = 0
      PROVE  Sole(c)
  <2>1. pc[c] = "idle" /\ \A w \in Workers : Free(w)
    BY <1>0 DEF Free, Threads
  <2> QED
    BY <1>0, <2>1 DEF Sole, Alone, Handoff, SignalCounts, WorkerAt, Given, Pushed,
                      InLargeCall, SmallInv, Sending, Threads
<1>1. Init => SoleCaller
  <2> SUFFICES ASSUME Init PROVE \E c \in Callers : Sole(c)
    BY DEF SoleCaller
  <2>1. PICK c \in Callers : TRUE
    BY TransferAssumption
  <2>2. TransferInv
    BY TransferInvStart
  <2> QED
    BY <1>0, <2>1, <2>2 DEF Init
<1>2. TransferInv /\ SoleCaller /\ [Next]_vars => SoleCaller'
  <2> SUFFICES ASSUME TransferInv, SoleCaller, [Next]_vars, ~ shared'
               PROVE  \E c \in Callers : Sole(c)'
    BY DEF SoleCaller
  <2>1. ASSUME NEW c \in Callers, Call(c) PROVE \E d \in Callers : Sole(d)'
    <3>1. Apart
      BY <2>1 DEF Call, CallSmall, CallLarge, Enter
    <3>2. ASSUME NEW w \in Workers
          PROVE  pc[w] = "idle" /\ queue[w] = << >> /\ offset[w] = 0
      <4>1. CASE shared
        BY <3>1, <4>1 DEF Apart, At
      <4>2. CASE ~ shared
        <5>1. PICK d \in Callers : Handoff(d)
          BY <4>2 DEF SoleCaller, Sole
        <5>2. ~ InLargeCall(d)
          BY <3>1 DEF Apart, At, InLargeCall
        <5>3. Free(w)
          BY <5>1, <5>2 DEF Handoff, WorkerAt, Given, Pushed, InLargeCall
        <5> QED
          BY <5>3 DEF Free
      <4> QED
        BY <4>1, <4>2
    <3>3. \A t \in Threads : pc[t] = "idle"
      BY <3>1, <3>2 DEF Apart, At, Threads
    <3>4. Sole(c)
      BY <1>0, <3>2, <3>3
    <3> QED
      BY <2>1, <3>4, SoleCallerSteps
  <2>2. SUFFICES ASSUME \A c \in Callers : ~ Call(c)
                 PROVE  \E c \in Callers : Sole(c)'
    BY <2>1
  <2>3. shared' = shared
    BY <2>2 DEF Next, CallerStep, PushBack, AddOffset, ReturnLarge, WorkerStep, TakeFront,
                SubOffset, HamalStep, CopyIn, Post, PostFails, Poll, Polled, CopyOut, Finish,
                NicStep, NicDone, NicFail, useVars, vars
  <2>4. PICK c \in Callers : Sole(c)
    BY <2>3 DEF SoleCaller
  <2>5. ASSUME NEW d \in Callers, CallerStep(d) \/ HamalStep(d) PROVE Sole(c)'
    <3>1. pc[d] # "idle"
      BY <2>5 DEF CallerStep, PushBack, AddOffset, ReturnLarge, HamalStep, CopyIn, Post,
                  PostFails, MayPost, Poll, CopyOut, Finish, At
    <3>2. d = c
      BY <2>4, <3>1 DEF Sole, Alone
    <3> QED
      BY <2>4, <2>5, <3>2, SoleCallerSteps
  <2>6. ASSUME NEW w \in Workers, WorkerStep(w) \/ HamalStep(w) \/ NicStep(w)
        PROVE  Sole(c)'
    BY <2>4, <2>6, SoleOtherSteps
  <2>7. CASE UNCHANGED vars
    <3>1. UNCHANGED <<pc, job, done, next, tasks, queue, offset, held, TransferSignal,
                      bounce, posted, broken, unposted, user, remote>>
      BY <2>7 DEF vars, stackVars, queueVars, nicVars, memVars
    <3>2. Handoff(c)'
      BY <2>4, <3>1 DEF Sole, Handoff, SignalCounts, WorkerAt, Given, Pushed, InLargeCall,
                        Free, UnderWay, Returnees
    <3>3. SmallInv(c)' /\ Alone(c)'
      BY <2>4, <3>1 DEF Sole, Alone, SmallInv, PieceAt, Moved, Filled, Fetched, Arrived, From,
                        WorkOf, SendSize
    <3> QED
      BY <3>2, <3>3 DEF Sole
  <2> QED
    BY <2>2, <2>5, <2>6, <2>7 DEF Next, Threads
<1> QED
  BY <1>1, <1>2, TransferInvHolds, PTL DEF Spec

(* What TransferSignal is for: when it lets a large call return, no worker *)
(* has the address of its stack any more, in its queue, in a local or in a *)
(* transfer; for any number of threads that call one after the other and   *)
(* up to four workers.                                                     *)
THEOREM StackIsPinned == Spec => []TasksPinned
<1>1. TransferInv /\ SoleCaller => TasksPinned
  <2> SUFFICES ASSUME TransferInv, SoleCaller, ~ shared, NEW w \in Workers
               PROVE  /\ \A i \in 1 .. Len(queue[w]) : InLargeCall(queue[w][i])
                      /\ At(w, "sub") => InLargeCall(held[w])
                      /\ pc[w] \notin {"idle", "sub"} =>
                             InLargeCall(job[w].owner) /\ job[w] = tasks[job[w].owner][w]
    BY DEF TasksPinned
  <2>1. PICK c \in Callers : Handoff(c)
    BY DEF SoleCaller, Sole
  <2>2. CASE Free(w)
    BY <2>2 DEF Free, At
  <2>3. CASE ~ Free(w)
    <3>1. InLargeCall(c) /\ tasks[c][w].owner = c
      BY <2>1, <2>3 DEF Handoff, WorkerAt, Given, Pushed, InLargeCall
    <3>2. pc[w] \notin {"idle", "sub"} => job[w] = tasks[c][w]
      BY <2>1, <2>3 DEF Handoff, WorkerAt, UnderWay
    <3>3. pc[w] = "sub" => held[w] = c
      BY <2>1, <2>3 DEF Handoff, WorkerAt, UnderWay, Sending
    <3>4. queue[w] = << >> \/ queue[w] = <<c>>
      BY <2>1, <2>3 DEF Handoff, WorkerAt, UnderWay
    <3> QED
      BY <3>1, <3>2, <3>3, <3>4 DEF At
  <2> QED
    BY <2>2, <2>3
<1> QED
  BY <1>1, TransferInvHolds, SoleCallerHolds, PTL

(* PushPolling and PopPolling never work on one vector at the same time,   *)
(* for any number of threads that call one after the other and up to four  *)
(* workers.                                                                *)
THEOREM QueuesAreHandedOver == Spec => []QueueHandoff
<1>1. TransferInv /\ SoleCaller => QueueHandoff
  <2> SUFFICES ASSUME TransferInv, SoleCaller, ~ shared, NEW d \in Callers,
                      pc[d] \in {"push", "add"}
               PROVE  /\ At(d, "push") => /\ At(next[d], "idle")
                                          /\ queue[next[d]] = <<>> /\ offset[next[d]] = 0
                      /\ At(d, "add") => At(next[d], "idle") /\ offset[next[d]] = 0
    BY DEF QueueHandoff, At
  <2>1. PICK c \in Callers : Alone(c) /\ Handoff(c)
    BY DEF SoleCaller, Sole
  <2>2. d = c
    BY <2>1 DEF Alone
  <2>3. next[c] \in Workers
    BY <2>2, TransferAssumption DEF TransferInv, TypeOK, Shape, Workers
  <2>4. next[c] \in Nat => ~ (next[c] < next[c])
    OBVIOUS
  <2>5. next[c] \in Nat
    BY TransferAssumption DEF TransferInv, TypeOK
  <2> QED
    BY <2>1, <2>2, <2>3, <2>4, <2>5 DEF Handoff, WorkerAt, Given, Pushed, Free, At
<1> QED
  BY <1>1, TransferInvHolds, SoleCallerHolds, PTL

(* What a small RemoteRead or RemoteWrite has counted as sent is at its    *)
(* destination, whatever calls came before on this thread or another, for  *)
(* every size and every bounce buffer, while no queue pair is broken and   *)
(* the call overlaps with no other.                                        *)
THEOREM SmallTransfersMove == Spec => []SmallTransferMoved
<1>1. SoleCaller => SmallTransferMoved
  <2> SUFFICES ASSUME SoleCaller, ~ shared, broken = {}, NEW d \in Callers,
                      pc[d] \in {"loop", "post"}
               PROVE  Moved(d, job[d].base, job[d].base + done[d])
    BY DEF SmallTransferMoved
  <2>1. PICK c \in Callers : Alone(c) /\ SmallInv(c)
    BY DEF SoleCaller, Sole
  <2>2. d = c
    BY <2>1 DEF Alone
  <2> QED
    BY <2>1, <2>2 DEF SmallInv, PieceAt, From, Sending
<1> QED
  BY <1>1, SoleCallerHolds, PTL

-----------------------------------------------------------------------------
(***************************************************************************)
(* Batches (BatchPost), for any number of peers and any signal period.     *)
(***************************************************************************)
Completion == [peer : Peers, number : Nat]

BatchList == [to : Peers, left : Nat, polled : BOOLEAN]

BatchTypeOK ==
  /\ counter \in [Peers -> Nat] /\ handed \in [Peers -> Nat]
  /\ executed \in [Peers -> Nat] /\ freed \in [Peers -> Nat]
  /\ cqes \in Seq(Completion)
  /\ list = Idle \/ list \in BatchList

(* Requests are freed after they are carried out, in the order in which    *)
(* their completions came.                                                 *)
InOrder ==
  /\ \A p \in Peers : /\ freed[p] <= executed[p] /\ executed[p] <= handed[p]
                      /\ handed[p] <= counter[p]
                      /\ freed[p] = 0 \/ Signalled(freed[p] - 1)
  /\ \A i \in 1 .. Len(cqes) :
       /\ freed[cqes[i].peer] <= cqes[i].number
       /\ cqes[i].number < executed[cqes[i].peer]
       /\ Signalled(cqes[i].number)
  /\ \A i, j \in 1 .. Len(cqes) :
       i < j /\ cqes[i].peer = cqes[j].peer => cqes[i].number < cqes[j].number

(* The requests with a completion whose place is not free yet. *)
Unpolled == {x \in Peers \X Nat : /\ freed[x[1]] <= x[2] /\ x[2] < counter[x[1]]
                                  /\ Signalled(x[2])}

Started == {p \in Peers : counter[p] > 0}

HasPolled == IF list # Idle /\ list.polled THEN 1 ELSE 0

(* Only the first completion of a peer is asked for without a poll. *)
PollsPay ==
  /\ IsFiniteSet(Unpolled)
  /\ Cardinality(Unpolled) + HasPolled <= Cardinality(Started)
  /\ list # Idle /\ list.polled => Signalled(counter[list.to]) /\ counter[list.to] > 0

BatchInv == BatchTypeOK /\ InOrder /\ PollsPay

(* A peer whose n + 1 places are not enough for its requests has more than *)
(* n completions outstanding.                                              *)
LEMMA ManyUnpolled ==
  ASSUME BatchInv, NEW p \in Peers, NEW n \in Nat,
         counter[p] - freed[p] > (n + 1) * SignalPeriod
  PROVE  Cardinality(Unpolled) > n
<1> DEFINE S == SignalPeriod
<1>0. S \in Nat /\ S > 0 /\ freed[p] \in Nat /\ counter[p] \in Nat
  BY BatchAssumption DEF BatchInv, BatchTypeOK
<1> HIDE DEF S
<1>1. PICK a \in Nat : freed[p] <= S * a /\ S * a + S * n < counter[p]
                       /\ S * a \in Nat /\ S * n \in Nat
  <2>1. (n + 1) * S = S * n + S /\ S * n \in Nat
    BY <1>0
  <2>2. counter[p] - freed[p] > S * n + S
    BY <2>1 DEF S
  <2>3. CASE freed[p] = 0
    <3>1. S * 0 = 0
      BY <1>0
    <3>2. freed[p] <= S * 0 /\ S * 0 + S * n < counter[p]
      BY <1>0, <2>1, <2>2, <2>3, <3>1
    <3> QED
      BY <2>1, <3>1, <3>2
  <2>4. CASE freed[p] # 0
    <3>1. Signalled(freed[p] - 1) /\ freed[p] - 1 \in Nat
      BY <1>0, <2>4 DEF BatchInv, InOrder
    <3>2. PICK q \in Nat : freed[p] - 1 = S * q
      <4>1. PICK f \in Nat : f = freed[p] - 1
        BY <3>1
      <4>2. f % S = 0
        BY <3>1, <4>1 DEF Signalled, S
      <4>3. f \div S \in Nat /\ f = S * (f \div S) + (f % S)
        BY <1>0, Quotient
      <4>4. S * (f \div S) \in Int
        BY <1>0, <4>3
      <4> QED
        BY <4>1, <4>2, <4>3, <4>4
    <3>3. S * (q + 1) = S * q + S /\ S * q \in Nat
      BY <1>0
    <3>4. freed[p] <= S * (q + 1) /\ S * (q + 1) + S * n < counter[p]
          /\ S * (q + 1) \in Nat /\ q + 1 \in Nat
      BY <1>0, <2>1, <2>2, <3>2, <3>3
    <3> QED
      BY <2>1, <3>4
  <2> QED
    BY <2>3, <2>4
<1> DEFINE f == [k \in 0 .. n |-> <<p, S * (a + k)>>]
<1>2. ASSUME NEW k \in 0 .. n
      PROVE  S * (a + k) \in Nat /\ <<p, S * (a + k)>> \in Unpolled
  <2>1. S * (a + k) = S * a + S * k /\ S * k \in Nat
    BY <1>0
  <2>2. S * k <= S * n
    <3>1. PICK d \in Nat : n = k + d
      <4>1. n - k \in Nat /\ n = k + (n - k)
        OBVIOUS
      <4> QED
        BY <4>1
    <3>2. S * n = S * k + S * d /\ S * d \in Nat
      BY <1>0, <3>1
    <3> QED
      BY <2>1, <3>2
  <2>3. S * (a + k) \in Nat /\ freed[p] <= S * (a + k) /\ S * (a + k) < counter[p]
    BY <1>0, <1>1, <2>1, <2>2
  <2>4. Signalled(S * (a + k))
    <3>1. S * (a + k) + 0 \in Nat /\ S * (a + k) + 0 = S * (a + k) /\ a + k \in Int
      BY <2>3
    <3>2. (S * (a + k) + 0) % S = 0
      BY <1>0, <3>1, Remainder
    <3> QED
      BY <3>1, <3>2 DEF Signalled, S
  <2> QED
    BY <2>3, <2>4 DEF Unpolled
<1>3. ASSUME NEW k \in 0 .. n, NEW m \in 0 .. n, f[k] = f[m] PROVE k = m
  <2>1. S * (a + k) = S * (a + m)
    BY <1>3
  <2>2. S * (a + k) = S * a + S * k /\ S * (a + m) = S * a + S * m
        /\ S * k \in Nat /\ S * m \in Nat
    BY <1>0
  <2>3. S * k = S * m
    BY <1>1, <2>1, <2>2
  <2> QED
    BY <1>0, <2>3
<1>4. f \in Injection(0 .. n, Unpolled)
  BY <1>2, <1>3 DEF Injection, IsInjective
<1>5. Cardinality(0 .. n) = n + 1
  <2>1. 0 \in Int /\ n \in Int /\ ~ (0 > n) /\ n - 0 + 1 = n + 1
    OBVIOUS
  <2> QED
    BY <2>1, FS_Interval
<1>6. Cardinality(0 .. n) <= Cardinality(Unpolled) /\ Cardinality(Unpolled) \in Nat
  <2> HIDE DEF f
  <2>1. IsFiniteSet(Unpolled)
    BY DEF BatchInv, PollsPay
  <2> QED
    BY <1>4, <2>1, FS_Injection, FS_CardinalityType
<1> QED
  BY <1>5, <1>6

(* A batch verb begins, its list is posted or refused. *)
LEMMA ListKeepsInv ==
  ASSUME BatchInv, \/ PostList \/ PostListFails
                   \/ \E p \in Peers, n \in 1 .. MAX_POST_LIST : Batch(p, n)
  PROVE  BatchInv'
<1>1. UNCHANGED <<counter, executed, freed, cqes>>
  BY DEF PostList, PostListFails, Batch
<1>2. list' = Idle \/ (list' \in BatchList /\ ~ list'.polled)
  <2>1. ASSUME NEW p \in Peers, NEW n \in 1 .. MAX_POST_LIST, Batch(p, n)
        PROVE  list' \in BatchList /\ ~ list'.polled
    <3>1. list' = [to |-> p, left |-> n, polled |-> FALSE]
      BY <2>1 DEF Batch
    <3>2. n \in Nat
      BY BatchAssumption
    <3> QED
      BY <3>1, <3>2 DEF BatchList
  <2> QED
    BY <2>1 DEF PostList, PostListFails
<1>3. \A p \in Peers : handed'[p] \in Nat /\ executed[p] <= handed'[p] /\ handed'[p] <= counter[p]
      /\ handed' \in [Peers -> Nat]
  <2>1. CASE handed' = handed
    BY <2>1 DEF BatchInv, BatchTypeOK, InOrder
  <2>2. CASE list # Idle /\ handed' = [handed EXCEPT ![list.to] = counter[list.to]]
    <3>1. list.to \in Peers
      BY <2>2 DEF BatchInv, BatchTypeOK, BatchList
    <3>2. \A p \in Peers : counter[p] \in Nat /\ executed[p] \in Nat /\ handed[p] \in Nat
                           /\ executed[p] <= handed[p] /\ handed[p] <= counter[p]
      BY DEF BatchInv, BatchTypeOK, InOrder
    <3>3. handed' \in [Peers -> Nat]
      BY <2>2, <3>1, <3>2 DEF BatchInv, BatchTypeOK
    <3>4. \A p \in Peers : handed'[p] = IF p = list.to THEN counter[p] ELSE handed[p]
      BY <2>2, <3>1 DEF BatchInv, BatchTypeOK
    <3> QED
      BY <3>2, <3>3, <3>4
  <2> QED
    BY <2>1, <2>2 DEF PostList, PostListFails, Batch
<1>4. BatchTypeOK'
  <2>1. Peers = {} => handed' \in [Peers -> Nat]
    BY DEF PostList, PostListFails, Batch, BatchInv, BatchTypeOK
  <2> QED
    BY <1>1, <1>2, <1>3, <2>1 DEF BatchInv, BatchTypeOK
<1>5. InOrder'
  BY <1>1, <1>3 DEF BatchInv, InOrder
<1>6. PollsPay'
  <2>1. Unpolled' = Unpolled /\ Started' = Started
    BY <1>1 DEF Unpolled, Started
  <2>2. HasPolled' = 0 /\ HasPolled \in {0, 1}
    BY <1>2 DEF HasPolled
  <2>3. IsFiniteSet(Started) /\ Cardinality(Started) \in Nat
    BY BatchAssumption, FS_Subset, FS_CardinalityType DEF Started
  <2>4. IsFiniteSet(Unpolled) /\ Cardinality(Unpolled) \in Nat
    BY FS_CardinalityType DEF BatchInv, PollsPay
  <2> QED
    BY <1>2, <2>1, <2>2, <2>3, <2>4 DEF BatchInv, PollsPay
<1> QED
  BY <1>4, <1>5, <1>6 DEF BatchInv

(* One completion is polled, of whichever peer. *)
LEMMA PollBatchKeepsInv ==
  ASSUME BatchInv, PollBatch
  PROVE  BatchInv'
<1> DEFINE e == Head(cqes)
<1>1. /\ list # Idle /\ MustPoll /\ cqes # << >> /\ cqes' = Tail(cqes)
      /\ freed' = [freed EXCEPT ![e.peer] = e.number + 1]
      /\ list' = [list EXCEPT !.polled = TRUE]
      /\ UNCHANGED <<counter, handed, executed>>
  BY DEF PollBatch
<1>2. cqes \in Seq(Completion) /\ list \in BatchList
  BY <1>1 DEF BatchInv, BatchTypeOK
<1>3. e = cqes[1] /\ 1 \in 1 .. Len(cqes) /\ e \in Completion
  BY <1>1, <1>2
<1> HIDE DEF e
<1>4. /\ e.peer \in Peers /\ e.number \in Nat /\ Signalled(e.number)
      /\ freed[e.peer] <= e.number /\ e.number < executed[e.peer]
  BY <1>3 DEF Completion, BatchInv, InOrder
<1>5. \A p \in Peers : /\ freed'[p] = IF p = e.peer THEN e.number + 1 ELSE freed[p]
                       /\ freed[p] \in Nat /\ executed[p] \in Nat /\ counter[p] \in Nat
                       /\ handed[p] \in Nat /\ freed[p] <= executed[p]
                       /\ executed[p] <= handed[p] /\ handed[p] <= counter[p]
                       /\ (freed[p] = 0 \/ Signalled(freed[p] - 1))
  BY <1>1, <1>4 DEF BatchInv, BatchTypeOK, InOrder
<1>6. /\ cqes' \in Seq(Completion) /\ Len(cqes') = Len(cqes) - 1
      /\ \A i \in 1 .. Len(cqes') : i + 1 \in 1 .. Len(cqes) /\ cqes'[i] = cqes[i + 1]
  <2>1. Tail(cqes) \in Seq(Completion)
    BY <1>1, <1>2
  <2> QED
    BY <1>1, <1>2, <2>1, AfterTail
<1>7. list' \in BatchList /\ list'.to = list.to /\ list'.polled = TRUE /\ ~ list.polled
  BY <1>1, <1>2 DEF BatchList, MustPoll
<1>8. BatchTypeOK'
  <2>1. freed' \in [Peers -> Nat]
    BY <1>1, <1>4 DEF BatchInv, BatchTypeOK
  <2> QED
    BY <1>1, <1>6, <1>7, <2>1 DEF BatchInv, BatchTypeOK
<1>9. InOrder'
  <2>1. ASSUME NEW p \in Peers
        PROVE  /\ freed'[p] <= executed'[p] /\ executed'[p] <= handed'[p]
               /\ handed'[p] <= counter'[p]
               /\ freed'[p] = 0 \/ Signalled(freed'[p] - 1)
    <3>1. e.number + 1 - 1 = e.number
      BY <1>4
    <3> QED
      BY <1>1, <1>4, <1>5, <3>1
  <2>2. ASSUME NEW i \in 1 .. Len(cqes')
        PROVE  /\ freed'[cqes'[i].peer] <= cqes'[i].number
               /\ cqes'[i].number < executed'[cqes'[i].peer]
               /\ Signalled(cqes'[i].number)
    <3>1. PICK j \in 1 .. Len(cqes) : j = i + 1 /\ cqes'[i] = cqes[j]
      BY <1>6
    <3>2. cqes[j] \in Completion
      BY <1>2
    <3>3. /\ cqes[j].peer \in Peers /\ cqes[j].number \in Nat
          /\ freed[cqes[j].peer] <= cqes[j].number
          /\ cqes[j].number < executed[cqes[j].peer] /\ Signalled(cqes[j].number)
      BY <3>2 DEF Completion, BatchInv, InOrder
    <3>4. cqes[j].peer = e.peer => e.number < cqes[j].number
      <4>1. 1 < j
        BY <3>1
      <4> QED
        BY <1>3, <4>1 DEF BatchInv, InOrder
    <3> QED
      BY <1>1, <1>4, <1>5, <3>1, <3>3, <3>4
  <2>3. ASSUME NEW i \in 1 .. Len(cqes'), NEW j \in 1 .. Len(cqes'),
               i < j, cqes'[i].peer = cqes'[j].peer
        PROVE  cqes'[i].number < cqes'[j].number
    <3>1. /\ i + 1 \in 1 .. Len(cqes) /\ j + 1 \in 1 .. Len(cqes) /\ i + 1 < j + 1
          /\ cqes'[i] = cqes[i + 1] /\ cqes'[j] = cqes[j + 1]
      BY <1>6, <2>3
    <3> QED
      BY <2>3, <3>1 DEF BatchInv, InOrder
  <2> QED
    BY <2>1, <2>2, <2>3 DEF InOrder
<1>10. PollsPay'
  <2> DEFINE x == <<e.peer, e.number>>
  <2>1. x \in Unpolled
    BY <1>4, <1>5 DEF Unpolled
  <2>2. Unpolled' \subseteq Unpolled \ {x}
    <3> SUFFICES ASSUME NEW y \in Unpolled' PROVE y \in Unpolled /\ y # x
      OBVIOUS
    <3>1. /\ y \in Peers \X Nat /\ freed'[y[1]] <= y[2] /\ y[2] < counter[y[1]]
          /\ Signalled(y[2])
      BY <1>1 DEF Unpolled
    <3>2. y[1] \in Peers /\ y[2] \in Nat
      BY <3>1
    <3>3. freed[y[1]] <= y[2] /\ (y[1] = e.peer => y[2] # e.number)
      BY <1>4, <1>5, <3>1, <3>2
    <3> QED
      BY <3>1, <3>3 DEF Unpolled
  <2>3. IsFiniteSet(Unpolled) /\ Cardinality(Unpolled) \in Nat
    BY FS_CardinalityType DEF BatchInv, PollsPay
  <2> HIDE DEF x
  <2>4. IsFiniteSet(Unpolled \ {x}) /\ Cardinality(Unpolled \ {x}) = Cardinality(Unpolled) - 1
    BY <2>1, <2>3, FS_RemoveElement
  <2>5. IsFiniteSet(Unpolled') /\ Cardinality(Unpolled') <= Cardinality(Unpolled) - 1
    BY <2>2, <2>4, FS_Subset
  <2>6. Cardinality(Unpolled') \in Nat
    BY <2>5, FS_CardinalityType
  <2>7. Started' = Started /\ IsFiniteSet(Started) /\ Cardinality(Started) \in Nat
    BY <1>1, BatchAssumption, FS_Subset, FS_CardinalityType DEF Started
  <2>8. HasPolled = 0 /\ HasPolled' \in {0, 1}
    BY <1>7 DEF HasPolled
  <2>9. Cardinality(Unpolled') + HasPolled' <= Cardinality(Started')
    BY <2>3, <2>5, <2>6, <2>7, <2>8 DEF BatchInv, PollsPay
  <2>10. Signalled(counter'[list'.to]) /\ counter'[list'.to] > 0
    BY <1>1, <1>7 DEF MustPoll, Signalled
  <2> QED
    BY <2>5, <2>9, <2>10 DEF PollsPay
<1> QED
  BY <1>8, <1>9, <1>10 DEF BatchInv

(* A request is added to the list. *)
LEMMA AddRequestKeepsInv ==
  ASSUME BatchInv, AddRequest
  PROVE  BatchInv'
<1>1. /\ list # Idle /\ list.left > 0 /\ ~ MustPoll
      /\ counter' = [counter EXCEPT ![list.to] = @ + 1]
      /\ list' = [list EXCEPT !.left = @ - 1, !.polled = FALSE]
      /\ UNCHANGED <<handed, executed, freed, cqes>>
  BY DEF AddRequest
<1>2. list \in BatchList
  BY <1>1 DEF BatchInv, BatchTypeOK
<1>3. PICK p \in Peers : p = list.to
  BY <1>2 DEF BatchList
<1>4. list' \in BatchList /\ ~ list'.polled
  <2>1. list.left - 1 \in Nat
    BY <1>1, <1>2 DEF BatchList
  <2> QED
    BY <1>1, <1>2, <2>1 DEF BatchList
<1>5. \A q \in Peers : /\ counter'[q] = IF q = p THEN counter[q] + 1 ELSE counter[q]
                       /\ freed[q] \in Nat /\ executed[q] \in Nat /\ counter[q] \in Nat
                       /\ handed[q] \in Nat /\ freed[q] <= executed[q]
                       /\ executed[q] <= handed[q] /\ handed[q] <= counter[q]
  BY <1>1, <1>3 DEF BatchInv, BatchTypeOK, InOrder
<1>6. BatchTypeOK'
  <2>1. counter' \in [Peers -> Nat]
    BY <1>1, <1>3, <1>5 DEF BatchInv, BatchTypeOK
  <2> QED
    BY <1>1, <1>4, <2>1 DEF BatchInv, BatchTypeOK
<1>7. InOrder'
  <2>1. \A q \in Peers : handed[q] <= counter'[q]
    BY <1>5
  <2> QED
    BY <1>1, <2>1 DEF BatchInv, InOrder
<1>8. PollsPay'
  <2> DEFINE x == <<p, counter[p]>>
  <2>1. IsFiniteSet(Unpolled) /\ Cardinality(Unpolled) \in Nat
    BY FS_CardinalityType DEF BatchInv, PollsPay
  <2>2. IsFiniteSet(Started) /\ Cardinality(Started) \in Nat
    BY BatchAssumption, FS_Subset, FS_CardinalityType DEF Started
  <2>3. HasPolled' = 0
    BY <1>4 DEF HasPolled
  <2>4. ASSUME NEW y \in Peers \X Nat
        PROVE  y \in Unpolled' <=> \/ y \in Unpolled
                                   \/ y = x /\ Signalled(counter[p])
    <3>1. PICK q \in Peers, n \in Nat : y = <<q, n>>
      BY <2>4
    <3>2. CASE q # p
      BY <1>1, <1>5, <3>1, <3>2 DEF Unpolled
    <3>3. CASE q = p
      <4>1. n < counter[p] + 1 <=> n < counter[p] \/ n = counter[p]
        BY <1>5
      <4>2. freed[p] <= counter[p]
        BY <1>5
      <4> QED
        BY <1>1, <1>5, <3>1, <3>3, <4>1, <4>2 DEF Unpolled
    <3> QED
      BY <3>2, <3>3
  <2>5. x \in Peers \X Nat /\ x \notin Unpolled
    BY <1>5 DEF Unpolled
  <2> HIDE DEF x
  <2>6. Unpolled' \subseteq Peers \X Nat /\ Unpolled \subseteq Peers \X Nat
    BY DEF Unpolled
  <2>7. CASE Signalled(counter[p])
    <3>1. Unpolled' = Unpolled \cup {x}
      BY <2>4, <2>5, <2>6, <2>7, Zenon
    <3>2. IsFiniteSet(Unpolled') /\ Cardinality(Unpolled') = Cardinality(Unpolled) + 1
      BY <2>1, <2>5, <3>1, FS_AddElement
    <3>3. CASE counter[p] = 0
      <4>1. Started' = Started \cup {p} /\ p \notin Started
        BY <1>5, <3>3 DEF Started
      <4>2. Cardinality(Started') = Cardinality(Started) + 1
        BY <2>2, <4>1, FS_AddElement
      <4>3. Cardinality(Unpolled) <= Cardinality(Started)
        BY <2>1, <2>2 DEF BatchInv, PollsPay, HasPolled
      <4> QED
        BY <1>4, <2>1, <2>2, <2>3, <3>2, <4>2, <4>3 DEF PollsPay
    <3>4. CASE counter[p] # 0
      <4>1. Started' = Started
        BY <1>5, <3>4 DEF Started
      <4>2. list.polled
        BY <1>1, <1>3, <1>5, <2>7, <3>4 DEF MustPoll, Signalled
      <4>3. HasPolled = 1
        BY <1>1, <4>2 DEF HasPolled
      <4> QED
        BY <1>4, <2>1, <2>2, <2>3, <3>2, <4>1, <4>3 DEF BatchInv, PollsPay
    <3> QED
      BY <3>3, <3>4
  <2>8. CASE ~ Signalled(counter[p])
    <3>1. Unpolled' = Unpolled
      BY <2>4, <2>6, <2>8, Zenon
    <3>2. counter[p] > 0
      <4>1. 0 % SignalPeriod = 0
        BY BatchAssumption
      <4> QED
        BY <1>5, <2>8, <4>1 DEF Signalled
    <3>3. Started' = Started
      BY <1>5, <3>2 DEF Started
    <3>4. HasPolled \in {0, 1}
      BY DEF HasPolled
    <3> QED
      BY <1>4, <2>1, <2>2, <2>3, <3>1, <3>3, <3>4 DEF BatchInv, PollsPay
  <2> QED
    BY <2>7, <2>8
<1> QED
  BY <1>6, <1>7, <1>8 DEF BatchInv

(* The device carries out a request and reports every signalled one. *)
LEMMA ExecuteKeepsInv ==
  ASSUME BatchInv, NEW p \in Peers, Execute(p)
  PROVE  BatchInv'
<1>1. /\ executed[p] < handed[p] /\ executed' = [executed EXCEPT ![p] = @ + 1]
      /\ UNCHANGED <<counter, handed, freed, list>>
  BY DEF Execute
<1>2. PICK e \in Completion : e.peer = p /\ e.number = executed[p]
  <2>1. [peer |-> p, number |-> executed[p]] \in Completion
    BY DEF Completion, BatchInv, BatchTypeOK
  <2> QED
    BY <2>1
<1>3. cqes \in Seq(Completion) /\ Len(cqes) \in Nat
  BY DEF BatchInv, BatchTypeOK
<1>4. \/ cqes' = cqes
      \/ Signalled(executed[p]) /\ cqes' = Append(cqes, e)
  <2>1. e = [peer |-> p, number |-> executed[p]]
    BY <1>2 DEF Completion
  <2> QED
    BY <2>1 DEF Execute
<1>5. \A q \in Peers : /\ executed'[q] = IF q = p THEN executed[q] + 1 ELSE executed[q]
                       /\ freed[q] \in Nat /\ executed[q] \in Nat /\ handed[q] \in Nat
                       /\ counter[q] \in Nat /\ freed[q] <= executed[q]
                       /\ executed[q] <= handed[q] /\ handed[q] <= counter[q]
  BY <1>1 DEF BatchInv, BatchTypeOK, InOrder
<1>6. cqes' \in Seq(Completion)
  BY <1>3, <1>4
<1>7. BatchTypeOK'
  <2>1. executed' \in [Peers -> Nat]
    BY <1>1, <1>5 DEF BatchInv, BatchTypeOK
  <2> QED
    BY <1>1, <1>6, <2>1 DEF BatchInv, BatchTypeOK
<1>8. \A i \in 1 .. Len(cqes) : /\ cqes[i].peer \in Peers /\ cqes[i].number \in Nat
                                /\ freed[cqes[i].peer] <= cqes[i].number
                                /\ cqes[i].number < executed[cqes[i].peer]
                                /\ Signalled(cqes[i].number)
  <2>1. \A i \in 1 .. Len(cqes) : cqes[i] \in Completion
    BY <1>3
  <2> QED
    BY <2>1 DEF Completion, BatchInv, InOrder
<1>9. ASSUME NEW i \in 1 .. Len(cqes')
      PROVE  \/ i \in 1 .. Len(cqes) /\ cqes'[i] = cqes[i]
             \/ i = Len(cqes) + 1 /\ cqes'[i] = e /\ Signalled(executed[p])
  BY <1>3, <1>4
<1>10. InOrder'
  <2>1. \A q \in Peers : freed[q] <= executed'[q] /\ executed'[q] <= handed[q]
    BY <1>1, <1>5
  <2>2. ASSUME NEW i \in 1 .. Len(cqes')
        PROVE  /\ freed[cqes'[i].peer] <= cqes'[i].number
               /\ cqes'[i].number < executed'[cqes'[i].peer]
               /\ Signalled(cqes'[i].number)
    <3>1. CASE i \in 1 .. Len(cqes) /\ cqes'[i] = cqes[i]
      BY <1>5, <1>8, <3>1
    <3>2. CASE cqes'[i] = e /\ Signalled(executed[p])
      BY <1>2, <1>5, <3>2
    <3> QED
      BY <1>9, <3>1, <3>2
  <2>3. ASSUME NEW i \in 1 .. Len(cqes'), NEW j \in 1 .. Len(cqes'),
               i < j, cqes'[i].peer = cqes'[j].peer
        PROVE  cqes'[i].number < cqes'[j].number
    <3>1. i \in 1 .. Len(cqes) /\ cqes'[i] = cqes[i]
      <4>1. j <= Len(cqes) + 1
        BY <1>3, <1>9
      <4> QED
        BY <1>3, <1>9, <2>3, <4>1
    <3>2. CASE j \in 1 .. Len(cqes) /\ cqes'[j] = cqes[j]
      BY <2>3, <3>1, <3>2 DEF BatchInv, InOrder
    <3>3. CASE cqes'[j] = e
      BY <1>2, <1>8, <2>3, <3>1, <3>3
    <3> QED
      BY <1>9, <3>2, <3>3
  <2> QED
    BY <1>1, <2>1, <2>2, <2>3 DEF BatchInv, InOrder
<1>11. PollsPay'
  <2>1. Unpolled' = Unpolled /\ Started' = Started /\ HasPolled' = HasPolled
    BY <1>1 DEF Unpolled, Started, HasPolled
  <2> QED
    BY <1>1, <2>1 DEF BatchInv, PollsPay
<1> QED
  BY <1>7, <1>10, <1>11 DEF BatchInv

(* No request exists yet. *)
LEMMA BatchInvStart ==
  ASSUME BatchInit
  PROVE  BatchInv
<1>1. \A p \in Peers : counter[p] = 0 /\ handed[p] = 0 /\ executed[p] = 0 /\ freed[p] = 0
  BY DEF BatchInit
<1>2. BatchTypeOK
  BY DEF BatchInit, BatchTypeOK
<1>3. InOrder
  BY <1>1 DEF InOrder, BatchInit
<1>4. Unpolled = {} /\ Started = {} /\ HasPolled = 0
  BY <1>1 DEF Unpolled, Started, HasPolled, BatchInit
<1>5. PollsPay
  BY <1>4, FS_EmptySet DEF PollsPay, BatchInit
<1> QED
  BY <1>2, <1>3, <1>5 DEF BatchInv

(* The invariant is inductive. *)
LEMMA BatchInvHolds ==
  BatchSpec => []BatchInv
<1>1. BatchInit => BatchInv
  BY BatchInvStart
<1>2. BatchInv /\ [BatchNext]_batchVars => BatchInv'
  <2> SUFFICES ASSUME BatchInv, [BatchNext]_batchVars PROVE BatchInv'
    OBVIOUS
  <2>1. ASSUME NEW p \in Peers, Execute(p) PROVE BatchInv'
    BY <2>1, ExecuteKeepsInv
  <2>2. CASE \/ PostList \/ PostListFails
             \/ \E p \in Peers, n \in 1 .. MAX_POST_LIST : Batch(p, n)
    BY <2>2, ListKeepsInv
  <2>3. CASE PollBatch
    BY <2>3, PollBatchKeepsInv
  <2>4. CASE AddRequest
    BY <2>4, AddRequestKeepsInv
  <2>5. CASE UNCHANGED batchVars
    BY <2>5 DEF batchVars, BatchInv, BatchTypeOK, InOrder, PollsPay, Unpolled,
                Started, HasPolled
  <2> QED
    BY <2>1, <2>2, <2>3, <2>4, <2>5 DEF BatchNext, BatchStep
<1> QED
  BY <1>1, <1>2, PTL DEF BatchSpec

(***************************************************************************)
(* Whatever the device's pace and whoever's completions the polls take, a  *)
(* list that _RdmaBatchWrite and _RdmaBatchRead post fits into the send    *)
(* queue, for any number of peers with (peers + 1) * period places.        *)
(***************************************************************************)
THEOREM ListsFit == BatchSpec => []ListFits
<1>1. BatchInv => ListFits
  <2> SUFFICES ASSUME BatchInv, list # Idle
               PROVE  counter[list.to] - freed[list.to] <= QPS_MAX_DEPTH
    BY DEF ListFits
  <2>1. PICK p \in Peers : p = list.to
    BY DEF BatchInv, BatchTypeOK, BatchList
  <2>2. counter[p] \in Nat /\ freed[p] \in Nat
    BY DEF BatchInv, BatchTypeOK
  <2>3. PICK n \in Nat : n = Cardinality(Peers)
    BY BatchAssumption, FS_CardinalityType
  <2>4. Cardinality(Started) \in Nat /\ Cardinality(Started) <= n
    BY <2>3, BatchAssumption, FS_Subset, FS_CardinalityType DEF Started
  <2>5. Cardinality(Unpolled) \in Nat /\ HasPolled \in {0, 1}
        /\ Cardinality(Unpolled) + HasPolled <= Cardinality(Started)
    BY FS_CardinalityType DEF BatchInv, PollsPay, HasPolled
  <2>6. ~ (counter[p] - freed[p] > (n + 1) * SignalPeriod)
    BY <2>4, <2>5, ManyUnpolled
  <2>7. PICK k \in Nat : k = (n + 1) * SignalPeriod /\ k <= QPS_MAX_DEPTH
    BY <2>3, BatchAssumption
  <2> QED
    BY <2>1, <2>2, <2>6, <2>7, BatchAssumption
<1> QED
  BY <1>1, BatchInvHolds, PTL
=============================================================================
