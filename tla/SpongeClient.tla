---------------------------- MODULE SpongeClient ----------------------------
(***************************************************************************)
(* The client library (src/client/Client.cpp) on the stubs of the metadata *)
(* server (src/metadata/MetaClient.cpp): the bytes in the memory of the    *)
(* storage servers and in the callers' buffers.  A call of MetaServer is a *)
(* thread in Client::read, Client::write or one of the stubs; after the    *)
(* answer it moves the pieces it was given, one RemoteRead or RemoteWrite  *)
(* each.  A piece is at most a block of 1 MB: the thread moves it itself,  *)
(* in one round of a Hamal loop, through the bounce buffer 0 of the        *)
(* RdmaSocket of its Client.  Threads of one Client share that socket, and *)
(* nothing keeps them apart.  RdmaTransfer has the socket's other half.    *)
(*                                                                         *)
(* Byte p of the buffer that call c writes is <<c, p>>.                    *)
(***************************************************************************)
EXTENDS MetaServer

CONSTANTS Socket,           \* the RdmaSockets, one per Client
          SocketOf,         \* the socket of the Client a thread belongs to
          Blank,            \* a byte that no client has written
          NoFile, Torn, NoWrite   \* see FileStore

VARIABLES mem,              \* the bytes of every block of every server
          todo,             \* pieces of the reply still to be moved
          buf,              \* the bytes_read or bytes_write bytes of user_buf
          leg,              \* where the thread is in RemoteRead or RemoteWrite
          bounce,           \* SendPoolAddr of TaskID 0, on each socket
          posted,           \* work requests on a socket's queue pair to a server
          cq,               \* completions in the socket's one completion queue
          broken            \* queue pairs <<socket, server>> in the error state

userVars == <<todo, buf>>
socketVars == <<leg, bounce, posted, cq, broken>>
dataVars == <<mem, userVars, socketVars>>

Byte == {Blank} \cup (Call \X Nat)

ASSUME SocketsAssumption == SocketOf \in [Call -> Socket]
ASSUME MarksAssumption == /\ NoFile \notin Seq(Byte \cup {Torn})
                          /\ NoWrite \notin [name : Name, off : Nat, len : Nat]

(* What a pool, a device mapped MAP_SHARED, and a bounce buffer hold at    *)
(* first is unknown.                                                       *)
BlankBlock == [i \in 1 .. FILE_BLOCK_SIZE |-> Blank]

SpongeInit == /\ Init
              /\ mem = [a \in BlockAddr |-> BlankBlock]
              /\ todo = [c \in Call |-> << >>]
              /\ buf = [c \in Call |-> << >>]
              /\ leg = [c \in Call |-> "ready"]
              /\ bounce = [k \in Socket |-> BlankBlock]
              /\ posted = [k \in Socket |-> [s \in Server |-> << >>]]
              /\ cq = [k \in Socket |-> 0]
              /\ broken = {}

-----------------------------------------------------------------------------
(* The length that the handler of c answers for, when it answers now. *)
AnsweredLength(c) ==
  IF pc[c] = "clamp" THEN size[inode[c]] - req[c].off ELSE req[c].len

(* block_info_list: mem_offset is the block's address plus inner. *)
BlockInfos(c) ==
  LET plan == Plan(req[c].off, AnsweredLength(c))
  IN  [k \in DOMAIN plan |->
         [at |-> blocks[inode[c]][plan[k].block_idx + 1],
          inner |-> plan[k].inner, length |-> plan[k].length]]

UserBuffer(c) ==
  [p \in 1 .. AnsweredLength(c) |->
     IF Is(c, "write") THEN <<c, p - 1>> ELSE Blank]

(* ReadFile or WriteFile of the stub returns with the reply. *)
Answered(c) == /\ todo' = [todo EXCEPT ![c] = BlockInfos(c)]
               /\ buf' = [buf EXCEPT ![c] = UserBuffer(c)]

(* A step of the server for call c.  When it ends without a reply the stub *)
(* has an empty list and no bytes, as it had before.                       *)
HandlerStep(c) ==
  /\ pc[c] # "transfer" /\ Step(c)
  /\ IF pc'[c] = "transfer" THEN Answered(c) ELSE UNCHANGED userVars
  /\ UNCHANGED <<mem, socketVars>>

(* Mutant of RemoteByte: mem_offset without inner_offset. *)
RemoteByteAligned(piece, k) == k

(* Where in its block the k-th byte of a piece lies. *)
RemoteByte(piece, k) == piece.inner + k

(* What an RDMA write does to a block, and an RDMA read to data. *)
RemoteWrite(piece, data, block) ==
  [i \in DOMAIN block |->
     LET from == {k \in 1 .. piece.length : RemoteByte(piece, k) = i}
     IN  IF from = {} THEN block[i] ELSE data[CHOOSE k \in from : TRUE]]

RemoteRead(piece, data, block) ==
  [p \in DOMAIN data |->
     IF p <= piece.length THEN block[RemoteByte(piece, p)] ELSE data[p]]

(* memcpy of the first n bytes. *)
Copied(n, from, to) == [p \in DOMAIN to |-> IF p <= n THEN from[p] ELSE to[p]]

-----------------------------------------------------------------------------
(***************************************************************************)
(* One round of the loop over block_info_list: OutboundHamal or            *)
(* InboundHamal, from the beginning of user_buf for every piece:           *)
(* local_offset is counted on but never used, and buff_offset is only      *)
(* printed.                                                                *)
(***************************************************************************)
OnLeg(c, l) == todo[c] # << >> /\ leg[c] = l

More(c) == Head(todo[c]).length > 0

GotoLeg(c, l) == leg' = [leg EXCEPT ![c] = l]

PieceDone(c) == todo' = [todo EXCEPT ![c] = Tail(@)]

(* No bytes, no round of the Hamal loop. *)
SkipPiece(c) ==
  /\ OnLeg(c, "ready") /\ ~ More(c)
  /\ PieceDone(c)
  /\ UNCHANGED <<vars, mem, buf, socketVars>>

CopyIn(c) ==
  /\ OnLeg(c, "ready") /\ More(c) /\ Is(c, "write")
  /\ bounce' = [bounce EXCEPT ![SocketOf[c]] =
                   Copied(Head(todo[c]).length, buf[c], @)]
  /\ GotoLeg(c, "post")
  /\ UNCHANGED <<vars, mem, userVars, posted, cq, broken>>

MayPost(c) == \/ OnLeg(c, "post")
              \/ OnLeg(c, "ready") /\ More(c) /\ Is(c, "read")

(* RdmaWrite, or RdmaRead, on queue pair 1 to the server of the piece. *)
Post(c) ==
  LET piece == Head(todo[c]) IN
  /\ MayPost(c)
  /\ posted' = [posted EXCEPT ![SocketOf[c]][piece.at.srv] =
                   Append(@, [op |-> req[c].op, piece |-> piece])]
  /\ GotoLeg(c, "poll")
  /\ UNCHANGED <<vars, mem, userVars, bounce, cq, broken>>

(* ibv_post_send fails; the Hamals poll all the same. *)
PostFails(c) ==
  /\ MayPost(c)
  /\ GotoLeg(c, "poll")
  /\ UNCHANGED <<vars, mem, userVars, bounce, posted, cq, broken>>

(* PollCompletion takes any completion of the socket, of any status. *)
Poll(c) ==
  /\ OnLeg(c, "poll") /\ cq[SocketOf[c]] > 0
  /\ cq' = [cq EXCEPT ![SocketOf[c]] = @ - 1]
  /\ IF Is(c, "write") THEN PieceDone(c) /\ GotoLeg(c, "ready")
     ELSE GotoLeg(c, "copy") /\ UNCHANGED todo
  /\ UNCHANGED <<vars, mem, buf, bounce, posted, broken>>

CopyOut(c) ==
  /\ OnLeg(c, "copy")
  /\ buf' = [buf EXCEPT ![c] =
                Copied(Head(todo[c]).length, bounce[SocketOf[c]], @)]
  /\ PieceDone(c) /\ GotoLeg(c, "ready")
  /\ UNCHANGED <<vars, mem, bounce, posted, cq, broken>>

MovePiece(c) == \/ SkipPiece(c) \/ CopyIn(c) \/ Post(c) \/ PostFails(c)
                \/ Poll(c) \/ CopyOut(c)

(* The network card of the client completes the next request of a queue    *)
(* pair.                                                                   *)
Complete(k, s) ==
  /\ posted[k][s] # << >>
  /\ posted' = [posted EXCEPT ![k][s] = Tail(@)]
  /\ cq' = [cq EXCEPT ![k] = @ + 1]
  /\ UNCHANGED <<vars, userVars, leg>>

Carry(k, s) ==
  LET wr == Head(posted[k][s])
      at == wr.piece.at
  IN  /\ <<k, s>> \notin broken
      /\ Complete(k, s)
      /\ \/ /\ wr.op = "write"
            /\ mem' = [mem EXCEPT ![at] = RemoteWrite(wr.piece, bounce[k], @)]
            /\ UNCHANGED bounce
         \/ /\ wr.op # "write"
            /\ bounce' = [bounce EXCEPT ![k] = RemoteRead(wr.piece, @, mem[at])]
            /\ UNCHANGED mem
      /\ UNCHANGED broken

(* A request fails, and with it all later ones of its queue pair. *)
CarryFails(k, s) ==
  /\ Complete(k, s)
  /\ broken' = broken \cup {<<k, s>>}
  /\ UNCHANGED <<mem, bounce>>

(* Client::read and Client::write return the number of bytes. *)
ClientReturn(c) ==
  /\ todo[c] = << >> /\ Transfer(c)
  /\ buf' = [buf EXCEPT ![c] = << >>]
  /\ UNCHANGED <<mem, todo, socketVars>>

(* What the memory of a storage server holds outlives both servers. *)
ServersStep ==
  /\ \/ \E c \in Call, r \in Requests : Begin(c, r)
     \/ \E s \in Server, r \in Regions : RegisterMemoryRegion(s, r)
     \/ Kill \/ RunServer
  /\ UNCHANGED dataVars

SpongeNext ==
  \/ \E c \in Call : HandlerStep(c) \/ MovePiece(c) \/ ClientReturn(c)
  \/ \E k \in Socket, s \in Server : Carry(k, s) \/ CarryFails(k, s)
  \/ ServersStep

SpongeSpec == SpongeInit /\ [][SpongeNext]_<<vars, dataVars>>

-----------------------------------------------------------------------------
(***************************************************************************)
(* The runs and the theorems of this module speak of states in which no    *)
(* registered pool was overdrawn, or set up anew while its blocks were in  *)
(* use; no queue pair has failed; and no two threads of one Client are in  *)
(* RemoteRead or RemoteWrite together, where they would overwrite each     *)
(* other's bounce buffer and take each other's completions.                *)
(***************************************************************************)
SocketsApart ==
  \A c, d \in Call : leg[c] # "ready" /\ leg[d] # "ready" /\ c # d
                     => SocketOf[c] # SocketOf[d]

ReliableOnly == /\ \A s \in Registered : Reliable(s)
                /\ broken = {}
                /\ SocketsApart

(* Where a file can end, and requests of which no answer reaches beyond    *)
(* one block: the loop moves those rightly although every round of it      *)
(* starts at the beginning of user_buf.                                    *)
Ends == {0} \cup {r.off + r.len : r \in {q \in Requests : q.op = "write"}}

InOneBlock(off, len) == InnerOffset(off) + len <= FILE_BLOCK_SIZE

OneBlockRequests ==
  \A r \in Requests :
    /\ r.op = "write" => InOneBlock(r.off, r.len)
    /\ r.op = "read" => \A e \in Ends :
         r.off <= e => InOneBlock(r.off, Least(r.len, e - r.off))

(* The write whose bytes are on their way. *)
Writing(c) ==
  IF pc[c] = "transfer" /\ Is(c, "write") /\ Linked(req[c].name)
  THEN [name |-> req[c].name, off |-> req[c].off, len |-> req[c].len]
  ELSE NoWrite

InFlight(n, p) ==
  \E c \in Call : LET w == Writing(c) IN
    w # NoWrite /\ w.name = n /\ w.off <= p /\ p < w.off + w.len

(* The byte of object o at position p, wherever its block lies. *)
StoredByte(o, p) ==
  mem[blocks[o][p \div FILE_BLOCK_SIZE + 1]][(p % FILE_BLOCK_SIZE) + 1]

Contents(n) ==
  LET o == GetInode(children[n]) IN
  IF o = NoObj THEN NoFile
  ELSE [p \in 1 .. size[o] |->
          IF InFlight(n, p - 1) THEN Torn ELSE StoredByte(o, p - 1)]

Store == INSTANCE FileStore WITH
  Client <- Call,
  Extent <- {[off |-> r.off, len |-> r.len] :
               r \in {q \in Requests : q.op = "write"}},
  files <- [n \in Name |-> Contents(n)],
  writing <- [c \in Call |-> Writing(c)]

(***************************************************************************)
(* Metadata server, allocators, storage servers and clients together are a *)
(* FileStore: a write changes its bytes of its file and nothing else, in   *)
(* whatever order blocks are allocated, given back and given to other      *)
(* files while clients still move bytes.                                   *)
(***************************************************************************)
StoreSpec == Store!Spec

(***************************************************************************)
(* What Client::read has put into the caller's buffer when it returns is   *)
(* the file from the offset on, up to the length asked for or the end of   *)
(* the file, if the file is still there.                                   *)
(***************************************************************************)
ReadReturnsFile ==
  [][\A c \in Call :
       pc[c] = "transfer" /\ Is(c, "read") /\ Linked(req[c].name)
         /\ pc'[c] = "idle"
       => buf[c] = SubSeq(Contents(req[c].name), req[c].off + 1,
                          Least(req[c].off + req[c].len,
                                Len(Contents(req[c].name))))]_vars
=============================================================================
