----------------------------- MODULE MetaServer -----------------------------
(***************************************************************************)
(* The metadata server (src/metadata/MetaServer.cpp): one root directory,  *)
(* the inodes of its files, the block allocators of the registered storage *)
(* servers and the descriptor table, used by the handlers of a gRPC        *)
(* synchronous service, which run in as many threads as there are calls.   *)
(*                                                                         *)
(* A Call is a client thread with at most one request outstanding: its     *)
(* handler on the server and, for reads and writes, the RDMA transfers     *)
(* that the client makes afterwards with the block infos it was given.     *)
(* The maps and lists that no lock protects are read and written in steps  *)
(* of their own; InodeTable, FileMap and SpaceManager lock every operation.*)
(***************************************************************************)
EXTENDS FileMap, InodeTable, SpaceManager

CONSTANTS Name,             \* file names
          Call,             \* client threads
          Requests,         \* the requests clients make
          Regions,          \* the memory regions storage servers register
          Exclusion,        \* what the callers do not overlap, see MayOverlap
          IntLimit,         \* 2^31; a smaller number in a run
          NoReq

Ops == {"read", "write", "create", "open", "close", "remove", "readdir"}

(* A request ends below 2^64, as an off_t does: off + len does not wrap.   *)
Request == [op : Ops, name : Name, off : Nat, len : Nat, fd : Nat]

ASSUME RequestsAssumption == Requests \subseteq Request /\ NoReq \notin Requests
ASSUME IntLimitAssumption == IntLimit \in Nat \ {0}
ASSUME RegionsAssumption == Regions \subseteq [addr : Nat, len : Nat]
ASSUME ExclusionAssumption == Exclusion \in {"calls", "files", "names", "none"}

VARIABLES
  up,         \* the server process runs
  children,   \* the root directory: name -> inode number, NoInum if no dentry
  blocks,     \* Inode::block_info_list_ of every inode object
  size,       \* Inode::size_ of every inode object
  stale       \* history: servers registered anew while blocks cut from their
              \* previous region were still recorded or being transferred

VARIABLES     \* per call; the local variables of its handler
  pc,         \* where the handler, or the client after it, stands
  req,        \* the request
  inum,       \* dentry->GetInodeNum(), or new_inum
  inode,      \* file_inode, a shared_ptr
  need,       \* iterations left of the loop that allocates new blocks
  swept,      \* servers whose ReclaimInodeSpace is done
  listing,    \* inode numbers of the copied dentries still to be listed
  hand        \* blocks in no list of the call's own: the one WriteFile has
              \* allocated and not yet appended, those the client transfers

fileVars == <<up, children, blocks, size, stale>>
callVars == <<pc, req, inum, inode, need, swept, listing, hand>>
vars == <<fileVars, callVars, fdVars, inodeVars, pool>>

NoInum == InodeCount + 2
DentryInum == 1 .. NoFreeInode
BlockAddr == [srv : Server, nr : Block]

PCs == {"idle", "lookup", "alloc", "link", "relookup", "inode", "count",
        "grow", "append", "reply", "fd", "close", "unlink", "reclaim", "clamp", "list",
        "transfer"}

TypeOK ==
  /\ FdTypeOK /\ InodeTypeOK /\ SpaceTypeOK
  /\ up \in BOOLEAN
  /\ children \in [Name -> DentryInum \cup {NoInum}]
  /\ blocks \in [Obj -> Seq(BlockAddr)]
  /\ size \in [Obj -> Nat]
  /\ stale \subseteq Server
  /\ pc \in [Call -> PCs]
  /\ req \in [Call -> Requests \cup {NoReq}]
  /\ inum \in [Call -> DentryInum \cup {NoInum}]
  /\ inode \in [Call -> Obj \cup {NoObj}]
  /\ need \in [Call -> Nat]
  /\ swept \in [Call -> SUBSET Server]
  /\ listing \in [Call -> SUBSET DentryInum]
  /\ hand \in [Call -> SUBSET BlockAddr]

Init ==
  /\ FileMapInit /\ InodeTableInit /\ SpaceInit
  /\ up = TRUE
  /\ children = [n \in Name |-> NoInum]
  /\ blocks = [o \in Obj |-> << >>]
  /\ size = [o \in Obj |-> 0]
  /\ stale = {}
  /\ pc = [c \in Call |-> "idle"]
  /\ req = [c \in Call |-> NoReq]
  /\ inum = [c \in Call |-> NoInum]
  /\ inode = [c \in Call |-> NoObj]
  /\ need = [c \in Call |-> 0]
  /\ swept = [c \in Call |-> {}]
  /\ listing = [c \in Call |-> {}]
  /\ hand = [c \in Call |-> {}]

-----------------------------------------------------------------------------
(* Helpers *)

Linked(n) == children[n] # NoInum

(* Some shared_ptr other than c's local one points to object o. *)
HeldElsewhere(c, o) == \/ \E i \in Inum : table[i] = o
                       \/ \E d \in Call \ {c} : inode[d] = o

Unreferenced(o) == /\ \A i \in Inum : table[i] # o
                   /\ \A d \in Call : inode[d] # o

(* The handler goes on at l. *)
Goto(c, l) == pc' = [pc EXCEPT ![c] = l]

(* The handler returns and the client is done with the request. *)
Return(c) ==
  /\ Goto(c, "idle")
  /\ req' = [req EXCEPT ![c] = NoReq]
  /\ inum' = [inum EXCEPT ![c] = NoInum]
  /\ inode' = [inode EXCEPT ![c] = NoObj]
  /\ need' = [need EXCEPT ![c] = 0]
  /\ swept' = [swept EXCEPT ![c] = {}]
  /\ listing' = [listing EXCEPT ![c] = {}]
  /\ hand' = [hand EXCEPT ![c] = {}]

localVars == <<req, inum, inode, need, swept, listing, hand>>

(* The process ends: nothing of its state is kept anywhere else.  Calls in *)
(* the server fail; clients that have their block infos carry on.          *)
Crash ==
  LET lost == {c \in Call : pc[c] # "transfer"} IN
  /\ up' = FALSE
  /\ children' = [n \in Name |-> NoInum]
  /\ blocks' = [o \in Obj |-> << >>]
  /\ size' = [o \in Obj |-> 0]
  /\ stale' = {}
  /\ pc' = [c \in Call |-> IF c \in lost THEN "idle" ELSE pc[c]]
  /\ req' = [c \in Call |-> IF c \in lost THEN NoReq ELSE req[c]]
  /\ inum' = [c \in Call |-> NoInum]
  /\ inode' = [c \in Call |-> NoObj]
  /\ need' = [c \in Call |-> 0]
  /\ swept' = [c \in Call |-> {}]
  /\ listing' = [c \in Call |-> {}]
  /\ hand' = [c \in Call |-> IF c \in lost THEN {} ELSE hand[c]]
  /\ fd_free_list' = HeapOf(Fd, Fd)
  /\ fd_used_set' = {}
  /\ table' = [i \in Inum |-> IF i = ROOT_INUM THEN RootObj ELSE NoObj]
  /\ inode_free_list' = HeapOf(Inum, 1 .. InodeCount)
  /\ cur_size' = 1
  /\ pool' = [s \in Server |-> NoPool]

At(c, l) == up /\ pc[c] = l

Is(c, op) == req[c].op = op

-----------------------------------------------------------------------------
(* Requests *)

(***************************************************************************)
(* The server orders nothing itself; which requests overlap is up to its   *)
(* callers.  "calls": one request at a time.  "names": a removal overlaps  *)
(* neither a request on the same name nor a listing, and other requests on *)
(* one name overlap only once the file exists; requests on different names *)
(* overlap freely.  "files": the same, and what overlaps on one name only  *)
(* reads.  "none": everything overlaps.                                    *)
(***************************************************************************)
NamesApart(r, d) ==
  \/ "close" \in {r.op, d.op}
  \/ "readdir" \in {r.op, d.op} /\ "remove" \notin {r.op, d.op}
  \/ "readdir" \notin {r.op, d.op} /\ r.name # d.name
  \/ {"readdir", "remove"} \cap {r.op, d.op} = {} /\ Linked(r.name)

FilesApart(r, d) == NamesApart(r, d) /\ (r.name = d.name => "write" \notin {r.op, d.op})

MayOverlap(r, d) == \/ Exclusion = "names" /\ NamesApart(r, d)
                    \/ Exclusion = "files" /\ FilesApart(r, d)
                    \/ Exclusion = "none"

EntryPoint(op) == IF op = "close" THEN "close" ELSE "lookup"

(* A client's stub sends r and a thread of the server enters its handler. *)
Begin(c, r) ==
  /\ At(c, "idle")
  /\ \A d \in Call : pc[d] # "idle" => MayOverlap(r, req[d])
  /\ Goto(c, EntryPoint(r.op))
  /\ req' = [req EXCEPT ![c] = r]
  /\ UNCHANGED <<fileVars, inum, inode, need, swept, listing, hand,
                 fdVars, inodeVars, pool>>

-----------------------------------------------------------------------------
(* root_inode->GetDentry(name), the first access of every handler. *)

FoundInum(c) == inum' = [inum EXCEPT ![c] = children[req[c].name]]

(* file_dentry is dereferenced before it is compared with nullptr. *)
ReadLookup(c) ==
  /\ At(c, "lookup") /\ Is(c, "read")
  /\ \/ /\ Linked(req[c].name)
        /\ FoundInum(c) /\ Goto(c, "inode")
        /\ UNCHANGED <<fileVars, req, inode, need, swept, listing, hand,
                       fdVars, inodeVars, pool>>
     \/ ~ Linked(req[c].name) /\ Crash

WriteLookup(c) ==
  /\ At(c, "lookup") /\ Is(c, "write")
  /\ \/ Linked(req[c].name) /\ FoundInum(c) /\ Goto(c, "inode")
     \/ ~ Linked(req[c].name) /\ Goto(c, "alloc") /\ UNCHANGED inum
  /\ UNCHANGED <<fileVars, req, inode, need, swept, listing, hand,
                 fdVars, inodeVars, pool>>

(* Mutant of CreateLookup: the dentry is not looked up. *)
CreateUnchecked(c) ==
  /\ At(c, "lookup") /\ Is(c, "create")
  /\ Goto(c, "alloc")
  /\ UNCHANGED <<fileVars, localVars, fdVars, inodeVars, pool>>

CreateLookup(c) ==
  /\ At(c, "lookup") /\ Is(c, "create")
  /\ \/ Linked(req[c].name) /\ Return(c)
     \/ ~ Linked(req[c].name) /\ Goto(c, "alloc") /\ UNCHANGED localVars
  /\ UNCHANGED <<fileVars, fdVars, inodeVars, pool>>

OpenLookup(c) ==
  /\ At(c, "lookup") /\ Is(c, "open")
  /\ Goto(c, IF Linked(req[c].name) THEN "fd" ELSE "alloc")
  /\ UNCHANGED <<fileVars, localVars, fdVars, inodeVars, pool>>

RemoveLookup(c) ==
  /\ At(c, "lookup") /\ Is(c, "remove")
  /\ \/ /\ Linked(req[c].name)
        /\ FoundInum(c) /\ Goto(c, "unlink")
        /\ UNCHANGED <<req, inode, need, swept, listing, hand>>
     \/ ~ Linked(req[c].name) /\ Return(c)
  /\ UNCHANGED <<fileVars, fdVars, inodeVars, pool>>

(* ReadDirectory copies the dentry map. *)
ListLookup(c) ==
  /\ At(c, "lookup") /\ Is(c, "readdir")
  /\ listing' = [listing EXCEPT
                   ![c] = {children[n] : n \in {m \in Name : Linked(m)}}]
  /\ Goto(c, "list")
  /\ UNCHANGED <<fileVars, req, inum, inode, need, swept, hand,
                 fdVars, inodeVars, pool>>

-----------------------------------------------------------------------------
(* CreateFile_ and the second half of CreateFile *)

(* AllocateFileInode or AllocateDirInode; the new Inode has no blocks. *)
AllocInode(c) ==
  /\ At(c, "alloc")
  /\ \E o \in Obj, i \in DentryInum :
        /\ Unreferenced(o)
        /\ AllocateFreeInode(o, i)
        /\ inum' = [inum EXCEPT ![c] = i]
        /\ blocks' = [blocks EXCEPT ![o] = << >>]
        /\ size' = [size EXCEPT ![o] = 0]
  /\ Goto(c, "link")
  /\ UNCHANGED <<up, children, stale, req, inode, need, swept, listing, hand,
                 fdVars, pool>>

(* AddDentry refuses a name that is there; its result is not looked at. *)
AddDentry(n, i) ==
  children' = IF Linked(n) THEN children ELSE [children EXCEPT ![n] = i]

Link(c) ==
  /\ At(c, "link")
  /\ AddDentry(req[c].name, inum[c])
  /\ \/ Is(c, "write") /\ Goto(c, "relookup") /\ UNCHANGED localVars
     \/ Is(c, "open") /\ Goto(c, "fd") /\ UNCHANGED localVars
     \/ Is(c, "create") /\ Return(c)
  /\ UNCHANGED <<up, blocks, size, stale, fdVars, inodeVars, pool>>

(* WriteFile looks the dentry up again after CreateFile_. *)
Relookup(c) ==
  /\ At(c, "relookup")
  /\ \/ /\ Linked(req[c].name)
        /\ FoundInum(c) /\ Goto(c, "inode")
        /\ UNCHANGED <<fileVars, req, inode, need, swept, listing, hand,
                       fdVars, inodeVars, pool>>
     \/ ~ Linked(req[c].name) /\ Crash

(* OpenFile ends with a descriptor that is tied to no inode. *)
AllocFD(c) ==
  /\ At(c, "fd")
  /\ \E fd \in Fd \cup {-1} : AllocateFD(fd)
  /\ Return(c)
  /\ UNCHANGED <<fileVars, inodeVars, pool>>

CloseFile(c) ==
  /\ At(c, "close")
  /\ ReclaimFD(req[c].fd)
  /\ Return(c)
  /\ UNCHANGED <<fileVars, inodeVars, pool>>

-----------------------------------------------------------------------------
(* ReadFile and WriteFile once the dentry is known *)

(* Without an entry GetInode answers nullptr, still holding table_lock_:   *)
(* ReadFile then fails its assertion and WriteFile reads through nullptr.  *)
GetFileInode(c) ==
  /\ At(c, "inode")
  /\ \/ /\ GetInode(inum[c]) # NoObj
        /\ inode' = [inode EXCEPT ![c] = GetInode(inum[c])]
        /\ Goto(c, IF Is(c, "read") THEN "reply" ELSE "count")
        /\ UNCHANGED <<fileVars, req, inum, need, swept, listing, hand,
                       fdVars, inodeVars, pool>>
     \/ GetInode(inum[c]) = NoObj /\ Crash

(* The value an int takes when it is given the uint64_t n. *)
AsInt(n) == LET m == n % (2 * IntLimit)
            IN  IF m < IntLimit THEN m ELSE m - 2 * IntLimit

(* Mutant of NewBlocks: no test whether the file is long enough. *)
NewBlocksUnchecked(r, o) == BlocksNeeded(r.off, r.len) - Len(blocks[o])

(* The iterations of the loop: new_blocks_num, an int, is worked out once. *)
NewBlocks(r, o) ==
  LET total == BlocksNeeded(r.off, r.len)
      new_blocks_num == AsInt(total - Len(blocks[o]))
  IN  IF Len(blocks[o]) < total /\ new_blocks_num > 0 THEN new_blocks_num ELSE 0

CountBlocks(c) ==
  /\ At(c, "count")
  /\ need' = [need EXCEPT ![c] = NewBlocks(req[c], inode[c])]
  /\ Goto(c, "grow")
  /\ UNCHANGED <<fileVars, req, inum, inode, swept, listing, hand,
                 fdVars, inodeVars, pool>>

(* A round of the loop takes a block of a server picked at random, under   *)
(* space_lock_.  Without a server rand() % 0 traps; a pool of no blocks    *)
(* reads through nullptr.                                                  *)
TakeBlock(c) ==
  /\ At(c, "grow") /\ need[c] > 0
  /\ \/ Registered = {} /\ Crash
     \/ \E s \in Registered : NullHeap(s) /\ Crash
     \/ /\ \E s \in Registered, b \in Block :
              /\ ~ NullHeap(s)
              /\ AllocateOneBlock(s, b)
              /\ hand' = [hand EXCEPT ![c] = {[srv |-> s, nr |-> b]}]
        /\ Goto(c, "append")
        /\ UNCHANGED <<fileVars, req, inum, inode, need, swept, listing,
                       fdVars, inodeVars>>

(* AppendFileBlockInfo, under no lock, ends the round. *)
AppendBlock(c) ==
  /\ At(c, "append")
  /\ \E a \in hand[c] : blocks' = [blocks EXCEPT ![inode[c]] = Append(@, a)]
  /\ hand' = [hand EXCEPT ![c] = {}]
  /\ need' = [need EXCEPT ![c] = @ - 1]
  /\ Goto(c, "grow")
  /\ UNCHANGED <<up, children, size, stale, req, inum, inode, swept, listing,
                 fdVars, inodeVars, pool>>

(* The indices of the block infos in a reply. *)
ReplyIndices(off, len) ==
  {Plan(off, len)[k].block_idx : k \in DOMAIN Plan(off, len)}

InList(o, indices) == \A k \in indices : k < Len(blocks[o])

(* The handler answers with the blocks at these indices and lets go of the *)
(* inode; an object nobody points to is destroyed and left blank.          *)
Reply(c, indices, newSize) ==
  LET o == inode[c] IN
  /\ hand' = [hand EXCEPT ![c] = {blocks[o][k + 1] : k \in indices}]
  /\ inum' = [inum EXCEPT ![c] = NoInum]
  /\ inode' = [inode EXCEPT ![c] = NoObj]
  /\ Goto(c, "transfer")
  /\ \/ /\ HeldElsewhere(c, o)
        /\ size' = [size EXCEPT ![o] = newSize]
        /\ UNCHANGED blocks
     \/ /\ ~ HeldElsewhere(c, o)
        /\ size' = [size EXCEPT ![o] = 0]
        /\ blocks' = [blocks EXCEPT ![o] = << >>]
  /\ UNCHANGED <<up, children, stale, req, need, swept, listing,
                 fdVars, inodeVars, pool>>

(* Mutant of WriteReply: the length is added to the size. *)
WriteAdds(c) ==
  LET r == req[c]
      indices == ReplyIndices(r.off, r.len)
  IN  /\ At(c, "grow") /\ need[c] = 0
      /\ IF InList(inode[c], indices)
         THEN Reply(c, indices, size[inode[c]] + r.len)
         ELSE Crash

(* The size becomes the end of this write, also when it was larger. *)
WriteReply(c) ==
  LET r == req[c]
      indices == ReplyIndices(r.off, r.len)
  IN  /\ At(c, "grow") /\ need[c] = 0
      /\ IF InList(inode[c], indices) THEN Reply(c, indices, r.off + r.len)
         ELSE Crash

(* ReadFile asks for the size twice: here, to see whether the request goes *)
(* beyond it, and again in ReadClamp, where another call's WriteFile may   *)
(* have changed it.                                                        *)
BeyondEnd(c) == req[c].off + req[c].len > size[inode[c]]

ReadTest(c) ==
  /\ At(c, "reply") /\ BeyondEnd(c)
  /\ Goto(c, "clamp")
  /\ UNCHANGED <<fileVars, localVars, fdVars, inodeVars, pool>>

ReadReply(c) ==
  LET r == req[c]
      indices == ReplyIndices(r.off, r.len)
  IN  /\ At(c, "reply") /\ ~ BeyondEnd(c)
      /\ IF InList(inode[c], indices)
         THEN Reply(c, indices, size[inode[c]])
         ELSE Crash

(* The length becomes what there is after the offset.  After the end that  *)
(* wraps around, and the loop runs off the block list.                     *)
ReadClamp(c) ==
  LET r == req[c]
      fileSize == size[inode[c]]
      indices == ReplyIndices(r.off, fileSize - r.off)
  IN  /\ At(c, "clamp")
      /\ \/ /\ r.off <= fileSize
            /\ InList(inode[c], indices)
            /\ Reply(c, indices, fileSize)
         \/ (r.off > fileSize \/ ~ InList(inode[c], indices)) /\ Crash

(* The client has moved the bytes of every block info it was given. *)
Transfer(c) ==
  /\ pc[c] = "transfer"
  /\ Return(c)
  /\ UNCHANGED <<fileVars, fdVars, inodeVars, pool>>

-----------------------------------------------------------------------------
(* RemoveFile after its lookup *)

(* Mutant of DeleteDentry: the name stays. *)
KeepDentry(n) == UNCHANGED children

DeleteDentry(n) == children' = [children EXCEPT ![n] = NoInum]

Unlink(c) ==
  /\ At(c, "unlink")
  /\ DeleteDentry(req[c].name)
  /\ Goto(c, "reclaim")
  /\ UNCHANGED <<up, blocks, size, stale, localVars, fdVars, inodeVars, pool>>

(* Mutant of Unswept: the loop does not advance. *)
UnsweptAll(c) == Registered

(* The loop over space_manager_ goes through the node ids in order. *)
Unswept(c) == {s \in Registered : \A d \in swept[c] : d < s}

ReclaimBlocks(c) ==
  LET o == GetInode(inum[c]) IN
  /\ At(c, "reclaim")
  /\ \E s \in Unswept(c) :
       /\ \A d \in Unswept(c) : s <= d
       /\ \/ /\ o # NoObj
             /\ ReclaimInodeSpace(s, blocks[o])
             /\ swept' = [swept EXCEPT ![c] = @ \cup {s}]
             /\ UNCHANGED <<fileVars, pc, req, inum, inode, need, listing,
                            hand, fdVars, inodeVars>>
          \/ o = NoObj /\ Crash

(* DeleteInode; its result is not looked at. *)
DropInode(c) ==
  LET o == GetInode(inum[c]) IN
  /\ At(c, "reclaim") /\ Unswept(c) = {}
  /\ DeleteInode(inum[c])
  /\ IF o # NoObj /\ (\A d \in Call : inode[d] # o)
     THEN /\ blocks' = [blocks EXCEPT ![o] = << >>]
          /\ size' = [size EXCEPT ![o] = 0]
     ELSE UNCHANGED <<blocks, size>>
  /\ Return(c)
  /\ UNCHANGED <<up, children, stale, fdVars, pool>>

-----------------------------------------------------------------------------
(* ReadDirectory after its copy: the inode of every dentry is looked at. *)

ListOne(c) ==
  /\ At(c, "list")
  /\ \E i \in listing[c] :
       \/ /\ GetInode(i) # NoObj
          /\ listing' = [listing EXCEPT ![c] = @ \ {i}]
          /\ UNCHANGED <<fileVars, pc, req, inum, inode, need, swept, hand,
                         fdVars, inodeVars, pool>>
       \/ GetInode(i) = NoObj /\ Crash

ListDone(c) ==
  /\ At(c, "list") /\ listing[c] = {}
  /\ Return(c)
  /\ UNCHANGED <<fileVars, fdVars, inodeVars, pool>>

-----------------------------------------------------------------------------
(* The other processes *)

(* Blocks of server s are recorded in an inode or in a call's hand. *)
InUseOn(s) == \/ \E o \in Obj : \E k \in DOMAIN blocks[o] : blocks[o][k].srv = s
              \/ \E c \in Call : \E a \in hand[c] : a.srv = s

(* A storage server starts, or starts again: RegisterMemoryRegion replaces *)
(* the SpaceManager of its node id.                                        *)
RegisterMemoryRegion(s, r) ==
  /\ up
  /\ Construct(s, r.addr, r.len)
  /\ stale' = IF InUseOn(s) THEN stale \cup {s} ELSE stale \ {s}
  /\ UNCHANGED <<up, children, blocks, size, callVars, fdVars, inodeVars>>

(* The server process is killed. *)
Kill == up /\ Crash

(* RunServer with a new MetadataServiceImpl. *)
RunServer == /\ ~ up
             /\ up' = TRUE
             /\ UNCHANGED <<children, blocks, size, stale, callVars, fdVars,
                            inodeVars, pool>>

-----------------------------------------------------------------------------
Step(c) ==
  \/ ReadLookup(c) \/ WriteLookup(c) \/ CreateLookup(c) \/ OpenLookup(c)
  \/ RemoveLookup(c) \/ ListLookup(c)
  \/ AllocInode(c) \/ Link(c) \/ Relookup(c) \/ AllocFD(c) \/ CloseFile(c)
  \/ GetFileInode(c) \/ CountBlocks(c) \/ TakeBlock(c) \/ AppendBlock(c)
  \/ WriteReply(c) \/ ReadTest(c) \/ ReadReply(c) \/ ReadClamp(c) \/ Transfer(c)
  \/ Unlink(c) \/ ReclaimBlocks(c) \/ DropInode(c)
  \/ ListOne(c) \/ ListDone(c)

Next == \/ \E c \in Call : Step(c) \/ \E r \in Requests : Begin(c, r)
        \/ \E s \in Server, r \in Regions : RegisterMemoryRegion(s, r)
        \/ Kill \/ RunServer

Spec == Init /\ [][Next]_vars

(* A thread of the gRPC pool and a client thread that are runnable run. *)
FairSpec == Spec /\ \A c \in Call : WF_vars(Step(c))

-----------------------------------------------------------------------------
(* Properties that hold however requests overlap *)

(* total_blocks of request r is a number new_blocks_num can take. *)
CountFits(r) == BlocksNeeded(r.off, r.len) < IntLimit

(* Requests of no bytes do not lie so far out that it cannot. *)
EmptyRequestsFit == \A r \in Requests : r.len = 0 => CountFits(r)

(***************************************************************************)
(* No file claims more bytes than its blocks hold: ReadFile trusts size_   *)
(* when it indexes the block list, while writers on the same inode append  *)
(* blocks and set the size in separate steps.                              *)
(***************************************************************************)
SizeCovered == \A o \in Obj : size[o] <= Len(blocks[o]) * FILE_BLOCK_SIZE

(***************************************************************************)
(* When WriteFile fills in its reply every index is in the block list (the *)
(* assertion in ChangeFileBlockInfoLength), although the number of new     *)
(* blocks was worked out before others may have appended theirs.  (A block *)
(* count of 2^31 or more does not fit new_blocks_num; too few blocks are   *)
(* allocated then, and the assertion fails.)                               *)
(***************************************************************************)
WriteStaysInList ==
  \A c \in Call : At(c, "grow") /\ need[c] = 0 /\ CountFits(req[c]) =>
    InList(inode[c], ReplyIndices(req[c].off, req[c].len))

(***************************************************************************)
(* Every request comes to an end, by an answer or by the end of the server:*)
(* no handler waits for ever, and the loops that allocate and reclaim, on  *)
(* lists that others change, finish.                                       *)
(***************************************************************************)
CallsReturn == \A c \in Call : pc[c] # "idle" ~> pc[c] = "idle"

-----------------------------------------------------------------------------
(* Properties that the callers' exclusion is needed for *)

(* The pool of s is told apart from one that was overdrawn or set up anew  *)
(* while files still had blocks in it.                                     *)
Reliable(s) == s \in Registered \ stale /\ ~ pool[s].wild

(* RemoveFile has given the blocks of o on s back; it drops o at its end. *)
Swept(o, s) ==
  \E c \in Call : pc[c] = "reclaim" /\ GetInode(inum[c]) = o /\ s \in swept[c]

(* The files whose blocks on s have not been given back. *)
OwningObjs(s) ==
  {o \in Obj : (\E i \in Inum : table[i] = o) /\ ~ Swept(o, s)}

(* The handlers that have allocated block b of s and not yet appended it. *)
Appending(s, b) ==
  {c \in Call : pc[c] = "append" /\ [srv |-> s, nr |-> b] \in hand[c]}

(* The places where the block lists of the files name block b of s. *)
Listed(s, b) ==
  UNION {{<<o, k>> : k \in EntriesOn(s, blocks[o], b)} : o \in OwningObjs(s)}

Owners(s, b) == Listed(s, b) \cup {<<c, 0>> : c \in Appending(s, b)}

(***************************************************************************)
(* A block belongs to one place of one file, or to the handler that is     *)
(* about to append it: two writers that allocate at the same time, or a    *)
(* writer and a removal, never end up with the same block in two files.    *)
(***************************************************************************)
NoSharedBlock ==
  \A s \in Server, b \in Block : Reliable(s) =>
    \A x, y \in Owners(s, b) : x = y

(***************************************************************************)
(* A block of a pool is free, once, or in use and owned by a file or by    *)
(* the handler that appends it to one; none is lost by a removal that runs *)
(* beside other requests, and none is free while a file has it.            *)
(***************************************************************************)
BlocksConserved ==
  \A s \in Server, b \in Block : Reliable(s) =>
    /\ pool[s].free[b] = IF b < pool[s].total /\ Owners(s, b) = {} THEN 1 ELSE 0
    /\ b \in pool[s].inused <=> Owners(s, b) # {}

(***************************************************************************)
(* An inode in the table is named by a dentry, or its creation or removal  *)
(* is under way: none is left behind by a lookup that was outdated when    *)
(* its result was used.                                                    *)
(***************************************************************************)
NoInodeLeak ==
  \A i \in UsedInums \ {ROOT_INUM} :
    \/ \E n \in Name : children[n] = i
    \/ \E c \in Call : inum[c] = i /\ pc[c] \in {"link", "reclaim"}

(***************************************************************************)
(* A dentry leads to an inode of its own, unless it was made when the      *)
(* table was full.                                                         *)
(***************************************************************************)
DentriesResolve ==
  \A n \in Name : children[n] \in Inum =>
    /\ InTable(children[n])
    /\ \A m \in Name \ {n} : children[m] # children[n]

(***************************************************************************)
(* While a client reads or writes a block by RDMA, which the metadata      *)
(* server takes no part in, the block still belongs to the file it asked   *)
(* for.                                                                    *)
(***************************************************************************)
TransfersOwnTheirBlocks ==
  \A c \in Call : \A a \in hand[c] : pc[c] = "transfer" /\ Reliable(a.srv) =>
    /\ Linked(req[c].name)
    /\ \E k \in DOMAIN blocks[GetInode(children[req[c].name])] :
         blocks[GetInode(children[req[c].name])][k] = a

-----------------------------------------------------------------------------
(* What the code says of itself and does not keep *)

(***************************************************************************)
(* ReadFile asserts that the inode of a dentry exists                      *)
(* (assert(file_inode != nullptr)).                                        *)
(***************************************************************************)
InodeAssertion ==
  \A c \in Call : At(c, "inode") /\ Is(c, "read") => GetInode(inum[c]) # NoObj
=============================================================================
