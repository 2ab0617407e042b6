------------------------- MODULE SpongeClientProofs -------------------------
(***************************************************************************)
(* The client library on the metadata server, for every number of files,   *)
(* inodes, blocks, storage servers and callers: together they implement    *)
(* FileStore, and a read returns the bytes of its file.  The callers do    *)
(* not use a file that one of them writes, every request is answered from  *)
(* one block, and no pool is overdrawn or set up anew under its blocks.    *)
(*                                                                         *)
(* As long as no queue pair fails and the threads of one socket keep out   *)
(* of each other's transfers, a transfer is as good as one step, that in   *)
(* which the card carries its request out: memory, what is left to move    *)
(* (Left) and what has been received (Got) change in no other.             *)
(***************************************************************************)
EXTENDS MetaServerNamesProofs, SpongeClient

-----------------------------------------------------------------------------
(* Requests of one block *)

(* A request within one block is planned as one piece, or as none when it  *)
(* asks for no bytes.                                                      *)
LEMMA OneBlockPlan ==
  ASSUME NEW off \in Nat, NEW len \in Nat, InOneBlock(off, len)
  PROVE  \/ len = 0 /\ Plan(off, len) = << >>
         \/ Plan(off, len) = << Piece(off \div FILE_BLOCK_SIZE,
                                      InnerOffset(off), len, 0) >>
<1> USE PlanBlockSizeAssumption
<1>1. InnerOffset(off) \in Nat /\ InnerOffset(off) < FILE_BLOCK_SIZE
  BY DEF InnerOffset
<1>2. off \div FILE_BLOCK_SIZE \in Nat
  OBVIOUS
<1>3. CASE InnerOffset(off) # 0
  <2>1. FirstLength(off, len) = len
    BY <1>1, <1>3 DEF FirstLength, Least, InOneBlock
  <2>2. WholeCount(off, len) = 0
    BY <2>1 DEF WholeCount
  <2>3. WholePieces(off, len) = << >>
    BY <2>2 DEF WholePieces
  <2>4. LastPiece(off, len) = << >>
    BY <2>1, <2>2 DEF LastPiece
  <2>5. FirstPiece(off, len) = << Piece(off \div FILE_BLOCK_SIZE,
                                        InnerOffset(off), len, 0) >>
    BY <1>3, <2>1 DEF FirstPiece
  <2> QED
    BY <2>3, <2>4, <2>5 DEF Plan, Piece
<1>4. CASE InnerOffset(off) = 0 /\ len # FILE_BLOCK_SIZE
  <2>1. FirstLength(off, len) = 0 /\ FirstPiece(off, len) = << >>
    BY <1>4 DEF FirstLength, FirstPiece
  <2>2. len < FILE_BLOCK_SIZE
    BY <1>4 DEF InOneBlock
  <2>3. WholeCount(off, len) = 0
    BY <2>1, <2>2 DEF WholeCount
  <2>4. WholePieces(off, len) = << >>
    BY <2>3 DEF WholePieces
  <2>5. LoopBlock(off) = off \div FILE_BLOCK_SIZE
    BY <1>2, <1>4 DEF LoopBlock
  <2>6. LastPiece(off, len) =
          IF len = 0 THEN << >>
          ELSE << Piece(off \div FILE_BLOCK_SIZE, 0, len, 0) >>
    BY <1>2, <2>1, <2>3, <2>5 DEF LastPiece
  <2>7. Plan(off, len) = LastPiece(off, len)
    BY <2>1, <2>4, <2>6 DEF Plan, Piece
  <2> QED
    BY <1>4, <2>6, <2>7
<1>5. CASE InnerOffset(off) = 0 /\ len = FILE_BLOCK_SIZE
  <2>1. FirstLength(off, len) = 0 /\ FirstPiece(off, len) = << >>
    BY <1>5 DEF FirstLength, FirstPiece
  <2>2. WholeCount(off, len) = 1
    BY <1>5, <2>1 DEF WholeCount
  <2>3. LoopBlock(off) = off \div FILE_BLOCK_SIZE
    BY <1>2, <1>5 DEF LoopBlock
  <2>4. LastPiece(off, len) = << >>
    BY <1>5, <2>1, <2>2 DEF LastPiece
  <2>5. WholePieces(off, len) = << Piece(off \div FILE_BLOCK_SIZE, 0, len, 0) >>
    BY <1>2, <1>5, <2>1, <2>2, <2>3 DEF WholePieces, Piece
  <2> QED
    BY <1>5, <2>1, <2>4, <2>5 DEF Plan, Piece
<1> QED
  BY <1>3, <1>4, <1>5

-----------------------------------------------------------------------------
(* Files from one state to the next *)

(* The inode object of the file of that name. *)
FileOf(n) == GetInode(children[n])

(* The file of that name is as it was, but for new blocks at its end. *)
Still(n) ==
  /\ children'[n] = children[n] /\ FileOf(n)' = FileOf(n)
  /\ FileOf(n) \in Obj =>
       /\ size'[FileOf(n)] = size[FileOf(n)]
       /\ \A k \in DOMAIN blocks[FileOf(n)] :
            /\ k \in DOMAIN blocks'[FileOf(n)]
            /\ blocks'[FileOf(n)][k] = blocks[FileOf(n)][k]

(* A name leads to the inode of a file or to none. *)
LEMMA FileOfType ==
  ASSUME ServerInv, NEW n \in Name
  PROVE  FileOf(n) \in Obj \cup {NoObj} /\ (~ Linked(n) => FileOf(n) = NoObj)
<1>1. children[n] \in DentryInum \cup {NoInum}
  BY DEF ServerInv, FilesOK
<1>2. NoInum \notin Inum
  BY InodeCountAssumption DEF NoInum, Inum
<1> QED
  BY <1>1, <1>2, GetInodeType
     DEF ServerInv, InodeInv, FileOf, Linked, GetInode, InTable

(* A file is in the table, under one name, and no removal has it. *)
LEMMA NamedFile ==
  ASSUME ServerInv, NamesInv, NEW n \in Name, FileOf(n) \in Obj
  PROVE  /\ children[n] \in Inum /\ table[children[n]] = FileOf(n) /\ Linked(n)
         /\ \A m \in Name \ {n} : FileOf(m) # FileOf(n)
         /\ \A d \in Call : Keeps(d) => GetInode(inum[d]) # FileOf(n)
         /\ \A i \in Inum : table[i] = FileOf(n) => i = children[n]
<1>1. children[n] \in Inum /\ table[children[n]] = FileOf(n)
  BY ObjAssumption DEF FileOf, GetInode, InTable
<1>2. Linked(n)
  BY <1>1, InodeCountAssumption DEF Linked, NoInum, Inum
<1>3. \A i \in Inum : table[i] = FileOf(n) => i = children[n]
  BY <1>1 DEF NamesInv, OneNumber
<1>4. ASSUME NEW j, j # children[n] PROVE GetInode(j) # FileOf(n)
  BY <1>3, <1>4, ObjAssumption DEF GetInode, InTable
<1>5. \A m \in Name \ {n} : children[m] # children[n]
  BY <1>1 DEF NamesInv, DentriesResolve
<1>6. \A m \in Name \ {n} : FileOf(m) # FileOf(n)
  BY <1>4, <1>5 DEF FileOf
<1>7. ASSUME NEW d \in Call, Keeps(d) PROVE inum[d] # children[n]
  BY <1>1, <1>7 DEF NamesInv, KeptNumbers
<1> QED
  BY <1>1, <1>2, <1>3, <1>4, <1>6, <1>7

(* A step that changes no file. *)
LEMMA StillFrame ==
  ASSUME UNCHANGED <<children, table, blocks, size>>
  PROVE  \A n \in Name : Still(n)
  BY DEF Still, FileOf, GetInode, InTable

(* WriteFile appends a block. *)
LEMMA AppendIsStill ==
  ASSUME ServerInv, NamesInv, NEW c \in Call, AppendBlock(c)
  PROVE  \A n \in Name : Still(n)
<1>1. PICK a \in BlockAddr :
        blocks' = [blocks EXCEPT ![inode[c]] = Append(@, a)]
  BY DEF AppendBlock, ServerInv, CallsOK
<1>2. UNCHANGED <<children, table, size>>
  BY DEF AppendBlock, inodeVars
<1>3. blocks \in [Obj -> Seq(BlockAddr)]
  BY DEF ServerInv, FilesOK
<1>4. ASSUME NEW o \in Obj, NEW k \in DOMAIN blocks[o]
      PROVE  k \in DOMAIN blocks'[o] /\ blocks'[o][k] = blocks[o][k]
  <2>1. CASE o = inode[c]
    <3>1. blocks'[o] = Append(blocks[o], a) /\ blocks[o] \in Seq(BlockAddr)
      BY <1>1, <1>3, <2>1
    <3>2. k \in 1 .. Len(blocks[o])
      BY <3>1
    <3> QED
      BY <3>1, <3>2
  <2>2. CASE o # inode[c]
    BY <1>1, <1>3, <2>2
  <2> QED
    BY <2>1, <2>2
<1>5. \A n \in Name : FileOf(n)' = FileOf(n)
  BY <1>2 DEF FileOf, GetInode, InTable
<1> QED
  BY <1>2, <1>4, <1>5 DEF Still

(* An answer to a read leaves the file as it is; one to a write sets its   *)
(* size and nothing else.                                                  *)
LEMMA ReplyIsStill ==
  ASSUME ServerInv, NamesInv, NEW c \in Call, pc[c] \in HoldsPointer,
         NEW indices, NEW newSize, Reply(c, indices, newSize)
  PROVE  /\ UNCHANGED <<children, table, blocks>>
         /\ size' = [size EXCEPT ![inode[c]] = newSize]
         /\ \A n \in Name : FileOf(n)' = FileOf(n)
<1>1. inum[c] \in Inum /\ table[inum[c]] = inode[c]
  BY PointerOfName
<1>2. HeldElsewhere(c, inode[c])
  BY <1>1 DEF HeldElsewhere
<1>3. UNCHANGED <<children, table>>
  BY DEF Reply, inodeVars
<1> QED
  BY <1>2, <1>3 DEF Reply, FileOf, GetInode, InTable

(* A new inode is not that of a file that is there. *)
LEMMA AllocInodeIsStill ==
  ASSUME ServerInv, NamesInv, NEW c \in Call, AllocInode(c)
  PROVE  \A n \in Name : Still(n)
<1>1. PICK o \in Obj, i \in DentryInum :
        /\ Unreferenced(o) /\ AllocateFreeInode(o, i)
        /\ blocks' = [blocks EXCEPT ![o] = << >>]
        /\ size' = [size EXCEPT ![o] = 0]
  BY DEF AllocInode
<1>2. \/ i \notin Inum /\ UNCHANGED table
      \/ /\ i \in Inum /\ table[i] = NoObj
         /\ table' = [table EXCEPT ![i] = o]
  BY <1>1, NewNumber DEF ServerInv
<1>3. UNCHANGED children
  BY DEF AllocInode
<1>4. ASSUME NEW n \in Name PROVE Still(n)
  <2>1. CASE children[n] \in Inum
    <3>1. table[children[n]] # NoObj
      BY <2>1 DEF NamesInv, DentriesResolve, InTable
    <3>2. table'[children[n]] = table[children[n]]
      BY <1>2, <2>1, <3>1 DEF ServerInv, InodeInv, InodeTypeOK
    <3>3. FileOf(n)' = FileOf(n) /\ FileOf(n) = table[children[n]]
      BY <1>3, <3>1, <3>2, <2>1 DEF FileOf, GetInode, InTable
    <3>4. FileOf(n) # o
      BY <1>1, <2>1, <3>3 DEF Unreferenced
    <3> QED
      BY <1>1, <1>3, <3>3, <3>4 DEF Still, ServerInv, FilesOK
  <2>2. CASE children[n] \notin Inum
    BY <1>3, <2>2, ObjAssumption DEF Still, FileOf, GetInode, InTable
  <2> QED
    BY <2>1, <2>2
<1> QED
  BY <1>4

(* RemoveFile drops an inode that no name leads to. *)
LEMMA DropInodeIsStill ==
  ASSUME ServerInv, NamesInv, NEW c \in Call, DropInode(c)
  PROVE  \A n \in Name : Still(n)
<1>1. Keeps(c) /\ UNCHANGED children /\ DeleteInode(inum[c])
  BY DEF DropInode, At, Keeps
<1>2. PICK o : o = GetInode(inum[c])
  OBVIOUS
<1>3. \A q \in Obj : q # o => blocks'[q] = blocks[q] /\ size'[q] = size[q]
  BY <1>2 DEF DropInode, ServerInv, FilesOK
<1>4. \A j \in Inum \ {inum[c]} : table'[j] = table[j]
  BY <1>1 DEF DeleteInode, ServerInv, InodeInv, InodeTypeOK, inodeVars
<1>5. ASSUME NEW n \in Name PROVE Still(n)
  <2>1. FileOf(n) \in Obj => FileOf(n) # o
    BY <1>1, <1>2, NamedFile
  <2>2. CASE children[n] \in Inum
    <3>1. inum[c] # children[n]
      BY <1>1, <2>2 DEF NamesInv, KeptNumbers
    <3>2. FileOf(n)' = FileOf(n)
      BY <1>1, <1>4, <2>2, <3>1 DEF FileOf, GetInode, InTable
    <3> QED
      BY <1>1, <1>3, <2>1, <3>2 DEF Still
  <2>3. CASE children[n] \notin Inum
    BY <1>1, <2>3, ObjAssumption DEF Still, FileOf, GetInode, InTable
  <2> QED
    BY <2>2, <2>3
<1> QED
  BY <1>5

(* CreateFile_ and RemoveFile change the directory in one place. *)
LEMMA DirectoryIsStill ==
  ASSUME ServerInv, NamesInv, NEW c \in Call, Link(c) \/ Unlink(c)
  PROVE  \A n \in Name \ {req[c].name} : Still(n)
<1>1. UNCHANGED <<table, blocks, size>>
  BY DEF Link, Unlink, inodeVars
<1>2. \A n \in Name \ {req[c].name} : children'[n] = children[n]
  BY DEF Link, Unlink, AddDentry, DeleteDentry, ServerInv, FilesOK
<1> QED
  BY <1>1, <1>2 DEF Still, FileOf, GetInode, InTable

(* What a handler, or the client after it, does to the files: only the     *)
(* answer to a write, a creation and a removal change one, that of the     *)
(* request.                                                                *)
LEMMA StepIsStill ==
  ASSUME ServerInv, NamesInv, NEW c \in Call, Step(c), ~ Crash
  PROVE  \A n \in Name : \/ Still(n)
                         \/ /\ n = req[c].name
                            /\ WriteReply(c) \/ Link(c) \/ Unlink(c)
<1>1. CASE \/ ReadLookup(c) \/ WriteLookup(c) \/ CreateLookup(c)
           \/ OpenLookup(c) \/ RemoveLookup(c) \/ ListLookup(c) \/ Relookup(c)
           \/ AllocFD(c) \/ CloseFile(c) \/ GetFileInode(c) \/ CountBlocks(c)
           \/ ReadTest(c) \/ Transfer(c) \/ ListOne(c) \/ ListDone(c)
           \/ ReclaimBlocks(c) \/ TakeBlock(c)
  <2>1. UNCHANGED <<children, table, blocks, size>>
    BY <1>1 DEF ReadLookup, WriteLookup, CreateLookup, OpenLookup,
       RemoveLookup, ListLookup, Relookup, AllocFD, CloseFile, GetFileInode,
       CountBlocks, ReadTest, Transfer, ListOne, ListDone, ReclaimBlocks,
       TakeBlock, fileVars, inodeVars
  <2> QED
    BY <2>1, StillFrame
<1>2. CASE ReadReply(c) \/ ReadClamp(c)
  <2>1. /\ pc[c] \in HoldsPointer
        /\ \E indices : Reply(c, indices, size[inode[c]])
    BY <1>2 DEF ReadReply, ReadClamp, At, HoldsPointer
  <2>2. /\ UNCHANGED <<children, table, blocks>>
        /\ size' = [size EXCEPT ![inode[c]] = size[inode[c]]]
    BY <2>1, ReplyIsStill
  <2>3. size' = size
    BY <2>2 DEF ServerInv, FilesOK
  <2> QED
    BY <2>2, <2>3, StillFrame
<1>3. CASE WriteReply(c)
  <2>1. /\ pc[c] \in HoldsPointer
        /\ \E indices, newSize : Reply(c, indices, newSize)
    BY <1>3 DEF WriteReply, At, HoldsPointer
  <2>2. /\ UNCHANGED <<children, table, blocks>>
        /\ \E newSize : size' = [size EXCEPT ![inode[c]] = newSize]
        /\ \A n \in Name : FileOf(n)' = FileOf(n)
    BY <2>1, ReplyIsStill
  <2>3. inode[c] = FileOf(req[c].name) /\ inode[c] \in Obj /\ req[c].name \in Name
    BY <2>1, PointerOfName DEF FileOf
  <2>4. \A n \in Name \ {req[c].name} : FileOf(n) # inode[c]
    BY <2>3, NamedFile
  <2> QED
    BY <1>3, <2>2, <2>4 DEF Still, ServerInv, FilesOK
<1> QED
  BY <1>1, <1>2, <1>3, AppendIsStill, AllocInodeIsStill, DropInodeIsStill,
     DirectoryIsStill DEF Step

(* A handler's step leaves the other calls alone and its request as it is. *)
LEMMA StepIsLocal ==
  ASSUME ServerInv, NEW c \in Call, Step(c), ~ Crash
  PROVE  /\ OthersKept(c) /\ pc[c] # "idle"
         /\ pc'[c] = "idle" \/ req'[c] = req[c]
<1>0. pc[c] # "idle"
  BY DEF Step, ReadLookup, WriteLookup, CreateLookup, OpenLookup, RemoveLookup,
     ListLookup, AllocInode, Link, Relookup, AllocFD, CloseFile, GetFileInode,
     CountBlocks, TakeBlock, AppendBlock, WriteReply, ReadTest, ReadReply,
     ReadClamp, Transfer, Unlink, ReclaimBlocks, DropInode, ListOne, ListDone, At
<1>1. CASE Return(c)
  BY <1>0, <1>1, ReturnIsQuiet DEF ServerInv
<1>2. CASE ~ Return(c)
  <2> USE DEF OthersKept, Goto, FoundInum, localVars, ServerInv, CallsOK
  <2>1. CASE \/ ReadLookup(c) \/ WriteLookup(c) \/ CreateLookup(c)
             \/ OpenLookup(c) \/ RemoveLookup(c) \/ ListLookup(c)
             \/ AllocInode(c) \/ Link(c) \/ Relookup(c) \/ AllocFD(c)
             \/ CloseFile(c)
    BY <1>0, <1>2, <2>1 DEF ReadLookup, WriteLookup, CreateLookup, OpenLookup,
       RemoveLookup, ListLookup, AllocInode, Link, Relookup, AllocFD, CloseFile
  <2>2. CASE \/ GetFileInode(c) \/ CountBlocks(c) \/ TakeBlock(c)
             \/ AppendBlock(c) \/ ReadTest(c) \/ Transfer(c) \/ Unlink(c) \/ ReclaimBlocks(c) \/ DropInode(c)
             \/ ListOne(c) \/ ListDone(c)
    BY <1>0, <1>2, <2>2 DEF GetFileInode, CountBlocks, TakeBlock, AppendBlock,
       ReadTest, Transfer, Unlink, ReclaimBlocks, DropInode, ListOne, ListDone
  <2>3. CASE WriteReply(c) \/ ReadReply(c) \/ ReadClamp(c)
    <3>1. \E indices, newSize : Reply(c, indices, newSize)
      BY <2>3 DEF WriteReply, ReadReply, ReadClamp
    <3> QED
      BY <1>0, <3>1 DEF Reply
  <2> QED
    BY <2>1, <2>2, <2>3 DEF Step
<1> QED
  BY <1>1, <1>2

-----------------------------------------------------------------------------
(* The inductive invariant: requests and sizes *)

(* Nobody uses a file that another call writes. *)
WritesAlone ==
  \A c, d \in Call :
    c # d /\ pc[c] # "idle" /\ pc[d] # "idle" /\ req[c].name = req[d].name
    => req[c].op # "write" /\ req[d].op # "write"

(* What a handler has found out about sizes still holds: a read that goes  *)
(* beyond the end does so when it is cut, and a new file is empty.         *)
Course(c) ==
  /\ pc[c] \in {"count", "grow", "append"} => req[c].op = "write"
  /\ pc[c] \in {"reply", "clamp"} => req[c].op = "read"
  /\ pc[c] = "clamp" => BeyondEnd(c)
  /\ pc[c] = "link" /\ inum[c] \in Inum => size[GetInode(inum[c])] = 0

(* Files end where writes do, and their blocks, the one that is about to   *)
(* be appended too, are on registered servers.                             *)
SizesEnd == \A o \in Obj : size[o] \in Ends

BlocksPlaced ==
  \A o \in Obj : \A k \in DOMAIN blocks[o] : blocks[o][k].srv \in Registered

HandsPlaced ==
  \A c \in Call : pc[c] = "append" => \A a \in hand[c] : a.srv \in Registered

CourseInv == /\ WritesAlone /\ \A c \in Call : Course(c)
             /\ SizesEnd /\ BlocksPlaced /\ HandsPlaced

(* A request that begins keeps away from a file that is being written. *)
LEMMA WritesStayAlone ==
  ASSUME Exclusion \in {"calls", "files"}
  PROVE  ServerInv /\ WritesAlone /\ [Next]_vars => WritesAlone'
<1> SUFFICES ASSUME ServerInv, WritesAlone, [Next]_vars PROVE WritesAlone'
  OBVIOUS
<1>1. ASSUME \A c \in Call :
               pc'[c] = "idle" \/ (pc[c] # "idle" /\ req'[c] = req[c])
      PROVE  WritesAlone'
  BY <1>1 DEF WritesAlone
<1>2. CASE Crash
  BY <1>1, <1>2 DEF Crash
<1>3. ASSUME NEW c \in Call, Step(c), ~ Crash PROVE WritesAlone'
  <2>1. /\ OthersKept(c) /\ pc[c] # "idle"
        /\ pc'[c] = "idle" \/ req'[c] = req[c]
    BY <1>3, StepIsLocal
  <2> QED
    BY <1>1, <2>1 DEF OthersKept
<1>4. ASSUME NEW c \in Call, NEW r \in Requests, Begin(c, r) PROVE WritesAlone'
  <2>1. /\ req'[c] = r
        /\ \A d \in Call \ {c} : pc'[d] = pc[d] /\ req'[d] = req[d]
    BY <1>4 DEF Begin, Goto, ServerInv, CallsOK
  <2>2. \A d \in Call \ {c} : pc[d] # "idle" /\ r.name = req[d].name =>
          r.op # "write" /\ req[d].op # "write"
    BY <1>4 DEF Begin, MayOverlap, FilesApart
  <2> QED
    BY <2>1, <2>2 DEF WritesAlone
<1>5. CASE UNCHANGED <<pc, req>>
  BY <1>5 DEF WritesAlone
<1>6. ASSUME NEW s \in Server, NEW r \in Regions, RegisterMemoryRegion(s, r)
      PROVE  WritesAlone'
  BY <1>5, <1>6 DEF RegisterMemoryRegion, callVars
<1> QED
  BY <1>2, <1>3, <1>4, <1>5, <1>6
     DEF Next, Kill, RunServer, vars, callVars

(* The inode that a creation or a removal keeps to itself stays as it is   *)
(* while others make their steps.                                          *)
LEMMA KeptIsStill ==
  ASSUME ServerInv, NamesInv, NEW c \in Call, Step(c), ~ Crash,
         NEW d \in Call \ {c}, Keeps(d), inum[d] \in Inum
  PROVE  /\ GetInode(inum[d])' = GetInode(inum[d])
         /\ size'[GetInode(inum[d])] = size[GetInode(inum[d])]
<1>1. PICK i \in Inum : i = inum[d]
  OBVIOUS
<1>2. PICK o \in Obj : o = table[i] /\ o = GetInode(i)
  <2>1. InTable(i)
    BY <1>1 DEF NamesInv, KeptNumbers
  <2>2. i \in DentryInum
    BY <1>1, InodeCountAssumption DEF ServerInv, CallsOK, NoInum, Inum
  <2> QED
    BY <2>1, <2>2, GetInodeType
       DEF ServerInv, InodeInv, InTable, GetInode
<1>3. \A j \in Inum : table[j] = o => j = i
  BY <1>2 DEF NamesInv, OneNumber
<1>4. \A n \in Name : children[n] # i
  BY <1>1 DEF NamesInv, KeptNumbers
<1>5. inum'[d] = i
  BY <1>1, StepIsLocal DEF OthersKept
<1> SUFFICES table'[i] = table[i] /\ size'[o] = size[o]
  BY <1>1, <1>2, <1>5 DEF GetInode, InTable
<1>6. CASE UNCHANGED <<table, size>>
  BY <1>6
<1>7. CASE AllocInode(c)
  <2>1. PICK q \in Obj, j \in DentryInum :
          /\ Unreferenced(q) /\ AllocateFreeInode(q, j)
          /\ size' = [size EXCEPT ![q] = 0]
    BY <1>7 DEF AllocInode
  <2>2. \/ j \notin Inum /\ UNCHANGED table
        \/ /\ j \in Inum /\ table[j] = NoObj
           /\ table' = [table EXCEPT ![j] = q]
    BY <2>1, NewNumber DEF ServerInv
  <2>3. q # o
    BY <1>2, <2>1 DEF Unreferenced
  <2> QED
    BY <1>2, <2>1, <2>2, <2>3, ObjAssumption
       DEF ServerInv, FilesOK, InodeInv, InodeTypeOK
<1>8. CASE DropInode(c)
  <2>1. Keeps(c) /\ DeleteInode(inum[c])
    BY <1>8 DEF DropInode, At, Keeps
  <2>2. inum[c] # i
    BY <1>1, <2>1 DEF NamesInv, KeptNumbers
  <2>3. GetInode(inum[c]) # o
    BY <1>2, <1>3, <2>2, ObjAssumption DEF GetInode, InTable
  <2>4. table'[i] = table[i]
    BY <2>1, <2>2 DEF DeleteInode, ServerInv, InodeInv, InodeTypeOK, inodeVars
  <2> QED
    BY <1>2, <1>8, <2>3, <2>4 DEF DropInode, ServerInv, FilesOK
<1>9. CASE WriteReply(c) \/ ReadReply(c) \/ ReadClamp(c)
  <2>1. /\ pc[c] \in HoldsPointer
        /\ \E indices, newSize : Reply(c, indices, newSize)
    BY <1>9 DEF WriteReply, ReadReply, ReadClamp, At, HoldsPointer
  <2>2. /\ UNCHANGED table
        /\ \E newSize : size' = [size EXCEPT ![inode[c]] = newSize]
    BY <2>1, ReplyIsStill
  <2>3. /\ inode[c] = GetInode(children[req[c].name])
        /\ req[c].name \in Name
    BY <2>1, PointerOfName
  <2>4. inode[c] # o
    BY <1>2, <1>3, <1>4, <2>3, ObjAssumption DEF GetInode, InTable
  <2> QED
    BY <1>2, <2>2, <2>4 DEF ServerInv, FilesOK
<1>10. CASE \/ ReadLookup(c) \/ WriteLookup(c) \/ CreateLookup(c)
            \/ OpenLookup(c) \/ RemoveLookup(c) \/ ListLookup(c) \/ Relookup(c)
            \/ AllocFD(c) \/ CloseFile(c) \/ GetFileInode(c) \/ CountBlocks(c)
            \/ ReadTest(c) \/ Transfer(c) \/ ListOne(c) \/ ListDone(c)
            \/ ReclaimBlocks(c) \/ TakeBlock(c) \/ AppendBlock(c)
           \/ Link(c) \/ Unlink(c)
  <2>1. UNCHANGED <<table, size>>
    BY <1>10 DEF ReadLookup, WriteLookup, CreateLookup, OpenLookup,
       RemoveLookup, ListLookup, Relookup, AllocFD, CloseFile, GetFileInode,
       CountBlocks, ReadTest, Transfer, ListOne, ListDone, ReclaimBlocks,
       TakeBlock, AppendBlock, Link, Unlink, fileVars, inodeVars
  <2> QED
    BY <1>6, <2>1
<1> QED
  BY <1>7, <1>8, <1>9, <1>10 DEF Step

(* A handler's own step. *)
LEMMA OwnCourse ==
  ASSUME ServerInv, NamesInv, NEW c \in Call, Course(c), Step(c), ~ Crash
  PROVE  Course(c)'
<1> USE DEF ServerInv
<1>1. CASE GetFileInode(c)
  <2>1. pc[c] = "inode" /\ req'[c] = req[c]
        /\ pc'[c] = (IF req[c].op = "read" THEN "reply" ELSE "count")
    BY <1>1 DEF GetFileInode, At, Goto, Is, CallsOK
  <2>2. req[c].op \in {"read", "write"}
    BY <2>1 DEF NamesInv, Stage
  <2> QED
    BY <2>1, <2>2 DEF Course
<1>2. CASE CountBlocks(c) \/ TakeBlock(c) \/ AppendBlock(c)
  <2>1. /\ pc[c] \in {"count", "grow", "append"} /\ pc'[c] \in {"grow", "append"}
        /\ req'[c] = req[c]
    BY <1>2 DEF CountBlocks, TakeBlock, AppendBlock, At, Goto, CallsOK
  <2> QED
    BY <2>1 DEF Course
<1>3. CASE ReadTest(c)
  <2>1. /\ pc[c] = "reply" /\ pc'[c] = "clamp" /\ BeyondEnd(c)
        /\ UNCHANGED <<req, inode, size>>
    BY <1>3 DEF ReadTest, At, Goto, CallsOK, localVars, fileVars
  <2> QED
    BY <2>1 DEF Course, BeyondEnd
<1>4. CASE AllocInode(c)
  <2>1. PICK o \in Obj, i \in DentryInum :
          /\ AllocateFreeInode(o, i) /\ inum' = [inum EXCEPT ![c] = i]
          /\ size' = [size EXCEPT ![o] = 0]
    BY <1>4 DEF AllocInode
  <2>2. inum'[c] = i /\ size'[o] = 0 /\ pc'[c] = "link"
    BY <1>4, <2>1 DEF AllocInode, Goto, CallsOK, FilesOK
  <2>3. ASSUME i \in Inum PROVE GetInode(i)' = o
    <3>1. table'[i] = o
      BY <2>1, <2>3, NewNumber DEF InodeInv, InodeTypeOK
    <3> QED
      BY <2>3, <3>1, ObjAssumption DEF GetInode, InTable
  <2> QED
    BY <2>2, <2>3 DEF Course, GetInode, InTable
<1>5. CASE \/ ReadLookup(c) \/ WriteLookup(c) \/ CreateLookup(c)
           \/ OpenLookup(c) \/ RemoveLookup(c) \/ ListLookup(c) \/ Relookup(c)
           \/ AllocFD(c) \/ CloseFile(c) \/ Transfer(c) \/ ListOne(c)
           \/ ListDone(c) \/ Link(c) \/ Unlink(c) \/ ReclaimBlocks(c)
           \/ DropInode(c) \/ WriteReply(c) \/ ReadReply(c) \/ ReadClamp(c)
  <2>1. pc'[c] \notin {"count", "grow", "append", "reply", "clamp", "link"}
    BY <1>5 DEF ReadLookup, WriteLookup, CreateLookup, OpenLookup,
       RemoveLookup, ListLookup, Relookup, AllocFD, CloseFile, Transfer,
       ListOne, ListDone, Link, Unlink, ReclaimBlocks, DropInode, WriteReply,
       ReadReply, ReadClamp, Reply, Return, Goto, At, CallsOK
  <2> QED
    BY <2>1 DEF Course
<1> QED
  BY <1>1, <1>2, <1>3, <1>4, <1>5 DEF Step

(* A step of another handler: the only one that sets the size of a file is *)
(* a write, and nobody reads that file meanwhile.                          *)
LEMMA OtherCourse ==
  ASSUME ServerInv, NamesInv, WritesAlone, NEW c \in Call, Step(c), ~ Crash,
         Course(c), NEW d \in Call \ {c}, Course(d)
  PROVE  Course(d)'
<1>1. /\ pc'[d] = pc[d] /\ req'[d] = req[d] /\ inum'[d] = inum[d]
      /\ inode'[d] = inode[d]
  BY StepIsLocal DEF OthersKept
<1>2. ASSUME pc[d] = "clamp" PROVE BeyondEnd(d)'
  <2>1. /\ inode[d] \in Obj /\ inode[d] = FileOf(req[d].name)
        /\ req[d].name \in Name
    BY <1>2, PointerOfName DEF FileOf, HoldsPointer
  <2>2. size'[inode[d]] = size[inode[d]]
    <3>1. CASE Still(req[d].name)
      BY <2>1, <3>1 DEF Still
    <3>2. CASE Link(c) \/ Unlink(c)
      BY <3>2 DEF Link, Unlink
    <3>3. CASE WriteReply(c) /\ req[c].name = req[d].name
      <4>1. pc[c] = "grow" /\ req[c].op = "write"
        BY <3>3 DEF WriteReply, At, Course
      <4> QED
        BY <1>2, <3>3, <4>1 DEF WritesAlone
    <3> QED
      BY <2>1, <3>1, <3>2, <3>3, StepIsStill
  <2> QED
    BY <1>1, <1>2, <2>2 DEF Course, BeyondEnd
<1>3. ASSUME pc[d] = "link", inum[d] \in Inum
      PROVE  size'[GetInode(inum[d])'] = 0
  <2>1. Keeps(d)
    BY <1>3 DEF Keeps
  <2> QED
    BY <1>3, <2>1, KeptIsStill DEF Course
<1> QED
  BY <1>1, <1>2, <1>3 DEF Course

(* Sizes are set to the end of a write, or to nothing. *)
LEMMA SizesStayEnds ==
  ASSUME ServerInv, NEW c \in Call, Course(c), SizesEnd, Step(c), ~ Crash
  PROVE  SizesEnd'
<1> USE DEF ServerInv
<1>0. 0 \in Ends
  BY DEF Ends
<1>1. ASSUME NEW o, NEW z \in Ends, size' = [size EXCEPT ![o] = z]
      PROVE  SizesEnd'
  BY <1>1 DEF SizesEnd, FilesOK
<1>2. CASE UNCHANGED size
  BY <1>2 DEF SizesEnd
<1>3. CASE AllocInode(c) \/ DropInode(c)
  BY <1>0, <1>1, <1>2, <1>3 DEF AllocInode, DropInode
<1>4. CASE WriteReply(c)
  <2>1. pc[c] = "grow" /\ \E indices : Reply(c, indices, req[c].off + req[c].len)
    BY <1>4 DEF WriteReply, At
  <2>2. req[c].op = "write" /\ req[c] \in Requests
    BY <2>1 DEF Course, CallsOK
  <2>3. req[c].off + req[c].len \in Ends
    BY <2>2 DEF Ends
  <2> QED
    BY <1>0, <1>1, <2>1, <2>3 DEF Reply
<1>5. CASE ReadReply(c) \/ ReadClamp(c)
  <2>1. /\ pc[c] \in {"reply", "clamp"}
        /\ \E indices : Reply(c, indices, size[inode[c]])
    BY <1>5 DEF ReadReply, ReadClamp, At
  <2>2. size[inode[c]] \in Ends
    BY <2>1 DEF CallsOK, SizesEnd
  <2> QED
    BY <1>0, <1>1, <2>1, <2>2 DEF Reply
<1>6. CASE \/ ReadLookup(c) \/ WriteLookup(c) \/ CreateLookup(c)
           \/ OpenLookup(c) \/ RemoveLookup(c) \/ ListLookup(c) \/ Relookup(c)
           \/ AllocFD(c) \/ CloseFile(c) \/ GetFileInode(c) \/ CountBlocks(c)
           \/ ReadTest(c) \/ Transfer(c) \/ ListOne(c) \/ ListDone(c)
           \/ ReclaimBlocks(c) \/ TakeBlock(c) \/ AppendBlock(c)
           \/ Link(c) \/ Unlink(c)
  <2>1. UNCHANGED size
    BY <1>6 DEF ReadLookup, WriteLookup, CreateLookup, OpenLookup,
       RemoveLookup, ListLookup, Relookup, AllocFD, CloseFile, GetFileInode,
       CountBlocks, ReadTest, Transfer, ListOne, ListDone, ReclaimBlocks,
       TakeBlock, AppendBlock, Link, Unlink, fileVars
  <2> QED
    BY <1>2, <2>1
<1> QED
  BY <1>3, <1>4, <1>5, <1>6 DEF Step

(* No pool goes away while the server runs. *)
LEMMA PoolsStay ==
  ASSUME ServerInv, NEW c \in Call, Step(c), ~ Crash
  PROVE  Registered \subseteq Registered'
<1> USE DEF ServerInv
<1>1. ASSUME NEW s \in Registered, pool'[s] \in Pool,
             \A q \in Server \ {s} : pool'[q] = pool[q]
      PROVE  Registered \subseteq Registered'
  BY <1>1, NoPoolAssumption DEF Registered
<1>2. CASE UNCHANGED pool
  BY <1>2 DEF Registered
<1>3. CASE TakeBlock(c)
  <2>1. PICK s \in Registered, b \in Block : AllocateOneBlock(s, b)
    BY <1>3 DEF TakeBlock
  <2>2. pool'[s] \in Pool
    BY <2>1, AllocateOneBlockType
  <2>3. \A q \in Server \ {s} : pool'[q] = pool[q]
    BY <2>1 DEF AllocateOneBlock, SpaceTypeOK
  <2> QED
    BY <1>1, <2>2, <2>3
<1>4. CASE ReclaimBlocks(c)
  <2>1. PICK s \in Registered : /\ GetInode(inum[c]) # NoObj
                                /\ ReclaimInodeSpace(s, blocks[GetInode(inum[c])])
    BY <1>4 DEF ReclaimBlocks, Unswept
  <2>2. blocks[GetInode(inum[c])] \in Seq(BlockAddr)
    BY <2>1, GetInodeType DEF InodeInv, CallsOK, FilesOK
  <2>3. pool'[s] \in Pool
    BY <2>1, <2>2, ReclaimInodeSpaceType
  <2>4. \A q \in Server \ {s} : pool'[q] = pool[q]
    BY <2>1 DEF ReclaimInodeSpace, SpaceTypeOK
  <2> QED
    BY <1>1, <2>3, <2>4
<1>5. CASE \/ ReadLookup(c) \/ WriteLookup(c) \/ CreateLookup(c)
           \/ OpenLookup(c) \/ RemoveLookup(c) \/ ListLookup(c) \/ Relookup(c)
           \/ AllocFD(c) \/ CloseFile(c) \/ GetFileInode(c) \/ CountBlocks(c)
           \/ ReadTest(c) \/ Transfer(c) \/ ListOne(c) \/ ListDone(c)
           \/ AllocInode(c) \/ DropInode(c) \/ Link(c) \/ Unlink(c)
           \/ WriteReply(c) \/ ReadReply(c) \/ ReadClamp(c) \/ AppendBlock(c)
  <2>1. UNCHANGED pool
    BY <1>5 DEF ReadLookup, WriteLookup, CreateLookup, OpenLookup,
       RemoveLookup, ListLookup, Relookup, AllocFD, CloseFile, GetFileInode,
       CountBlocks, ReadTest, Transfer, ListOne, ListDone, AllocInode,
       DropInode, Link, Unlink, WriteReply, ReadReply, ReadClamp, Reply,
       AppendBlock
  <2> QED
    BY <1>2, <2>1
<1> QED
  BY <1>3, <1>4, <1>5 DEF Step

(* So is the block a handler has taken. *)
LEMMA HandsStayPlaced ==
  ASSUME ServerInv, HandsPlaced, NEW c \in Call, Step(c), ~ Crash
  PROVE  HandsPlaced'
<1> USE DEF ServerInv
<1>1. Registered \subseteq Registered' /\ OthersKept(c)
  BY PoolsStay, StepIsLocal
<1>2. ASSUME NEW d \in Call \ {c}
      PROVE  pc'[d] = "append" => \A a \in hand'[d] : a.srv \in Registered'
  BY <1>1, <1>2 DEF HandsPlaced, OthersKept
<1>3. CASE TakeBlock(c)
  <2>1. PICK s \in Registered, b \in Block :
          hand' = [hand EXCEPT ![c] = {[srv |-> s, nr |-> b]}]
    BY <1>3 DEF TakeBlock
  <2>2. \A a \in hand'[c] : a.srv \in Registered
    BY <2>1 DEF CallsOK
  <2> QED
    BY <1>1, <1>2, <2>2 DEF HandsPlaced
<1>4. CASE ~ TakeBlock(c)
  <2>1. pc'[c] # "append"
    <3> USE DEF Goto, Return, CallsOK, At
    <3>1. CASE \/ ReadLookup(c) \/ WriteLookup(c) \/ CreateLookup(c)
               \/ OpenLookup(c) \/ RemoveLookup(c) \/ ListLookup(c)
               \/ AllocInode(c) \/ Link(c) \/ Relookup(c) \/ AllocFD(c)
      BY <3>1 DEF ReadLookup, WriteLookup, CreateLookup, OpenLookup,
         RemoveLookup, ListLookup, AllocInode, Link, Relookup, AllocFD
    <3>2. CASE \/ CloseFile(c) \/ GetFileInode(c) \/ CountBlocks(c)
               \/ AppendBlock(c) \/ ReadTest(c) \/ Transfer(c) \/ Unlink(c)
               \/ ReclaimBlocks(c) \/ DropInode(c) \/ ListOne(c) \/ ListDone(c)
      BY <3>2 DEF CloseFile, GetFileInode, CountBlocks, AppendBlock, ReadTest,
         Transfer, Unlink, ReclaimBlocks, DropInode, ListOne, ListDone
    <3>3. CASE WriteReply(c) \/ ReadReply(c) \/ ReadClamp(c)
      BY <3>3 DEF WriteReply, ReadReply, ReadClamp, Reply
    <3> QED
      BY <1>4, <3>1, <3>2, <3>3 DEF Step
  <2> QED
    BY <1>2, <2>1 DEF HandsPlaced
<1> QED
  BY <1>3, <1>4

(* A file gets blocks of registered servers only. *)
LEMMA BlocksStayPlaced ==
  ASSUME ServerInv, BlocksPlaced, HandsPlaced, NEW c \in Call, Step(c), ~ Crash
  PROVE  BlocksPlaced'
<1> USE DEF ServerInv
<1>1. Registered \subseteq Registered'
  BY PoolsStay
<1>2. CASE UNCHANGED blocks
  BY <1>1, <1>2 DEF BlocksPlaced
<1>3. ASSUME NEW o, blocks' = [blocks EXCEPT ![o] = << >>] PROVE BlocksPlaced'
  BY <1>1, <1>3 DEF BlocksPlaced, FilesOK
<1>4. CASE AppendBlock(c)
  <2>1. PICK a \in BlockAddr :
          /\ a.srv \in Registered
          /\ blocks' = [blocks EXCEPT ![inode[c]] = Append(@, a)]
    BY <1>4 DEF AppendBlock, At, HandsPlaced, CallsOK
  <2>2. ASSUME NEW o \in Obj, NEW k \in DOMAIN blocks'[o]
        PROVE  blocks'[o][k].srv \in Registered
    <3>1. blocks[o] \in Seq(BlockAddr)
      BY DEF FilesOK
    <3>2. CASE o = inode[c]
      <4>1. blocks'[o] = Append(blocks[o], a)
        BY <2>1, <3>2 DEF FilesOK
      <4>2. k \in 1 .. Len(blocks[o]) + 1
        BY <2>2, <3>1, <4>1
      <4>3. CASE k = Len(blocks[o]) + 1
        <5>1. blocks'[o][k] = a
          BY <3>1, <4>1, <4>3
        <5> QED
          BY <2>1, <5>1
      <4>4. CASE k \in DOMAIN blocks[o]
        BY <3>1, <4>1, <4>4 DEF BlocksPlaced
      <4> QED
        BY <3>1, <4>2, <4>3, <4>4
    <3>3. CASE o # inode[c]
      BY <2>1, <2>2, <3>3 DEF FilesOK, BlocksPlaced
    <3> QED
      BY <3>2, <3>3
  <2> QED
    BY <1>1, <2>2 DEF BlocksPlaced
<1>5. CASE AllocInode(c) \/ DropInode(c)
  BY <1>2, <1>3, <1>5 DEF AllocInode, DropInode
<1>6. CASE WriteReply(c) \/ ReadReply(c) \/ ReadClamp(c)
  <2>1. \E indices, newSize : Reply(c, indices, newSize)
    BY <1>6 DEF WriteReply, ReadReply, ReadClamp
  <2> QED
    BY <1>2, <1>3, <2>1 DEF Reply
<1>7. CASE \/ ReadLookup(c) \/ WriteLookup(c) \/ CreateLookup(c)
           \/ OpenLookup(c) \/ RemoveLookup(c) \/ ListLookup(c) \/ Relookup(c)
           \/ AllocFD(c) \/ CloseFile(c) \/ GetFileInode(c) \/ CountBlocks(c)
           \/ ReadTest(c) \/ Transfer(c) \/ ListOne(c) \/ ListDone(c)
           \/ ReclaimBlocks(c) \/ TakeBlock(c) \/ Link(c) \/ Unlink(c)
  <2>1. UNCHANGED blocks
    BY <1>7 DEF ReadLookup, WriteLookup, CreateLookup, OpenLookup,
       RemoveLookup, ListLookup, Relookup, AllocFD, CloseFile, GetFileInode,
       CountBlocks, ReadTest, Transfer, ListOne, ListDone, ReclaimBlocks,
       TakeBlock, Link, Unlink, fileVars
  <2> QED
    BY <1>2, <2>1
<1> QED
  BY <1>4, <1>5, <1>6, <1>7 DEF Step

(* Every step of the server keeps these, if callers do not use a file that *)
(* one of them writes.                                                     *)
LEMMA CourseStep ==
  ASSUME Exclusion \in {"calls", "files"}
  PROVE  ServerInv /\ NamesInv /\ CourseInv /\ [Next]_vars => CourseInv'
<1> SUFFICES ASSUME ServerInv, NamesInv, CourseInv, [Next]_vars
             PROVE  CourseInv'
  OBVIOUS
<1>0. WritesAlone'
  BY WritesStayAlone DEF CourseInv
<1>1. CASE Crash
  <2>1. \A c \in Call : Course(c)'
    BY <1>1 DEF Crash, Course
  <2>2. SizesEnd' /\ BlocksPlaced' /\ HandsPlaced'
    BY <1>1 DEF Crash, SizesEnd, Ends, BlocksPlaced, HandsPlaced
  <2> QED
    BY <1>0, <2>1, <2>2 DEF CourseInv
<1>2. ASSUME NEW c \in Call, Step(c), ~ Crash PROVE CourseInv'
  BY <1>0, <1>2, OwnCourse, OtherCourse, SizesStayEnds, BlocksStayPlaced,
     HandsStayPlaced DEF CourseInv
<1>3. ASSUME UNCHANGED <<table, blocks, size>>, Registered \subseteq Registered',
             \A c \in Call :
               \/ /\ pc'[c] = pc[c] /\ req'[c] = req[c] /\ inum'[c] = inum[c]
                  /\ inode'[c] = inode[c] /\ hand'[c] = hand[c]
               \/ pc'[c] \in {"lookup", "close"}
      PROVE  CourseInv'
  <2>1. \A c \in Call : Course(c)'
    BY <1>3 DEF CourseInv, Course, BeyondEnd, GetInode, InTable
  <2>2. SizesEnd' /\ BlocksPlaced' /\ HandsPlaced'
    BY <1>3 DEF CourseInv, SizesEnd, BlocksPlaced, HandsPlaced
  <2> QED
    BY <1>0, <2>1, <2>2 DEF CourseInv
<1>4. ASSUME NEW c \in Call, NEW r \in Requests, Begin(c, r) PROVE CourseInv'
  <2>1. UNCHANGED <<table, blocks, size, pool, inum, inode, hand>>
    BY <1>4 DEF Begin, fileVars, inodeVars
  <2>2. /\ pc'[c] \in {"lookup", "close"}
        /\ \A d \in Call \ {c} : pc'[d] = pc[d] /\ req'[d] = req[d]
    BY <1>4 DEF Begin, Goto, EntryPoint, ServerInv, CallsOK
  <2> QED
    BY <1>3, <2>1, <2>2 DEF Registered
<1>5. ASSUME NEW s \in Server, NEW r \in Regions, RegisterMemoryRegion(s, r)
      PROVE  CourseInv'
  <2>1. UNCHANGED <<table, blocks, size, pc, req, inum, inode, hand>>
    BY <1>5 DEF RegisterMemoryRegion, inodeVars, callVars
  <2>2. pool'[s] \in Pool
    BY <1>5, ConstructType, RegionsAssumption
       DEF RegisterMemoryRegion, ServerInv
  <2>3. \A q \in Server \ {s} : pool'[q] = pool[q]
    BY <1>5 DEF RegisterMemoryRegion, Construct, ServerInv, SpaceTypeOK
  <2>4. Registered \subseteq Registered'
    BY <2>2, <2>3, NoPoolAssumption DEF Registered
  <2> QED
    BY <1>3, <2>1, <2>4
<1>6. CASE RunServer \/ UNCHANGED vars
  BY <1>3, <1>6 DEF RunServer, vars, fileVars, inodeVars, callVars, Registered
<1> QED
  BY <1>1, <1>2, <1>4, <1>5, <1>6 DEF Next, Kill

-----------------------------------------------------------------------------
(* Transfers seen as one step each, that in which the card moves the bytes *)

(* The piece that c is moving is where it should be, or in the bounce      *)
(* buffer if it is read.                                                   *)
Landed(c) == leg[c] = "copy" \/ (leg[c] = "poll" /\ cq[SocketOf[c]] > 0)

Left == [c \in Call |-> IF Landed(c) THEN Tail(todo[c]) ELSE todo[c]]

Got == [c \in Call |->
          IF Landed(c) /\ req[c].op # "write"
          THEN Copied(Head(todo[c]).length, bounce[SocketOf[c]], buf[c])
          ELSE buf[c]]

seenVars == <<mem, Left, Got>>

AtomicAnswer(c) == /\ Left' = [Left EXCEPT ![c] = BlockInfos(c)]
                   /\ Got' = [Got EXCEPT ![c] = UserBuffer(c)]

AtomicHandler(c) ==
  /\ pc[c] # "transfer" /\ Step(c)
  /\ IF pc'[c] = "transfer" THEN AtomicAnswer(c) ELSE UNCHANGED <<Left, Got>>
  /\ UNCHANGED mem

AtomicMove(c) ==
  LET piece == Head(Left[c]) IN
  /\ Left[c] # << >>
  /\ Left' = [Left EXCEPT ![c] = Tail(@)]
  /\ \/ /\ Is(c, "write")
        /\ mem' = [mem EXCEPT ![piece.at] = RemoteWrite(piece, Got[c], @)]
        /\ UNCHANGED Got
     \/ /\ Is(c, "read")
        /\ Got' = [Got EXCEPT ![c] = RemoteRead(piece, @, mem[piece.at])]
        /\ UNCHANGED mem
  /\ UNCHANGED vars

AtomicReturn(c) ==
  /\ Left[c] = << >> /\ Transfer(c)
  /\ Got' = [Got EXCEPT ![c] = << >>]
  /\ UNCHANGED <<mem, Left>>

AtomicServers ==
  /\ \/ \E c \in Call, r \in Requests : Begin(c, r)
     \/ \E s \in Server, r \in Regions : RegisterMemoryRegion(s, r)
     \/ Kill \/ RunServer
  /\ UNCHANGED seenVars

AtomicNext ==
  \/ \E c \in Call : AtomicHandler(c) \/ AtomicMove(c) \/ AtomicReturn(c)
  \/ AtomicServers

-----------------------------------------------------------------------------
(* The inductive invariant: bytes *)

(* The piece of call c, if its block is at a. *)
PieceAt(c, a) ==
  [at |-> a, inner |-> InnerOffset(req[c].off), length |-> Len(Got[c])]

(* A client that transfers has at most one piece left, with the whole of   *)
(* its buffer; the others have none.                                       *)
Sent(c) ==
  /\ pc[c] # "transfer" => Left[c] = << >>
  /\ pc[c] = "transfer" =>
       /\ Got[c] \in Seq(Byte) /\ InOneBlock(req[c].off, Len(Got[c]))
       /\ req[c].op = "write" =>
            Got[c] = [p \in 1 .. req[c].len |-> <<c, p - 1>>]
       /\ Left[c] = << >> \/ \E a \in hand[c] : Left[c] = << PieceAt(c, a) >>

IndexOf(c) == req[c].off \div FILE_BLOCK_SIZE + 1

(* While its file is there, the piece that is left is that of the file's   *)
(* block; once it is moved buffer and file agree.                          *)
Agrees(c, o) ==
  /\ req[c].off + Len(Got[c]) = Least(req[c].off + req[c].len, size[o])
  /\ Left[c] # << >> => /\ IndexOf(c) \in DOMAIN blocks[o]
                        /\ Left[c] = << PieceAt(c, blocks[o][IndexOf(c)]) >>
  /\ Left[c] = << >> => \A q \in 1 .. Len(Got[c]) :
                          Got[c][q] = StoredByte(o, req[c].off + q - 1)

Moved(c) ==
  pc[c] = "transfer" /\ Linked(req[c].name) =>
    FileOf(req[c].name) \in Obj /\ Agrees(c, FileOf(req[c].name))

BytesOK == /\ mem \in [BlockAddr -> [1 .. FILE_BLOCK_SIZE -> Byte]]
           /\ Left = [c \in Call |-> Left[c]] /\ Got = [c \in Call |-> Got[c]]

DataInv == BytesOK /\ \A c \in Call : Sent(c) /\ Moved(c)

(* The memory that the file of that name is in does not change. *)
SameBytes(n) ==
  FileOf(n) \in Obj => \A k \in DOMAIN blocks[FileOf(n)] :
    mem'[blocks[FileOf(n)][k]] = mem[blocks[FileOf(n)][k]]

(* The bytes after an offset that lie in the same block. *)
LEMMA SameBlock ==
  ASSUME NEW off \in Nat, NEW q \in Nat, InnerOffset(off) + q < FILE_BLOCK_SIZE
  PROVE  /\ (off + q) \div FILE_BLOCK_SIZE = off \div FILE_BLOCK_SIZE
         /\ (off + q) % FILE_BLOCK_SIZE = InnerOffset(off) + q
<1> USE PlanBlockSizeAssumption
<1>1. PICK x \in Nat : x = off + q
  OBVIOUS
<1>2. PICK d \in Nat, m \in Nat :
        /\ d = off \div FILE_BLOCK_SIZE /\ m = InnerOffset(off)
        /\ off = FILE_BLOCK_SIZE * d + m
  BY Division DEF InnerOffset
<1>3. PICK e \in Nat, r \in Nat :
        /\ e = x \div FILE_BLOCK_SIZE /\ r = x % FILE_BLOCK_SIZE
        /\ x = FILE_BLOCK_SIZE * e + r /\ r < FILE_BLOCK_SIZE
  BY Division
<1>4. PICK bd \in Nat, be \in Nat :
        /\ bd = FILE_BLOCK_SIZE * d /\ be = FILE_BLOCK_SIZE * e
        /\ bd + FILE_BLOCK_SIZE = FILE_BLOCK_SIZE * (d + 1)
        /\ be + FILE_BLOCK_SIZE = FILE_BLOCK_SIZE * (e + 1)
  OBVIOUS
<1>5. x = bd + (m + q) /\ x = be + r /\ m + q < FILE_BLOCK_SIZE
  BY <1>1, <1>2, <1>3, <1>4
<1>6. be < bd + FILE_BLOCK_SIZE /\ bd < be + FILE_BLOCK_SIZE
  BY <1>3, <1>5
<1>7. e < d + 1 /\ d < e + 1
  <2>1. /\ FILE_BLOCK_SIZE * e < FILE_BLOCK_SIZE * (d + 1)
        /\ FILE_BLOCK_SIZE * d < FILE_BLOCK_SIZE * (e + 1)
    BY <1>4, <1>6
  <2>2. d + 1 \in Nat /\ e + 1 \in Nat
    OBVIOUS
  <2> QED
    BY <2>1, <2>2, FewerBlocks
<1>8. e = d
  BY <1>7
<1>9. r = m + q
  BY <1>4, <1>5, <1>8
<1> QED
  BY <1>1, <1>2, <1>3, <1>8, <1>9

(* A byte before the end of a file is in one of its blocks. *)
LEMMA ByteInBlocks ==
  ASSUME ServerInv, SizeCovered, NEW o \in Obj, NEW p \in Nat, p < size[o]
  PROVE  /\ p \div FILE_BLOCK_SIZE + 1 \in DOMAIN blocks[o]
         /\ (p % FILE_BLOCK_SIZE) + 1 \in 1 .. FILE_BLOCK_SIZE
<1>1. PICK d \in Nat, m \in Nat :
        /\ d = p \div FILE_BLOCK_SIZE /\ m = p % FILE_BLOCK_SIZE
        /\ p = FILE_BLOCK_SIZE * d + m /\ m < FILE_BLOCK_SIZE
  BY Division
<1>2. blocks[o] \in Seq(BlockAddr) /\ size[o] \in Nat
  BY DEF ServerInv, FilesOK
<1>3. PICK n \in Nat : n = Len(blocks[o]) /\ DOMAIN blocks[o] = 1 .. n
  BY <1>2
<1>4. size[o] <= n * FILE_BLOCK_SIZE
  BY <1>3 DEF SizeCovered
<1>5. FILE_BLOCK_SIZE * d \in Nat /\ n * FILE_BLOCK_SIZE = FILE_BLOCK_SIZE * n
      /\ FILE_BLOCK_SIZE * n \in Nat
  BY PlanBlockSizeAssumption
<1>6. FILE_BLOCK_SIZE * d < FILE_BLOCK_SIZE * n
  BY <1>1, <1>2, <1>4, <1>5
<1>7. d < n
  BY <1>6, FewerBlocks
<1> QED
  BY <1>1, <1>3, <1>7, PlanBlockSizeAssumption

(* The bytes of a file that is as it was, in memory that is as it was. *)
LEMMA BytesKept ==
  ASSUME ServerInv, SizeCovered, NEW n \in Name, Still(n), SameBytes(n),
         NEW o \in Obj, o = FileOf(n), NEW CONSTANT p \in Nat, p < size[o]
  PROVE  /\ mem'[blocks'[o][p \div FILE_BLOCK_SIZE + 1]]
              = mem[blocks[o][p \div FILE_BLOCK_SIZE + 1]]
         /\ blocks'[o][p \div FILE_BLOCK_SIZE + 1]
              = blocks[o][p \div FILE_BLOCK_SIZE + 1]
<1>1. p \div FILE_BLOCK_SIZE + 1 \in DOMAIN blocks[o]
  BY ByteInBlocks
<1> QED
  BY <1>1 DEF Still, SameBytes

(* The offset and the length of a request that runs. *)
LEMMA RequestType ==
  ASSUME ServerInv, NEW c \in Call, pc[c] # "idle"
  PROVE  /\ req[c] \in Requests /\ req[c].name \in Name
         /\ req[c].off \in Nat /\ req[c].len \in Nat
  BY RequestsAssumption DEF ServerInv, CallsOK, Request

(* A transfer whose file and whose memory are left alone, or whose file is *)
(* gone afterwards.                                                        *)
LEMMA TransferKept ==
  ASSUME ServerInv, SizeCovered, NEW d \in Call, Sent(d), Moved(d),
         pc'[d] = pc[d], req'[d] = req[d], hand'[d] = hand[d],
         Left'[d] = Left[d], Got'[d] = Got[d],
         pc[d] = "transfer" =>
           \/ ~ Linked(req[d].name)'
           \/ Still(req[d].name) /\ SameBytes(req[d].name)
  PROVE  Sent(d)' /\ Moved(d)'
<1>1. Sent(d)'
  BY DEF Sent, PieceAt
<1>2. Moved(d)'
  <2> SUFFICES ASSUME pc[d] = "transfer", Linked(req[d].name)'
               PROVE  (FileOf(req[d].name) \in Obj)'
                      /\ Agrees(d, FileOf(req[d].name))'
    BY DEF Moved
  <2>1. PICK n \in Name, off \in Nat, len \in Nat :
          n = req[d].name /\ off = req[d].off /\ len = req[d].len
    BY RequestType
  <2>2. Still(n) /\ SameBytes(n) /\ Linked(n)
    BY <2>1 DEF Still, Linked
  <2>3. PICK o \in Obj : o = FileOf(n) /\ Agrees(d, o)
    BY <2>1, <2>2 DEF Moved
  <2>4. FileOf(n)' = o /\ size'[o] = size[o]
    BY <2>2, <2>3 DEF Still
  <2>5. PICK l \in Nat : l = Len(Got[d])
    BY DEF Sent
  <2>6. ASSUME NEW q \in 1 .. l, Left[d] = << >>
        PROVE  Got'[d][q] = StoredByte(o, off + q - 1)'
    <3>1. PICK p \in Nat : p = off + q - 1 /\ p < size[o]
      <4>1. off + l = Least(off + len, size[o])
        BY <2>1, <2>3, <2>5 DEF Agrees
      <4>2. size[o] \in Nat
        BY DEF ServerInv, FilesOK
      <4> QED
        BY <4>1, <4>2 DEF Least
    <3>2. Got[d][q] = StoredByte(o, p)
      BY <2>1, <2>3, <2>5, <2>6, <3>1 DEF Agrees
    <3>3. StoredByte(o, p)' = StoredByte(o, p)
      BY <2>2, <2>3, <3>1, BytesKept DEF StoredByte
    <3> QED
      BY <3>1, <3>2, <3>3
  <2>7. ASSUME Left[d] # << >>
        PROVE  /\ IndexOf(d)' \in DOMAIN blocks'[o]
               /\ Left'[d] = << PieceAt(d, blocks[o][IndexOf(d)])' >>
    <3>1. PICK k \in DOMAIN blocks[o] : k = IndexOf(d) /\ k = IndexOf(d)'
      BY <2>3, <2>7 DEF Agrees, IndexOf
    <3>2. blocks'[o][k] = blocks[o][k] /\ k \in DOMAIN blocks'[o]
      BY <2>2, <2>3 DEF Still
    <3> QED
      BY <2>3, <2>7, <3>1, <3>2 DEF Agrees, PieceAt
  <2>8. Agrees(d, o)'
    BY <2>1, <2>3, <2>4, <2>5, <2>6, <2>7 DEF Agrees
  <2> QED
    BY <2>1, <2>4, <2>8
<1> QED
  BY <1>1, <1>2

-----------------------------------------------------------------------------
(* Bytes: the reply *)

(* A reply gives the blocks of the bytes from the offset on, up to the     *)
(* length asked for or the end of the file.                                *)
LEMMA ReplyAnswers ==
  ASSUME OneBlockRequests, ServerInv, NamesInv, CourseInv, NEW c \in Call,
         Step(c), ~ Crash, pc[c] # "transfer", pc'[c] = "transfer"
  PROVE  \E o \in Obj, l \in Nat :
           /\ o = FileOf(req[c].name) /\ o = inode[c] /\ l = AnsweredLength(c)
           /\ InOneBlock(req[c].off, l)
           /\ InList(o, ReplyIndices(req[c].off, l))
           /\ req[c].off + l = Least(req[c].off + req[c].len, size'[o])
           /\ req[c].op = "write" => WriteReply(c) /\ l = req[c].len
           /\ hand'[c] = {blocks[o][k + 1] : k \in ReplyIndices(req[c].off, l)}
           /\ UNCHANGED <<children, table, blocks, req>>
<1> USE DEF ServerInv
<1>1. WriteReply(c) \/ ReadReply(c) \/ ReadClamp(c)
  BY DEF Step, ReadLookup, WriteLookup, CreateLookup, OpenLookup,
     RemoveLookup, ListLookup, AllocInode, Link, Relookup, AllocFD, CloseFile,
     GetFileInode, CountBlocks, TakeBlock, AppendBlock, ReadTest, Transfer, Unlink,
     ReclaimBlocks, DropInode, ListOne, ListDone, Return, Goto, CallsOK
<1>2. pc[c] \in HoldsPointer
  BY <1>1 DEF WriteReply, ReadReply, ReadClamp, At, HoldsPointer
<1>3. PICK o \in Obj : o = inode[c] /\ o = FileOf(req[c].name)
  BY <1>2, PointerOfName DEF FileOf
<1>4. PICK off \in Nat, len \in Nat, z \in Nat :
        /\ off = req[c].off /\ len = req[c].len /\ z = size[o] /\ z \in Ends
  <2>1. size[o] \in Nat /\ size[o] \in Ends
    BY DEF FilesOK, CourseInv, SizesEnd
  <2> QED
    BY <1>2, <2>1, RequestType DEF HoldsPointer
<1>5. req[c] \in Requests
  BY <1>2, RequestType DEF HoldsPointer
<1>6. ASSUME NEW l \in Nat, NEW newSize,
             Reply(c, ReplyIndices(off, l), newSize)
      PROVE  /\ size'[o] = newSize
             /\ hand'[c] = {blocks[o][k + 1] : k \in ReplyIndices(off, l)}
             /\ UNCHANGED <<children, table, blocks, req>>
  <2>1. /\ UNCHANGED <<children, table, blocks>>
        /\ size' = [size EXCEPT ![inode[c]] = newSize]
    BY <1>2, <1>6, ReplyIsStill
  <2>2. /\ UNCHANGED req
        /\ hand' = [hand EXCEPT ![c] =
                      {blocks[inode[c]][k + 1] : k \in ReplyIndices(off, l)}]
    BY <1>6 DEF Reply
  <2> QED
    BY <1>3, <2>1, <2>2 DEF FilesOK, CallsOK
<1>7. CASE WriteReply(c)
  <2>1. /\ pc[c] = "grow" /\ InList(o, ReplyIndices(off, len))
        /\ Reply(c, ReplyIndices(off, len), off + len)
    BY <1>3, <1>4, <1>7 DEF WriteReply, At
  <2>2. len = AnsweredLength(c) /\ req[c].op = "write"
    BY <1>4, <2>1 DEF AnsweredLength, CourseInv, Course
  <2>3. InOneBlock(off, len)
    BY <1>4, <1>5, <2>2 DEF OneBlockRequests
  <2>4. off + len = Least(off + len, off + len)
    BY DEF Least
  <2> QED
    BY <1>3, <1>4, <1>6, <1>7, <2>1, <2>2, <2>3, <2>4
<1>8. CASE ReadReply(c)
  <2>1. /\ pc[c] = "reply" /\ InList(o, ReplyIndices(off, len))
        /\ off + len <= z
        /\ Reply(c, ReplyIndices(off, len), z)
    BY <1>3, <1>4, <1>8 DEF ReadReply, At, BeyondEnd
  <2>2. len = AnsweredLength(c) /\ req[c].op = "read"
    BY <1>4, <2>1 DEF AnsweredLength, CourseInv, Course
  <2>3. Least(len, z - off) = len /\ off <= z
    BY <2>1 DEF Least
  <2>4. InOneBlock(off, len)
    BY <1>4, <1>5, <2>2, <2>3 DEF OneBlockRequests
  <2>5. off + len = Least(off + len, z)
    BY <2>1 DEF Least
  <2> QED
    BY <1>3, <1>4, <1>6, <2>1, <2>2, <2>4, <2>5
<1>9. CASE ReadClamp(c)
  <2>1. pc[c] = "clamp" /\ req[c].op = "read" /\ off + len > z
    BY <1>3, <1>4, <1>9
       DEF ReadClamp, At, CourseInv, Course, BeyondEnd
  <2>2. /\ off <= z /\ InList(o, ReplyIndices(off, z - off))
        /\ Reply(c, ReplyIndices(off, z - off), z)
    BY <1>3, <1>4, <1>9 DEF ReadClamp
  <2>3. PICK l \in Nat : l = z - off
    BY <2>2
  <2>4. l = AnsweredLength(c)
    BY <1>3, <1>4, <2>1, <2>3 DEF AnsweredLength
  <2>5. Least(len, z - off) = l
    BY <2>1, <2>3 DEF Least
  <2>6. InOneBlock(off, l)
    BY <1>4, <1>5, <2>1, <2>2, <2>5 DEF OneBlockRequests
  <2>7. off + l = Least(off + len, z)
    BY <2>1, <2>3 DEF Least
  <2> QED
    BY <1>3, <1>4, <1>6, <2>1, <2>2, <2>3, <2>4, <2>6, <2>7
<1> QED
  BY <1>1, <1>7, <1>8, <1>9

(* ReadFile or WriteFile of the stub returns with one piece, or none when  *)
(* there are no bytes to move.                                             *)
LEMMA AnsweredIsSent ==
  ASSUME OneBlockRequests, ServerInv, NamesInv, CourseInv, BytesOK,
         NEW c \in Call, Step(c), ~ Crash, pc[c] # "transfer",
         pc'[c] = "transfer", AtomicAnswer(c)
  PROVE  Sent(c)' /\ Moved(c)'
<1>1. PICK o \in Obj, l \in Nat :
           /\ o = FileOf(req[c].name) /\ o = inode[c] /\ l = AnsweredLength(c)
           /\ InOneBlock(req[c].off, l)
           /\ InList(o, ReplyIndices(req[c].off, l))
           /\ req[c].off + l = Least(req[c].off + req[c].len, size'[o])
           /\ req[c].op = "write" => WriteReply(c) /\ l = req[c].len
           /\ hand'[c] = {blocks[o][k + 1] : k \in ReplyIndices(req[c].off, l)}
           /\ UNCHANGED <<children, table, blocks, req>>
  BY ReplyAnswers
<1>2. PICK off \in Nat : off = req[c].off
  BY StepIsLocal, RequestType
<1>3. PICK idx \in Nat : idx = off \div FILE_BLOCK_SIZE
  BY PlanBlockSizeAssumption
<1>4. /\ Left'[c] = BlockInfos(c) /\ Got'[c] = UserBuffer(c)
  BY DEF AtomicAnswer, BytesOK
<1>5. /\ Got'[c] = [p \in 1 .. l |->
                      IF req[c].op = "write" THEN <<c, p - 1>> ELSE Blank]
      /\ Got'[c] \in Seq(Byte) /\ Len(Got'[c]) = l
  <2>1. Got'[c] = [p \in 1 .. l |->
                     IF req[c].op = "write" THEN <<c, p - 1>> ELSE Blank]
    BY <1>1, <1>4 DEF UserBuffer, Is
  <2>2. \A p \in 1 .. l :
          (IF req[c].op = "write" THEN <<c, p - 1>> ELSE Blank) \in Byte
    BY DEF Byte
  <2>3. Got'[c] \in [1 .. l -> Byte]
    BY <2>1, <2>2
  <2>4. \A b \in [1 .. l -> Byte] : b \in Seq(Byte) /\ Len(b) = l
    OBVIOUS
  <2> QED
    BY <2>1, <2>3, <2>4
<1>6. blocks[o] \in Seq(BlockAddr)
  BY DEF ServerInv, FilesOK
<1>7. BlockInfos(c) = [k \in DOMAIN Plan(off, l) |->
        [at |-> blocks[o][Plan(off, l)[k].block_idx + 1],
         inner |-> Plan(off, l)[k].inner, length |-> Plan(off, l)[k].length]]
  BY <1>1, <1>2 DEF BlockInfos
<1>8. CASE l = 0 /\ Plan(off, l) = << >>
  <2>1. Left'[c] = << >>
    BY <1>4, <1>7, <1>8
  <2>2. Sent(c)'
    BY <1>1, <1>5, <2>1 DEF Sent
  <2>3. Agrees(c, o)'
    BY <1>1, <1>5, <1>8, <2>1 DEF Agrees
  <2> QED
    BY <1>1, <2>2, <2>3 DEF Moved, FileOf, GetInode, InTable
<1>9. CASE Plan(off, l) = << Piece(idx, InnerOffset(off), l, 0) >>
  <2>1. PICK a \in BlockAddr :
          a = blocks[o][idx + 1] /\ idx + 1 \in DOMAIN blocks[o]
          /\ a \in hand'[c]
    <3>1. ReplyIndices(off, l) = {idx}
      BY <1>9 DEF ReplyIndices, Piece
    <3>2. idx < Len(blocks[o])
      BY <1>1, <1>2, <3>1 DEF InList
    <3>3. idx + 1 \in DOMAIN blocks[o]
      BY <1>6, <3>2
    <3> QED
      BY <1>1, <1>2, <1>6, <3>1, <3>3
  <2>2. Left'[c] = << [at |-> a, inner |-> InnerOffset(off), length |-> l] >>
    BY <1>4, <1>7, <1>9, <2>1 DEF Piece
  <2>3. Left'[c] = << PieceAt(c, a)' >> /\ Left'[c] # << >>
    BY <1>1, <1>2, <1>5, <2>2 DEF PieceAt
  <2>4. Sent(c)'
    BY <1>1, <1>5, <2>1, <2>3 DEF Sent
  <2>5. IndexOf(c)' = idx + 1
    BY <1>1, <1>2, <1>3 DEF IndexOf
  <2>6. Agrees(c, o)'
    BY <1>1, <1>5, <2>1, <2>3, <2>5 DEF Agrees
  <2> QED
    BY <1>1, <2>4, <2>6 DEF Moved, FileOf, GetInode, InTable
<1> QED
  BY <1>1, <1>2, <1>3, <1>8, <1>9, OneBlockPlan

-----------------------------------------------------------------------------
(* Bytes: the steps that leave the memory alone *)

(* A step of a handler does not change the file that another call          *)
(* transfers from or to.                                                   *)
LEMMA TransferStill ==
  ASSUME ServerInv, NamesInv, CourseInv, NEW c \in Call, Step(c), ~ Crash,
         NEW d \in Call \ {c}, pc[d] = "transfer"
  PROVE  Still(req[d].name)
<1>1. req[d].name \in Name /\ req[d].op \in {"read", "write"}
  BY RequestType DEF NamesInv, Stage
<1>2. Apart(c, d) /\ Stage(c) /\ Course(c)
  BY DEF NamesInv, CourseInv
<1> SUFFICES ASSUME WriteReply(c) \/ Link(c) \/ Unlink(c),
                    req[c].name = req[d].name
             PROVE  FALSE
  BY <1>1, StepIsStill
<1>3. CASE WriteReply(c)
  <2>1. pc[c] = "grow" /\ req[c].op = "write"
    BY <1>2, <1>3 DEF WriteReply, At, Course
  <2> QED
    BY <2>1 DEF CourseInv, WritesAlone
<1>4. CASE Link(c) \/ Unlink(c)
  <2>1. \/ /\ pc[c] = "link" /\ ~ Linked(req[c].name)
           /\ req[c].op \in {"write", "create", "open"}
        \/ pc[c] = "unlink" /\ req[c].op = "remove"
    BY <1>2, <1>4 DEF Link, Unlink, At, Stage, Creates
  <2> QED
    BY <1>1, <1>2, <2>1 DEF Apart, SameName
<1> QED
  BY <1>3, <1>4

(* After a crash clients that transfer go on, with files that are gone. *)
LEMMA CrashKeepsData ==
  ASSUME ServerInv, SizeCovered, DataInv, Crash, UNCHANGED seenVars
  PROVE  DataInv'
<1> USE DEF seenVars
<1>1. ASSUME NEW d \in Call PROVE Sent(d)' /\ Moved(d)'
  <2>1. CASE pc[d] = "transfer"
    <3>1. /\ pc'[d] = pc[d] /\ req'[d] = req[d] /\ hand'[d] = hand[d]
      BY <2>1 DEF Crash
    <3>2. ~ Linked(req[d].name)'
      BY <2>1, <3>1, RequestType DEF Crash, Linked, NoInum
    <3> QED
      BY <3>1, <3>2, TransferKept DEF DataInv
  <2>2. CASE pc[d] # "transfer"
    BY <2>2 DEF Crash, DataInv, Sent, Moved
  <2> QED
    BY <2>1, <2>2
<1> QED
  BY <1>1 DEF DataInv, BytesOK

(* A step of the server for call c. *)
LEMMA HandlerKeepsData ==
  ASSUME OneBlockRequests, ServerInv, SizeCovered, NamesInv, CourseInv,
         DataInv, NEW c \in Call, AtomicHandler(c)
  PROVE  DataInv'
<1>1. pc[c] # "transfer" /\ Step(c) /\ UNCHANGED mem
  BY DEF AtomicHandler
<1>2. CASE Crash
  <2>1. pc'[c] # "transfer"
    BY <1>1, <1>2 DEF Crash
  <2> QED
    BY <1>1, <1>2, <2>1, CrashKeepsData DEF AtomicHandler, seenVars
<1>3. CASE ~ Crash
  <2>1. OthersKept(c)
    BY <1>1, <1>3, StepIsLocal
  <2>2. CASE pc'[c] = "transfer"
    <3>1. AtomicAnswer(c)
      BY <2>2 DEF AtomicHandler
    <3>2. Sent(c)' /\ Moved(c)'
      BY <1>1, <1>3, <2>2, <3>1, AnsweredIsSent DEF DataInv
    <3>3. ASSUME NEW d \in Call \ {c} PROVE Sent(d)' /\ Moved(d)'
      <4>1. Left'[d] = Left[d] /\ Got'[d] = Got[d]
        BY <3>1 DEF AtomicAnswer, DataInv, BytesOK
      <4>2. pc[d] = "transfer" => Still(req[d].name)
        BY <1>1, <1>3, TransferStill
      <4>3. SameBytes(req[d].name)
        BY <1>1 DEF SameBytes
      <4> QED
        BY <2>1, <4>1, <4>2, <4>3, TransferKept DEF OthersKept, DataInv
    <3>4. BytesOK'
      BY <1>1, <3>1 DEF AtomicAnswer, DataInv, BytesOK
    <3> QED
      BY <3>2, <3>3, <3>4 DEF DataInv
  <2>3. CASE pc'[c] # "transfer"
    <3>1. UNCHANGED <<Left, Got>>
      BY <2>3 DEF AtomicHandler
    <3>2. Sent(c)' /\ Moved(c)'
      BY <1>1, <2>3, <3>1 DEF DataInv, Sent, Moved
    <3>3. ASSUME NEW d \in Call \ {c} PROVE Sent(d)' /\ Moved(d)'
      <4>1. pc[d] = "transfer" => Still(req[d].name)
        BY <1>1, <1>3, TransferStill
      <4>2. SameBytes(req[d].name)
        BY <1>1 DEF SameBytes
      <4> QED
        BY <2>1, <3>1, <4>1, <4>2, TransferKept DEF OthersKept, DataInv
    <3>4. BytesOK'
      BY <1>1, <3>1 DEF DataInv, BytesOK
    <3> QED
      BY <3>2, <3>3, <3>4 DEF DataInv
  <2> QED
    BY <2>2, <2>3
<1> QED
  BY <1>2, <1>3

(* Client::read or Client::write returns. *)
LEMMA ReturnKeepsData ==
  ASSUME ServerInv, SizeCovered, NamesInv, CourseInv, DataInv,
         NEW c \in Call, AtomicReturn(c)
  PROVE  DataInv'
<1>1. /\ Step(c) /\ pc[c] = "transfer" /\ pc'[c] = "idle" /\ Left[c] = << >>
      /\ UNCHANGED <<mem, Left>> /\ Got' = [Got EXCEPT ![c] = << >>]
  BY DEF AtomicReturn, Step, Transfer, Return, Goto, ServerInv, CallsOK
<1>2. ~ Crash
  BY <1>1 DEF Crash
<1>3. OthersKept(c)
  BY <1>1, <1>2, StepIsLocal
<1>4. Sent(c)' /\ Moved(c)'
  BY <1>1 DEF Sent, Moved
<1>5. ASSUME NEW d \in Call \ {c} PROVE Sent(d)' /\ Moved(d)'
  <2>1. Got'[d] = Got[d]
    BY <1>1 DEF DataInv, BytesOK
  <2>2. pc[d] = "transfer" => Still(req[d].name)
    BY <1>1, <1>2, TransferStill
  <2>3. SameBytes(req[d].name)
    BY <1>1 DEF SameBytes
  <2> QED
    BY <1>1, <1>3, <2>1, <2>2, <2>3, TransferKept DEF OthersKept, DataInv
<1>6. BytesOK'
  BY <1>1 DEF DataInv, BytesOK
<1> QED
  BY <1>4, <1>5, <1>6 DEF DataInv

(* The other processes, and requests that begin. *)
LEMMA ServersKeepData ==
  ASSUME ServerInv, SizeCovered, DataInv, AtomicServers
  PROVE  DataInv'
<1> USE DEF seenVars
<1>0. UNCHANGED seenVars
  BY DEF AtomicServers
<1>1. ASSUME UNCHANGED <<children, table, blocks, size, hand>>,
             \A d \in Call :
               \/ pc'[d] = pc[d] /\ req'[d] = req[d]
               \/ pc[d] # "transfer" /\ pc'[d] # "transfer"
      PROVE  DataInv'
  <2>1. ASSUME NEW d \in Call PROVE Sent(d)' /\ Moved(d)'
    <3>1. CASE pc[d] # "transfer" /\ pc'[d] # "transfer"
      BY <1>0, <3>1 DEF DataInv, Sent, Moved
    <3>2. CASE pc'[d] = pc[d] /\ req'[d] = req[d]
      <4>1. pc[d] = "transfer" => Still(req[d].name)
        BY <1>1, StillFrame, RequestType
      <4>2. SameBytes(req[d].name)
        BY <1>0 DEF SameBytes
      <4> QED
        BY <1>0, <1>1, <3>2, <4>1, <4>2, TransferKept DEF DataInv
    <3> QED
      BY <1>1, <3>1, <3>2
  <2> QED
    BY <1>0, <2>1 DEF DataInv, BytesOK
<1>2. CASE Kill
  BY <1>0, <1>2, CrashKeepsData DEF Kill
<1>3. ASSUME NEW c \in Call, NEW r \in Requests, Begin(c, r) PROVE DataInv'
  <2>1. UNCHANGED <<children, table, blocks, size, hand>>
    BY <1>3 DEF Begin, fileVars, inodeVars
  <2>2. /\ pc[c] # "transfer" /\ pc'[c] # "transfer"
        /\ \A d \in Call \ {c} : pc'[d] = pc[d] /\ req'[d] = req[d]
    BY <1>3 DEF Begin, At, Goto, EntryPoint, ServerInv, CallsOK
  <2> QED
    BY <1>1, <2>1, <2>2
<1>4. ASSUME NEW s \in Server, NEW r \in Regions, RegisterMemoryRegion(s, r)
      PROVE  DataInv'
  BY <1>1, <1>4 DEF RegisterMemoryRegion, inodeVars, callVars
<1>5. CASE RunServer
  BY <1>1, <1>5 DEF RunServer, inodeVars, callVars
<1> QED
  BY <1>2, <1>3, <1>4, <1>5 DEF AtomicServers

-----------------------------------------------------------------------------
(* Bytes: RemoteWrite and RemoteRead *)

(* What RemoteWrite leaves in the block. *)
LEMMA RemoteWriteBytes ==
  ASSUME NEW piece, NEW inner \in Nat, NEW data \in Seq(Byte),
         NEW block \in [1 .. FILE_BLOCK_SIZE -> Byte],
         piece.inner = inner, piece.length = Len(data),
         inner + Len(data) <= FILE_BLOCK_SIZE
  PROVE  /\ RemoteWrite(piece, data, block) \in [1 .. FILE_BLOCK_SIZE -> Byte]
         /\ \A q \in 1 .. Len(data) :
              RemoteWrite(piece, data, block)[inner + q] = data[q]
         /\ \A i \in 1 .. FILE_BLOCK_SIZE :
              i <= inner \/ i > inner + Len(data) =>
                RemoteWrite(piece, data, block)[i] = block[i]
<1> USE PlanBlockSizeAssumption
<1>1. PICK l \in Nat : l = Len(data) /\ DOMAIN data = 1 .. l
  OBVIOUS
<1>2. ASSUME NEW i \in 1 .. FILE_BLOCK_SIZE
      PROVE  {k \in 1 .. piece.length : RemoteByte(piece, k) = i}
               = IF i <= inner \/ i > inner + l THEN {} ELSE {i - inner}
  BY <1>1 DEF RemoteByte
<1>3. ASSUME NEW i \in 1 .. FILE_BLOCK_SIZE
      PROVE  RemoteWrite(piece, data, block)[i]
               = IF i <= inner \/ i > inner + l THEN block[i] ELSE data[i - inner]
  <2>1. PICK from : from = {k \in 1 .. piece.length : RemoteByte(piece, k) = i}
    OBVIOUS
  <2>2. RemoteWrite(piece, data, block)[i] =
          IF from = {} THEN block[i] ELSE data[CHOOSE k \in from : TRUE]
    BY <2>1 DEF RemoteWrite
  <2>3. CASE i <= inner \/ i > inner + l
    BY <1>2, <2>1, <2>2, <2>3
  <2>4. CASE ~ (i <= inner \/ i > inner + l)
    <3>1. from = {i - inner}
      BY <1>2, <2>1, <2>4
    <3>2. (CHOOSE k \in from : TRUE) = i - inner
      BY <3>1
    <3> QED
      BY <2>2, <2>4, <3>1, <3>2
  <2> QED
    BY <2>3, <2>4
<1>4. RemoteWrite(piece, data, block)
        = [i \in 1 .. FILE_BLOCK_SIZE |-> RemoteWrite(piece, data, block)[i]]
  BY DEF RemoteWrite
<1>5. ASSUME NEW i \in 1 .. FILE_BLOCK_SIZE
      PROVE  RemoteWrite(piece, data, block)[i] \in Byte
  <2>1. CASE i <= inner \/ i > inner + l
    BY <1>3, <2>1
  <2>2. CASE ~ (i <= inner \/ i > inner + l)
    <3>1. i - inner \in 1 .. l
      BY <2>2
    <3> QED
      BY <1>1, <1>3, <2>2, <3>1
  <2> QED
    BY <2>1, <2>2
<1>6. ASSUME NEW q \in 1 .. l
      PROVE  RemoteWrite(piece, data, block)[inner + q] = data[q]
  <2>1. PICK i \in 1 .. FILE_BLOCK_SIZE :
          i = inner + q /\ ~ (i <= inner \/ i > inner + l) /\ i - inner = q
    BY <1>1
  <2> QED
    BY <1>3, <2>1
<1>7. RemoteWrite(piece, data, block) \in [1 .. FILE_BLOCK_SIZE -> Byte]
  BY <1>4, <1>5
<1> QED
  BY <1>1, <1>3, <1>6, <1>7

(* A block is in one place of one file. *)
LEMMA OnePlace ==
  ASSUME ServerInv, NamesInv, BlocksInv, CourseInv, ReliableOnly,
         NEW m \in Name, FileOf(m) \in Obj, NEW k \in DOMAIN blocks[FileOf(m)],
         NEW n \in Name, FileOf(n) \in Obj, NEW l \in DOMAIN blocks[FileOf(n)],
         blocks[FileOf(m)][k] = blocks[FileOf(n)][l]
  PROVE  m = n /\ k = l
<1>1. PICK a \in BlockAddr : a = blocks[FileOf(m)][k]
  <2>1. blocks[FileOf(m)] \in Seq(BlockAddr)
    BY DEF ServerInv, FilesOK
  <2> QED
    BY <2>1
<1>2. a.srv \in Server /\ a.nr \in Block /\ a.srv \in Registered
  BY <1>1 DEF BlockAddr, CourseInv, BlocksPlaced
<1>3. Sound(a.srv)
  BY <1>2 DEF ReliableOnly, BlocksInv
<1>4. ASSUME NEW i \in Name, FileOf(i) \in Obj PROVE FileOf(i) \in OwningObjs(a.srv)
  <2>1. /\ \E j \in Inum : table[j] = FileOf(i)
        /\ \A d \in Call : Keeps(d) => GetInode(inum[d]) # FileOf(i)
    BY <1>4, NamedFile
  <2> QED
    BY <1>4, <2>1 DEF OwningObjs, Swept, Keeps
<1>5. /\ k \in EntriesOn(a.srv, blocks[FileOf(m)], a.nr)
      /\ l \in EntriesOn(a.srv, blocks[FileOf(n)], a.nr)
  BY <1>1 DEF EntriesOn
<1>6. /\ <<FileOf(m), k>> \in Owners(a.srv, a.nr)
      /\ <<FileOf(n), l>> \in Owners(a.srv, a.nr)
  BY <1>4, <1>5, OwnersAre
<1>7. <<FileOf(m), k>> = <<FileOf(n), l>>
  BY <1>2, <1>3, <1>6 DEF Sound
<1>8. FileOf(m) = FileOf(n) /\ k = l
  BY <1>7
<1> QED
  BY <1>8, NamedFile

(* The block a client moves bytes to is in no other file, even when its    *)
(* own file is gone.                                                       *)
LEMMA ForeignBlocks ==
  ASSUME ServerInv, NamesInv, BlocksInv, CourseInv, ReliableOnly,
         NEW c \in Call, NEW a \in hand[c], pc[c] = "transfer",
         NEW m \in Name \ {req[c].name}, FileOf(m) \in Obj,
         NEW k \in DOMAIN blocks[FileOf(m)]
  PROVE  blocks[FileOf(m)][k] # a
<1> SUFFICES ASSUME blocks[FileOf(m)][k] = a PROVE FALSE
  OBVIOUS
<1>1. a.srv \in Registered /\ a.srv \in Server
  BY DEF CourseInv, BlocksPlaced, Registered
<1>2. InFile(req[c].name, a)
  BY <1>1 DEF ReliableOnly, BlocksInv, Transfers
<1>3. PICK l \in DOMAIN blocks[FileOf(req[c].name)] :
        FileOf(req[c].name) \in Obj /\ blocks[FileOf(req[c].name)][l] = a
  BY <1>2 DEF InFile, FileOf
<1> QED
  BY <1>3, OnePlace, RequestType

(* Where byte q of a request within one block lies. *)
LEMMA BytesOfRequest ==
  ASSUME NEW off \in Nat, NEW l \in Nat, InOneBlock(off, l), NEW q \in 1 .. l
  PROVE  /\ (off + q - 1) \div FILE_BLOCK_SIZE = off \div FILE_BLOCK_SIZE
         /\ ((off + q - 1) % FILE_BLOCK_SIZE) + 1 = InnerOffset(off) + q
         /\ InnerOffset(off) + q \in 1 .. FILE_BLOCK_SIZE
<1>1. PICK inner \in Nat : inner = InnerOffset(off)
  BY PlanBlockSizeAssumption DEF InnerOffset
<1>2. inner + l <= FILE_BLOCK_SIZE
  BY <1>1 DEF InOneBlock
<1>3. PICK r \in Nat : r = q - 1 /\ off + q - 1 = off + r
  OBVIOUS
<1>4. InnerOffset(off) + r < FILE_BLOCK_SIZE
  BY <1>1, <1>2, <1>3, PlanBlockSizeAssumption
<1>5. /\ (off + r) \div FILE_BLOCK_SIZE = off \div FILE_BLOCK_SIZE
      /\ (off + r) % FILE_BLOCK_SIZE = inner + r
  BY <1>1, <1>4, SameBlock
<1> QED
  BY <1>1, <1>2, <1>3, <1>5, PlanBlockSizeAssumption

(* The loop moves its piece. *)
LEMMA MoveFacts ==
  ASSUME ServerInv, DataInv, NEW c \in Call, AtomicMove(c)
  PROVE  \E a \in hand[c] :
           /\ pc[c] = "transfer" /\ Left[c] = << PieceAt(c, a) >>
           /\ a \in BlockAddr /\ Left'[c] = << >>
           /\ \A d \in Call \ {c} : Left'[d] = Left[d]
           /\ \/ /\ req[c].op = "write" /\ UNCHANGED Got
                 /\ mem' = [mem EXCEPT ![a] =
                              RemoteWrite(PieceAt(c, a), Got[c], @)]
              \/ /\ req[c].op = "read" /\ UNCHANGED mem
                 /\ Got' = [Got EXCEPT ![c] =
                              RemoteRead(PieceAt(c, a), @, mem[a])]
<1>1. Left[c] # << >> /\ Sent(c)
  BY DEF AtomicMove, DataInv
<1>2. PICK a \in hand[c] : pc[c] = "transfer" /\ Left[c] = << PieceAt(c, a) >>
  BY <1>1 DEF Sent
<1>3. a \in BlockAddr
  BY DEF ServerInv, CallsOK
<1>4. Head(Left[c]) = PieceAt(c, a) /\ Tail(Left[c]) = << >>
  BY <1>2
<1>5. PieceAt(c, a).at = a
  BY DEF PieceAt
<1>6. /\ Left' = [Left EXCEPT ![c] = << >>]
      /\ Left = [d \in Call |-> Left[d]]
  BY <1>4 DEF AtomicMove, DataInv, BytesOK
<1>7. Left'[c] = << >> /\ \A d \in Call \ {c} : Left'[d] = Left[d]
  BY <1>6
<1> QED
  BY <1>2, <1>3, <1>4, <1>5, <1>7 DEF AtomicMove, Is

(* What buffer and block have to do with each other afterwards: the bytes  *)
(* of the request are the same in both, and the others are as they were.   *)
MoveDone(c, a) ==
  LET inner == InnerOffset(req[c].off) IN
  /\ pc[c] = "transfer" /\ Left[c] = << PieceAt(c, a) >>
  /\ a \in BlockAddr /\ Left'[c] = << >>
  /\ \A d \in Call \ {c} : Left'[d] = Left[d] /\ Got'[d] = Got[d]
  /\ req[c].op \in {"read", "write"}
  /\ Got'[c] \in Seq(Byte) /\ Len(Got'[c]) = Len(Got[c])
  /\ mem' \in [BlockAddr -> [1 .. FILE_BLOCK_SIZE -> Byte]]
  /\ \A b \in BlockAddr : req[c].op = "read" \/ b # a => mem'[b] = mem[b]
  /\ req[c].op = "write" => Got'[c] = Got[c]
  /\ \A q \in 1 .. Len(Got[c]) : Got'[c][q] = mem'[a][inner + q]
  /\ \A i \in 1 .. FILE_BLOCK_SIZE :
       i <= inner \/ i > inner + Len(Got[c]) => mem'[a][i] = mem[a][i]

(* RemoteWrite or RemoteRead of the piece. *)
LEMMA MoveBytes ==
  ASSUME ServerInv, DataInv, NEW c \in Call, AtomicMove(c)
  PROVE  \E a \in hand[c] : MoveDone(c, a)
<1>1. PICK a \in hand[c] :
           /\ pc[c] = "transfer" /\ Left[c] = << PieceAt(c, a) >>
           /\ a \in BlockAddr /\ Left'[c] = << >>
           /\ \A d \in Call \ {c} : Left'[d] = Left[d]
           /\ \/ /\ req[c].op = "write" /\ UNCHANGED Got
                 /\ mem' = [mem EXCEPT ![a] =
                              RemoteWrite(PieceAt(c, a), Got[c], @)]
              \/ /\ req[c].op = "read" /\ UNCHANGED mem
                 /\ Got' = [Got EXCEPT ![c] =
                              RemoteRead(PieceAt(c, a), @, mem[a])]
  BY MoveFacts
<1>4. PICK inner \in Nat : inner = InnerOffset(req[c].off)
  BY <1>1, RequestType, PlanBlockSizeAssumption DEF InnerOffset
<1>5. /\ Got[c] \in Seq(Byte) /\ inner + Len(Got[c]) <= FILE_BLOCK_SIZE
      /\ Len(Got[c]) \in Nat
      /\ PieceAt(c, a).inner = inner /\ PieceAt(c, a).length = Len(Got[c])
      /\ mem[a] \in [1 .. FILE_BLOCK_SIZE -> Byte]
  BY <1>1, <1>4 DEF DataInv, Sent, InOneBlock, PieceAt, BytesOK
<1>6. mem \in [BlockAddr -> [1 .. FILE_BLOCK_SIZE -> Byte]]
      /\ Got = [d \in Call |-> Got[d]]
  BY DEF DataInv, BytesOK
<1>7. PICK piece, data, block :
        piece = PieceAt(c, a) /\ data = Got[c] /\ block = mem[a]
  OBVIOUS
<1>8. /\ piece.inner = inner /\ piece.length = Len(data)
      /\ inner + Len(data) <= FILE_BLOCK_SIZE
      /\ data \in Seq(Byte) /\ block \in [1 .. FILE_BLOCK_SIZE -> Byte]
  BY <1>5, <1>7
<1>9. CASE req[c].op = "write"
  <2>1. /\ RemoteWrite(piece, data, block) \in [1 .. FILE_BLOCK_SIZE -> Byte]
        /\ \A q \in 1 .. Len(data) :
             RemoteWrite(piece, data, block)[inner + q] = data[q]
        /\ \A i \in 1 .. FILE_BLOCK_SIZE :
             i <= inner \/ i > inner + Len(data) =>
               RemoteWrite(piece, data, block)[i] = block[i]
    BY <1>8, RemoteWriteBytes
  <2>2. PICK new : new = RemoteWrite(piece, data, block)
    OBVIOUS
  <2>3. UNCHANGED Got /\ mem' = [mem EXCEPT ![a] = new]
    BY <1>1, <1>7, <1>9, <2>2
  <2>4. mem'[a] = new /\ \A b \in BlockAddr : b # a => mem'[b] = mem[b]
    BY <1>1, <1>6, <2>3
  <2>5. mem' \in [BlockAddr -> [1 .. FILE_BLOCK_SIZE -> Byte]]
    BY <1>1, <1>6, <2>1, <2>2, <2>3
  <2>6. MoveDone(c, a)
    BY <1>1, <1>4, <1>5, <1>7, <1>9, <2>1, <2>2, <2>3, <2>4, <2>5 DEF MoveDone
  <2> QED
    BY <2>6
<1>10. CASE req[c].op = "read"
  <2>1. /\ RemoteRead(piece, data, block) \in Seq(Byte)
        /\ Len(RemoteRead(piece, data, block)) = Len(data)
        /\ \A q \in 1 .. Len(data) :
             RemoteRead(piece, data, block)[q] = block[inner + q]
    <3>1. PICK l \in Nat : l = Len(data) /\ DOMAIN data = 1 .. l
      BY <1>8
    <3>2. RemoteRead(piece, data, block) = [q \in 1 .. l |-> block[inner + q]]
      BY <1>8, <3>1 DEF RemoteRead, RemoteByte
    <3>3. \A q \in 1 .. l : inner + q \in 1 .. FILE_BLOCK_SIZE
      BY <1>8, <3>1, PlanBlockSizeAssumption
    <3>4. \A q \in 1 .. l : block[inner + q] \in Byte
      BY <1>8, <3>3
    <3>5. [q \in 1 .. l |-> block[inner + q]] \in [1 .. l -> Byte]
      BY <3>4
    <3> QED
      BY <3>1, <3>2, <3>5
  <2>2. PICK new : new = RemoteRead(piece, data, block)
    OBVIOUS
  <2>3. UNCHANGED mem /\ Got' = [Got EXCEPT ![c] = new]
    BY <1>1, <1>7, <1>10, <2>2
  <2>4. Got'[c] = new /\ \A d \in Call \ {c} : Got'[d] = Got[d]
    BY <1>6, <2>3
  <2>5. MoveDone(c, a)
    BY <1>1, <1>4, <1>5, <1>6, <1>7, <1>10, <2>1, <2>2, <2>3, <2>4 DEF MoveDone
  <2> QED
    BY <2>5
<1> QED
  BY <1>1, <1>9, <1>10

(* One round of the loop over block_info_list. *)
LEMMA MoveKeepsData ==
  ASSUME ServerInv, SizeCovered, NamesInv, BlocksInv, CourseInv,
         ReliableOnly, DataInv, NEW c \in Call, AtomicMove(c)
  PROVE  DataInv'
<1>0. PICK a \in hand[c] : MoveDone(c, a)
  BY MoveBytes
<1>1. /\ pc[c] = "transfer" /\ Left[c] = << PieceAt(c, a) >>
      /\ a \in BlockAddr /\ Left'[c] = << >>
      /\ \A d \in Call \ {c} : Left'[d] = Left[d]
      /\ req[c].op \in {"read", "write"}
  BY <1>0 DEF MoveDone
<1>2. UNCHANGED <<children, table, blocks, size, pc, req, hand>>
  BY DEF AtomicMove, vars, fileVars, inodeVars, callVars
<1>3. \A n \in Name : Still(n)
  BY <1>2, StillFrame
<1>4. PICK off \in Nat, inner \in Nat :
        off = req[c].off /\ inner = InnerOffset(off)
  BY <1>1, RequestType, PlanBlockSizeAssumption DEF InnerOffset
<1>5. /\ Got[c] \in Seq(Byte) /\ inner + Len(Got[c]) <= FILE_BLOCK_SIZE
      /\ Len(Got[c]) \in Nat
  BY <1>1, <1>4 DEF DataInv, Sent, InOneBlock, BytesOK
<1>6. /\ Got'[c] \in Seq(Byte) /\ Len(Got'[c]) = Len(Got[c])
      /\ mem' \in [BlockAddr -> [1 .. FILE_BLOCK_SIZE -> Byte]]
      /\ \A b \in BlockAddr : req[c].op = "read" \/ b # a => mem'[b] = mem[b]
      /\ req[c].op = "write" => Got'[c] = Got[c]
      /\ \A q \in 1 .. Len(Got[c]) : Got'[c][q] = mem'[a][inner + q]
      /\ \A d \in Call \ {c} : Got'[d] = Got[d]
  BY <1>0, <1>4 DEF MoveDone
<1>7. BytesOK'
  <2>1. /\ Left' = [d \in Call |-> Left'[d]] /\ Got' = [d \in Call |-> Got'[d]]
    BY <1>1 DEF AtomicMove, DataInv, BytesOK
  <2> QED
    BY <1>6, <2>1 DEF BytesOK
<1>8. Sent(c)'
  BY <1>1, <1>2, <1>4, <1>5, <1>6 DEF DataInv, Sent, InOneBlock
<1>9. Moved(c)'
  <2> SUFFICES ASSUME Linked(req[c].name)
               PROVE  (FileOf(req[c].name) \in Obj)'
                      /\ Agrees(c, FileOf(req[c].name))'
    BY <1>2 DEF Moved, Linked
  <2>1. PICK o \in Obj : o = FileOf(req[c].name) /\ Agrees(c, o)
    BY <1>1 DEF DataInv, Moved
  <2>2. (FileOf(req[c].name))' = o
    BY <1>2, <2>1 DEF FileOf, GetInode, InTable
  <2>3. a = blocks[o][IndexOf(c)]
    <3>1. PieceAt(c, a) = PieceAt(c, blocks[o][IndexOf(c)])
      BY <1>1, <2>1 DEF Agrees
    <3> QED
      BY <3>1 DEF PieceAt
  <2>5. ASSUME NEW CONSTANT q \in 1 .. Len(Got[c])
        PROVE  Got'[c][q] = StoredByte(o, req[c].off + q - 1)'
    <3>1. /\ (off + q - 1) \div FILE_BLOCK_SIZE = off \div FILE_BLOCK_SIZE
          /\ ((off + q - 1) % FILE_BLOCK_SIZE) + 1 = inner + q
      <4>1. InOneBlock(off, Len(Got[c]))
        BY <1>4, <1>5 DEF InOneBlock
      <4> QED
        BY <1>4, <1>5, <4>1, BytesOfRequest
    <3>2. StoredByte(o, req[c].off + q - 1)' = mem'[blocks[o][IndexOf(c)]][inner + q]
      BY <1>2, <1>4, <3>1 DEF StoredByte, IndexOf
    <3> QED
      BY <1>6, <2>3, <2>5, <3>2
  <2>6. Agrees(c, o)'
    BY <1>1, <1>2, <1>6, <2>1, <2>5 DEF Agrees
  <2> QED
    BY <2>2, <2>6
<1>10. ASSUME NEW d \in Call \ {c} PROVE Sent(d)' /\ Moved(d)'
  <2>1. ASSUME pc[d] = "transfer" PROVE SameBytes(req[d].name)
    <3>1. CASE req[c].op = "read"
      <4>1. \A b \in BlockAddr : mem'[b] = mem[b]
        BY <1>6, <3>1
      <4>2. UNCHANGED mem
        BY <1>6, <4>1 DEF DataInv, BytesOK
      <4> QED
        BY <4>2 DEF SameBytes
    <3>2. CASE req[c].op = "write"
      <4>1. req[d].name \in Name \ {req[c].name}
        BY <1>1, <2>1, <3>2, RequestType DEF CourseInv, WritesAlone
      <4> SUFFICES ASSUME FileOf(req[d].name) \in Obj,
                          NEW k \in DOMAIN blocks[FileOf(req[d].name)]
                   PROVE  mem'[blocks[FileOf(req[d].name)][k]]
                            = mem[blocks[FileOf(req[d].name)][k]]
        BY DEF SameBytes
      <4>2. blocks[FileOf(req[d].name)][k] # a
        BY <1>1, <4>1, ForeignBlocks
      <4>3. blocks[FileOf(req[d].name)] \in Seq(BlockAddr)
        BY DEF ServerInv, FilesOK
      <4>4. blocks[FileOf(req[d].name)][k] \in BlockAddr
        BY <4>3
      <4> QED
        BY <1>6, <4>2, <4>4
    <3> QED
      BY <1>1, <3>1, <3>2
  <2>2. pc[d] = "transfer" => Still(req[d].name)
    BY <1>3, RequestType
  <2> QED
    BY <1>1, <1>2, <1>6, <2>1, <2>2, TransferKept DEF DataInv
<1> QED
  BY <1>7, <1>8, <1>9, <1>10 DEF DataInv

-----------------------------------------------------------------------------
(* The inductive invariant: sockets *)

WorkRequest(c) == [op |-> req[c].op, piece |-> Head(todo[c])]

(* The bounce buffer holds what c writes. *)
Filled(c) ==
  \A p \in 1 .. Head(todo[c]).length : bounce[SocketOf[c]][p] = buf[c][p]

Clear(k) == cq[k] = 0 /\ \A s \in Server : posted[k][s] = << >>

(* The work request of c is posted, alone. *)
OnWire(c) ==
  LET k == SocketOf[c]
      srv == Head(todo[c]).at.srv
  IN  /\ srv \in Server /\ posted[k][srv] = << WorkRequest(c) >>
      /\ \A s \in Server \ {srv} : posted[k][s] = << >>
      /\ cq[k] = 0
      /\ req[c].op = "write" => Filled(c)

(* It has been carried out, or was never posted. *)
Spent(c) == /\ cq[SocketOf[c]] \in {0, 1}
            /\ \A s \in Server : posted[SocketOf[c]][s] = << >>

LegOK(c) ==
  /\ leg[c] # "ready" => pc[c] = "transfer" /\ todo[c] # << >>
  /\ leg[c] = "post" => req[c].op = "write" /\ Filled(c)
  /\ leg[c] = "poll" => OnWire(c) \/ Spent(c)
  /\ leg[c] = "copy" => req[c].op # "write"

SocketsOK ==
  /\ todo = [c \in Call |-> todo[c]] /\ buf = [c \in Call |-> buf[c]]
  /\ leg \in [Call -> {"ready", "post", "poll", "copy"}]
  /\ bounce = [k \in Socket |-> bounce[k]]
  /\ \A k \in Socket : DOMAIN bounce[k] = 1 .. FILE_BLOCK_SIZE
  /\ posted = [k \in Socket |-> posted[k]]
  /\ \A k \in Socket : posted[k] = [s \in Server |-> posted[k][s]]
  /\ cq = [k \in Socket |-> cq[k]]

(* Completions and requests are only where a thread polls for them. *)
SocketInv ==
  /\ SocketsOK /\ \A c \in Call : LegOK(c)
  /\ \A k \in Socket :
       (\A c \in Call : leg[c] = "poll" => SocketOf[c] # k) => Clear(k)

(* Nobody else is in RemoteRead or RemoteWrite on the socket of c. *)
Sole(c) == \A d \in Call \ {c} : SocketOf[d] = SocketOf[c] => leg[d] = "ready"


(* An RDMA write takes only the first bytes of a piece's length. *)
LEMMA SameWrite ==
  ASSUME NEW piece, NEW data, NEW other, NEW block,
         \A p \in 1 .. piece.length : data[p] = other[p]
  PROVE  RemoteWrite(piece, data, block) = RemoteWrite(piece, other, block)
<1>1. ASSUME NEW i \in DOMAIN block, NEW from,
             from = {k \in 1 .. piece.length : RemoteByte(piece, k) = i},
             from # {}
      PROVE  data[CHOOSE k \in from : TRUE] = other[CHOOSE k \in from : TRUE]
  <2>1. (CHOOSE k \in from : TRUE) \in from
    BY <1>1
  <2> QED
    BY <1>1, <2>1
<1> QED
  BY <1>1 DEF RemoteWrite

(* At first no thread is in a transfer. *)
LEMMA SocketStart == SpongeInit => SocketInv
  BY SocketsAssumption DEF SpongeInit, SocketInv, SocketsOK, LegOK, Clear, BlankBlock, Byte

(* A call outside RemoteRead and RemoteWrite. *)
LEMMA OutsideIsReady ==
  ASSUME SocketInv, NEW c \in Call, pc[c] # "transfer" \/ todo[c] = << >>
  PROVE  leg[c] = "ready" /\ Left[c] = todo[c] /\ Got[c] = buf[c]
  BY DEF SocketInv, LegOK, Left, Got, Landed

(* Steps that leave the sockets and the calls that use them alone. *)
LEMMA SocketsFrame ==
  ASSUME SocketInv, UNCHANGED socketVars,
         todo' = [d \in Call |-> todo'[d]], buf' = [d \in Call |-> buf'[d]],
         \A d \in Call : leg[d] # "ready" =>
           /\ pc'[d] = pc[d] /\ req'[d] = req[d]
           /\ todo'[d] = todo[d] /\ buf'[d] = buf[d]
  PROVE  /\ SocketInv'
         /\ \A d \in Call : leg[d] # "ready" =>
              Left'[d] = Left[d] /\ Got'[d] = Got[d]
         /\ \A d \in Call : leg[d] = "ready" =>
              /\ Left[d] = todo[d] /\ Left'[d] = todo'[d]
              /\ Got[d] = buf[d] /\ Got'[d] = buf'[d]
<1> USE DEF socketVars
<1>1. SocketsOK'
  BY DEF SocketInv, SocketsOK
<1>2. ASSUME NEW d \in Call PROVE LegOK(d)'
  <2>1. LegOK(d)
    BY DEF SocketInv
  <2>2. CASE leg[d] = "ready"
    BY <2>2 DEF LegOK
  <2>3. CASE leg[d] # "ready"
    <3>1. /\ Filled(d)' <=> Filled(d)
          /\ OnWire(d)' <=> OnWire(d)
          /\ Spent(d)' <=> Spent(d)
      BY <2>3 DEF Filled, OnWire, Spent, WorkRequest
    <3> QED
      BY <2>1, <2>3, <3>1 DEF LegOK
  <2> QED
    BY <2>2, <2>3
<1>3. ASSUME NEW k \in Socket, \A d \in Call : leg'[d] = "poll" => SocketOf[d] # k
      PROVE  Clear(k)'
  BY <1>3 DEF SocketInv, Clear
<1>4. SocketInv'
  BY <1>1, <1>2, <1>3 DEF SocketInv
<1>5. ASSUME NEW d \in Call, leg[d] # "ready"
      PROVE  Left'[d] = Left[d] /\ Got'[d] = Got[d]
  BY <1>5 DEF Left, Got, Landed
<1>6. ASSUME NEW d \in Call, leg[d] = "ready"
      PROVE  /\ Left[d] = todo[d] /\ Left'[d] = todo'[d]
             /\ Got[d] = buf[d] /\ Got'[d] = buf'[d]
  BY <1>6 DEF Left, Got, Landed
<1> QED
  BY <1>4, <1>5, <1>6

(* Steps of one socket, which one call uses. *)
LEMMA OneSocketFrame ==
  ASSUME SocketInv, NEW CONSTANT c \in Call, UNCHANGED <<pc, req>>, Sole(c),
         \A d \in Call \ {c} :
           leg'[d] = leg[d] /\ todo'[d] = todo[d] /\ buf'[d] = buf[d],
         \A k \in Socket \ {SocketOf[c]} :
           bounce'[k] = bounce[k] /\ posted'[k] = posted[k] /\ cq'[k] = cq[k],
         SocketsOK', LegOK(c)', leg'[c] = "poll" \/ Clear(SocketOf[c])'
  PROVE  /\ SocketInv'
         /\ \A d \in Call \ {c} : Left'[d] = Left[d] /\ Got'[d] = Got[d]
<1>1. ASSUME NEW d \in Call \ {c}
      PROVE  LegOK(d)' /\ Left'[d] = Left[d] /\ Got'[d] = Got[d]
  <2>1. CASE SocketOf[d] = SocketOf[c]
    <3>1. leg[d] = "ready" /\ leg'[d] = "ready"
      BY <2>1 DEF Sole
    <3> QED
      BY <3>1 DEF LegOK, Left, Got, Landed
  <2>2. CASE SocketOf[d] # SocketOf[c]
    <3>1. PICK k \in Socket \ {SocketOf[c]} : k = SocketOf[d]
      BY <2>2, SocketsAssumption
    <3>2. /\ bounce'[SocketOf[d]] = bounce[SocketOf[d]]
          /\ posted'[SocketOf[d]] = posted[SocketOf[d]]
          /\ cq'[SocketOf[d]] = cq[SocketOf[d]]
      BY <3>1
    <3>3. Left'[d] = Left[d] /\ Got'[d] = Got[d]
      BY <3>2 DEF Left, Got, Landed
    <3>4. LegOK(d)
      BY DEF SocketInv
    <3>5. LegOK(d)'
      BY <3>2, <3>4 DEF LegOK, Filled, OnWire, Spent, WorkRequest
    <3> QED
      BY <3>3, <3>5
  <2> QED
    BY <2>1, <2>2
<1>2. ASSUME NEW k \in Socket, \A d \in Call : leg'[d] = "poll" => SocketOf[d] # k
      PROVE  Clear(k)'
  <2>1. CASE k = SocketOf[c]
    BY <1>2, <2>1
  <2>2. CASE k # SocketOf[c]
    <3>1. Clear(k)
      BY <1>2, <2>2 DEF SocketInv
    <3> QED
      BY <2>2, <3>1 DEF Clear
  <2> QED
    BY <2>1, <2>2
<1> QED
  BY <1>1, <1>2 DEF SocketInv

(* What is left of a call is the same when it is for each of them. *)
LEMMA SeenSame ==
  ASSUME NEW CONSTANT c \in Call, Left'[c] = Left[c], Got'[c] = Got[c],
         \A d \in Call \ {c} : Left'[d] = Left[d] /\ Got'[d] = Got[d]
  PROVE  UNCHANGED <<Left, Got>>
<1>1. /\ Left = [d \in Call |-> Left[d]] /\ Left' = [d \in Call |-> Left'[d]]
      /\ Got = [d \in Call |-> Got[d]] /\ Got' = [d \in Call |-> Got'[d]]
  BY DEF Left, Got
<1>2. \A d \in Call : Left'[d] = Left[d] /\ Got'[d] = Got[d]
  OBVIOUS
<1> QED
  BY <1>1, <1>2

(* The piece a thread works on, before its bytes are moved. *)
LEMMA PieceFacts ==
  ASSUME ServerInv, NamesInv, DataInv, NEW c \in Call, todo[c] # << >>,
         ~ Landed(c)
  PROVE  \E a \in BlockAddr :
           /\ pc[c] = "transfer" /\ req[c].op \in {"read", "write"}
           /\ Left[c] = todo[c] /\ Got[c] = buf[c]
           /\ todo[c] = << PieceAt(c, a) >> /\ Head(todo[c]) = PieceAt(c, a)
           /\ PieceAt(c, a).at = a /\ a.srv \in Server
           /\ buf[c] \in Seq(Byte) /\ PieceAt(c, a).length = Len(buf[c])
           /\ Len(buf[c]) \in 0 .. FILE_BLOCK_SIZE
<1>1. Left[c] = todo[c] /\ Got[c] = buf[c]
  BY DEF Left, Got
<1>2. Sent(c)
  BY DEF DataInv
<1>3. pc[c] = "transfer" /\ req[c].op \in {"read", "write"}
  BY <1>1, <1>2 DEF Sent, NamesInv, Stage
<1>4. PICK a \in hand[c] : todo[c] = << PieceAt(c, a) >>
  BY <1>1, <1>2, <1>3 DEF Sent
<1>5. a \in BlockAddr /\ a.srv \in Server
  BY DEF ServerInv, CallsOK, BlockAddr
<1>6. buf[c] \in Seq(Byte) /\ InOneBlock(req[c].off, Len(buf[c]))
  BY <1>1, <1>2, <1>3 DEF Sent
<1>7. req[c].off \in Nat /\ InnerOffset(req[c].off) \in Nat
  BY <1>3, RequestType, PlanBlockSizeAssumption DEF InnerOffset
<1>8. Len(buf[c]) \in 0 .. FILE_BLOCK_SIZE
  BY <1>6, <1>7, PlanBlockSizeAssumption DEF InOneBlock
<1>9. Head(todo[c]) = PieceAt(c, a)
  BY <1>4
<1>10. PieceAt(c, a).at = a /\ PieceAt(c, a).length = Len(buf[c])
  BY <1>1 DEF PieceAt
<1> QED
  BY <1>1, <1>3, <1>4, <1>5, <1>6, <1>8, <1>9, <1>10

(* memcpy into the bounce buffer. *)
LEMMA CopyInIsQuiet ==
  ASSUME ServerInv, NamesInv, DataInv, SocketInv, SocketsApart',
         NEW CONSTANT c \in Call, CopyIn(c)
  PROVE  SocketInv' /\ UNCHANGED <<Left, Got>>
<1>1. /\ leg[c] = "ready" /\ todo[c] # << >> /\ req[c].op = "write"
      /\ leg' = [leg EXCEPT ![c] = "post"]
      /\ UNCHANGED <<pc, req, todo, buf, posted, cq>>
  BY DEF CopyIn, OnLeg, Is, GotoLeg, vars, callVars, userVars
<1>2. PICK a \in BlockAddr :
           /\ pc[c] = "transfer" /\ Head(todo[c]) = PieceAt(c, a)
           /\ buf[c] \in Seq(Byte) /\ PieceAt(c, a).length = Len(buf[c])
           /\ Len(buf[c]) \in 0 .. FILE_BLOCK_SIZE
  BY <1>1, PieceFacts DEF Landed
<1>3. PICK k \in Socket : k = SocketOf[c]
  BY SocketsAssumption
<1>4. SocketsOK /\ leg'[c] = "post" /\ \A d \in Call \ {c} : leg'[d] = leg[d]
  BY <1>1 DEF SocketInv, SocketsOK
<1>5. Sole(c)
  BY <1>4 DEF SocketsApart, Sole
<1>6. /\ \A j \in Socket \ {k} : bounce'[j] = bounce[j]
      /\ bounce' = [j \in Socket |-> bounce'[j]]
      /\ bounce'[k] = Copied(Len(buf[c]), buf[c], bounce[k])
  BY <1>2, <1>3, <1>4 DEF CopyIn, SocketsOK
<1>7. DOMAIN bounce[k] = 1 .. FILE_BLOCK_SIZE
  BY <1>4 DEF SocketsOK
<1>8. /\ DOMAIN bounce'[k] = 1 .. FILE_BLOCK_SIZE
      /\ \A p \in 1 .. Len(buf[c]) : bounce'[k][p] = buf[c][p]
  BY <1>2, <1>6, <1>7, PlanBlockSizeAssumption DEF Copied
<1>9. SocketsOK'
  <2>1. leg' \in [Call -> {"ready", "post", "poll", "copy"}]
    BY <1>1, <1>4 DEF SocketsOK
  <2>2. \A j \in Socket : DOMAIN bounce'[j] = 1 .. FILE_BLOCK_SIZE
    BY <1>3, <1>4, <1>6, <1>8 DEF SocketsOK
  <2> QED
    BY <1>1, <1>4, <1>6, <2>1, <2>2 DEF SocketsOK
<1>10. LegOK(c)'
  BY <1>1, <1>2, <1>3, <1>4, <1>8 DEF LegOK, Filled
<1>11. Clear(k) /\ Clear(k)'
  <2>1. \A d \in Call : leg[d] = "poll" => SocketOf[d] # k
    BY <1>1, <1>3, <1>5 DEF Sole
  <2> QED
    BY <1>1, <2>1 DEF SocketInv, Clear
<1>12. Left'[c] = Left[c] /\ Got'[c] = Got[c]
  BY <1>1, <1>4 DEF Left, Got, Landed
<1> QED
  BY <1>1, <1>3, <1>4, <1>5, <1>6, <1>9, <1>10, <1>11, <1>12,
     OneSocketFrame, SeenSame

(* A work request is posted, or not. *)
LEMMA PostIsQuiet ==
  ASSUME ServerInv, NamesInv, DataInv, SocketInv, SocketsApart',
         NEW CONSTANT c \in Call, Post(c) \/ PostFails(c)
  PROVE  SocketInv' /\ UNCHANGED <<Left, Got>>
<1>1. /\ leg[c] \in {"ready", "post"} /\ todo[c] # << >>
      /\ leg' = [leg EXCEPT ![c] = "poll"]
      /\ UNCHANGED <<pc, req, todo, buf, bounce, cq>>
  BY DEF Post, PostFails, MayPost, OnLeg, GotoLeg, vars, callVars, userVars
<1>2. PICK a \in BlockAddr :
           /\ pc[c] = "transfer" /\ Head(todo[c]) = PieceAt(c, a)
           /\ PieceAt(c, a).at = a /\ a.srv \in Server
  BY <1>1, PieceFacts DEF Landed
<1>3. PICK k \in Socket : k = SocketOf[c]
  BY SocketsAssumption
<1>4. SocketsOK /\ leg'[c] = "poll" /\ \A d \in Call \ {c} : leg'[d] = leg[d]
  BY <1>1 DEF SocketInv, SocketsOK
<1>5. Sole(c)
  BY <1>4 DEF SocketsApart, Sole
<1>6. Clear(k)
  <2>1. \A d \in Call : leg[d] = "poll" => SocketOf[d] # k
    BY <1>1, <1>3, <1>5 DEF Sole
  <2> QED
    BY <2>1 DEF SocketInv
<1>7. req[c].op = "write" => Filled(c)
  BY DEF Post, PostFails, MayPost, OnLeg, Is, SocketInv, LegOK
<1>8. Left'[c] = Left[c] /\ Got'[c] = Got[c]
  BY <1>1, <1>3, <1>4, <1>6 DEF Left, Got, Landed, Clear
<1>9. CASE Post(c)
  <2>1. PICK w : w = WorkRequest(c)
    OBVIOUS
  <2>2. posted' = [posted EXCEPT ![k][a.srv] = Append(@, w)]
    BY <1>2, <1>3, <1>9, <2>1 DEF Post, WorkRequest
  <2>3. posted[k][a.srv] = << >>
    BY <1>2, <1>6 DEF Clear
  <2>4. Append(posted[k][a.srv], w) = << w >>
    BY <2>3
  <2>5. posted = [j \in Socket |-> posted[j]] /\ posted[k] = [s \in Server |-> posted[k][s]]
    BY <1>4 DEF SocketsOK
  <2>6. /\ \A j \in Socket \ {k} : posted'[j] = posted[j]
        /\ posted' = [j \in Socket |-> posted'[j]]
        /\ posted'[k] = [posted[k] EXCEPT ![a.srv] = << w >>]
    BY <2>2, <2>4, <2>5
  <2>7. /\ posted'[k] = [s \in Server |-> posted'[k][s]]
        /\ posted'[k][a.srv] = << w >>
        /\ \A s \in Server \ {a.srv} : posted'[k][s] = << >>
    BY <1>2, <1>6, <2>5, <2>6 DEF Clear
  <2>8. SocketsOK'
    <3>1. leg' \in [Call -> {"ready", "post", "poll", "copy"}]
      BY <1>1, <1>4 DEF SocketsOK
    <3>2. \A j \in Socket : posted'[j] = [s \in Server |-> posted'[j][s]]
      BY <1>3, <1>4, <2>6, <2>7 DEF SocketsOK
    <3> QED
      BY <1>1, <1>4, <2>6, <3>1, <3>2 DEF SocketsOK
  <2>9. OnWire(c)'
    <3>1. w = WorkRequest(c)' /\ (req'[c].op = "write" => Filled(c)')
      BY <1>1, <1>7, <2>1 DEF WorkRequest, Filled
    <3>2. Head(todo'[c]).at.srv = a.srv /\ cq'[k] = 0
      BY <1>1, <1>2, <1>6 DEF Clear
    <3> QED
      BY <1>2, <1>3, <2>7, <3>1, <3>2 DEF OnWire
  <2>10. LegOK(c)'
    BY <1>1, <1>2, <1>4, <2>9 DEF LegOK
  <2> QED
    BY <1>1, <1>3, <1>4, <1>5, <1>8, <2>6, <2>8, <2>10, OneSocketFrame, SeenSame
<1>10. CASE PostFails(c)
  <2>1. UNCHANGED posted
    BY <1>10 DEF PostFails
  <2>2. SocketsOK'
    BY <1>1, <1>4, <2>1 DEF SocketsOK
  <2>3. Spent(c)'
    BY <1>1, <1>3, <1>6, <2>1 DEF Spent, Clear
  <2>4. LegOK(c)'
    BY <1>1, <1>2, <1>4, <2>3 DEF LegOK
  <2> QED
    BY <1>1, <1>4, <1>5, <1>8, <2>1, <2>2, <2>4, OneSocketFrame, SeenSame
<1> QED
  BY <1>9, <1>10

(* PollCompletion returns. *)
LEMMA PollIsQuiet ==
  ASSUME SocketInv, SocketsApart, NEW CONSTANT c \in Call, Poll(c)
  PROVE  SocketInv' /\ UNCHANGED <<Left, Got>>
<1>1. /\ leg[c] = "poll" /\ cq[SocketOf[c]] > 0
      /\ cq' = [cq EXCEPT ![SocketOf[c]] = @ - 1]
      /\ UNCHANGED <<pc, req, buf, bounce, posted>>
  BY DEF Poll, OnLeg, vars, callVars
<1>2. PICK k \in Socket : k = SocketOf[c]
  BY SocketsAssumption
<1>3. SocketsOK /\ LegOK(c)
  BY DEF SocketInv
<1>4. Spent(c) /\ cq[k] = 1 /\ pc[c] = "transfer" /\ todo[c] # << >>
  BY <1>1, <1>2, <1>3 DEF LegOK, OnWire, Spent
<1>5. /\ cq' = [j \in Socket |-> cq'[j]] /\ cq'[k] = 0
      /\ \A j \in Socket \ {k} : cq'[j] = cq[j]
  <2>1. cq = [j \in Socket |-> cq[j]]
    BY <1>3 DEF SocketsOK
  <2> QED
    BY <1>1, <1>2, <1>4, <2>1
<1>6. Clear(k)'
  BY <1>1, <1>2, <1>4, <1>5 DEF Clear, Spent
<1>7. Sole(c)
  BY <1>1 DEF SocketsApart, Sole
<1>8. CASE req[c].op = "write"
  <2>1. /\ todo' = [todo EXCEPT ![c] = Tail(@)]
        /\ leg' = [leg EXCEPT ![c] = "ready"]
    BY <1>8 DEF Poll, Is, PieceDone, GotoLeg
  <2>2. /\ leg'[c] = "ready" /\ todo'[c] = Tail(todo[c])
        /\ \A d \in Call \ {c} : leg'[d] = leg[d] /\ todo'[d] = todo[d]
        /\ todo' = [d \in Call |-> todo'[d]]
        /\ leg' \in [Call -> {"ready", "post", "poll", "copy"}]
    BY <1>3, <2>1 DEF SocketsOK
  <2>3. SocketsOK'
    BY <1>1, <1>3, <1>5, <2>2 DEF SocketsOK
  <2>4. LegOK(c)'
    BY <2>2 DEF LegOK
  <2>5. Left'[c] = Left[c] /\ Got'[c] = Got[c]
    BY <1>1, <1>8, <2>2 DEF Left, Got, Landed
  <2> QED
    BY <1>1, <1>2, <1>5, <1>6, <1>7, <2>2, <2>3, <2>4, <2>5,
       OneSocketFrame, SeenSame
<1>9. CASE req[c].op # "write"
  <2>1. UNCHANGED todo /\ leg' = [leg EXCEPT ![c] = "copy"]
    BY <1>9 DEF Poll, Is, GotoLeg
  <2>2. /\ leg'[c] = "copy" /\ \A d \in Call \ {c} : leg'[d] = leg[d]
        /\ leg' \in [Call -> {"ready", "post", "poll", "copy"}]
    BY <1>3, <2>1 DEF SocketsOK
  <2>3. SocketsOK'
    BY <1>1, <1>3, <1>5, <2>1, <2>2 DEF SocketsOK
  <2>4. LegOK(c)'
    BY <1>1, <1>4, <1>9, <2>1, <2>2 DEF LegOK
  <2>5. Left'[c] = Left[c] /\ Got'[c] = Got[c]
    BY <1>1, <1>9, <2>1, <2>2 DEF Left, Got, Landed
  <2> QED
    BY <1>1, <1>2, <1>5, <1>6, <1>7, <2>1, <2>2, <2>3, <2>4, <2>5,
       OneSocketFrame, SeenSame
<1> QED
  BY <1>8, <1>9

(* memcpy out of the bounce buffer. *)
LEMMA CopyOutIsQuiet ==
  ASSUME SocketInv, SocketsApart, NEW CONSTANT c \in Call, CopyOut(c)
  PROVE  SocketInv' /\ UNCHANGED <<Left, Got>>
<1>1. /\ leg[c] = "copy" /\ UNCHANGED <<pc, req, bounce, posted, cq>>
      /\ buf' = [buf EXCEPT ![c] =
                   Copied(Head(todo[c]).length, bounce[SocketOf[c]], @)]
      /\ todo' = [todo EXCEPT ![c] = Tail(@)]
      /\ leg' = [leg EXCEPT ![c] = "ready"]
  BY DEF CopyOut, OnLeg, PieceDone, GotoLeg, vars, callVars
<1>2. SocketsOK /\ LegOK(c)
  BY DEF SocketInv
<1>3. /\ leg'[c] = "ready" /\ todo'[c] = Tail(todo[c])
      /\ buf'[c] = Copied(Head(todo[c]).length, bounce[SocketOf[c]], buf[c])
      /\ \A d \in Call \ {c} :
           leg'[d] = leg[d] /\ todo'[d] = todo[d] /\ buf'[d] = buf[d]
      /\ todo' = [d \in Call |-> todo'[d]] /\ buf' = [d \in Call |-> buf'[d]]
      /\ leg' \in [Call -> {"ready", "post", "poll", "copy"}]
  BY <1>1, <1>2 DEF SocketsOK
<1>4. SocketsOK'
  BY <1>1, <1>2, <1>3 DEF SocketsOK
<1>5. LegOK(c)'
  BY <1>3 DEF LegOK
<1>6. Sole(c)
  BY <1>1 DEF SocketsApart, Sole
<1>7. Clear(SocketOf[c])'
  <2>1. \A d \in Call : leg[d] = "poll" => SocketOf[d] # SocketOf[c]
    BY <1>1, <1>6 DEF Sole
  <2>2. Clear(SocketOf[c])
    BY <2>1, SocketsAssumption DEF SocketInv
  <2> QED
    BY <1>1, <2>2 DEF Clear
<1>8. req[c].op # "write"
  BY <1>1, <1>2 DEF LegOK
<1>9. Left'[c] = Left[c] /\ Got'[c] = Got[c]
  BY <1>1, <1>3, <1>8 DEF Left, Got, Landed
<1> QED
  BY <1>1, <1>3, <1>4, <1>5, <1>6, <1>7, <1>9, OneSocketFrame, SeenSame

(* A piece of no bytes is moved by doing nothing. *)
LEMMA SkipIsMove ==
  ASSUME ServerInv, NamesInv, DataInv, SocketInv,
         NEW CONSTANT c \in Call, SkipPiece(c)
  PROVE  SocketInv' /\ AtomicMove(c)
<1>1. /\ leg[c] = "ready" /\ todo[c] # << >> /\ ~ (Head(todo[c]).length > 0)
      /\ UNCHANGED <<vars, pc, req, mem, buf, socketVars>>
      /\ todo' = [todo EXCEPT ![c] = Tail(@)]
  BY DEF SkipPiece, OnLeg, More, PieceDone, vars, callVars
<1>2. PICK a \in BlockAddr :
           /\ pc[c] = "transfer" /\ req[c].op \in {"read", "write"}
           /\ Left[c] = todo[c] /\ Got[c] = buf[c]
           /\ Head(todo[c]) = PieceAt(c, a) /\ PieceAt(c, a).at = a
           /\ buf[c] \in Seq(Byte) /\ PieceAt(c, a).length = Len(buf[c])
           /\ Len(buf[c]) \in 0 .. FILE_BLOCK_SIZE
  BY <1>1, PieceFacts DEF Landed
<1>3. SocketsOK
  BY DEF SocketInv
<1>4. /\ todo'[c] = Tail(todo[c]) /\ \A d \in Call \ {c} : todo'[d] = todo[d]
      /\ todo' = [d \in Call |-> todo'[d]] /\ buf' = [d \in Call |-> buf'[d]]
  BY <1>1, <1>3 DEF SocketsOK
<1>5. /\ SocketInv'
      /\ Left'[c] = Tail(Left[c]) /\ Got'[c] = Got[c]
      /\ \A d \in Call \ {c} : Left'[d] = Left[d] /\ Got'[d] = Got[d]
  <2>1. \A d \in Call : leg[d] # "ready" => d # c
    BY <1>1
  <2>2. \A d \in Call : leg[d] # "ready" =>
           /\ pc'[d] = pc[d] /\ req'[d] = req[d]
           /\ todo'[d] = todo[d] /\ buf'[d] = buf[d]
    BY <1>1, <1>4, <2>1
  <2>3. /\ SocketInv'
        /\ \A d \in Call : leg[d] # "ready" =>
             Left'[d] = Left[d] /\ Got'[d] = Got[d]
        /\ \A d \in Call : leg[d] = "ready" =>
             /\ Left[d] = todo[d] /\ Left'[d] = todo'[d]
             /\ Got[d] = buf[d] /\ Got'[d] = buf'[d]
    BY <1>1, <1>4, <2>2, SocketsFrame
  <2> QED
    BY <1>1, <1>4, <2>3
<1>6. /\ Left = [d \in Call |-> Left[d]] /\ Left' = [d \in Call |-> Left'[d]]
      /\ Got = [d \in Call |-> Got[d]] /\ Got' = [d \in Call |-> Got'[d]]
  BY DEF Left, Got
<1>7. Left' = [Left EXCEPT ![c] = Tail(@)] /\ UNCHANGED Got
  BY <1>5, <1>6
<1>8. Len(buf[c]) = 0 /\ buf[c] = << >>
  BY <1>1, <1>2
<1>9. mem = [mem EXCEPT ![a] = RemoteWrite(PieceAt(c, a), Got[c], @)]
  <2>1. PICK block \in [1 .. FILE_BLOCK_SIZE -> Byte] : block = mem[a]
    BY DEF DataInv, BytesOK
  <2>2. \A i : {k \in 1 .. PieceAt(c, a).length : RemoteByte(PieceAt(c, a), k) = i} = {}
    BY <1>2, <1>8
  <2>3. RemoteWrite(PieceAt(c, a), Got[c], block) = [i \in DOMAIN block |-> block[i]]
    BY <2>2 DEF RemoteWrite
  <2>4. RemoteWrite(PieceAt(c, a), Got[c], mem[a]) = mem[a]
    BY <2>1, <2>3
  <2> QED
    BY <2>4 DEF DataInv, BytesOK
<1>10. Got = [Got EXCEPT ![c] = RemoteRead(PieceAt(c, a), @, mem[a])]
  <2>1. RemoteRead(PieceAt(c, a), << >>, mem[a]) = << >>
    BY DEF RemoteRead
  <2>2. Got[c] = << >>
    BY <1>2, <1>8
  <2>3. RemoteRead(PieceAt(c, a), Got[c], mem[a]) = Got[c]
    BY <2>1, <2>2
  <2> QED
    BY <1>6, <2>3
<1>11. Left[c] # << >> /\ Head(Left[c]) = PieceAt(c, a) /\ UNCHANGED <<vars, mem>>
  BY <1>1, <1>2
<1> QED
  BY <1>2, <1>5, <1>7, <1>9, <1>10, <1>11 DEF AtomicMove, Is

(* The card moves the bytes of the only call that waits on its socket. *)
LEMMA CarryIsMove ==
  ASSUME ServerInv, NamesInv, DataInv, SocketInv, SocketsApart,
         NEW CONSTANT k \in Socket, NEW CONSTANT s \in Server, Carry(k, s)
  PROVE  SocketInv' /\ \E c \in Call : AtomicMove(c)
<1>1. /\ posted[k][s] # << >>
      /\ posted' = [posted EXCEPT ![k][s] = Tail(@)]
      /\ cq' = [cq EXCEPT ![k] = @ + 1]
      /\ UNCHANGED <<vars, pc, req, todo, buf, leg>>
  BY DEF Carry, Complete, vars, callVars, userVars
<1>2. PICK c \in Call : leg[c] = "poll" /\ SocketOf[c] = k
  BY <1>1 DEF SocketInv, Clear
<1>3. SocketsOK /\ LegOK(c)
  BY DEF SocketInv
<1>4. OnWire(c) /\ todo[c] # << >>
  BY <1>1, <1>2, <1>3 DEF LegOK, Spent
<1>5. /\ s = Head(todo[c]).at.srv /\ posted[k][s] = << WorkRequest(c) >>
      /\ \A r \in Server \ {s} : posted[k][r] = << >>
      /\ cq[k] = 0 /\ (req[c].op = "write" => Filled(c))
  BY <1>1, <1>2, <1>4 DEF OnWire
<1>6. PICK a \in BlockAddr :
           /\ pc[c] = "transfer" /\ req[c].op \in {"read", "write"}
           /\ Left[c] = todo[c] /\ Got[c] = buf[c]
           /\ todo[c] = << PieceAt(c, a) >>
           /\ Head(todo[c]) = PieceAt(c, a) /\ PieceAt(c, a).at = a
           /\ buf[c] \in Seq(Byte) /\ PieceAt(c, a).length = Len(buf[c])
           /\ Len(buf[c]) \in 0 .. FILE_BLOCK_SIZE
  BY <1>2, <1>4, <1>5, PieceFacts DEF Landed
<1>7. PICK piece : piece = PieceAt(c, a)
  OBVIOUS
<1>8. /\ Head(posted[k][s]) = WorkRequest(c)
      /\ WorkRequest(c).op = req[c].op /\ WorkRequest(c).piece = piece
      /\ Tail(posted[k][s]) = << >>
  BY <1>5, <1>6, <1>7 DEF WorkRequest
<1>9. /\ posted' = [j \in Socket |-> posted'[j]]
      /\ posted'[k] = [r \in Server |-> << >>]
      /\ \A j \in Socket \ {k} : posted'[j] = posted[j]
  <2>1. posted = [j \in Socket |-> posted[j]] /\ posted[k] = [r \in Server |-> posted[k][r]]
    BY <1>3 DEF SocketsOK
  <2>2. /\ \A j \in Socket \ {k} : posted'[j] = posted[j]
        /\ posted' = [j \in Socket |-> posted'[j]]
        /\ posted'[k] = [posted[k] EXCEPT ![s] = << >>]
    BY <1>1, <1>8, <2>1
  <2>3. \A r \in Server : posted'[k][r] = << >>
    BY <1>5, <2>1, <2>2
  <2> QED
    BY <2>1, <2>2, <2>3
<1>10. /\ cq' = [j \in Socket |-> cq'[j]] /\ cq'[k] = 1
       /\ \A j \in Socket \ {k} : cq'[j] = cq[j]
  <2>1. cq = [j \in Socket |-> cq[j]]
    BY <1>3 DEF SocketsOK
  <2> QED
    BY <1>1, <1>5, <2>1
<1>11. Spent(c)' /\ LegOK(c)'
  BY <1>1, <1>2, <1>3, <1>9, <1>10 DEF Spent, LegOK
<1>12. Sole(c)
  BY <1>2 DEF SocketsApart, Sole
<1>13. Left'[c] = Tail(Left[c])
  <2>1. Landed(c)'
    BY <1>1, <1>2, <1>10 DEF Landed
  <2> QED
    BY <1>1, <1>6, <2>1 DEF Left
<1>14. /\ Left = [d \in Call |-> Left[d]] /\ Left' = [d \in Call |-> Left'[d]]
       /\ Got = [d \in Call |-> Got[d]] /\ Got' = [d \in Call |-> Got'[d]]
  BY DEF Left, Got
<1>15. Left[c] # << >> /\ Head(Left[c]) = piece /\ piece.at = a
  BY <1>4, <1>6, <1>7
<1>16. CASE req[c].op = "write"
  <2>1. /\ mem' = [mem EXCEPT ![a] = RemoteWrite(piece, bounce[k], @)]
        /\ UNCHANGED bounce
    BY <1>8, <1>15, <1>16 DEF Carry
  <2>2. RemoteWrite(piece, bounce[k], mem[a]) = RemoteWrite(piece, Got[c], mem[a])
    <3>1. \A p \in 1 .. piece.length : bounce[k][p] = Got[c][p]
      BY <1>2, <1>5, <1>6, <1>7, <1>16 DEF Filled
    <3> QED
      BY <3>1, SameWrite
  <2>3. mem' = [mem EXCEPT ![a] = RemoteWrite(piece, Got[c], @)]
    BY <2>1, <2>2
  <2>4. SocketsOK'
    <3>1. \A j \in Socket : posted'[j] = [r \in Server |-> posted'[j][r]]
      BY <1>3, <1>9 DEF SocketsOK
    <3> QED
      BY <1>1, <1>3, <1>9, <1>10, <2>1, <3>1 DEF SocketsOK
  <2>5. /\ SocketInv'
        /\ \A d \in Call \ {c} : Left'[d] = Left[d] /\ Got'[d] = Got[d]
    BY <1>1, <1>2, <1>9, <1>10, <1>11, <1>12, <2>1, <2>4, OneSocketFrame
  <2>6. Got'[c] = Got[c]
    BY <1>1, <1>2, <1>5, <1>16 DEF Got, Landed
  <2>7. Left' = [Left EXCEPT ![c] = Tail(@)] /\ UNCHANGED Got
    BY <1>13, <1>14, <2>5, <2>6
  <2> QED
    BY <1>1, <1>15, <1>16, <2>3, <2>5, <2>7 DEF AtomicMove, Is
<1>17. CASE req[c].op = "read"
  <2>1. /\ bounce' = [bounce EXCEPT ![k] = RemoteRead(piece, @, mem[a])]
        /\ UNCHANGED mem
    BY <1>8, <1>15, <1>17 DEF Carry
  <2>2. /\ bounce' = [j \in Socket |-> bounce'[j]]
        /\ bounce'[k] = RemoteRead(piece, bounce[k], mem[a])
        /\ \A j \in Socket \ {k} : bounce'[j] = bounce[j]
    BY <1>3, <2>1 DEF SocketsOK
  <2>3. DOMAIN bounce[k] = 1 .. FILE_BLOCK_SIZE
    BY <1>3 DEF SocketsOK
  <2>4. /\ DOMAIN bounce'[k] = 1 .. FILE_BLOCK_SIZE
        /\ \A p \in 1 .. FILE_BLOCK_SIZE : p <= piece.length =>
             bounce'[k][p] = mem[a][RemoteByte(piece, p)]
    BY <2>2, <2>3 DEF RemoteRead
  <2>5. SocketsOK'
    <3>1. \A j \in Socket : posted'[j] = [r \in Server |-> posted'[j][r]]
      BY <1>3, <1>9 DEF SocketsOK
    <3>2. \A j \in Socket : DOMAIN bounce'[j] = 1 .. FILE_BLOCK_SIZE
      BY <1>3, <2>2, <2>4 DEF SocketsOK
    <3> QED
      BY <1>1, <1>3, <1>9, <1>10, <2>2, <3>1, <3>2 DEF SocketsOK
  <2>6. /\ SocketInv'
        /\ \A d \in Call \ {c} : Left'[d] = Left[d] /\ Got'[d] = Got[d]
    BY <1>1, <1>2, <1>9, <1>10, <1>11, <1>12, <2>2, <2>5, OneSocketFrame
  <2>7. Got'[c] = Copied(piece.length, bounce'[k], buf[c])
    BY <1>1, <1>2, <1>6, <1>7, <1>10, <1>17 DEF Got, Landed
  <2>8. Got'[c] = RemoteRead(piece, Got[c], mem[a])
    <3>1. DOMAIN buf[c] = 1 .. Len(buf[c])
      BY <1>6
    <3>2. \A p \in DOMAIN buf[c] : p \in 1 .. FILE_BLOCK_SIZE
      BY <1>6, <3>1, PlanBlockSizeAssumption
    <3> QED
      BY <1>6, <2>4, <2>7, <3>2 DEF Copied, RemoteRead
  <2>9. /\ Left' = [Left EXCEPT ![c] = Tail(@)]
        /\ Got' = [Got EXCEPT ![c] = RemoteRead(piece, @, mem[a])]
    BY <1>13, <1>14, <2>6, <2>8
  <2> QED
    BY <1>1, <1>15, <1>17, <2>1, <2>6, <2>9 DEF AtomicMove, Is
<1> QED
  BY <1>6, <1>16, <1>17

(* Calls in a transfer are left alone by the server's handlers, by the     *)
(* other processes and by the calls that return.                           *)
LEMMA ServerLeavesLegs ==
  ASSUME ServerInv, SocketInv,
         \/ \E c \in Call : pc[c] # "transfer" /\ Step(c)
         \/ \E c \in Call : todo[c] = << >> /\ Transfer(c)
         \/ \E c \in Call, r \in Requests : Begin(c, r)
         \/ \E s \in Server, r \in Regions : RegisterMemoryRegion(s, r)
         \/ Kill \/ RunServer \/ UNCHANGED vars
  PROVE  \A d \in Call : leg[d] # "ready" => pc'[d] = pc[d] /\ req'[d] = req[d]
<1> SUFFICES ASSUME NEW d \in Call, leg[d] # "ready"
             PROVE  pc'[d] = pc[d] /\ req'[d] = req[d]
  OBVIOUS
<1>1. pc[d] = "transfer" /\ todo[d] # << >>
  BY DEF SocketInv, LegOK
<1>2. CASE Crash
  BY <1>1, <1>2 DEF Crash
<1>3. ASSUME NEW c \in Call, pc[c] # "transfer" \/ todo[c] = << >>, Step(c), ~ Crash
      PROVE  pc'[d] = pc[d] /\ req'[d] = req[d]
  BY <1>1, <1>3, StepIsLocal DEF OthersKept
<1>4. ASSUME NEW c \in Call, todo[c] = << >>, Transfer(c)
      PROVE  pc'[d] = pc[d] /\ req'[d] = req[d]
  BY <1>2, <1>3, <1>4 DEF Step
<1>5. ASSUME NEW c \in Call, NEW r \in Requests, Begin(c, r)
      PROVE  pc'[d] = pc[d] /\ req'[d] = req[d]
  BY <1>1, <1>5 DEF Begin, At, Goto, ServerInv, CallsOK
<1>6. CASE UNCHANGED <<pc, req>>
  BY <1>6
<1> QED
  BY <1>2, <1>3, <1>4, <1>5, <1>6
     DEF RegisterMemoryRegion, Kill, RunServer, vars, callVars

(* Every step of the system keeps the sockets in order and is, as far as   *)
(* memory, pieces and buffers go, one of the atomic steps.                 *)
LEMMA SocketStep ==
  ASSUME ServerInv, NamesInv, DataInv, SocketInv, ReliableOnly, ReliableOnly',
         [SpongeNext]_<<vars, dataVars>>
  PROVE  SocketInv' /\ [AtomicNext]_<<vars, seenVars>>
<1>0. SocketsApart /\ SocketsApart' /\ broken' = {} /\ SocketsOK
  BY DEF ReliableOnly, SocketInv
<1>1. ASSUME UNCHANGED <<vars, mem, Left, Got>> PROVE UNCHANGED <<vars, seenVars>>
  BY <1>1 DEF seenVars
<1>2. /\ Left = [d \in Call |-> Left[d]] /\ Left' = [d \in Call |-> Left'[d]]
      /\ Got = [d \in Call |-> Got[d]] /\ Got' = [d \in Call |-> Got'[d]]
  BY DEF Left, Got
<1>3. ASSUME NEW c \in Call, HandlerStep(c)
      PROVE  SocketInv' /\ AtomicHandler(c)
  <2>1. pc[c] # "transfer" /\ Step(c) /\ UNCHANGED <<mem, socketVars>>
    BY <1>3 DEF HandlerStep
  <2>2. leg[c] = "ready"
    BY <2>1, OutsideIsReady
  <2>3. CASE pc'[c] = "transfer"
    <3>1. /\ todo' = [todo EXCEPT ![c] = BlockInfos(c)]
          /\ buf' = [buf EXCEPT ![c] = UserBuffer(c)]
      BY <1>3, <2>3 DEF HandlerStep, Answered
    <3>2. /\ todo' = [d \in Call |-> todo'[d]] /\ buf' = [d \in Call |-> buf'[d]]
          /\ todo'[c] = BlockInfos(c) /\ buf'[c] = UserBuffer(c)
          /\ \A d \in Call \ {c} : todo'[d] = todo[d] /\ buf'[d] = buf[d]
      BY <1>0, <3>1 DEF SocketsOK
    <3>3. \A d \in Call : leg[d] # "ready" =>
            /\ pc'[d] = pc[d] /\ req'[d] = req[d]
            /\ todo'[d] = todo[d] /\ buf'[d] = buf[d]
      BY <2>1, <2>2, <3>2, ServerLeavesLegs
    <3>4. /\ SocketInv'
          /\ \A d \in Call : leg[d] # "ready" =>
               Left'[d] = Left[d] /\ Got'[d] = Got[d]
          /\ \A d \in Call : leg[d] = "ready" =>
               /\ Left[d] = todo[d] /\ Left'[d] = todo'[d]
               /\ Got[d] = buf[d] /\ Got'[d] = buf'[d]
      BY <2>1, <3>2, <3>3, SocketsFrame
    <3>5. AtomicAnswer(c)
      BY <1>2, <2>2, <3>2, <3>4 DEF AtomicAnswer
    <3> QED
      BY <2>1, <2>3, <3>4, <3>5 DEF AtomicHandler
  <2>4. CASE pc'[c] # "transfer"
    <3>1. UNCHANGED <<todo, buf>>
      BY <1>3, <2>4 DEF HandlerStep, userVars
    <3>2. \A d \in Call : leg[d] # "ready" =>
            /\ pc'[d] = pc[d] /\ req'[d] = req[d]
            /\ todo'[d] = todo[d] /\ buf'[d] = buf[d]
      BY <2>1, <3>1, ServerLeavesLegs
    <3>3. /\ SocketInv'
          /\ \A d \in Call : Left'[d] = Left[d] /\ Got'[d] = Got[d]
      BY <1>0, <2>1, <3>1, <3>2, SocketsFrame DEF SocketsOK
    <3> QED
      BY <1>2, <2>1, <2>4, <3>3 DEF AtomicHandler
  <2> QED
    BY <2>3, <2>4
<1>4. ASSUME NEW c \in Call, ClientReturn(c)
      PROVE  SocketInv' /\ AtomicReturn(c)
  <2>1. /\ todo[c] = << >> /\ Transfer(c) /\ UNCHANGED <<mem, todo, socketVars>>
        /\ buf' = [buf EXCEPT ![c] = << >>]
    BY <1>4 DEF ClientReturn
  <2>2. leg[c] = "ready" /\ Left[c] = << >>
    BY <2>1, OutsideIsReady
  <2>3. /\ buf' = [d \in Call |-> buf'[d]] /\ buf'[c] = << >>
        /\ \A d \in Call \ {c} : buf'[d] = buf[d]
    BY <1>0, <2>1 DEF SocketsOK
  <2>4. \A d \in Call : leg[d] # "ready" =>
          /\ pc'[d] = pc[d] /\ req'[d] = req[d]
          /\ todo'[d] = todo[d] /\ buf'[d] = buf[d]
    BY <2>1, <2>2, <2>3, ServerLeavesLegs
  <2>5. /\ SocketInv'
        /\ \A d \in Call : leg[d] # "ready" =>
             Left'[d] = Left[d] /\ Got'[d] = Got[d]
        /\ \A d \in Call : leg[d] = "ready" =>
             /\ Left[d] = todo[d] /\ Left'[d] = todo'[d]
             /\ Got[d] = buf[d] /\ Got'[d] = buf'[d]
    BY <1>0, <2>1, <2>3, <2>4, SocketsFrame DEF SocketsOK
  <2>6. UNCHANGED Left /\ Got' = [Got EXCEPT ![c] = << >>]
    BY <1>2, <2>1, <2>2, <2>3, <2>5
  <2> QED
    BY <2>1, <2>2, <2>5, <2>6 DEF AtomicReturn
<1>5. ASSUME \/ ServersStep \/ UNCHANGED <<vars, dataVars>>
      PROVE  SocketInv' /\ UNCHANGED seenVars
  <2>1. UNCHANGED <<mem, todo, buf, socketVars>>
    BY <1>5 DEF ServersStep, dataVars, userVars
  <2>2. \A d \in Call : leg[d] # "ready" => pc'[d] = pc[d] /\ req'[d] = req[d]
    BY <1>5, ServerLeavesLegs DEF ServersStep
  <2>3. /\ SocketInv'
        /\ \A d \in Call : Left'[d] = Left[d] /\ Got'[d] = Got[d]
    BY <1>0, <2>1, <2>2, SocketsFrame DEF SocketsOK
  <2> QED
    BY <1>2, <2>1, <2>3 DEF seenVars
<1>6. ASSUME NEW c \in Call, MovePiece(c)
      PROVE  SocketInv' /\ [AtomicNext]_<<vars, seenVars>>
  <2>1. CASE SkipPiece(c)
    BY <2>1, SkipIsMove DEF AtomicNext
  <2>2. CASE ~ SkipPiece(c)
    <3>1. SocketInv' /\ UNCHANGED <<Left, Got>>
      BY <1>0, <1>6, <2>2, CopyInIsQuiet, PostIsQuiet, PollIsQuiet, CopyOutIsQuiet
         DEF MovePiece
    <3>2. UNCHANGED <<vars, mem>>
      BY <1>6, <2>2 DEF MovePiece, CopyIn, Post, PostFails, Poll, CopyOut
    <3> QED
      BY <1>1, <3>1, <3>2
  <2> QED
    BY <2>1, <2>2
<1>7. ASSUME NEW k \in Socket, NEW s \in Server, Carry(k, s) \/ CarryFails(k, s)
      PROVE  SocketInv' /\ AtomicNext
  <2>1. ~ CarryFails(k, s)
    BY <1>0 DEF CarryFails
  <2> QED
    BY <1>0, <1>7, <2>1, CarryIsMove DEF AtomicNext
<1>8. ServersStep => AtomicServers
  BY <1>5 DEF ServersStep, AtomicServers
<1>9. CASE UNCHANGED <<vars, dataVars>>
  BY <1>5, <1>9
<1> QED
  BY <1>3, <1>4, <1>5, <1>6, <1>7, <1>8, <1>9 DEF SpongeNext, AtomicNext

-----------------------------------------------------------------------------
(* The inductive invariant of metadata server, allocators and clients *)

ClientInv == /\ ServerInv /\ GrowthInv /\ NamesInv
             /\ BlocksInv /\ CourseInv /\ DataInv /\ SocketInv

(* Every step of the system is a step of the metadata server or none. *)
LEMMA StepsAreServerSteps == [AtomicNext]_<<vars, seenVars>> => [Next]_vars
<1>1. ASSUME NEW c \in Call, AtomicHandler(c) PROVE Next
  BY <1>1 DEF AtomicHandler, Next
<1>2. ASSUME NEW c \in Call, AtomicMove(c) PROVE UNCHANGED vars
  BY <1>2 DEF AtomicMove
<1>3. ASSUME NEW c \in Call, AtomicReturn(c) PROVE Next
  <2>1. Step(c)
    BY <1>3 DEF AtomicReturn, Step
  <2> QED
    BY <2>1 DEF Next
<1>4. AtomicServers => Next
  BY DEF AtomicServers, Next
<1> QED
  BY <1>1, <1>2, <1>3, <1>4 DEF AtomicNext

(* Buffers, memory and pieces from one state to the next. *)
LEMMA DataStep ==
  ASSUME OneBlockRequests, EmptyRequestsFit
  PROVE  ClientInv /\ ReliableOnly /\ [AtomicNext]_<<vars, seenVars>> => DataInv'
<1> SUFFICES ASSUME ClientInv, ReliableOnly, [AtomicNext]_<<vars, seenVars>>
             PROVE  DataInv'
  OBVIOUS
<1>1. /\ ServerInv /\ SizeCovered /\ NamesInv
      /\ BlocksInv /\ CourseInv /\ DataInv
  BY DEF ClientInv, GrowthInv, Covered, SizeCovered
<1>2. CASE UNCHANGED <<vars, seenVars>>
  <2>1. UNCHANGED <<mem, Left, Got, children, table, blocks, size, pc, req, hand>>
    BY <1>2 DEF seenVars, vars, fileVars, inodeVars, callVars
  <2>2. BytesOK'
    BY <1>1, <2>1 DEF DataInv, BytesOK
  <2>3. \A n \in Name : Still(n) /\ SameBytes(n)
    BY <2>1, StillFrame DEF SameBytes
  <2>4. ASSUME NEW d \in Call PROVE Sent(d)' /\ Moved(d)'
    <3>1. pc[d] = "transfer" => req[d].name \in Name
      BY <1>1, RequestType
    <3>2. Sent(d) /\ Moved(d)
      BY <1>1 DEF DataInv
    <3> QED
      BY <1>1, <2>1, <2>3, <3>1, <3>2, TransferKept
  <2> QED
    BY <2>2, <2>4 DEF DataInv
<1> QED
  BY <1>1, <1>2, HandlerKeepsData, MoveKeepsData, ReturnKeepsData,
     ServersKeepData DEF AtomicNext

(* The invariant holds at first. *)
LEMMA ClientStart == SpongeInit => ClientInv
<1> SUFFICES ASSUME SpongeInit PROVE ClientInv
  OBVIOUS
<1>1. Init
  BY DEF SpongeInit
<1>2. ServerInv /\ NamesInv
  BY <1>1, ServerInvStart, NamesStart
<1>3. BlocksInv
  BY <1>1 DEF Init, SpaceInit, BlocksInv, Reliable, Registered
<1>4. GrowthInv
  BY <1>1, PlanBlockSizeAssumption DEF Init, GrowthInv, Covered, WriteProgress
<1>5. CourseInv
  <2>1. 0 \in Ends
    BY DEF Ends
  <2> QED
    BY <1>1, <2>1 DEF Init, CourseInv, WritesAlone, Course, SizesEnd,
       BlocksPlaced, HandsPlaced
<1>6. DataInv
  <2>1. mem \in [BlockAddr -> [1 .. FILE_BLOCK_SIZE -> Byte]]
    BY DEF SpongeInit, BlankBlock, Byte
  <2>2. \A c \in Call : Left[c] = << >> /\ pc[c] = "idle"
    BY DEF SpongeInit, Init, Left, Landed
  <2>3. BytesOK
    BY <2>1 DEF BytesOK, Left, Got
  <2> QED
    BY <2>2, <2>3 DEF DataInv, Sent, Moved
<1>7. SocketInv
  BY <1>1, SocketStart
<1> QED
  BY <1>2, <1>3, <1>4, <1>5, <1>6, <1>7 DEF ClientInv

(* Every step keeps it. *)
LEMMA ClientStep ==
  ASSUME OneBlockRequests, EmptyRequestsFit, Exclusion \in {"calls", "files"}
  PROVE  /\ ClientInv /\ ReliableOnly /\ ReliableOnly'
         /\ [SpongeNext]_<<vars, dataVars>>
         => ClientInv' /\ [AtomicNext]_<<vars, seenVars>>
<1> SUFFICES ASSUME ClientInv, ReliableOnly, ReliableOnly',
                    [SpongeNext]_<<vars, dataVars>>
             PROVE  ClientInv' /\ [AtomicNext]_<<vars, seenVars>>
  OBVIOUS
<1>1. Exclusion # "none"
  OBVIOUS
<1>2. SocketInv' /\ [AtomicNext]_<<vars, seenVars>>
  BY SocketStep DEF ClientInv
<1> QED
  BY <1>1, <1>2, StepsAreServerSteps, DataStep, ServerInvStep, GrowthStep,
     NamesStep, BlocksStep, CourseStep DEF ClientInv

(* The invariant of the client library. *)
LEMMA ClientHolds ==
  ASSUME OneBlockRequests, EmptyRequestsFit, Exclusion \in {"calls", "files"}
  PROVE  SpongeSpec /\ []ReliableOnly => [](ClientInv /\ ReliableOnly)
  BY ClientStart, ClientStep, PTL DEF SpongeSpec

-----------------------------------------------------------------------------
(* What clients see of it: FileStore *)

(* A write is under way. *)
Moving(c) == pc[c] = "transfer" /\ req[c].op = "write" /\ Linked(req[c].name)

(* The writes that FileStore knows of. *)
WritingSeen(c) ==
  /\ ~ Moving(c) => Writing(c) = NoWrite
  /\ Moving(c) => /\ Writing(c) # NoWrite
                /\ Writing(c) = [name |-> req[c].name, off |-> req[c].off,
                                 len |-> req[c].len]

(* The positions that writes have torn. *)
FlightSeen(n, p) ==
  InFlight(n, p) <=> \E c \in Call : /\ Moving(c) /\ req[c].name = n
                                     /\ req[c].off <= p
                                     /\ p < req[c].off + req[c].len

(* The bytes of a file, and that they are a sequence. *)
FileSeen(n) ==
  /\ FileOf(n) \notin Obj => Contents(n) = NoFile
  /\ FileOf(n) \in Obj =>
       /\ size[FileOf(n)] \in Nat
       /\ Contents(n) \in Seq(Byte \cup {Torn}) /\ Contents(n) # NoFile
       /\ Len(Contents(n)) = size[FileOf(n)]
       /\ DOMAIN Contents(n) = 1 .. size[FileOf(n)]
       /\ Contents(n) = [p \in 1 .. size[FileOf(n)] |->
            IF InFlight(n, p - 1) THEN Torn ELSE StoredByte(FileOf(n), p - 1)]

Seen == /\ \A c \in Call : WritingSeen(c)
        /\ \A n \in Name : FileSeen(n) /\ \A p \in Nat : FlightSeen(n, p)

(* The calls that the variable writing of FileStore stands for. *)
LEMMA WritingIs == ASSUME ServerInv, NEW c \in Call PROVE WritingSeen(c)
<1>1. ~ Moving(c) => Writing(c) = NoWrite
  BY DEF Moving, Writing, Is
<1>2. ASSUME Moving(c)
      PROVE  /\ Writing(c) # NoWrite
             /\ Writing(c) = [name |-> req[c].name, off |-> req[c].off,
                              len |-> req[c].len]
  <2>1. Writing(c) = [name |-> req[c].name, off |-> req[c].off, len |-> req[c].len]
    BY <1>2 DEF Moving, Writing, Is
  <2>2. req[c].name \in Name /\ req[c].off \in Nat /\ req[c].len \in Nat
    BY <1>2, RequestType DEF Moving
  <2>3. Writing(c) \in [name : Name, off : Nat, len : Nat]
    BY <2>1, <2>2
  <2> QED
    BY <2>1, <2>3, MarksAssumption
<1> QED
  BY <1>1, <1>2 DEF WritingSeen

(* The positions that writes have torn. *)
LEMMA InFlightIs ==
  ASSUME ServerInv, NEW n \in Name, NEW p \in Nat PROVE FlightSeen(n, p)
<1>1. ASSUME NEW c \in Call
      PROVE  (/\ Writing(c) # NoWrite /\ Writing(c).name = n
              /\ Writing(c).off <= p /\ p < Writing(c).off + Writing(c).len)
             <=> (/\ Moving(c) /\ req[c].name = n
                  /\ req[c].off <= p /\ p < req[c].off + req[c].len)
  <2>1. CASE Moving(c)
    <3>1. PICK w : w = Writing(c)
      OBVIOUS
    <3>2. w # NoWrite /\ w = [name |-> req[c].name, off |-> req[c].off,
                              len |-> req[c].len]
      BY <2>1, <3>1, WritingIs DEF WritingSeen
    <3>3. w.name = req[c].name /\ w.off = req[c].off /\ w.len = req[c].len
      BY <3>2
    <3> QED
      BY <2>1, <3>1, <3>2, <3>3
  <2>2. CASE ~ Moving(c)
    BY <2>2, WritingIs DEF WritingSeen
  <2> QED
    BY <2>1, <2>2
<1> QED
  BY <1>1 DEF InFlight, FlightSeen

(* The bytes of a file, and that they are a sequence. *)
LEMMA ContentsAre ==
  ASSUME ServerInv, SizeCovered, BytesOK, NEW n \in Name PROVE FileSeen(n)
<1>1. CASE FileOf(n) \notin Obj
  <2>1. FileOf(n) = NoObj
    BY <1>1, FileOfType
  <2> QED
    BY <1>1, <2>1 DEF Contents, FileOf, FileSeen
<1>2. CASE FileOf(n) \in Obj
  <2>1. PICK o \in Obj : o = FileOf(n)
    BY <1>2
  <2>2. PICK l \in Nat : l = size[o]
    BY DEF ServerInv, FilesOK
  <2>3. o # NoObj
    BY ObjAssumption
  <2>4. Contents(n) = [p \in 1 .. l |->
          IF InFlight(n, p - 1) THEN Torn ELSE StoredByte(o, p - 1)]
    BY <2>1, <2>2, <2>3 DEF Contents, FileOf
  <2>5. ASSUME NEW p \in 1 .. l PROVE StoredByte(o, p - 1) \in Byte
    <3>1. PICK q \in Nat : q = p - 1 /\ q < size[o]
      BY <2>2
    <3>2. /\ q \div FILE_BLOCK_SIZE + 1 \in DOMAIN blocks[o]
          /\ (q % FILE_BLOCK_SIZE) + 1 \in 1 .. FILE_BLOCK_SIZE
      BY <3>1, ByteInBlocks
    <3>3. blocks[o] \in Seq(BlockAddr)
      BY DEF ServerInv, FilesOK
    <3>4. blocks[o][q \div FILE_BLOCK_SIZE + 1] \in BlockAddr
      BY <3>2, <3>3
    <3>5. mem[blocks[o][q \div FILE_BLOCK_SIZE + 1]]
            \in [1 .. FILE_BLOCK_SIZE -> Byte]
      BY <3>4 DEF BytesOK
    <3> QED
      BY <3>1, <3>2, <3>5 DEF StoredByte
  <2>6. Contents(n) \in [1 .. l -> Byte \cup {Torn}]
    BY <2>4, <2>5
  <2>7. /\ Contents(n) \in Seq(Byte \cup {Torn}) /\ Len(Contents(n)) = l
        /\ DOMAIN Contents(n) = 1 .. l
    BY <2>6
  <2>8. Contents(n) # NoFile
    BY <2>7, MarksAssumption
  <2> QED
    BY <2>1, <2>2, <2>4, <2>7, <2>8 DEF FileSeen
<1> QED
  BY <1>1, <1>2

(* All of it, in every state of the system. *)
LEMMA ClientSeen == ASSUME EmptyRequestsFit PROVE ClientInv => Seen
<1> SUFFICES ASSUME ClientInv PROVE Seen
  OBVIOUS
<1>1. ServerInv /\ SizeCovered /\ BytesOK
  BY DEF ClientInv, GrowthInv, Covered, SizeCovered, DataInv
<1> QED
  BY <1>1, WritingIs, InFlightIs, ContentsAre DEF Seen

-----------------------------------------------------------------------------
(* The steps of FileStore *)

StoreVars == <<[n \in Name |-> Contents(n)], [c \in Call |-> Writing(c)]>>

StoreStep == [Store!Next]_StoreVars

(* No file changes and no write begins or ends. *)
LEMMA StoreStays ==
  ASSUME \A n \in Name : Contents(n)' = Contents(n),
         \A c \in Call : Writing(c)' = Writing(c)
  PROVE  StoreStep
<1>1. StoreVars' = StoreVars
  BY DEF StoreVars
<1> QED
  BY <1>1 DEF StoreStep

(* One file changes, or one client's write. *)
LEMMA OneFile ==
  ASSUME NEW CONSTANT n \in Name, NEW CONSTANT new, Contents(n)' = new,
         \A m \in Name \ {n} : Contents(m)' = Contents(m)
  PROVE  [m \in Name |-> Contents(m)]' =
           [[m \in Name |-> Contents(m)] EXCEPT ![n] = new]
  OBVIOUS

(* The same of the writes. *)
LEMMA OneWriting ==
  ASSUME NEW CONSTANT c \in Call, NEW CONSTANT new, Writing(c)' = new,
         \A d \in Call \ {c} : Writing(d)' = Writing(d)
  PROVE  [d \in Call |-> Writing(d)]' =
           [[d \in Call |-> Writing(d)] EXCEPT ![c] = new]
  OBVIOUS

(* A file appears. *)
LEMMA StoreCreates ==
  ASSUME NEW CONSTANT n \in Name, Contents(n) = NoFile, Contents(n)' = << >>,
         \A m \in Name \ {n} : Contents(m)' = Contents(m),
         \A c \in Call : Writing(c)' = Writing(c)
  PROVE  StoreStep
<1>1. Store!Create(n)
  BY DEF Store!Create
<1> QED
  BY <1>1 DEF StoreStep, Store!Next

(* A file goes. *)
LEMMA StoreRemoves ==
  ASSUME NEW CONSTANT n \in Name, Contents(n) # NoFile, Contents(n)' = NoFile,
         \A m \in Name \ {n} : Contents(m)' = Contents(m),
         \A c \in Call : Writing(c) = NoWrite \/ Writing(c).name # n,
         \A c \in Call : Writing(c)' = Writing(c)
  PROVE  StoreStep
<1>1. \A c \in Call : [d \in Call |-> Writing(d)][c] = Writing(c)
  OBVIOUS
<1>2. \A c \in Call : \/ [d \in Call |-> Writing(d)][c] = NoWrite
                      \/ [d \in Call |-> Writing(d)][c].name # n
  BY <1>1, Zenon
<1>3. [m \in Name |-> Contents(m)]' =
        [[m \in Name |-> Contents(m)] EXCEPT ![n] = NoFile]
  BY OneFile
<1>4. UNCHANGED [c \in Call |-> Writing(c)]
  OBVIOUS
<1>5. [m \in Name |-> Contents(m)][n] # NoFile
  OBVIOUS
<1>6. Store!Remove(n)
  BY <1>2, <1>3, <1>4, <1>5 DEF Store!Remove
<1> QED
  BY <1>6 DEF StoreStep, Store!Next

(* The server ends. *)
LEMMA StoreLoses ==
  ASSUME \A n \in Name : Contents(n)' = NoFile,
         \A c \in Call : Writing(c)' = NoWrite
  PROVE  StoreStep
<1>1. Store!Lose
  BY DEF Store!Lose
<1> QED
  BY <1>1 DEF StoreStep, Store!Next

(* A write is answered. *)
LEMMA StoreBegins ==
  ASSUME NEW CONSTANT c \in Call, NEW CONSTANT w \in Store!Write,
         w.name \in Name,
         Writing(c) = NoWrite, Contents(w.name) # NoFile, Writing(c)' = w,
         \A d \in Call \ {c} : Writing(d)' = Writing(d),
         \A m \in Name \ {w.name} : Contents(m)' = Contents(m),
         Len(Contents(w.name)') = w.off + w.len,
         \A p \in 1 .. w.off + w.len :
           /\ Store!Covers(w, p - 1) => Contents(w.name)'[p] = Torn
           /\ p <= w.off /\ p <= Len(Contents(w.name))
                => Contents(w.name)'[p] = Contents(w.name)[p]
  PROVE  StoreStep
<1>1. Store!OthersKept(w.name)
  BY DEF Store!OthersKept
<1>2. Store!BeginWrite(c, w)
  BY <1>1 DEF Store!BeginWrite
<1> QED
  BY <1>2 DEF StoreStep, Store!Next

(* A write is over. *)
LEMMA StoreEnds ==
  ASSUME NEW CONSTANT c \in Call, NEW CONSTANT w, w = Writing(c), w # NoWrite,
         w.name \in Name, Writing(c)' = NoWrite,
         \A d \in Call \ {c} : Writing(d)' = Writing(d),
         \A m \in Name \ {w.name} : Contents(m)' = Contents(m),
         Contents(w.name)' =
           [p \in DOMAIN Contents(w.name) |->
              IF Store!Covers(w, p - 1) THEN <<c, p - 1 - w.off>>
              ELSE Contents(w.name)[p]]
  PROVE  StoreStep
<1>1. [d \in Call |-> Writing(d)][c] = w /\ [m \in Name |-> Contents(m)][w.name]
        = Contents(w.name)
  OBVIOUS
<1>2. [d \in Call |-> Writing(d)]' =
        [[d \in Call |-> Writing(d)] EXCEPT ![c] = NoWrite]
  BY OneWriting
<1>3. PICK new : new = Contents(w.name)'
  OBVIOUS
<1>4. [m \in Name |-> Contents(m)]' =
        [[m \in Name |-> Contents(m)] EXCEPT ![w.name] = new]
  BY <1>3, OneFile
<1>5. [m \in Name |-> Contents(m)]' =
        [[m \in Name |-> Contents(m)] EXCEPT ![w.name] =
           [p \in DOMAIN @ |-> IF Store!Covers(w, p - 1)
                               THEN <<c, p - 1 - w.off>> ELSE @[p]]]
  BY <1>1, <1>3, <1>4
<1>6. Store!EndWrite(c)
  BY <1>1, <1>2, <1>5 DEF Store!EndWrite
<1> QED
  BY <1>6 DEF StoreStep, Store!Next

-----------------------------------------------------------------------------
(* What no step of FileStore touches *)

(* The write of a call, if it has one, goes on. *)
Steady(d) == (Moving(d)' <=> Moving(d)) /\ (Moving(d) => req'[d] = req[d])

(* It is on another file. *)
Elsewhere(d, n) == Moving(d) => req[d].name # n

(* Then FileStore does not see it change. *)
LEMMA WritingKept ==
  ASSUME Seen, Seen', NEW CONSTANT d \in Call, Steady(d)
  PROVE  Writing(d)' = Writing(d)
<1>1. WritingSeen(d) /\ WritingSeen(d)'
  BY DEF Seen
<1>2. CASE Moving(d)
  <2>1. req'[d] = req[d] /\ Moving(d)'
    BY <1>2 DEF Steady
  <2> QED
    BY <1>1, <1>2, <2>1 DEF WritingSeen
<1>3. CASE ~ Moving(d)
  <2>1. ~ Moving(d)'
    BY <1>3 DEF Steady
  <2> QED
    BY <1>1, <1>3, <2>1 DEF WritingSeen
<1> QED
  BY <1>2, <1>3

(* The torn bytes of a file that no write begins or ends on. *)
LEMMA FlightKept ==
  ASSUME Seen, Seen', NEW CONSTANT n \in Name,
         \A d \in Call : Steady(d) \/ (Elsewhere(d, n) /\ Elsewhere(d, n)'),
         NEW CONSTANT p \in Nat
  PROVE  InFlight(n, p)' <=> InFlight(n, p)
<1>1. FlightSeen(n, p) /\ FlightSeen(n, p)'
  BY DEF Seen
<1>2. \A d \in Call : (Moving(d)' /\ req'[d].name = n)
                        <=> (Moving(d) /\ req[d].name = n)
  BY DEF Steady, Elsewhere
<1>3. \A d \in Call : Moving(d) /\ req[d].name = n => Steady(d)
  BY DEF Elsewhere
<1>4. \A d \in Call : Moving(d) /\ req[d].name = n => req'[d] = req[d]
  BY <1>3 DEF Steady
<1> QED
  BY <1>1, <1>2, <1>4 DEF FlightSeen

(* A file that a step leaves as it was. *)
LEMMA ContentsKept ==
  ASSUME ServerInv, SizeCovered, Seen, Seen', NEW CONSTANT n \in Name,
         Still(n), SameBytes(n),
         \A p \in Nat : InFlight(n, p)' <=> InFlight(n, p)
  PROVE  Contents(n)' = Contents(n)
<1>1. FileSeen(n) /\ FileSeen(n)'
  BY DEF Seen
<1>2. (FileOf(n))' = FileOf(n)
  BY DEF Still
<1>3. CASE FileOf(n) \notin Obj
  BY <1>1, <1>2, <1>3 DEF FileSeen
<1>4. CASE FileOf(n) \in Obj
  <2>1. PICK o \in Obj : o = FileOf(n) /\ (FileOf(n))' = o
    BY <1>2, <1>4
  <2>2. PICK l \in Nat : l = size[o] /\ l = size'[o]
    BY <1>1, <2>1 DEF FileSeen, Still
  <2>3. Contents(n) = [p \in 1 .. l |->
          IF InFlight(n, p - 1) THEN Torn ELSE StoredByte(o, p - 1)]
    BY <1>1, <2>1, <2>2 DEF FileSeen
  <2>4. Contents(n)' = [p \in 1 .. l |->
          IF InFlight(n, p - 1)' THEN Torn ELSE StoredByte(o, p - 1)']
    BY <1>1, <2>1, <2>2 DEF FileSeen
  <2>5. ASSUME NEW CONSTANT p \in 1 .. l
        PROVE  (IF InFlight(n, p - 1)' THEN Torn ELSE StoredByte(o, p - 1)')
                 = (IF InFlight(n, p - 1) THEN Torn ELSE StoredByte(o, p - 1))
    <3>1. PICK q \in Nat : q = p - 1 /\ q < size[o]
      BY <2>2
    <3>2. /\ mem'[blocks'[o][q \div FILE_BLOCK_SIZE + 1]]
               = mem[blocks[o][q \div FILE_BLOCK_SIZE + 1]]
      BY <2>1, <3>1, BytesKept
    <3>3. StoredByte(o, q)' = StoredByte(o, q)
      BY <3>2 DEF StoredByte
    <3> QED
      BY <3>1, <3>3
  <2> QED
    BY <2>3, <2>4, <2>5
<1> QED
  BY <1>3, <1>4

(* The writes of the other calls while a handler goes on. *)
LEMMA OthersSteady ==
  ASSUME ServerInv, NamesInv, CourseInv, NEW c \in Call, Step(c), ~ Crash,
         NEW CONSTANT d \in Call \ {c}
  PROVE  Steady(d)
<1>1. pc'[d] = pc[d] /\ req'[d] = req[d]
  BY StepIsLocal DEF OthersKept
<1>2. pc[d] = "transfer" => Still(req[d].name)
  BY TransferStill
<1>3. pc[d] = "transfer" => (Linked(req[d].name)' <=> Linked(req[d].name))
  BY <1>1, <1>2 DEF Still, Linked
<1> QED
  BY <1>1, <1>3 DEF Steady, Moving

(* A file that a step leaves as it was, while every write goes on or is on *)
(* another file.                                                           *)
LEMMA FileKept ==
  ASSUME ServerInv, SizeCovered, Seen, Seen', NEW CONSTANT n \in Name,
         Still(n), SameBytes(n),
         \A d \in Call : Steady(d) \/ (Elsewhere(d, n) /\ Elsewhere(d, n)')
  PROVE  Contents(n)' = Contents(n)
  BY FlightKept, ContentsKept

(* Steps that FileStore does not see. *)
LEMMA NothingSeen ==
  ASSUME ServerInv, SizeCovered, Seen, Seen', \A d \in Call : Steady(d),
         \A n \in Name : Still(n) /\ SameBytes(n)
  PROVE  StoreStep
<1>1. \A n \in Name : Contents(n)' = Contents(n)
  BY FileKept
<1>2. \A d \in Call : Writing(d)' = Writing(d)
  BY WritingKept
<1> QED
  BY <1>1, <1>2, StoreStays

(* The end of the metadata server. *)
LEMMA CrashIsLose ==
  ASSUME ServerInv, Seen', Crash
  PROVE  StoreStep
<1>1. ASSUME NEW CONSTANT n \in Name PROVE Contents(n)' = NoFile
  <2>1. children'[n] = NoInum
    BY DEF Crash
  <2>2. NoInum \notin Inum
    BY InodeCountAssumption DEF NoInum, Inum
  <2>3. (FileOf(n))' = NoObj
    BY <2>1, <2>2 DEF FileOf, GetInode, InTable
  <2>4. FileSeen(n)'
    BY DEF Seen
  <2> QED
    BY <2>3, <2>4, ObjAssumption DEF FileSeen
<1>2. ASSUME NEW CONSTANT c \in Call PROVE Writing(c)' = NoWrite
  <2>1. pc'[c] = "transfer" => pc[c] = "transfer" /\ req'[c] = req[c]
    BY DEF Crash
  <2>2. pc'[c] = "transfer" => ~ Linked(req[c].name)'
    BY <2>1, RequestType DEF Crash, Linked, NoInum
  <2>3. ~ Moving(c)'
    BY <2>1, <2>2 DEF Moving, Linked
  <2>4. WritingSeen(c)'
    BY DEF Seen
  <2> QED
    BY <2>3, <2>4 DEF WritingSeen
<1> QED
  BY <1>1, <1>2, StoreLoses

(* Nobody else writes to the file of a call that writes, or of any call    *)
(* while another one writes.                                               *)
LEMMA OthersElsewhere ==
  ASSUME CourseInv, NEW c \in Call, pc[c] # "idle", NEW d \in Call \ {c}
  PROVE  Elsewhere(d, req[c].name)
  BY DEF CourseInv, WritesAlone, Elsewhere, Moving

(* The answer of WriteFile begins a write of FileStore. *)
LEMMA WriteReplyBegins ==
  ASSUME OneBlockRequests, ServerInv, SizeCovered, NamesInv, CourseInv,
         Seen, Seen', NEW CONSTANT c \in Call, Step(c), ~ Crash, pc[c] # "transfer",
         pc'[c] = "transfer", req[c].op = "write", UNCHANGED mem
  PROVE  StoreStep
<1>0. pc[c] # "idle"
  BY StepIsLocal
<1>1. PICK o \in Obj : /\ o = FileOf(req[c].name) /\ o = inode[c]
                       /\ WriteReply(c)
                       /\ UNCHANGED <<children, table, blocks, req>>
  BY ReplyAnswers
<1>2. PICK n \in Name, off \in Nat, len \in Nat :
        n = req[c].name /\ off = req[c].off /\ len = req[c].len
  BY <1>0, RequestType
<1>3. PICK w : w = [name |-> n, off |-> off, len |-> len]
  OBVIOUS
<1>4. w.name = n /\ w.off = off /\ w.len = len
  BY <1>3
<1>5. size'[o] = off + len
  <2>1. /\ pc[c] \in HoldsPointer
        /\ Reply(c, ReplyIndices(req[c].off, req[c].len), req[c].off + req[c].len)
    BY <1>1 DEF WriteReply, At, HoldsPointer
  <2>2. size' = [size EXCEPT ![inode[c]] = req[c].off + req[c].len]
    BY <2>1, ReplyIsStill
  <2> QED
    BY <1>1, <1>2, <2>2 DEF ServerInv, FilesOK
<1>6. Linked(n) /\ (FileOf(n))' = o /\ FileOf(n) = o
  BY <1>1, <1>2, NamedFile DEF FileOf, GetInode, InTable
<1>7. ~ Moving(c) /\ Moving(c)'
  BY <1>1, <1>2, <1>6 DEF Moving, Linked
<1>8. \A d \in Call \ {c} : Steady(d)
  BY OthersSteady
<1>9. Writing(c) = NoWrite /\ Writing(c)' = w
  <2>1. WritingSeen(c) /\ WritingSeen(c)'
    BY DEF Seen
  <2>2. Writing(c)' = [name |-> req'[c].name, off |-> req'[c].off,
                       len |-> req'[c].len]
    BY <1>7, <2>1 DEF WritingSeen
  <2>3. Writing(c) = NoWrite
    BY <1>7, <2>1 DEF WritingSeen
  <2> QED
    BY <1>1, <1>2, <1>3, <2>2, <2>3
<1>10. \A d \in Call \ {c} : Writing(d)' = Writing(d)
  BY <1>8, WritingKept
<1>11. w \in Store!Write
  <2>1. req[c] \in Requests
    BY <1>0, RequestType
  <2>2. [off |-> off, len |-> len] \in
          {[off |-> r.off, len |-> r.len] : r \in {q \in Requests : q.op = "write"}}
    BY <1>2, <2>1
  <2>3. PICK e \in {[off |-> r.off, len |-> r.len] :
                      r \in {q \in Requests : q.op = "write"}} :
          e.off = off /\ e.len = len
    BY <2>2
  <2> QED
    BY <1>3, <2>3 DEF Store!Write
<1>12. ASSUME NEW CONSTANT m \in Name \ {n} PROVE Contents(m)' = Contents(m)
  <2>1. Still(m)
    BY <1>2, StepIsStill
  <2>2. SameBytes(m)
    BY DEF SameBytes
  <2>3. Elsewhere(c, m) /\ Elsewhere(c, m)'
    BY <1>1, <1>2 DEF Elsewhere
  <2> QED
    BY <1>8, <2>1, <2>2, <2>3, FileKept
<1>13. FileSeen(n) /\ FileSeen(n)'
  BY DEF Seen
<1>14. Contents(n) # NoFile /\ Len(Contents(n)') = off + len
  BY <1>5, <1>6, <1>13 DEF FileSeen
<1>15. ASSUME NEW CONSTANT p \in 1 .. off + len
       PROVE  /\ Store!Covers(w, p - 1) => Contents(n)'[p] = Torn
              /\ p <= off /\ p <= Len(Contents(n))
                   => Contents(n)'[p] = Contents(n)[p]
  <2>1. PICK q \in Nat : q = p - 1
    OBVIOUS
  <2>2. FlightSeen(n, q) /\ FlightSeen(n, q)'
    BY DEF Seen
  <2>3. \A d \in Call \ {c} : Elsewhere(d, n)
    BY <1>0, <1>2, OthersElsewhere
  <2>4. \A d \in Call \ {c} : Elsewhere(d, n)'
    BY <1>8, <2>3 DEF Steady, Elsewhere
  <2>5. ~ InFlight(n, q)
    BY <1>7, <2>2, <2>3 DEF FlightSeen, Elsewhere
  <2>6. InFlight(n, q)' <=> (off <= q /\ q < off + len)
    <3>1. (\E d \in Call : /\ Moving(d)' /\ req'[d].name = n
                           /\ req'[d].off <= q /\ q < req'[d].off + req'[d].len)
            <=> (off <= q /\ q < off + len)
      BY <1>1, <1>2, <1>7, <2>4 DEF Elsewhere
    <3> QED
      BY <2>2, <3>1 DEF FlightSeen
  <2>7. Contents(n)'[p] = IF InFlight(n, q)' THEN Torn ELSE StoredByte(o, q)'
    BY <1>5, <1>6, <1>13, <2>1 DEF FileSeen
  <2>8. Store!Covers(w, p - 1) => Contents(n)'[p] = Torn
    BY <1>4, <2>1, <2>6, <2>7 DEF Store!Covers
  <2>9. ASSUME p <= off /\ p <= Len(Contents(n))
        PROVE  Contents(n)'[p] = Contents(n)[p]
    <3>1. Contents(n)[p] = IF InFlight(n, q) THEN Torn ELSE StoredByte(o, q)
      BY <1>6, <1>13, <2>1, <2>9 DEF FileSeen
    <3>2. StoredByte(o, q)' = StoredByte(o, q)
      BY <1>1 DEF StoredByte
    <3> QED
      BY <2>1, <2>5, <2>6, <2>7, <2>9, <3>1, <3>2
  <2> QED
    BY <2>8, <2>9
<1> QED
  BY <1>4, <1>9, <1>10, <1>11, <1>12, <1>14, <1>15, StoreBegins

(* AddDentry creates the file, if its inode was to be had. *)
LEMMA LinkCreates ==
  ASSUME ServerInv, SizeCovered, NamesInv, CourseInv, Seen, Seen',
         NEW CONSTANT c \in Call, Link(c), \A d \in Call : Steady(d),
         UNCHANGED mem
  PROVE  StoreStep
<1>0. /\ pc[c] = "link" /\ UNCHANGED <<blocks, size, table>>
      /\ AddDentry(req[c].name, inum[c])
  BY DEF Link, At, inodeVars
<1>1. PICK n \in Name : n = req[c].name
  BY <1>0, RequestType
<1>2. \A m \in Name : SameBytes(m)
  BY DEF SameBytes
<1>3. \A m \in Name \ {n} : Contents(m)' = Contents(m)
  BY <1>1, <1>2, DirectoryIsStill, FileKept
<1>4. \A d \in Call : Writing(d)' = Writing(d)
  BY WritingKept
<1>5. CASE Linked(n)
  <2>1. UNCHANGED <<children, table, blocks, size>>
    BY <1>0, <1>1, <1>5 DEF AddDentry
  <2> QED
    BY <1>2, <2>1, StillFrame, NothingSeen
<1>6. CASE ~ Linked(n)
  <2>1. FileSeen(n) /\ FileSeen(n)'
    BY DEF Seen
  <2>2. FileOf(n) = NoObj /\ Contents(n) = NoFile
    BY <1>6, <2>1, FileOfType, ObjAssumption DEF FileSeen
  <2>3. children'[n] = inum[c]
    BY <1>0, <1>1, <1>6 DEF AddDentry, ServerInv, FilesOK
  <2>4. PICK o : o = GetInode(inum[c]) /\ (FileOf(n))' = o
    BY <1>0, <2>3 DEF FileOf, GetInode, InTable
  <2>5. CASE o \in Obj
    <3>1. inum[c] \in Inum
      BY <2>4, <2>5, ObjAssumption DEF GetInode, InTable
    <3>2. size'[o] = 0
      BY <1>0, <2>4, <3>1 DEF CourseInv, Course
    <3>3. Contents(n)' \in Seq(Byte \cup {Torn}) /\ Len(Contents(n)') = 0
      BY <2>1, <2>4, <2>5, <3>2 DEF FileSeen
    <3>4. Contents(n)' = << >>
      BY <3>3
    <3> QED
      BY <1>3, <1>4, <2>2, <3>4, StoreCreates
  <2>6. CASE o \notin Obj
    <3>1. Contents(n)' = NoFile
      BY <2>1, <2>4, <2>6 DEF FileSeen
    <3> QED
      BY <1>3, <1>4, <2>2, <3>1, StoreStays
  <2> QED
    BY <2>5, <2>6
<1> QED
  BY <1>5, <1>6

(* DeleteDentry removes it. *)
LEMMA UnlinkRemoves ==
  ASSUME ServerInv, SizeCovered, NamesInv, CourseInv, Seen, Seen',
         NEW CONSTANT c \in Call, Unlink(c), \A d \in Call : Steady(d),
         UNCHANGED mem
  PROVE  StoreStep
<1>0. /\ pc[c] = "unlink" /\ UNCHANGED <<blocks, size, table>>
      /\ DeleteDentry(req[c].name)
  BY DEF Unlink, At, inodeVars
<1>1. PICK n \in Name : n = req[c].name
  BY <1>0, RequestType
<1>2. \A m \in Name : SameBytes(m)
  BY DEF SameBytes
<1>3. \A m \in Name \ {n} : Contents(m)' = Contents(m)
  BY <1>1, <1>2, DirectoryIsStill, FileKept
<1>4. \A d \in Call : Writing(d)' = Writing(d)
  BY WritingKept
<1>5. FileSeen(n) /\ FileSeen(n)'
  BY DEF Seen
<1>6. Contents(n)' = NoFile
  <2>1. children'[n] = NoInum
    BY <1>0, <1>1 DEF DeleteDentry, ServerInv, FilesOK
  <2>2. NoInum \notin Inum
    BY InodeCountAssumption DEF NoInum, Inum
  <2>3. (FileOf(n))' = NoObj
    BY <2>1, <2>2 DEF FileOf, GetInode, InTable
  <2> QED
    BY <1>5, <2>3, ObjAssumption DEF FileSeen
<1>7. CASE Contents(n) = NoFile
  BY <1>3, <1>4, <1>6, <1>7, StoreStays
<1>8. CASE Contents(n) # NoFile
  <2>1. ASSUME NEW CONSTANT d \in Call
        PROVE  Writing(d) = NoWrite \/ Writing(d).name # n
    <3>1. WritingSeen(d)
      BY DEF Seen
    <3>2. Elsewhere(d, n)
      BY <1>0, <1>1, OthersElsewhere DEF Elsewhere, Moving
    <3>3. CASE Moving(d)
      BY <3>1, <3>2, <3>3 DEF WritingSeen, Elsewhere
    <3>4. CASE ~ Moving(d)
      BY <3>1, <3>4 DEF WritingSeen
    <3> QED
      BY <3>3, <3>4
  <2> QED
    BY <1>3, <1>4, <1>6, <1>8, <2>1, StoreRemoves
<1> QED
  BY <1>7, <1>8

(* A step of a handler. *)
LEMMA HandlerIsStoreStep ==
  ASSUME OneBlockRequests, ServerInv, SizeCovered, NamesInv, CourseInv,
         Seen, Seen', NEW CONSTANT c \in Call, AtomicHandler(c)
  PROVE  StoreStep
<1>1. Step(c) /\ UNCHANGED mem /\ pc[c] # "transfer"
  BY DEF AtomicHandler
<1>2. CASE Crash
  BY <1>2, CrashIsLose
<1>3. CASE ~ Crash
  <2>1. \A n \in Name : SameBytes(n)
    BY <1>1 DEF SameBytes
  <2>2. \A d \in Call \ {c} : Steady(d)
    BY <1>1, <1>3, OthersSteady
  <2>3. CASE pc'[c] = "transfer" /\ req[c].op = "write"
    BY <1>1, <1>3, <2>3, WriteReplyBegins
  <2>4. CASE ~ (pc'[c] = "transfer" /\ req[c].op = "write")
    <3>1. Steady(c)
      <4>1. ~ Moving(c)
        BY <1>1 DEF Moving
      <4>2. pc'[c] = "transfer" => req'[c] = req[c]
        BY <1>1, <1>3, StepIsLocal
      <4> QED
        BY <2>4, <4>1, <4>2 DEF Steady, Moving
    <3>2. \A d \in Call : Steady(d)
      BY <2>2, <3>1
    <3>3. ~ WriteReply(c)
      <4> SUFFICES ASSUME WriteReply(c) PROVE FALSE
        OBVIOUS
      <4>1. req[c].op = "write"
        BY DEF WriteReply, At, CourseInv, Course
      <4>2. pc'[c] = "transfer"
        BY <1>3 DEF WriteReply, Reply, Goto, ServerInv, CallsOK
      <4> QED
        BY <2>4, <4>1, <4>2
    <3>4. CASE Link(c)
      BY <1>1, <3>2, <3>4, LinkCreates
    <3>5. CASE Unlink(c)
      BY <1>1, <3>2, <3>5, UnlinkRemoves
    <3>6. CASE ~ Link(c) /\ ~ Unlink(c)
      <4>1. \A n \in Name : Still(n)
        BY <1>1, <1>3, <3>3, <3>6, StepIsStill
      <4> QED
        BY <2>1, <3>2, <4>1, NothingSeen
    <3> QED
      BY <3>4, <3>5, <3>6
  <2> QED
    BY <2>3, <2>4
<1> QED
  BY <1>2, <1>3

(* Client::write returns: its bytes are those of the buffer. *)
LEMMA ReturnEnds ==
  ASSUME ServerInv, SizeCovered, NamesInv, CourseInv, DataInv, Seen, Seen',
         NEW CONSTANT c \in Call, AtomicReturn(c)
  PROVE  StoreStep
<1>1. /\ Step(c) /\ pc[c] = "transfer" /\ pc'[c] = "idle" /\ Left[c] = << >>
      /\ UNCHANGED <<mem, children, table, blocks, size>>
  BY DEF AtomicReturn, Step, Transfer, Return, Goto, ServerInv, CallsOK,
     fileVars, inodeVars
<1>2. ~ Crash
  BY <1>1 DEF Crash
<1>3. \A d \in Call \ {c} : Steady(d)
  BY <1>1, <1>2, OthersSteady
<1>4. \A n \in Name : Still(n) /\ SameBytes(n)
  BY <1>1, StillFrame DEF SameBytes
<1>5. ~ Moving(c)'
  BY <1>1 DEF Moving
<1>6. CASE ~ Moving(c)
  BY <1>3, <1>4, <1>5, <1>6, NothingSeen DEF Steady
<1>7. CASE Moving(c)
  <2>1. PICK n \in Name, off \in Nat, len \in Nat :
          n = req[c].name /\ off = req[c].off /\ len = req[c].len
    BY <1>1, RequestType
  <2>2. WritingSeen(c) /\ WritingSeen(c)'
    BY DEF Seen
  <2>3. PICK w : w = Writing(c) /\ w # NoWrite /\ Writing(c)' = NoWrite
                 /\ w = [name |-> n, off |-> off, len |-> len]
    BY <1>5, <1>7, <2>1, <2>2 DEF WritingSeen
  <2>4. w.name = n /\ w.off = off /\ w.len = len
    BY <2>3
  <2>5. \A d \in Call \ {c} : Writing(d)' = Writing(d)
    BY <1>3, WritingKept
  <2>6. ASSUME NEW CONSTANT m \in Name \ {n} PROVE Contents(m)' = Contents(m)
    <3>1. Elsewhere(c, m) /\ Elsewhere(c, m)'
      BY <1>5, <2>1 DEF Elsewhere
    <3> QED
      BY <1>3, <1>4, <3>1, FileKept
  <2>7. PICK o \in Obj : /\ o = FileOf(n) /\ (FileOf(n))' = o
                         /\ Agrees(c, o)
    <3>1. FileOf(n) \in Obj /\ Agrees(c, FileOf(n))
      BY <1>7, <2>1 DEF DataInv, Moved, Moving
    <3> QED
      BY <1>1, <3>1 DEF FileOf, GetInode, InTable
  <2>8. FileSeen(n) /\ FileSeen(n)'
    BY DEF Seen
  <2>9. PICK l \in Nat : l = size[o] /\ l = size'[o]
    BY <1>1, <2>7, <2>8 DEF FileSeen
  <2>10. Got[c] = [p \in 1 .. len |-> <<c, p - 1>>] /\ Len(Got[c]) = len
    <3>1. Got[c] = [p \in 1 .. len |-> <<c, p - 1>>]
      BY <1>1, <1>7, <2>1 DEF DataInv, Sent, Moving
    <3> QED
      BY <3>1
  <2>11. ASSUME NEW CONSTANT p \in 1 .. l
         PROVE  Contents(n)'[p] = IF Store!Covers(w, p - 1)
                                  THEN <<c, p - 1 - w.off>> ELSE Contents(n)[p]
    <3>1. PICK q \in Nat : q = p - 1
      OBVIOUS
    <3>2. FlightSeen(n, q) /\ FlightSeen(n, q)'
      BY DEF Seen
    <3>3. \A d \in Call \ {c} : Elsewhere(d, n)
      BY <1>1, <2>1, OthersElsewhere
    <3>4. \A d \in Call \ {c} : Elsewhere(d, n)'
      BY <1>3, <3>3 DEF Steady, Elsewhere
    <3>5. InFlight(n, q) <=> (off <= q /\ q < off + len)
      BY <1>7, <2>1, <3>2, <3>3 DEF FlightSeen, Elsewhere
    <3>6. ~ InFlight(n, q)'
      <4>1. ~ \E d \in Call : Moving(d)' /\ req'[d].name = n
        BY <1>5, <3>4 DEF Elsewhere
      <4> QED
        BY <3>2, <4>1 DEF FlightSeen
    <3>7. StoredByte(o, q)' = StoredByte(o, q)
      BY <1>1 DEF StoredByte
    <3>8. /\ Contents(n)'[p] = StoredByte(o, q)
          /\ Contents(n)[p] = IF InFlight(n, q) THEN Torn ELSE StoredByte(o, q)
      BY <2>7, <2>8, <2>9, <3>1, <3>6, <3>7 DEF FileSeen
    <3>9. CASE off <= q /\ q < off + len
      <4>1. PICK k \in 1 .. len : k = p - off /\ k - 1 = p - 1 - w.off /\ off + k - 1 = q
        BY <2>4, <3>1, <3>9
      <4>2. Got[c][k] = StoredByte(o, off + k - 1)
        BY <1>1, <2>1, <2>7, <2>10, <4>1 DEF Agrees
      <4>3. Got[c][k] = <<c, k - 1>>
        BY <2>10, <4>1
      <4>4. Store!Covers(w, p - 1)
        BY <2>4, <3>1, <3>9 DEF Store!Covers
      <4> QED
        BY <3>8, <4>1, <4>2, <4>3, <4>4
    <3>10. CASE ~ (off <= q /\ q < off + len)
      <4>1. ~ Store!Covers(w, p - 1)
        BY <2>4, <3>1, <3>10 DEF Store!Covers
      <4> QED
        BY <3>5, <3>8, <3>10, <4>1
    <3> QED
      BY <3>9, <3>10
  <2>12. /\ DOMAIN Contents(n) = 1 .. l
         /\ Contents(n)' = [p \in 1 .. l |-> Contents(n)'[p]]
    BY <2>7, <2>8, <2>9 DEF FileSeen
  <2>13. Contents(n)' = [p \in DOMAIN Contents(n) |->
           IF Store!Covers(w, p - 1) THEN <<c, p - 1 - w.off>>
           ELSE Contents(n)[p]]
    BY <2>11, <2>12
  <2> QED
    BY <2>3, <2>4, <2>5, <2>6, <2>13, StoreEnds
<1> QED
  BY <1>6, <1>7

(* The other steps of the servers. *)
LEMMA ServersAreStoreSteps ==
  ASSUME ServerInv, SizeCovered, Seen, Seen', AtomicServers
  PROVE  StoreStep
<1>0. \A n \in Name : SameBytes(n)
  BY DEF AtomicServers, seenVars, SameBytes
<1>1. ASSUME UNCHANGED <<children, table, blocks, size>>,
             \A d \in Call :
               \/ pc'[d] = pc[d] /\ req'[d] = req[d]
               \/ pc[d] # "transfer" /\ pc'[d] # "transfer"
      PROVE  StoreStep
  <2>1. \A d \in Call : Steady(d)
    BY <1>1 DEF Steady, Moving, Linked
  <2> QED
    BY <1>0, <1>1, <2>1, StillFrame, NothingSeen
<1>2. CASE Kill
  BY <1>2, CrashIsLose DEF Kill
<1>3. ASSUME NEW c \in Call, NEW r \in Requests, Begin(c, r) PROVE StoreStep
  <2>1. UNCHANGED <<children, table, blocks, size>>
    BY <1>3 DEF Begin, fileVars, inodeVars
  <2>2. /\ pc[c] # "transfer" /\ pc'[c] # "transfer"
        /\ \A d \in Call \ {c} : pc'[d] = pc[d] /\ req'[d] = req[d]
    BY <1>3 DEF Begin, At, Goto, EntryPoint, ServerInv, CallsOK
  <2> QED
    BY <1>1, <2>1, <2>2
<1>4. ASSUME NEW s \in Server, NEW r \in Regions, RegisterMemoryRegion(s, r)
      PROVE  StoreStep
  BY <1>1, <1>4 DEF RegisterMemoryRegion, inodeVars, callVars
<1>5. CASE RunServer
  BY <1>1, <1>5 DEF RunServer, inodeVars, callVars
<1> QED
  BY <1>2, <1>3, <1>4, <1>5 DEF AtomicServers

(* A position in the block of an offset, before or after a request that    *)
(* lies in that block.                                                     *)
LEMMA ByteOutside ==
  ASSUME NEW off \in Nat, NEW len \in Nat, NEW q \in Nat,
         q \div FILE_BLOCK_SIZE = off \div FILE_BLOCK_SIZE,
         ~ (off <= q /\ q < off + len)
  PROVE  \/ (q % FILE_BLOCK_SIZE) + 1 <= InnerOffset(off)
         \/ (q % FILE_BLOCK_SIZE) + 1 > InnerOffset(off) + len
<1>1. PICK B \in Nat \ {0} : B = FILE_BLOCK_SIZE
  BY PlanBlockSizeAssumption
<1>2. PICK k \in Nat, i \in Nat, j \in Nat :
        /\ k = off \div B /\ i = off % B /\ j = q % B
        /\ off = B * k + i /\ q = B * k + j
  BY <1>1
<1>3. PICK m \in Nat : m = B * k
  BY <1>1, <1>2
<1>4. off = m + i /\ q = m + j
  BY <1>2, <1>3
<1>5. j + 1 <= i \/ j + 1 > i + len
  BY <1>4
<1> QED
  BY <1>1, <1>2, <1>5 DEF InnerOffset

(* RemoteWrite touches no byte of the file but those that are torn. *)
LEMMA WriteMovesTorn ==
  ASSUME ServerInv, SizeCovered, NamesInv, BlocksInv, CourseInv, ReliableOnly,
         DataInv, Seen, NEW c \in Call, AtomicMove(c), Moving(c),
         NEW o \in Obj, o = FileOf(req[c].name),
         NEW q \in Nat, q < size[o], ~ InFlight(req[c].name, q)
  PROVE  StoredByte(o, q)' = StoredByte(o, q)
<1>1. PICK a \in hand[c] : MoveDone(c, a)
  BY MoveBytes
<1>2. PICK n \in Name, off \in Nat, len \in Nat :
        n = req[c].name /\ off = req[c].off /\ len = req[c].len
  BY RequestType DEF Moving
<1>3. ~ (off <= q /\ q < off + len)
  BY <1>2 DEF Seen, FlightSeen
<1>4. Agrees(c, o) /\ Len(Got[c]) = len
  <2>1. Got[c] = [p \in 1 .. len |-> <<c, p - 1>>]
    BY <1>2 DEF DataInv, Sent, Moving
  <2>2. Len(Got[c]) = len
    BY <2>1
  <2> QED
    BY <2>2 DEF DataInv, Moved, Moving
<1>5. /\ IndexOf(c) \in DOMAIN blocks[o] /\ a = blocks[o][IndexOf(c)]
  <2>1. Left[c] = << PieceAt(c, a) >>
    BY <1>1 DEF MoveDone
  <2>2. /\ IndexOf(c) \in DOMAIN blocks[o]
        /\ Left[c] = << PieceAt(c, blocks[o][IndexOf(c)]) >>
    BY <1>4, <2>1 DEF Agrees
  <2>3. PieceAt(c, a) = PieceAt(c, blocks[o][IndexOf(c)])
    BY <2>1, <2>2
  <2> QED
    BY <2>2, <2>3 DEF PieceAt
<1>6. PICK k \in DOMAIN blocks[o], i \in 1 .. FILE_BLOCK_SIZE :
        k = q \div FILE_BLOCK_SIZE + 1 /\ i = (q % FILE_BLOCK_SIZE) + 1
  BY ByteInBlocks
<1>7. blocks' = blocks
  BY DEF AtomicMove, vars, fileVars
<1>8. blocks[o][k] \in BlockAddr
  <2>1. blocks[o] \in Seq(BlockAddr)
    BY DEF ServerInv, FilesOK
  <2> QED
    BY <2>1
<1>9. mem'[blocks[o][k]][i] = mem[blocks[o][k]][i]
  <2>1. CASE blocks[o][k] # a
    BY <1>1, <1>8, <2>1 DEF MoveDone, Moving
  <2>2. CASE blocks[o][k] = a
    <3>1. k = IndexOf(c)
      BY <1>2, <1>5, <2>2, OnePlace
    <3>2. q \div FILE_BLOCK_SIZE = off \div FILE_BLOCK_SIZE
      <4>1. PICK x \in Int, y \in Int :
              x = q \div FILE_BLOCK_SIZE /\ y = off \div FILE_BLOCK_SIZE
        BY PlanBlockSizeAssumption
      <4>2. x + 1 = y + 1
        BY <1>2, <1>6, <3>1, <4>1 DEF IndexOf
      <4> QED
        BY <4>1, <4>2
    <3>3. i <= InnerOffset(off) \/ i > InnerOffset(off) + len
      BY <1>3, <1>6, <3>2, ByteOutside
    <3>4. mem'[a][i] = mem[a][i]
      BY <1>1, <1>2, <1>4, <3>3 DEF MoveDone
    <3> QED
      BY <2>2, <3>4
  <2> QED
    BY <2>1, <2>2
<1> QED
  BY <1>6, <1>7, <1>9 DEF StoredByte

(* FileStore does not see the bytes move. *)
LEMMA MoveUnseen ==
  ASSUME ServerInv, SizeCovered, NamesInv, BlocksInv, CourseInv, ReliableOnly,
         DataInv, Seen, Seen', NEW CONSTANT c \in Call, AtomicMove(c)
  PROVE  StoreStep
<1>1. UNCHANGED <<children, table, blocks, size, pc, req>>
  BY DEF AtomicMove, vars, fileVars, inodeVars, callVars
<1>2. \A d \in Call : Steady(d)
  BY <1>1 DEF Steady, Moving, Linked
<1>3. \A m \in Name : Still(m)
  BY <1>1, StillFrame
<1>4. PICK a \in hand[c] : MoveDone(c, a)
  BY MoveBytes
<1>5. pc[c] = "transfer" /\ req[c].op \in {"read", "write"} /\ a \in BlockAddr
  BY <1>4 DEF MoveDone
<1>6. PICK n \in Name : n = req[c].name
  BY <1>5, RequestType
<1>7. ASSUME NEW m \in Name, FileOf(m) \in Obj, m # n \/ req[c].op = "read"
      PROVE  SameBytes(m)
  <2> SUFFICES ASSUME NEW k \in DOMAIN blocks[FileOf(m)]
               PROVE  mem'[blocks[FileOf(m)][k]] = mem[blocks[FileOf(m)][k]]
    BY DEF SameBytes
  <2>1. blocks[FileOf(m)] \in Seq(BlockAddr)
    BY <1>7 DEF ServerInv, FilesOK
  <2>2. blocks[FileOf(m)][k] \in BlockAddr
    BY <2>1
  <2>3. req[c].op = "read" \/ blocks[FileOf(m)][k] # a
    BY <1>5, <1>6, <1>7, ForeignBlocks
  <2> QED
    BY <1>4, <2>2, <2>3 DEF MoveDone
<1>8. ASSUME NEW CONSTANT m \in Name PROVE Contents(m)' = Contents(m)
  <2>1. CASE FileOf(m) \notin Obj \/ m # n \/ req[c].op = "read"
    <3>1. SameBytes(m)
      BY <1>7, <2>1 DEF SameBytes
    <3> QED
      BY <1>2, <1>3, <3>1, FileKept
  <2>2. CASE FileOf(m) \in Obj /\ m = n /\ req[c].op = "write"
    <3>1. PICK o \in Obj : o = FileOf(n) /\ (FileOf(n))' = o
      BY <1>1, <2>2 DEF FileOf, GetInode, InTable
    <3>2. Moving(c)
      BY <1>5, <1>6, <2>2, NamedFile DEF Moving
    <3>3. FileSeen(n) /\ FileSeen(n)'
      BY DEF Seen
    <3>4. PICK l \in Nat : l = size[o] /\ l = size'[o]
      BY <1>1, <3>1, <3>3 DEF FileSeen
    <3>5. /\ Contents(n) = [p \in 1 .. l |->
               IF InFlight(n, p - 1) THEN Torn ELSE StoredByte(o, p - 1)]
          /\ Contents(n)' = [p \in 1 .. l |->
               IF InFlight(n, p - 1)' THEN Torn ELSE StoredByte(o, p - 1)']
      BY <3>1, <3>3, <3>4 DEF FileSeen
    <3>6. ASSUME NEW CONSTANT p \in 1 .. l
          PROVE  (IF InFlight(n, p - 1)' THEN Torn ELSE StoredByte(o, p - 1)')
                   = (IF InFlight(n, p - 1) THEN Torn ELSE StoredByte(o, p - 1))
      <4>1. PICK q \in Nat : q = p - 1 /\ q < size[o]
        BY <3>4
      <4>2. InFlight(n, q)' <=> InFlight(n, q)
        BY <1>2, FlightKept
      <4>3. ~ InFlight(n, q) => StoredByte(o, q)' = StoredByte(o, q)
        BY <1>6, <3>1, <3>2, <4>1, WriteMovesTorn
      <4> QED
        BY <4>1, <4>2, <4>3
    <3>7. Contents(n)' = Contents(n)
      BY <3>5, <3>6
    <3> QED
      BY <2>2, <3>7
  <2> QED
    BY <1>5, <2>1, <2>2
<1> QED
  BY <1>2, <1>8, WritingKept, StoreStays

-----------------------------------------------------------------------------
(* The theorems *)

(* Every step of the system is one of FileStore or none. *)
LEMMA StepsAreStoreSteps ==
  ASSUME OneBlockRequests, EmptyRequestsFit
  PROVE  ClientInv /\ ClientInv' /\ ReliableOnly /\ [AtomicNext]_<<vars, seenVars>>
           => StoreStep
<1> SUFFICES ASSUME ClientInv, ClientInv', ReliableOnly,
                    [AtomicNext]_<<vars, seenVars>>
             PROVE  StoreStep
  OBVIOUS
<1>1. /\ ServerInv /\ SizeCovered /\ NamesInv
      /\ BlocksInv /\ CourseInv /\ DataInv
  BY DEF ClientInv, GrowthInv, Covered, SizeCovered
<1>2. Seen
  BY ClientSeen
<1>3. Seen'
  BY ClientSeen, PTL
<1>4. CASE UNCHANGED <<vars, seenVars>>
  <2>1. UNCHANGED <<mem, children, table, blocks, size, pc, req>>
    BY <1>4 DEF seenVars, vars, fileVars, inodeVars, callVars
  <2>2. \A d \in Call : Steady(d)
    BY <2>1 DEF Steady, Moving, Linked
  <2>3. \A n \in Name : Still(n) /\ SameBytes(n)
    BY <2>1, StillFrame DEF SameBytes
  <2> QED
    BY <1>1, <1>2, <1>3, <2>2, <2>3, NothingSeen
<1>5. ASSUME NEW c \in Call, AtomicHandler(c) PROVE StoreStep
  BY <1>1, <1>2, <1>3, <1>5, HandlerIsStoreStep
<1>6. ASSUME NEW c \in Call, AtomicMove(c) PROVE StoreStep
  BY <1>1, <1>2, <1>3, <1>6, MoveUnseen
<1>7. ASSUME NEW c \in Call, AtomicReturn(c) PROVE StoreStep
  BY <1>1, <1>2, <1>3, <1>7, ReturnEnds
<1>8. CASE AtomicServers
  BY <1>1, <1>2, <1>3, <1>8, ServersAreStoreSteps
<1> QED
  BY <1>4, <1>5, <1>6, <1>7, <1>8 DEF AtomicNext

(* There is no file and no write at first. *)
LEMMA StoreStart ==
  ASSUME EmptyRequestsFit PROVE SpongeInit => Store!Init
<1> SUFFICES ASSUME SpongeInit PROVE Store!Init
  OBVIOUS
<1>1. Seen
  BY ClientStart, ClientSeen
<1>2. ASSUME NEW n \in Name PROVE Contents(n) = NoFile
  <2>1. ~ Linked(n)
    BY DEF SpongeInit, Init, Linked
  <2>2. FileOf(n) = NoObj
    BY <2>1, ClientStart, FileOfType DEF ClientInv
  <2> QED
    BY <1>1, <2>2, ObjAssumption DEF Seen, FileSeen
<1>3. ASSUME NEW c \in Call PROVE Writing(c) = NoWrite
  BY DEF SpongeInit, Init, Writing
<1> QED
  BY <1>2, <1>3 DEF Store!Init

(* Metadata server, allocators, storage servers, network cards and clients *)
(* together are a FileStore, for any number of names, calls, sockets,      *)
(* servers and blocks: as long as no pool is overdrawn or set up anew      *)
(* under its blocks, no queue pair has failed, no two threads of one       *)
(* Client are in RemoteRead or RemoteWrite together, clients do not write  *)
(* a file that others use, requests stay within a block, and an empty one  *)
(* does not lie so far out that int new_blocks_num wraps.                  *)
THEOREM ClientImplementsStore ==
  ASSUME OneBlockRequests, EmptyRequestsFit, Exclusion \in {"calls", "files"}
  PROVE  SpongeSpec /\ []ReliableOnly => StoreSpec
<1>1. StoreStep <=> [Store!Next]_<<[n \in Name |-> Contents(n)],
                                   [c \in Call |-> Writing(c)]>>
  BY DEF StoreStep, StoreVars
<1>2. ASSUME ClientInv, ClientInv', ReliableOnly, ReliableOnly',
             [SpongeNext]_<<vars, dataVars>>
      PROVE  StoreStep
  BY <1>2, ClientStep, StepsAreStoreSteps
<1> QED
  BY <1>1, <1>2, ClientHolds, StoreStart, PTL
     DEF SpongeSpec, StoreSpec, Store!Spec

(* Client::read returns: its buffer is the file from the offset on. *)
LEMMA ReturnedBytes ==
  ASSUME ServerInv, CourseInv, DataInv, Seen, NEW c \in Call, Left[c] = << >>,
         pc[c] = "transfer", req[c].op = "read", Linked(req[c].name)
  PROVE  Got[c] = SubSeq(Contents(req[c].name), req[c].off + 1,
                         Least(req[c].off + req[c].len,
                               Len(Contents(req[c].name))))
<1>1. PICK n \in Name, off \in Nat, len \in Nat :
        n = req[c].name /\ off = req[c].off /\ len = req[c].len
  BY RequestType
<1>2. PICK o \in Obj : o = FileOf(n) /\ Agrees(c, o)
  BY <1>1 DEF DataInv, Moved
<1>3. PICK l \in Nat : l = size[o]
  BY DEF ServerInv, FilesOK
<1>4. PICK k \in Nat : /\ k = Len(Got[c]) /\ DOMAIN Got[c] = 1 .. k
                       /\ Got[c] = [i \in 1 .. k |-> Got[c][i]]
  <2>1. PICK b \in Seq(Byte) : b = Got[c]
    BY DEF DataInv, Sent
  <2>2. PICK k \in Nat : k = Len(b) /\ b \in [1 .. k -> Byte]
    <3>1. Len(b) \in Nat /\ b \in [1 .. Len(b) -> Byte]
      OBVIOUS
    <3> QED
      BY <3>1
  <2>3. DOMAIN b = 1 .. k /\ b = [i \in 1 .. k |-> b[i]]
    BY <2>2
  <2> QED
    BY <2>1, <2>2, <2>3
<1>5. off + k = Least(off + len, l)
  BY <1>1, <1>2, <1>3, <1>4 DEF Agrees
<1>6. FileSeen(n)
  BY DEF Seen
<1>7. PICK f \in Seq(Byte \cup {Torn}) : f = Contents(n) /\ Len(f) = l
  BY <1>2, <1>3, <1>6 DEF FileSeen
<1>8. off + k <= l
  BY <1>5 DEF Least
<1>9. ASSUME NEW i \in 1 .. k PROVE Got[c][i] = f[off + i]
  <2>1. PICK q \in Nat : q = off + i - 1
    OBVIOUS
  <2>2. ~ InFlight(n, q)
    <3>1. \A d \in Call : Elsewhere(d, n)
      BY <1>1, OthersElsewhere DEF Elsewhere, Moving
    <3> QED
      BY <3>1 DEF Seen, FlightSeen, Elsewhere
  <2>3. Got[c][i] = StoredByte(o, q)
    BY <1>1, <1>2, <1>4, <2>1 DEF Agrees
  <2>4. PICK p \in 1 .. l : p = off + i /\ p - 1 = q
    BY <1>8, <2>1
  <2>5. f[p] = StoredByte(o, q)
    BY <1>2, <1>3, <1>6, <1>7, <2>2, <2>4 DEF FileSeen
  <2> QED
    BY <2>3, <2>4, <2>5
<1>10. SubSeq(f, off + 1, off + k) = [i \in 1 .. k |-> f[off + i]]
  BY <1>7, <1>8
<1> QED
  BY <1>1, <1>4, <1>5, <1>7, <1>9, <1>10

(* A read is over when its client returns, and by no other step. *)
LEMMA ReturnsOnly ==
  ASSUME ServerInv, [SpongeNext]_<<vars, dataVars>>, NEW c \in Call,
         pc[c] = "transfer", pc'[c] = "idle"
  PROVE  ClientReturn(c)
<1>1. ASSUME NEW d \in Call, HandlerStep(d) PROVE FALSE
  <2>1. pc[d] # "transfer" /\ Step(d)
    BY <1>1 DEF HandlerStep
  <2>2. ~ Crash
    BY DEF Crash
  <2> QED
    BY <2>1, <2>2, StepIsLocal DEF OthersKept
<1>2. ASSUME \/ \E d \in Call : MovePiece(d)
             \/ \E k \in Socket, s \in Server : Carry(k, s) \/ CarryFails(k, s)
             \/ UNCHANGED <<vars, dataVars>>
      PROVE  FALSE
  <2>1. UNCHANGED vars
    BY <1>2 DEF MovePiece, SkipPiece, CopyIn, Post, PostFails, Poll, CopyOut,
       Carry, CarryFails, Complete
  <2> QED
    BY <2>1 DEF vars, callVars
<1>3. ASSUME NEW d \in Call, ClientReturn(d) PROVE ClientReturn(c)
  <2>1. d = c
    BY <1>3 DEF ClientReturn, Transfer, Return, Goto, ServerInv, CallsOK
  <2> QED
    BY <1>3, <2>1
<1>4. CASE ServersStep
  BY <1>4 DEF ServersStep, Begin, At, Goto, Kill, Crash, RunServer,
     RegisterMemoryRegion, callVars, ServerInv, CallsOK
<1> QED
  BY <1>1, <1>2, <1>3, <1>4 DEF SpongeNext

(* What Client::read leaves in the buffer is the file, for any number of   *)
(* names, calls, sockets, servers and blocks and under the same            *)
(* conditions.                                                             *)
THEOREM ReadsReturnTheFile ==
  ASSUME OneBlockRequests, EmptyRequestsFit, Exclusion \in {"calls", "files"}
  PROVE  SpongeSpec /\ []ReliableOnly => ReadReturnsFile
<1>1. ASSUME ClientInv, ReliableOnly, ReliableOnly',
             [SpongeNext]_<<vars, dataVars>>
      PROVE  [\A c \in Call :
                pc[c] = "transfer" /\ Is(c, "read") /\ Linked(req[c].name)
                  /\ pc'[c] = "idle"
                => buf[c] = SubSeq(Contents(req[c].name), req[c].off + 1,
                                   Least(req[c].off + req[c].len,
                                         Len(Contents(req[c].name))))]_vars
  <2> SUFFICES ASSUME NEW c \in Call, pc[c] = "transfer", Is(c, "read"),
                      Linked(req[c].name), pc'[c] = "idle"
               PROVE  buf[c] = SubSeq(Contents(req[c].name), req[c].off + 1,
                                      Least(req[c].off + req[c].len,
                                            Len(Contents(req[c].name))))
    OBVIOUS
  <2>1. ServerInv /\ CourseInv /\ DataInv /\ SocketInv /\ Seen
    BY <1>1, ClientSeen DEF ClientInv
  <2>2. todo[c] = << >>
    BY <1>1, <2>1, ReturnsOnly DEF ClientReturn
  <2>3. Left[c] = << >> /\ Got[c] = buf[c]
    BY <2>1, <2>2, OutsideIsReady
  <2> QED
    BY <2>1, <2>3, ReturnedBytes DEF Is
<1> QED
  BY <1>1, ClientHolds, PTL DEF SpongeSpec, ReadReturnsFile

=============================================================================
