-------------------------- MODULE MetaServerProofs --------------------------
(***************************************************************************)
(* The metadata server, for every number of files, inodes, blocks, storage *)
(* servers and callers, and whatever requests overlap.                     *)
(***************************************************************************)
EXTENDS MetaServer, IdTableProofs, BlockPlanProofs

(* The part of the state that is about files; only number 0 leads to the   *)
(* root directory.                                                         *)
FilesOK ==
  /\ up \in BOOLEAN
  /\ children \in [Name -> DentryInum \cup {NoInum}]
  /\ blocks \in [Obj -> Seq(BlockAddr)]
  /\ size \in [Obj -> Nat]
  /\ stale \subseteq Server
  /\ \A i \in Inum \ {ROOT_INUM} : table[i] # RootObj

(* The part that is about calls: a handler has a request, and the pointer  *)
(* to an inode where it needs one.                                         *)
CallsOK ==
  /\ pc \in [Call -> PCs]
  /\ req \in [Call -> Requests \cup {NoReq}]
  /\ inum \in [Call -> DentryInum \cup {NoInum}]
  /\ inode \in [Call -> Obj \cup {NoObj}]
  /\ need \in [Call -> Nat]
  /\ swept \in [Call -> SUBSET Server]
  /\ listing \in [Call -> SUBSET DentryInum]
  /\ hand \in [Call -> SUBSET BlockAddr]
  /\ \A c \in Call : pc[c] # "idle" => req[c] \in Requests
  /\ \A c \in Call : pc[c] \in {"reply", "clamp", "count", "grow", "append"} =>
       inode[c] \in Obj
  /\ \A c \in Call : pc[c] = "append" =>
       need[c] > 0 /\ \E a \in BlockAddr : hand[c] = {a}

ServerInv == FdInv /\ InodeInv /\ SpaceTypeOK /\ FilesOK /\ CallsOK

-----------------------------------------------------------------------------
(* The block allocators stay well formed. *)

(* uint64_t arithmetic stays in range. *)
LEMMA WrapType == \A n \in Int : Wrap(n) \in 0 .. Word - 1
  BY WordAssumption DEF Wrap

(* SpaceManager's constructor makes a well-formed pool. *)
LEMMA ConstructType ==
  ASSUME SpaceTypeOK, NEW s \in Server, NEW a \in Nat, NEW l \in Nat,
         Construct(s, a, l)
  PROVE  SpaceTypeOK' /\ pool'[s] \in Pool
<1>1. TotalBlocks(a, l) \in Nat
  <2>1. AlignedStart(a) \in Int
    BY PlanBlockSizeAssumption, WrapType DEF AlignedStart
  <2>2. Wrap(Wrap(a + l - 1) - AlignedStart(a) + 1) \in Nat
    BY <2>1, WrapType
  <2> QED
    BY <2>2, PlanBlockSizeAssumption DEF TotalBlocks
<1>2. NewPool(a, l) \in Pool
  BY <1>1, WordAssumption
     DEF Construct, Constructible, NewPool, Pool, HeapOver, HeapOf
<1> QED
  BY <1>2 DEF Construct, SpaceTypeOK

(* AllocateOneBlock keeps the pools well formed, an overdrawn one too. *)
LEMMA AllocateOneBlockType ==
  ASSUME SpaceTypeOK, NEW s \in Registered, NEW b \in Block,
         AllocateOneBlock(s, b)
  PROVE  SpaceTypeOK' /\ pool'[s] \in Pool
<1>1. pool[s] \in Pool /\ s \in Server
  BY DEF SpaceTypeOK, Registered
<1>2. Wrap(pool[s].cur + 1) \in 0 .. Word - 1
  BY <1>1, WrapType DEF Pool
<1>3. ASSUME IsTop(pool[s].free, b) PROVE Taken(pool[s], b) \in Pool
  <2>1. pool[s].free \in [Block -> Nat]
    BY <1>1 DEF Pool, HeapOver
  <2>2. Pop(pool[s].free, b) \in HeapOver(Block)
    BY <1>3, <2>1 DEF IsTop, HeapHolds, Pop, HeapOver
  <2> QED
    BY <1>1, <1>2, <2>2 DEF Taken, Pool
<1>4. [pool[s] EXCEPT !.inused = @ \cup {b}, !.cur = Wrap(@ + 1),
                      !.wild = TRUE] \in Pool
  BY <1>1, <1>2 DEF Pool
<1> QED
  BY <1>1, <1>3, <1>4 DEF AllocateOneBlock, SpaceTypeOK

(* So does ReclaimInodeSpace, whatever block list it is given. *)
LEMMA ReclaimInodeSpaceType ==
  ASSUME SpaceTypeOK, NEW s \in Registered, NEW list \in Seq(BlockAddr),
         ReclaimInodeSpace(s, list)
  PROVE  SpaceTypeOK' /\ pool'[s] \in Pool
<1> DEFINE times == [b \in Block |-> Cardinality(EntriesOn(s, list, b))]
           n == Cardinality({i \in DOMAIN list : list[i].srv = s})
<1>1. pool[s] \in Pool /\ s \in Server
  BY DEF SpaceTypeOK, Registered
<1>2. IsFiniteSet(DOMAIN list)
  BY FS_Interval
<1>3. times \in [Block -> Nat] /\ n \in Nat
  <2>1. \A b \in Block : Cardinality(EntriesOn(s, list, b)) \in Nat
    BY <1>2, FS_Subset, FS_CardinalityType DEF EntriesOn
  <2>2. n \in Nat
    BY <1>2, FS_Subset, FS_CardinalityType
  <2> QED
    BY <2>1, <2>2
<1> HIDE DEF times, n
<1>4. Wrap(pool[s].cur - n) \in 0 .. Word - 1
  <2>1. pool[s].cur \in Int
    BY <1>1, WordAssumption DEF Pool
  <2>2. pool[s].cur - n \in Int
    BY <1>3, <2>1
  <2> QED
    BY <2>2, WrapType
<1>5. Returned(pool[s], times, n) \in Pool
  <2>1. pool[s].free \in [Block -> Nat]
    BY <1>1 DEF Pool, HeapOver
  <2>2. [b \in Block |-> pool[s].free[b] + times[b]] \in HeapOver(Block)
    BY <1>3, <2>1 DEF HeapOver
  <2>3. {b \in pool[s].inused : times[b] = 0} \in SUBSET Block
    BY <1>1 DEF Pool
  <2> QED
    BY <1>1, <1>4, <2>2, <2>3 DEF Returned, Pool
<1>6. pool' = [pool EXCEPT ![s] = Returned(@, times, n)]
  BY DEF ReclaimInodeSpace, times, n
<1> QED
  BY <1>1, <1>5, <1>6 DEF SpaceTypeOK

-----------------------------------------------------------------------------
(* Facts about the steps that several handlers share. *)

(* The constants that a step leaves in a variable. *)
LEMMA Values ==
  /\ NoInum \notin DentryInum
  /\ \A i \in Inum : i \in DentryInum \/ i = ROOT_INUM
  /\ ROOT_INUM \notin DentryInum
  BY InodeCountAssumption
     DEF NoInum, DentryInum, Inum, ROOT_INUM, NoFreeInode

(* A dentry's number leads to the inode of a file or to none. *)
LEMMA GetInodeType ==
  ASSUME InodeTypeOK, FilesOK, NEW i \in DentryInum \cup {NoInum}
  PROVE  GetInode(i) \in Obj \cup {NoObj}
  BY Values, InodeCountAssumption
     DEF InodeTypeOK, FilesOK, GetInode, InTable, Inum, NoInum, ROOT_INUM

(* A handler that returns leaves the other calls alone. *)
LEMMA ReturnKeepsCalls ==
  ASSUME CallsOK, NEW c \in Call, Return(c)
  PROVE  CallsOK'
  BY DEF CallsOK, Return, Goto, PCs

(* A crash leaves a server that is down and calls that are idle or         *)
(* transferring.                                                           *)
LEMMA CrashKeepsInv ==
  ASSUME ServerInv, Crash
  PROVE  ServerInv'
<1>1. FdInv'
  BY FdCountAssumption
     DEF Crash, FdInv, FdTypeOK, FdAccounting, HeapOver, HeapOf
<1>2. InodeInv'
  <2>1. InodeTableInit'
    BY DEF Crash, InodeTableInit
  <2> QED
    BY <2>1, InodeTableStart, PTL
<1>3. SpaceTypeOK'
  BY DEF Crash, SpaceTypeOK
<1>4. FilesOK'
  <2>1. \A i \in Inum \ {ROOT_INUM} : table'[i] # RootObj
    BY ObjAssumption DEF Crash
  <2>2. << >> \in Seq(BlockAddr)
    OBVIOUS
  <2> QED
    BY <2>1, <2>2 DEF Crash, FilesOK
<1>5. CallsOK'
  <2> USE DEF ServerInv, CallsOK
  <2>1. pc' \in [Call -> PCs] /\ req' \in [Call -> Requests \cup {NoReq}]
    BY DEF Crash, PCs
  <2>2. /\ inum' \in [Call -> DentryInum \cup {NoInum}]
        /\ inode' \in [Call -> Obj \cup {NoObj}]
        /\ need' \in [Call -> Nat]
    BY DEF Crash
  <2>3. /\ swept' \in [Call -> SUBSET Server]
        /\ listing' \in [Call -> SUBSET DentryInum]
        /\ hand' \in [Call -> SUBSET BlockAddr]
    BY DEF Crash
  <2>4. \A c \in Call : pc'[c] \in {"idle", "transfer"}
    BY DEF Crash
  <2>5. \A c \in Call : pc'[c] # "idle" => req'[c] \in Requests
    BY DEF Crash
  <2> QED
    BY <2>1, <2>2, <2>3, <2>4, <2>5
<1> QED
  BY <1>1, <1>2, <1>3, <1>4, <1>5 DEF ServerInv

(* What a step leaves alone stays as it was. *)
LEMMA Frames ==
  /\ FdInv /\ UNCHANGED fdVars => FdInv'
  /\ InodeInv /\ UNCHANGED inodeVars => InodeInv'
  /\ SpaceTypeOK /\ UNCHANGED pool => SpaceTypeOK'
  /\ FilesOK /\ UNCHANGED <<fileVars, inodeVars>> => FilesOK'
  /\ CallsOK /\ UNCHANGED callVars => CallsOK'
<1>1. FdInv /\ UNCHANGED fdVars => FdInv'
  BY DEF FdInv, FdTypeOK, FdAccounting, fdVars
<1>2. InodeInv /\ UNCHANGED inodeVars => InodeInv'
  BY DEF InodeInv, InodeTypeOK, InodeAccounting, UsedInums, inodeVars
<1>3. SpaceTypeOK /\ UNCHANGED pool => SpaceTypeOK'
  BY DEF SpaceTypeOK
<1>4. FilesOK /\ UNCHANGED <<fileVars, inodeVars>> => FilesOK'
  BY DEF FilesOK, fileVars, inodeVars
<1>5. CallsOK /\ UNCHANGED callVars => CallsOK'
  BY DEF CallsOK, callVars
<1> QED
  BY <1>1, <1>2, <1>3, <1>4, <1>5

(* A step of one handler that changes only calls and keeps their shape. *)
LEMMA CallsOnly ==
  ASSUME ServerInv, CallsOK', UNCHANGED <<fileVars, fdVars, inodeVars, pool>>
  PROVE  ServerInv'
<1>1. /\ UNCHANGED fdVars /\ UNCHANGED inodeVars /\ UNCHANGED pool
      /\ UNCHANGED <<fileVars, inodeVars>>
  OBVIOUS
<1> QED
  BY <1>1, Frames DEF ServerInv

-----------------------------------------------------------------------------
(* One lemma for each group of handler steps. *)

(* The first access of a handler, to the root directory's dentries. *)
LEMMA LookupsKeepInv ==
  ASSUME ServerInv, NEW c \in Call,
         \/ ReadLookup(c) \/ WriteLookup(c) \/ CreateLookup(c)
         \/ OpenLookup(c) \/ RemoveLookup(c) \/ ListLookup(c) \/ Relookup(c)
  PROVE  ServerInv'
<1> USE DEF ServerInv
<1>0. ASSUME pc[c] # "idle" PROVE req[c] \in Requests /\ req[c].name \in Name
  BY <1>0, RequestsAssumption DEF CallsOK, Request
<1>1. ASSUME pc[c] # "idle"
      PROVE  children[req[c].name] \in DentryInum \cup {NoInum}
  BY <1>0, <1>1 DEF FilesOK
<1>2. CASE ReadLookup(c) \/ Relookup(c)
  <2>1. CASE Crash
    BY <2>1, CrashKeepsInv
  <2>2. CASE ~ Crash
    <3>1. CallsOK'
      BY <1>0, <1>1, <1>2, <2>2
         DEF ReadLookup, Relookup, CallsOK, FoundInum, Goto, At, PCs
    <3> QED
      BY <1>2, <2>2, <3>1, CallsOnly DEF ReadLookup, Relookup
  <2> QED
    BY <2>1, <2>2
<1>3. CASE WriteLookup(c)
  <2>1. CallsOK'
    BY <1>0, <1>1, <1>3 DEF WriteLookup, CallsOK, FoundInum, Goto, At, PCs
  <2> QED
    BY <1>3, <2>1, CallsOnly DEF WriteLookup
<1>4. CASE CreateLookup(c)
  <2>1. CASE Return(c)
    BY <1>4, <2>1, ReturnKeepsCalls, CallsOnly DEF CreateLookup
  <2>2. CASE ~ Return(c)
    <3>1. CallsOK'
      BY <1>0, <1>4, <2>2 DEF CreateLookup, CallsOK, Goto, At, PCs, localVars
    <3> QED
      BY <1>4, <3>1, CallsOnly DEF CreateLookup
  <2> QED
    BY <2>1, <2>2
<1>5. CASE OpenLookup(c)
  <2>1. CallsOK'
    BY <1>0, <1>5 DEF OpenLookup, CallsOK, Goto, At, PCs, localVars
  <2> QED
    BY <1>5, <2>1, CallsOnly DEF OpenLookup
<1>6. CASE RemoveLookup(c)
  <2>1. CASE Return(c)
    BY <1>6, <2>1, ReturnKeepsCalls, CallsOnly DEF RemoveLookup
  <2>2. CASE ~ Return(c)
    <3>1. CallsOK'
      BY <1>0, <1>1, <1>6, <2>2
         DEF RemoveLookup, CallsOK, FoundInum, Goto, At, PCs
    <3> QED
      BY <1>6, <3>1, CallsOnly DEF RemoveLookup
  <2> QED
    BY <2>1, <2>2
<1>7. CASE ListLookup(c)
  <2>1. {children[n] : n \in {m \in Name : Linked(m)}} \subseteq DentryInum
    BY DEF FilesOK, Linked
  <2>2. CallsOK'
    BY <1>0, <1>7, <2>1 DEF ListLookup, CallsOK, Goto, At, PCs
  <2> QED
    BY <1>7, <2>2, CallsOnly DEF ListLookup
<1> QED
  BY <1>2, <1>3, <1>4, <1>5, <1>6, <1>7

(* CreateFile_, OpenFile's descriptor, and CloseFile. *)
LEMMA CreationKeepsInv ==
  ASSUME ServerInv, NEW c \in Call,
         AllocInode(c) \/ Link(c) \/ AllocFD(c) \/ CloseFile(c)
  PROVE  ServerInv'
<1> USE DEF ServerInv
<1>0. ASSUME pc[c] # "idle" PROVE req[c] \in Requests /\ req[c].name \in Name
  BY <1>0, RequestsAssumption DEF CallsOK, Request
<1>1. CASE AllocInode(c)
  <2>1. PICK o \in Obj, i \in DentryInum :
          /\ AllocateFreeInode(o, i)
          /\ inum' = [inum EXCEPT ![c] = i]
          /\ blocks' = [blocks EXCEPT ![o] = << >>]
          /\ size' = [size EXCEPT ![o] = 0]
    BY <1>1 DEF AllocInode
  <2>2. InodeInv'
    <3>1. i \in Inum \cup {NoFreeInode}
      BY InodeCountAssumption DEF DentryInum, Inum, NoFreeInode
    <3> QED
      BY <2>1, <3>1, AllocateKeepsAccounts
  <2>3. \A j \in Inum \ {ROOT_INUM} : table'[j] # RootObj
    BY <2>1, ObjAssumption
       DEF AllocateFreeInode, inodeVars, FilesOK, InodeInv, InodeTypeOK
  <2>4. FilesOK'
    BY <1>1, <2>1, <2>3 DEF AllocInode, FilesOK
  <2>5. CallsOK'
    BY <1>0, <1>1, <2>1 DEF AllocInode, CallsOK, Goto, At, PCs
  <2> QED
    BY <1>1, <2>2, <2>4, <2>5, Frames DEF AllocInode
<1>2. CASE Link(c)
  <2>1. FilesOK'
    BY <1>0, <1>2 DEF Link, AddDentry, FilesOK, CallsOK, inodeVars, At
  <2>2. CASE Return(c)
    BY <1>2, <2>1, <2>2, ReturnKeepsCalls, Frames DEF Link
  <2>3. CASE ~ Return(c)
    <3>1. CallsOK'
      BY <1>0, <1>2, <2>3 DEF Link, CallsOK, Goto, At, PCs, localVars
    <3> QED
      BY <1>2, <2>1, <3>1, Frames DEF Link
  <2> QED
    BY <2>2, <2>3
<1>3. CASE AllocFD(c)
  <2>1. FdInv'
    BY <1>3, AllocateFDKeepsAccounts DEF AllocFD
  <2>2. CallsOK'
    BY <1>3, ReturnKeepsCalls DEF AllocFD
  <2> QED
    BY <1>3, <2>1, <2>2, Frames DEF AllocFD
<1>4. CASE CloseFile(c)
  <2>1. FdInv'
    BY <1>4, ReclaimFDKeepsAccounts DEF CloseFile
  <2>2. CallsOK'
    BY <1>4, ReturnKeepsCalls DEF CloseFile
  <2> QED
    BY <1>4, <2>1, <2>2, Frames DEF CloseFile
<1> QED
  BY <1>1, <1>2, <1>3, <1>4

(* What an int takes of a number: itself when it is small enough. *)
LEMMA AsIntType ==
  ASSUME NEW n \in Nat
  PROVE  AsInt(n) \in Int /\ (n < IntLimit => AsInt(n) = n)
<1>1. 2 * IntLimit \in Nat \ {0} /\ IntLimit < 2 * IntLimit
  BY IntLimitAssumption
<1>2. ASSUME NEW m \in Nat \ {0} PROVE n % m \in Nat /\ (n < m => n % m = n)
  BY <1>2
<1>3. n % (2 * IntLimit) \in Nat /\ (n < 2 * IntLimit => n % (2 * IntLimit) = n)
  BY <1>1, <1>2
<1> QED
  BY <1>1, <1>3, IntLimitAssumption DEF AsInt

(* ReadFile and WriteFile up to their reply. *)
LEMMA AccessKeepsInv ==
  ASSUME ServerInv, NEW c \in Call,
         GetFileInode(c) \/ CountBlocks(c) \/ TakeBlock(c) \/ AppendBlock(c)
         \/ ReadTest(c)
  PROVE  ServerInv'
<1> USE DEF ServerInv
<1>0. CASE Crash
  BY <1>0, CrashKeepsInv
<1>1. CASE GetFileInode(c) /\ ~ Crash
  <2>1. GetInode(inum[c]) \in Obj
    BY <1>1, GetInodeType DEF GetFileInode, CallsOK, InodeInv
  <2>2. CallsOK'
    BY <1>1, <2>1 DEF GetFileInode, CallsOK, Goto, At, PCs
  <2> QED
    BY <1>1, <2>2, CallsOnly DEF GetFileInode
<1>2. CASE CountBlocks(c)
  <2>1. req[c] \in Requests /\ inode[c] \in Obj
    BY <1>2 DEF CountBlocks, CallsOK, At
  <2>2. BlocksNeeded(req[c].off, req[c].len) \in Nat
    BY <2>1, RequestsAssumption, PlanBlockSizeAssumption
       DEF BlocksNeeded, Request
  <2>3. Len(blocks[inode[c]]) \in Nat
    BY <2>1 DEF FilesOK
  <2>4. NewBlocks(req[c], inode[c]) \in Nat
    BY <2>2, <2>3, AsIntType DEF NewBlocks
  <2>5. CallsOK'
    BY <1>2, <2>4 DEF CountBlocks, CallsOK, Goto, At, PCs
  <2> QED
    BY <1>2, <2>5, CallsOnly DEF CountBlocks
<1>3. CASE TakeBlock(c) /\ ~ Crash
  <2>1. PICK s \in Registered, b \in Block :
          /\ AllocateOneBlock(s, b)
          /\ hand' = [hand EXCEPT ![c] = {[srv |-> s, nr |-> b]}]
    BY <1>3 DEF TakeBlock
  <2>2. [srv |-> s, nr |-> b] \in BlockAddr
    BY DEF BlockAddr, Registered
  <2>3. /\ pc[c] = "grow" /\ need[c] > 0 /\ pc' = [pc EXCEPT ![c] = "append"]
        /\ UNCHANGED <<fileVars, req, inum, inode, need, swept, listing,
                       fdVars, inodeVars>>
    BY <1>3 DEF TakeBlock, At, Goto
  <2>4. SpaceTypeOK'
    BY <2>1, AllocateOneBlockType
  <2>5. CallsOK'
    BY <2>1, <2>2, <2>3 DEF CallsOK, PCs
  <2> QED
    BY <2>3, <2>4, <2>5, Frames
<1>4. CASE AppendBlock(c)
  <2>1. PICK a \in BlockAddr :
          /\ hand[c] = {a} /\ inode[c] \in Obj /\ req[c] \in Requests
          /\ need[c] > 0 /\ need[c] \in Nat
    BY <1>4 DEF AppendBlock, At, CallsOK
  <2>2. /\ blocks' = [blocks EXCEPT ![inode[c]] = Append(@, a)]
        /\ hand' = [hand EXCEPT ![c] = {}]
        /\ need' = [need EXCEPT ![c] = @ - 1]
        /\ pc' = [pc EXCEPT ![c] = "grow"]
        /\ UNCHANGED <<up, children, size, stale, req, inum, inode, swept,
                       listing, fdVars, inodeVars, pool>>
    BY <1>4, <2>1 DEF AppendBlock, Goto
  <2>3. Append(blocks[inode[c]], a) \in Seq(BlockAddr)
    BY <2>1 DEF FilesOK
  <2>4. FilesOK'
    BY <2>1, <2>2, <2>3 DEF FilesOK, inodeVars
  <2>5. need[c] - 1 \in Nat
    BY <2>1
  <2>6. need' \in [Call -> Nat] /\ pc' \in [Call -> PCs]
        /\ hand' \in [Call -> SUBSET BlockAddr]
    BY <2>2, <2>5 DEF CallsOK, PCs
  <2>7. \A d \in Call : pc'[d] = "append" =>
          pc[d] = "append" /\ need'[d] = need[d] /\ hand'[d] = hand[d]
    BY <2>2 DEF CallsOK
  <2>8. CallsOK'
    BY <2>1, <2>2, <2>6, <2>7 DEF CallsOK
  <2>9. UNCHANGED fdVars /\ UNCHANGED inodeVars /\ UNCHANGED pool
    BY <2>2
  <2> QED
    BY <2>4, <2>8, <2>9, Frames
<1>5. CASE ReadTest(c)
  <2>1. CallsOK'
    BY <1>5 DEF ReadTest, CallsOK, Goto, At, PCs, localVars
  <2> QED
    BY <1>5, <2>1, CallsOnly DEF ReadTest
<1> QED
  BY <1>0, <1>1, <1>2, <1>3, <1>4, <1>5

(* The replies of ReadFile and WriteFile, and what the client does then. *)
LEMMA ReplyKeepsInv ==
  ASSUME ServerInv, NEW c \in Call, pc[c] \in {"reply", "clamp", "grow"},
         NEW indices \in SUBSET Nat, NEW newSize \in Nat,
         InList(inode[c], indices), Reply(c, indices, newSize)
  PROVE  ServerInv'
<1> USE DEF ServerInv
<1>1. inode[c] \in Obj
  BY DEF CallsOK
<1>2. {blocks[inode[c]][k + 1] : k \in indices} \subseteq BlockAddr
  <2>1. blocks[inode[c]] \in Seq(BlockAddr)
    BY <1>1 DEF FilesOK
  <2>2. ASSUME NEW k \in indices PROVE blocks[inode[c]][k + 1] \in BlockAddr
    <3>1. k \in Nat /\ k < Len(blocks[inode[c]])
      BY DEF InList
    <3>2. Len(blocks[inode[c]]) \in Nat
      BY <2>1
    <3>3. k + 1 \in 1 .. Len(blocks[inode[c]])
      BY <3>1, <3>2
    <3> QED
      BY <2>1, <3>3
  <2> QED
    BY <2>2
<1>3. CallsOK'
  BY <1>2 DEF Reply, CallsOK, Goto, PCs
<1>4. FilesOK'
  <2>1. UNCHANGED <<up, children, stale, table>>
    BY DEF Reply, inodeVars
  <2>2. size' \in [Obj -> Nat]
    BY <1>1 DEF Reply, FilesOK
  <2>3. blocks' = blocks \/ blocks' = [blocks EXCEPT ![inode[c]] = << >>]
    BY DEF Reply
  <2>4. << >> \in Seq(BlockAddr)
    OBVIOUS
  <2>5. blocks' \in [Obj -> Seq(BlockAddr)]
    BY <2>3, <2>4 DEF FilesOK
  <2> QED
    BY <2>1, <2>2, <2>5 DEF FilesOK
<1> QED
  BY <1>3, <1>4, Frames DEF Reply

(* The indices of a reply are numbers below total_blocks. *)
LEMMA ReplyIndicesWithin ==
  ASSUME NEW off \in Nat, NEW len \in Nat
  PROVE  \A k \in ReplyIndices(off, len) : k \in 0 .. BlocksNeeded(off, len) - 1
  BY PlanWithinBlocksNeeded DEF ReplyIndices

(* ReadFile's and WriteFile's answers, and the end of the transfers. *)
LEMMA AnswersKeepInv ==
  ASSUME ServerInv, NEW c \in Call,
         WriteReply(c) \/ ReadReply(c) \/ ReadClamp(c) \/ Transfer(c)
  PROVE  ServerInv'
<1> USE DEF ServerInv
<1>0. CASE Crash
  BY <1>0, CrashKeepsInv
<1>1. ASSUME pc[c] # "idle"
      PROVE  req[c] \in Requests /\ req[c].off \in Nat /\ req[c].len \in Nat
  BY <1>1, RequestsAssumption DEF CallsOK, Request
<1>2. ASSUME NEW off \in Nat, NEW len \in Nat
      PROVE  ReplyIndices(off, len) \in SUBSET Nat
  BY <1>2, ReplyIndicesWithin
<1>3. CASE WriteReply(c) /\ ~ Crash
  <2> DEFINE r == req[c]
             indices == ReplyIndices(r.off, r.len)
  <2>1. /\ pc[c] = "grow" /\ InList(inode[c], indices)
        /\ Reply(c, indices, r.off + r.len)
    BY <1>3 DEF WriteReply, At
  <2>2. r.off \in Nat /\ r.len \in Nat
    BY <1>1, <2>1
  <2>3. indices \in SUBSET Nat /\ r.off + r.len \in Nat
    BY <1>2, <2>2
  <2> HIDE DEF r, indices
  <2> QED
    BY <2>1, <2>3, ReplyKeepsInv
<1>4. CASE ReadReply(c) /\ ~ Crash
  <2> DEFINE r == req[c]
             fileSize == size[inode[c]]
             indices == ReplyIndices(r.off, r.len)
  <2>1. /\ pc[c] = "reply" /\ InList(inode[c], indices)
        /\ Reply(c, indices, fileSize)
    BY <1>4 DEF ReadReply, At
  <2>2. r.off \in Nat /\ r.len \in Nat
    BY <1>1, <2>1
  <2>3. fileSize \in Nat
    BY <2>1 DEF CallsOK, FilesOK
  <2>4. indices \in SUBSET Nat
    BY <1>2, <2>2
  <2> HIDE DEF r, fileSize, indices
  <2> QED
    BY <2>1, <2>3, <2>4, ReplyKeepsInv
<1>5. CASE ReadClamp(c) /\ ~ Crash
  <2> DEFINE r == req[c]
             fileSize == size[inode[c]]
             rest == fileSize - r.off
             indices == ReplyIndices(r.off, rest)
  <2>1. /\ pc[c] = "clamp" /\ InList(inode[c], indices)
        /\ r.off <= fileSize /\ Reply(c, indices, fileSize)
    BY <1>5 DEF ReadClamp, At
  <2>2. r.off \in Nat
    BY <1>1, <2>1
  <2>3. fileSize \in Nat
    BY <2>1 DEF CallsOK, FilesOK
  <2>4. rest \in Nat
    BY <2>1, <2>2, <2>3
  <2> HIDE DEF rest
  <2>5. indices \in SUBSET Nat
    BY <1>2, <2>2, <2>4
  <2> HIDE DEF r, fileSize, indices
  <2> QED
    BY <2>1, <2>3, <2>5, ReplyKeepsInv
<1>6. CASE Transfer(c)
  BY <1>6, ReturnKeepsCalls, CallsOnly DEF Transfer
<1> QED
  BY <1>0, <1>3, <1>4, <1>5, <1>6

(* RemoveFile after its lookup, and ReadDirectory's loop. *)
LEMMA RemovalKeepsInv ==
  ASSUME ServerInv, NEW c \in Call,
         \/ Unlink(c) \/ ReclaimBlocks(c) \/ DropInode(c)
         \/ ListOne(c) \/ ListDone(c)
  PROVE  ServerInv'
<1> USE DEF ServerInv
<1>0. CASE Crash
  BY <1>0, CrashKeepsInv
<1>1. GetInode(inum[c]) \in Obj \cup {NoObj}
  BY GetInodeType DEF CallsOK, InodeInv
<1>2. CASE Unlink(c)
  <2>1. FilesOK'
    BY <1>2 DEF Unlink, DeleteDentry, FilesOK, inodeVars
  <2>2. CallsOK'
    BY <1>2 DEF Unlink, CallsOK, Goto, At, PCs, localVars
  <2> QED
    BY <1>2, <2>1, <2>2, Frames DEF Unlink
<1>3. CASE ReclaimBlocks(c) /\ ~ Crash
  <2>1. PICK s \in Registered :
          /\ GetInode(inum[c]) # NoObj
          /\ ReclaimInodeSpace(s, blocks[GetInode(inum[c])])
          /\ swept' = [swept EXCEPT ![c] = @ \cup {s}]
          /\ UNCHANGED <<fileVars, pc, req, inum, inode, need, listing,
                         hand, fdVars, inodeVars>>
    BY <1>3 DEF ReclaimBlocks, Unswept
  <2>2. SpaceTypeOK'
    <3>1. blocks[GetInode(inum[c])] \in Seq(BlockAddr)
      BY <1>1, <2>1 DEF FilesOK
    <3> QED
      BY <2>1, <3>1, ReclaimInodeSpaceType
  <2>3. CallsOK'
    BY <2>1 DEF CallsOK, Registered
  <2> QED
    BY <2>1, <2>2, <2>3, Frames
<1>4. CASE DropInode(c)
  <2>1. InodeInv'
    <3>1. CASE inum[c] \in Inum
      BY <1>4, <3>1, DeleteKeepsAccounts DEF DropInode
    <3>2. CASE inum[c] \notin Inum
      BY <1>4, <3>2, Frames DEF DropInode, DeleteInode, InTable
    <3> QED
      BY <3>1, <3>2
  <2>2. FilesOK'
    <3>1. \A i \in Inum \ {ROOT_INUM} : table'[i] # RootObj
      BY <1>4, ObjAssumption
         DEF DropInode, DeleteInode, inodeVars, FilesOK, InodeInv, InodeTypeOK
    <3>2. << >> \in Seq(BlockAddr)
      OBVIOUS
    <3>3. /\ \/ blocks' = blocks
             \/ blocks' = [blocks EXCEPT ![GetInode(inum[c])] = << >>]
          /\ \/ size' = size
             \/ size' = [size EXCEPT ![GetInode(inum[c])] = 0]
      BY <1>4 DEF DropInode
    <3>4. blocks' \in [Obj -> Seq(BlockAddr)]
      BY <3>2, <3>3 DEF FilesOK
    <3>5. size' \in [Obj -> Nat]
      BY <3>3 DEF FilesOK
    <3> QED
      BY <1>4, <3>1, <3>4, <3>5 DEF DropInode, FilesOK
  <2>3. CallsOK'
    BY <1>4, ReturnKeepsCalls DEF DropInode
  <2> QED
    BY <1>4, <2>1, <2>2, <2>3, Frames DEF DropInode
<1>5. CASE ListOne(c) /\ ~ Crash
  <2>1. CallsOK'
    BY <1>5 DEF ListOne, CallsOK
  <2> QED
    BY <1>5, <2>1, CallsOnly DEF ListOne
<1>6. CASE ListDone(c)
  BY <1>6, ReturnKeepsCalls, CallsOnly DEF ListDone
<1> QED
  BY <1>0, <1>2, <1>3, <1>4, <1>5, <1>6

(* Requests that arrive, storage servers that register, and the end and    *)
(* the start of the process.                                               *)
LEMMA OthersKeepInv ==
  ASSUME ServerInv,
         \/ \E c \in Call, r \in Requests : Begin(c, r)
         \/ \E s \in Server, r \in Regions : RegisterMemoryRegion(s, r)
         \/ Kill \/ RunServer
  PROVE  ServerInv'
<1> USE DEF ServerInv
<1>1. ASSUME NEW c \in Call, NEW r \in Requests, Begin(c, r) PROVE ServerInv'
  <2>1. CallsOK'
    BY <1>1 DEF Begin, CallsOK, Goto, EntryPoint, PCs
  <2> QED
    BY <1>1, <2>1, CallsOnly DEF Begin
<1>2. ASSUME NEW s \in Server, NEW r \in Regions, RegisterMemoryRegion(s, r)
      PROVE  ServerInv'
  <2>1. SpaceTypeOK'
    BY <1>2, RegionsAssumption, ConstructType DEF RegisterMemoryRegion
  <2>2. FilesOK'
    BY <1>2 DEF RegisterMemoryRegion, FilesOK, inodeVars
  <2> QED
    BY <1>2, <2>1, <2>2, Frames DEF RegisterMemoryRegion
<1>3. CASE Kill
  BY <1>3, CrashKeepsInv DEF Kill
<1>4. CASE RunServer
  <2>1. FilesOK'
    BY <1>4 DEF RunServer, FilesOK, inodeVars
  <2> QED
    BY <1>4, <2>1, Frames DEF RunServer
<1> QED
  BY <1>1, <1>2, <1>3, <1>4

(* Every step of the server keeps its state well formed. *)
LEMMA ServerInvStep == ServerInv /\ [Next]_vars => ServerInv'
<1> SUFFICES ASSUME ServerInv, [Next]_vars PROVE ServerInv'
  OBVIOUS
<1>1. ASSUME NEW c \in Call, Step(c) PROVE ServerInv'
  BY <1>1, LookupsKeepInv, CreationKeepsInv, AccessKeepsInv, AnswersKeepInv,
     RemovalKeepsInv DEF Step
<1>2. CASE UNCHANGED vars
  BY <1>2, Frames DEF ServerInv, vars
<1> QED
  BY <1>1, <1>2, OthersKeepInv DEF Next

(* The server starts well formed. *)
LEMMA ServerInvStart == Init => ServerInv
<1> SUFFICES ASSUME Init PROVE ServerInv
  OBVIOUS
<1>1. FdInv /\ InodeInv
  BY FileMapStart, InodeTableStart DEF Init
<1>2. SpaceTypeOK
  BY DEF Init, SpaceInit, SpaceTypeOK
<1>3. FilesOK
  <2>1. << >> \in Seq(BlockAddr)
    OBVIOUS
  <2> QED
    BY <2>1, ObjAssumption DEF Init, FilesOK, InodeTableInit
<1>4. CallsOK
  BY DEF Init, CallsOK, PCs
<1> QED
  BY <1>1, <1>2, <1>3, <1>4 DEF ServerInv

(* The state of the metadata server is always well formed: whatever the    *)
(* handlers do to each other, a handler has its request and its inode when *)
(* it uses them, and no counter or list leaves its range.                  *)
THEOREM TypeCorrect == Spec => []TypeOK
<1>1. ServerInv => TypeOK
  BY DEF ServerInv, TypeOK, FdInv, InodeInv, FilesOK, CallsOK
<1> QED
  BY <1>1, ServerInvStart, ServerInvStep, PTL DEF Spec

-----------------------------------------------------------------------------
(* The blocks of a file keep up with its size. *)

(* Between GetBlockNum and the reply the blocks a writer has and those it  *)
(* still allocates are enough for its request, although others may append  *)
(* to the same list.                                                       *)
WriteProgress ==
  \A c \in Call : pc[c] \in {"grow", "append"} /\ CountFits(req[c]) =>
    Len(blocks[inode[c]]) + need[c] >= BlocksNeeded(req[c].off, req[c].len)

(* SizeCovered, where nothing is written far beyond the end of every file. *)
Covered ==
  \A o \in Obj : EmptyRequestsFit => size[o] <= Len(blocks[o]) * FILE_BLOCK_SIZE

GrowthInv == Covered /\ WriteProgress

(* A step of c that touches no file and does not enter the loop. *)
LEMMA GrowthFrame ==
  ASSUME CallsOK, GrowthInv, NEW c \in Call, UNCHANGED <<blocks, size>>,
         \A d \in Call \ {c} : /\ pc'[d] = pc[d] /\ req'[d] = req[d]
                               /\ inode'[d] = inode[d] /\ need'[d] = need[d],
         pc'[c] \notin {"grow", "append"}
  PROVE  GrowthInv'
<1>1. Covered'
  BY DEF GrowthInv, Covered
<1>2. WriteProgress'
  BY DEF GrowthInv, WriteProgress
<1> QED
  BY <1>1, <1>2 DEF GrowthInv

(* A crash leaves no file and no writer in its loop. *)
LEMMA GrowthCrash ==
  ASSUME ServerInv, Crash
  PROVE  GrowthInv'
<1>1. Covered'
  BY PlanBlockSizeAssumption DEF Crash, Covered
<1>2. WriteProgress'
  BY DEF Crash, WriteProgress
<1> QED
  BY <1>1, <1>2 DEF GrowthInv

(* A reply that sets a size the blocks can hold. *)
LEMMA GrowthReply ==
  ASSUME ServerInv, GrowthInv, NEW c \in Call, pc[c] \in {"reply", "clamp", "grow"},
         NEW indices, NEW newSize \in Nat, Reply(c, indices, newSize),
         EmptyRequestsFit => newSize <= Len(blocks[inode[c]]) * FILE_BLOCK_SIZE
  PROVE  GrowthInv'
<1> USE DEF ServerInv
<1>1. inode[c] \in Obj
  BY DEF CallsOK
<1>2. CASE HeldElsewhere(c, inode[c])
  <2>1. blocks' = blocks /\ size' = [size EXCEPT ![inode[c]] = newSize]
    BY <1>2 DEF Reply
  <2>2. Covered'
    BY <1>1, <2>1 DEF GrowthInv, Covered, FilesOK
  <2>3. WriteProgress'
    BY <2>1 DEF Reply, GrowthInv, WriteProgress, CallsOK, Goto
  <2> QED
    BY <2>2, <2>3 DEF GrowthInv
<1>3. CASE ~ HeldElsewhere(c, inode[c])
  <2>1. /\ blocks' = [blocks EXCEPT ![inode[c]] = << >>]
        /\ size' = [size EXCEPT ![inode[c]] = 0]
    BY <1>3 DEF Reply
  <2>2. Covered'
    BY <1>1, <2>1, PlanBlockSizeAssumption DEF GrowthInv, Covered, FilesOK
  <2>3. \A d \in Call \ {c} : inode[d] # inode[c]
    BY <1>3 DEF HeldElsewhere
  <2>4. WriteProgress'
    BY <2>1, <2>3 DEF Reply, GrowthInv, WriteProgress, CallsOK, FilesOK, Goto
  <2> QED
    BY <2>2, <2>4 DEF GrowthInv
<1> QED
  BY <1>2, <1>3

(* The steps of a handler that touch no block list and no size. *)
LEMMA GrowthQuiet ==
  ASSUME ServerInv, GrowthInv, NEW c \in Call,
         \/ ReadLookup(c) \/ WriteLookup(c) \/ CreateLookup(c)
         \/ OpenLookup(c) \/ RemoveLookup(c) \/ ListLookup(c) \/ Relookup(c)
         \/ Link(c) \/ AllocFD(c) \/ CloseFile(c) \/ GetFileInode(c)
         \/ ReadTest(c) \/ Transfer(c) \/ Unlink(c) \/ ReclaimBlocks(c)
         \/ ListOne(c) \/ ListDone(c)
  PROVE  GrowthInv'
<1>0. CASE Crash
  BY <1>0, GrowthCrash
<1>1. CASE ~ Crash
  <2> USE DEF ServerInv, CallsOK, fileVars, localVars, Goto, Return, At, FoundInum
  <2>1. UNCHANGED <<blocks, size>>
    BY <1>1 DEF ReadLookup, WriteLookup, CreateLookup, OpenLookup,
       RemoveLookup, ListLookup, Relookup, Link, AllocFD, CloseFile,
       GetFileInode, ReadTest, Transfer, Unlink, ReclaimBlocks, ListOne, ListDone
  <2>2. \A d \in Call \ {c} : /\ pc'[d] = pc[d] /\ req'[d] = req[d]
                              /\ inode'[d] = inode[d] /\ need'[d] = need[d]
    BY <1>1 DEF ReadLookup, WriteLookup, CreateLookup, OpenLookup,
       RemoveLookup, ListLookup, Relookup, Link, AllocFD, CloseFile,
       GetFileInode, ReadTest, Transfer, Unlink, ReclaimBlocks, ListOne, ListDone
  <2>3. pc'[c] \notin {"grow", "append"}
    BY <1>1 DEF ReadLookup, WriteLookup, CreateLookup, OpenLookup,
       RemoveLookup, ListLookup, Relookup, Link, AllocFD, CloseFile,
       GetFileInode, ReadTest, Transfer, Unlink, ReclaimBlocks, ListOne, ListDone
  <2> QED
    BY <2>1, <2>2, <2>3, GrowthFrame
<1> QED
  BY <1>0, <1>1

(* The steps of a handler that make, extend or drop an inode. *)
LEMMA GrowthBusy ==
  ASSUME ServerInv, GrowthInv, NEW c \in Call,
         \/ AllocInode(c) \/ CountBlocks(c) \/ TakeBlock(c) \/ AppendBlock(c)
         \/ WriteReply(c) \/ ReadReply(c) \/ ReadClamp(c) \/ DropInode(c)
  PROVE  GrowthInv'
<1> USE DEF ServerInv
<1>0. CASE Crash
  BY <1>0, GrowthCrash
<1>1. CASE AllocInode(c)
  <2>1. PICK o \in Obj : /\ Unreferenced(o)
                         /\ blocks' = [blocks EXCEPT ![o] = << >>]
                         /\ size' = [size EXCEPT ![o] = 0]
    BY <1>1 DEF AllocInode
  <2>2. Covered'
    BY <2>1, PlanBlockSizeAssumption DEF GrowthInv, Covered, FilesOK
  <2>3. WriteProgress'
    <3>1. \A d \in Call : pc'[d] \in {"grow", "append"} => pc[d] = pc'[d] /\ d # c
      BY <1>1 DEF AllocInode, Goto, CallsOK
    <3>2. UNCHANGED <<inode, need, req>>
      BY <1>1 DEF AllocInode
    <3>3. \A d \in Call : blocks'[inode[d]] = blocks[inode[d]]
      BY <2>1 DEF Unreferenced, FilesOK
    <3> QED
      BY <3>1, <3>2, <3>3 DEF GrowthInv, WriteProgress
  <2> QED
    BY <2>2, <2>3 DEF GrowthInv
<1>2. CASE CountBlocks(c)
  <2>1. Covered'
    BY <1>2 DEF CountBlocks, fileVars, GrowthInv, Covered
  <2>2. UNCHANGED <<blocks, inode, req>>
    BY <1>2 DEF CountBlocks, fileVars
  <2>3. ASSUME NEW d \in Call \ {c}
        PROVE  pc[d] = pc'[d] /\ need'[d] = need[d]
    BY <1>2, <2>3 DEF CountBlocks, Goto, CallsOK
  <2>4. CountFits(req[c]) => Len(blocks[inode[c]]) + need'[c]
                               >= BlocksNeeded(req[c].off, req[c].len)
    <3>1. req[c] \in Requests /\ inode[c] \in Obj
      BY <1>2 DEF CountBlocks, At, CallsOK
    <3>2. BlocksNeeded(req[c].off, req[c].len) \in Nat
      BY <3>1, RequestsAssumption, BlocksNeededSuffice DEF Request
    <3>3. Len(blocks[inode[c]]) \in Nat
      BY <3>1 DEF FilesOK
    <3>4. need'[c] = NewBlocks(req[c], inode[c])
      BY <1>2 DEF CountBlocks, CallsOK
    <3> QED
      <4> DEFINE n == BlocksNeeded(req[c].off, req[c].len)
                 m == Len(blocks[inode[c]])
      <4> HIDE DEF n, m
      <4>1. m < n /\ n < IntLimit => AsInt(n - m) = n - m
        <5>1. m < n => n - m \in Nat /\ n - m <= n
          BY <3>2, <3>3 DEF n, m
        <5> QED
          BY <5>1, <3>2, <3>3, AsIntType, IntLimitAssumption DEF n, m
      <4>2. need'[c] = IF m < n /\ AsInt(n - m) > 0 THEN AsInt(n - m) ELSE 0
        BY <3>4 DEF NewBlocks, n, m
      <4>3. n < IntLimit => m + need'[c] >= n
        BY <3>2, <3>3, <4>1, <4>2 DEF n, m
      <4> QED
        BY <4>3 DEF n, m, CountFits
  <2>5. WriteProgress'
    BY <2>2, <2>3, <2>4 DEF GrowthInv, WriteProgress
  <2> QED
    BY <2>1, <2>5 DEF GrowthInv
<1>3. CASE AppendBlock(c)
  <2>1. PICK a \in BlockAddr :
          blocks' = [blocks EXCEPT ![inode[c]] = Append(@, a)]
    BY <1>3 DEF AppendBlock, CallsOK
  <2>2. /\ need' = [need EXCEPT ![c] = @ - 1] /\ need[c] > 0
        /\ pc[c] = "append" /\ pc' = [pc EXCEPT ![c] = "grow"]
        /\ UNCHANGED <<size, inode, req>> /\ inode[c] \in Obj
    BY <1>3 DEF AppendBlock, At, Goto, CallsOK
  <2>3. \A o \in Obj : Len(blocks[o]) \in Nat
    BY DEF FilesOK
  <2>4. \A o \in Obj : Len(blocks'[o]) =
          IF o = inode[c] THEN Len(blocks[o]) + 1 ELSE Len(blocks[o])
    BY <2>1, <2>2 DEF FilesOK
  <2>5. Covered'
    <3>1. ASSUME NEW o \in Obj, EmptyRequestsFit
          PROVE  size[o] <= Len(blocks'[o]) * FILE_BLOCK_SIZE
      <4>1. /\ Len(blocks'[o]) \in Nat
            /\ Len(blocks[o]) <= Len(blocks'[o])
        BY <2>3, <2>4
      <4>2. Len(blocks[o]) * FILE_BLOCK_SIZE
              <= Len(blocks'[o]) * FILE_BLOCK_SIZE
        BY <2>3, <4>1, MoreBlocks
      <4>3. size[o] <= Len(blocks[o]) * FILE_BLOCK_SIZE
        BY <3>1 DEF GrowthInv, Covered
      <4>4. /\ size[o] \in Int
            /\ Len(blocks[o]) * FILE_BLOCK_SIZE \in Int
            /\ Len(blocks'[o]) * FILE_BLOCK_SIZE \in Int
        BY <2>3, <4>1, PlanBlockSizeAssumption DEF FilesOK
      <4> QED
        BY <4>2, <4>3, <4>4
    <3> QED
      BY <2>2, <3>1 DEF Covered
  <2>6. WriteProgress'
    <3>1. ASSUME NEW d \in Call, pc[d] \in {"grow", "append"}, CountFits(req[d])
          PROVE  Len(blocks'[inode[d]]) + need'[d]
                   >= BlocksNeeded(req[d].off, req[d].len)
      <4>1. inode[d] \in Obj /\ req[d] \in Requests
        BY <3>1 DEF CallsOK
      <4>2. BlocksNeeded(req[d].off, req[d].len) \in Nat
        BY <4>1, RequestsAssumption, BlocksNeededSuffice DEF Request
      <4>3. Len(blocks[inode[d]]) + need[d]
              >= BlocksNeeded(req[d].off, req[d].len)
        BY <3>1 DEF GrowthInv, WriteProgress
      <4>4. need[d] \in Nat /\ need'[d] = IF d = c THEN need[d] - 1 ELSE need[d]
        BY <2>2 DEF CallsOK
      <4>5. /\ Len(blocks[inode[d]]) \in Nat
            /\ Len(blocks'[inode[d]]) \in Nat
            /\ Len(blocks'[inode[d]]) >= Len(blocks[inode[d]])
            /\ d = c => Len(blocks'[inode[d]]) = Len(blocks[inode[d]]) + 1
        BY <2>3, <2>4, <4>1
      <4>6. CASE d = c
        BY <4>2, <4>3, <4>4, <4>5, <4>6
      <4>7. CASE d # c
        BY <4>2, <4>3, <4>4, <4>5, <4>7
      <4> QED
        BY <4>6, <4>7
    <3>2. \A d \in Call : pc'[d] \in {"grow", "append"} =>
                             pc[d] \in {"grow", "append"}
      BY <2>2 DEF CallsOK
    <3> QED
      BY <2>2, <3>1, <3>2 DEF WriteProgress
  <2> QED
    BY <2>5, <2>6 DEF GrowthInv
<1>4. CASE WriteReply(c) /\ ~ Crash
  <2> DEFINE r == req[c]
             indices == ReplyIndices(r.off, r.len)
             n == BlocksNeeded(r.off, r.len)
             m == Len(blocks[inode[c]])
             e == r.off + r.len
  <2>1. /\ pc[c] = "grow" /\ need[c] = 0 /\ InList(inode[c], indices)
        /\ Reply(c, indices, e)
    BY <1>4 DEF WriteReply, At
  <2>2. /\ inode[c] \in Obj /\ r \in Requests /\ r.off \in Nat /\ r.len \in Nat
        /\ e \in Nat /\ m \in Nat
    BY <2>1, RequestsAssumption DEF CallsOK, FilesOK, Request
  <2>3. PICK k \in Nat : EmptyRequestsFit => e <= FILE_BLOCK_SIZE * k /\ k <= m
    <3>1. CASE CountFits(r)
      <4>1. n \in Nat /\ e <= FILE_BLOCK_SIZE * n
        BY <2>2, BlocksNeededSuffice, Zenon
      <4>2. m + need[c] >= n
        BY <2>1, <3>1 DEF GrowthInv, WriteProgress
      <4> HIDE DEF n, m, e
      <4>3. n <= m
        BY <2>1, <2>2, <4>1, <4>2
      <4> QED
        BY <4>1, <4>3
    <3>2. CASE ~ CountFits(r) /\ r.len # 0
      <4>1. PICK i \in indices : i \in Nat /\ e <= FILE_BLOCK_SIZE * (i + 1)
        BY <2>2, <3>2, PlanReachesEnd DEF ReplyIndices
      <4>2. i < m
        BY <2>1, <4>1 DEF InList
      <4> HIDE DEF m, e, indices
      <4>3. i + 1 \in Nat /\ i + 1 <= m
        BY <2>2, <4>1, <4>2
      <4> QED
        BY <4>1, <4>3
    <3>3. CASE ~ CountFits(r) /\ r.len = 0
      BY <2>2, <3>3 DEF EmptyRequestsFit
    <3> QED
      BY <3>1, <3>2, <3>3
  <2> HIDE DEF r, indices, m, e
  <2>4. EmptyRequestsFit => e <= m * FILE_BLOCK_SIZE
    <3>1. k <= m => k * FILE_BLOCK_SIZE <= m * FILE_BLOCK_SIZE
      BY <2>2, MoreBlocks
    <3>2. /\ k * FILE_BLOCK_SIZE = FILE_BLOCK_SIZE * k
          /\ k * FILE_BLOCK_SIZE \in Int /\ m * FILE_BLOCK_SIZE \in Int
      BY <2>2, PlanBlockSizeAssumption
    <3> QED
      BY <2>2, <2>3, <3>1, <3>2
  <2> QED
    BY <2>1, <2>2, <2>4, GrowthReply DEF m
<1>5. CASE (ReadReply(c) \/ ReadClamp(c)) /\ ~ Crash
  <2>1. PICK indices : /\ pc[c] \in {"reply", "clamp"}
                       /\ Reply(c, indices, size[inode[c]])
    BY <1>5 DEF ReadReply, ReadClamp, At
  <2>2. /\ size[inode[c]] \in Nat
        /\ EmptyRequestsFit =>
             size[inode[c]] <= Len(blocks[inode[c]]) * FILE_BLOCK_SIZE
    BY <2>1 DEF CallsOK, FilesOK, GrowthInv, Covered
  <2> QED
    BY <2>1, <2>2, GrowthReply
<1>6. CASE DropInode(c)
  <2> DEFINE o == GetInode(inum[c])
  <2>1. pc' = [pc EXCEPT ![c] = "idle"]
    BY <1>6 DEF DropInode, Return, Goto
  <2>2. \A d \in Call \ {c} : /\ pc'[d] = pc[d] /\ req'[d] = req[d]
                              /\ inode'[d] = inode[d] /\ need'[d] = need[d]
    BY <1>6 DEF DropInode, Return, Goto, CallsOK
  <2>3. CASE UNCHANGED <<blocks, size>>
    BY <2>1, <2>2, <2>3, GrowthFrame DEF CallsOK
  <2>4. CASE ~ UNCHANGED <<blocks, size>>
    <3>1. /\ \A d \in Call : inode[d] # o
          /\ blocks' = [blocks EXCEPT ![o] = << >>]
          /\ size' = [size EXCEPT ![o] = 0]
      BY <1>6, <2>4 DEF DropInode
    <3>2. Covered'
      BY <3>1, PlanBlockSizeAssumption DEF GrowthInv, Covered, FilesOK
    <3>3. \A d \in Call : blocks'[inode[d]] = blocks[inode[d]]
      BY <3>1 DEF FilesOK
    <3>4. \A d \in Call : pc'[d] \in {"grow", "append"} => d # c
      BY <2>1 DEF CallsOK
    <3>5. WriteProgress'
      BY <2>2, <3>3, <3>4 DEF GrowthInv, WriteProgress
    <3> QED
      BY <3>2, <3>5 DEF GrowthInv
  <2> QED
    BY <2>3, <2>4
<1>7. CASE TakeBlock(c) /\ ~ Crash
  <2>1. /\ pc[c] = "grow" /\ pc' = [pc EXCEPT ![c] = "append"]
        /\ UNCHANGED <<blocks, size, req, inode, need>>
    BY <1>7 DEF TakeBlock, At, Goto, fileVars
  <2>2. Covered'
    BY <2>1 DEF GrowthInv, Covered
  <2>3. WriteProgress'
    BY <2>1 DEF GrowthInv, WriteProgress, CallsOK
  <2> QED
    BY <2>2, <2>3 DEF GrowthInv
<1> QED
  BY <1>0, <1>1, <1>2, <1>3, <1>4, <1>5, <1>6, <1>7

(* Every step keeps sizes covered and writers on course. *)
LEMMA GrowthStep == ServerInv /\ GrowthInv /\ [Next]_vars => GrowthInv'
<1> SUFFICES ASSUME ServerInv, GrowthInv, [Next]_vars PROVE GrowthInv'
  OBVIOUS
<1>1. ASSUME NEW c \in Call, Step(c) PROVE GrowthInv'
  BY <1>1, GrowthQuiet, GrowthBusy DEF Step
<1>2. ASSUME NEW c \in Call, NEW r \in Requests, Begin(c, r) PROVE GrowthInv'
  <2>1. UNCHANGED <<blocks, size, inode, need>>
    BY <1>2 DEF Begin, fileVars
  <2>2. \A d \in Call \ {c} : pc'[d] = pc[d] /\ req'[d] = req[d]
    BY <1>2 DEF Begin, Goto, ServerInv, CallsOK
  <2>3. pc'[c] \notin {"grow", "append"}
    BY <1>2 DEF Begin, Goto, EntryPoint, ServerInv, CallsOK
  <2> QED
    BY <2>1, <2>2, <2>3, GrowthFrame DEF ServerInv
<1>3. CASE Kill
  BY <1>3, GrowthCrash DEF Kill
<1>4. ASSUME UNCHANGED <<blocks, size, callVars>> PROVE GrowthInv'
  BY <1>4 DEF GrowthInv, Covered, WriteProgress, callVars
<1>5. ASSUME NEW s \in Server, NEW r \in Regions, RegisterMemoryRegion(s, r)
      PROVE  GrowthInv'
  BY <1>4, <1>5 DEF RegisterMemoryRegion
<1>6. CASE RunServer
  BY <1>4, <1>6 DEF RunServer
<1>7. CASE UNCHANGED vars
  BY <1>4, <1>7 DEF vars, fileVars
<1> QED
  BY <1>1, <1>2, <1>3, <1>5, <1>6, <1>7 DEF Next

(* Sizes are covered and writers on course in every state. *)
LEMMA GrowthHolds == Spec => [](ServerInv /\ GrowthInv)
<1>1. Init => GrowthInv
  BY PlanBlockSizeAssumption DEF Init, GrowthInv, Covered, WriteProgress
<1> QED
  BY <1>1, ServerInvStart, ServerInvStep, GrowthStep, PTL DEF Spec

(* No file is ever larger than its blocks, however the handlers of         *)
(* WriteFile, ReadFile and RemoveFile on one file interleave: ReadFile may *)
(* trust size_ when it indexes the block list.  A write of no bytes whose  *)
(* block count does not fit new_blocks_num would set a size without blocks.*)
THEOREM SizesStayCovered ==
  ASSUME EmptyRequestsFit
  PROVE  Spec => []SizeCovered
<1>1. GrowthInv => SizeCovered
  BY DEF GrowthInv, Covered, SizeCovered
<1> QED
  BY <1>1, GrowthHolds, PTL

(* No write indexes beyond the block list when it fills in its reply: the  *)
(* blocks that were missing when WriteFile counted them are enough,        *)
(* whatever other writers appended or a removal dropped in the meantime,   *)
(* and a registration came between an allocation and its append; for every *)
(* request whose block count fits the int it is kept in.                   *)
THEOREM WritesStayInList == Spec => []WriteStaysInList
<1>1. ServerInv /\ GrowthInv => WriteStaysInList
  <2> SUFFICES ASSUME ServerInv, GrowthInv, NEW c \in Call,
                      pc[c] = "grow", need[c] = 0, CountFits(req[c])
               PROVE  InList(inode[c], ReplyIndices(req[c].off, req[c].len))
    BY DEF WriteStaysInList, At
  <2>1. inode[c] \in Obj /\ req[c].off \in Nat /\ req[c].len \in Nat
    BY RequestsAssumption DEF ServerInv, CallsOK, Request
  <2>2. Len(blocks[inode[c]]) \in Nat
    BY <2>1 DEF ServerInv, FilesOK
  <2>3. BlocksNeeded(req[c].off, req[c].len) \in Nat
    BY <2>1, BlocksNeededSuffice
  <2>4. Len(blocks[inode[c]]) >= BlocksNeeded(req[c].off, req[c].len)
    BY <2>2, <2>3 DEF GrowthInv, WriteProgress
  <2>5. \A k \in ReplyIndices(req[c].off, req[c].len) :
          k \in 0 .. BlocksNeeded(req[c].off, req[c].len) - 1
    BY <2>1, ReplyIndicesWithin
  <2> QED
    BY <2>2, <2>3, <2>4, <2>5 DEF InList
<1> QED
  BY <1>1, GrowthHolds, PTL
=============================================================================
