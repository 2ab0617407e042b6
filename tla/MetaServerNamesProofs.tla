----------------------- MODULE MetaServerNamesProofs -----------------------
(***************************************************************************)
(* The metadata server when its callers keep removals apart from other     *)
(* requests on the same name, and creations of one name apart from each    *)
(* other (Exclusion is not "none"): every inode is named, every block has  *)
(* one owner and every transfer goes to a block of its file, for every     *)
(* number of files, inodes, blocks, storage servers and callers.  At its   *)
(* end, and for every overlap, the open files of the FUSE file system.     *)
(***************************************************************************)
EXTENDS MetaServerProofs, SpongeFuse

-----------------------------------------------------------------------------
(* The inductive invariant: names and inodes *)

HoldsPointer == {"count", "grow", "append", "reply", "clamp"}

Creates == {"alloc", "link"}

(* Where each handler stands, what it was asked, and what its local        *)
(* variables say of the directory and the table: a dentry that was looked  *)
(* up is still there, and a name that was missing still is.                *)
Stage(c) ==
  /\ pc[c] \in Creates => /\ req[c].op \in {"write", "create", "open"}
                          /\ ~ Linked(req[c].name)
  /\ pc[c] = "relookup" => req[c].op = "write"
  /\ pc[c] \in HoldsPointer \cup {"inode"} =>
       req[c].op \in {"read", "write"}
  /\ pc[c] \in {"unlink", "reclaim"} => req[c].op = "remove"
  /\ pc[c] \in HoldsPointer \cup {"inode", "unlink"} =>
       Linked(req[c].name) /\ inum[c] = children[req[c].name]
  /\ pc[c] = "transfer" => req[c].op \in {"read", "write"}

Locals(c) ==
  /\ pc[c] \in HoldsPointer => inode[c] = GetInode(inum[c])
  /\ pc[c] \notin HoldsPointer => inode[c] = NoObj
  /\ pc[c] # "reclaim" => swept[c] = {}
  /\ pc[c] \notin {"append", "transfer"} => hand[c] = {}

(* c and d are both about the same name. *)
SameName(c, d) ==
  /\ pc[c] # "idle" /\ pc[d] # "idle"
  /\ req[c].op \notin {"close", "readdir"}
  /\ req[d].op \notin {"close", "readdir"}
  /\ req[c].name = req[d].name

(* What the callers' exclusion comes to while the requests run.  A crash   *)
(* may leave several transfers of a file that is gone.                     *)
Apart(c, d) ==
  SameName(c, d) =>
    /\ req[c].op # "remove"
    /\ Linked(req[c].name) \/ (pc[c] = "transfer" /\ pc[d] = "transfer")

(* c alone knows the number of an inode that no dentry names. *)
Keeps(c) == pc[c] \in {"link", "reclaim"}

KeptNumbers ==
  \A c \in Call : Keeps(c) /\ inum[c] \in Inum =>
    /\ InTable(inum[c])
    /\ \A n \in Name : children[n] # inum[c]
    /\ \A d \in Call \ {c} : Keeps(d) => inum[d] # inum[c]

(* An inode object has one number. *)
OneNumber ==
  \A i, j \in Inum : table[i] = table[j] /\ table[i] \in Obj => i = j

NamesInv ==
  /\ \A c \in Call : Stage(c)
  /\ \A c \in Call : Locals(c)
  /\ \A c, d \in Call : c # d => Apart(c, d)
  /\ KeptNumbers /\ OneNumber
  /\ DentriesResolve /\ NoInodeLeak

-----------------------------------------------------------------------------
(* The inductive invariant: blocks *)

(* The pool of s agrees with the block lists of the files. *)
Sound(s) ==
  \A b \in Block :
    /\ \A x, y \in Owners(s, b) : x = y
    /\ Owners(s, b) # {} => b < pool[s].total
    /\ pool[s].free[b] = IF b < pool[s].total /\ Owners(s, b) = {} THEN 1 ELSE 0
    /\ b \in pool[s].inused <=> Owners(s, b) # {}

HasEntries(o, s) == \E k \in DOMAIN blocks[o] : blocks[o][k].srv = s

(* A removal that went past s without giving blocks back, because s was    *)
(* not registered at that time, had none to give back.                     *)
NothingMissed(c, s) ==
  /\ pc[c] = "reclaim" /\ GetInode(inum[c]) \in Obj
  /\ s \notin swept[c] /\ (\E d \in swept[c] : s < d)
  => ~ HasEntries(GetInode(inum[c]), s)

(* The block is in the list of the file of that name. *)
InFile(n, a) ==
  /\ Linked(n) /\ GetInode(children[n]) \in Obj
  /\ \E k \in DOMAIN blocks[GetInode(children[n])] :
       blocks[GetInode(children[n])][k] = a

(* The blocks on s that c transfers are in the list of its file. *)
Transfers(c, s) ==
  pc[c] = "transfer" => \A a \in hand[c] : a.srv = s => InFile(req[c].name, a)

BlocksInv ==
  \A s \in Server : Reliable(s) =>
    Sound(s) /\ \A c \in Call : NothingMissed(c, s) /\ Transfers(c, s)

-----------------------------------------------------------------------------
(* Names: the steps that leave the directory and the table alone *)

(* A step of c leaves the local variables of the other calls alone. *)
OthersKept(c) ==
  \A d \in Call \ {c} :
    /\ pc'[d] = pc[d] /\ req'[d] = req[d] /\ inum'[d] = inum[d]
    /\ inode'[d] = inode[d] /\ swept'[d] = swept[d] /\ hand'[d] = hand[d]

SameFiles == UNCHANGED <<children, table>>

(* c goes on with its request, or is done with it. *)
GoesOn(c) ==
  /\ pc[c] # "idle"
  /\ \/ pc'[c] = "idle"
     \/ req'[c] = req[c] /\ (pc[c] = "transfer" => pc'[c] = "transfer")

(* A step of one handler that is not about a kept number, and after which  *)
(* its own local variables are in order, keeps the names in order.         *)
LEMMA NamesFrame ==
  ASSUME NamesInv, NEW c \in Call, SameFiles, OthersKept(c),
         Stage(c)', Locals(c)', ~ Keeps(c), ~ Keeps(c)',
         \A d \in Call \ {c} : Apart(c, d)' /\ Apart(d, c)'
  PROVE  NamesInv'
<1> USE DEF OthersKept, SameFiles
<1>1. ASSUME NEW d \in Call \ {c} PROVE Stage(d)'
  BY DEF NamesInv, Stage, Linked
<1>2. ASSUME NEW d \in Call \ {c} PROVE Locals(d)'
  BY DEF NamesInv, Locals, GetInode, InTable
<1>3. ASSUME NEW d \in Call, NEW e \in Call, d # e PROVE Apart(d, e)'
  <2>1. CASE d # c /\ e # c
    BY <1>3, <2>1 DEF NamesInv, Apart, SameName, Linked
  <2> QED
    BY <1>3, <2>1
<1>4. \A d \in Call : Keeps(d)' => Keeps(d) /\ d # c /\ inum'[d] = inum[d]
  BY DEF Keeps
<1>5. KeptNumbers'
  BY <1>4 DEF NamesInv, KeptNumbers, InTable
<1>6. OneNumber' /\ DentriesResolve'
  BY DEF NamesInv, OneNumber, DentriesResolve, InTable
<1>7. NoInodeLeak'
  <2>1. \A d \in Call : Keeps(d) => Keeps(d)' /\ inum'[d] = inum[d]
    BY DEF Keeps
  <2> QED
    BY <2>1 DEF NamesInv, NoInodeLeak, UsedInums, Keeps
<1> QED
  BY <1>1, <1>2, <1>3, <1>5, <1>6, <1>7 DEF NamesInv

(* While a request goes on and no name goes away, all stay apart. *)
LEMMA StaysApart ==
  ASSUME ServerInv, NamesInv, NEW c \in Call, OthersKept(c), GoesOn(c),
         \A n \in Name : children[n] # NoInum => children'[n] # NoInum
  PROVE  \A d, e \in Call : d # e => Apart(d, e)'
<1> SUFFICES ASSUME NEW d \in Call, NEW e \in Call, d # e, SameName(d, e)'
             PROVE  Apart(d, e)'
  BY DEF Apart
<1>1. /\ pc[d] # "idle" /\ pc[e] # "idle"
      /\ req'[d] = req[d] /\ req'[e] = req[e]
      /\ pc[d] = "transfer" => pc'[d] = "transfer"
      /\ pc[e] = "transfer" => pc'[e] = "transfer"
  BY DEF OthersKept, GoesOn, SameName
<1>2. Apart(d, e) /\ SameName(d, e)
  BY <1>1 DEF NamesInv, SameName
<1>3. req[d].name \in Name
  BY <1>1, RequestsAssumption DEF ServerInv, CallsOK, Request
<1> QED
  BY <1>1, <1>2, <1>3 DEF Apart, Linked

(* The two together, for the steps inside a handler. *)
LEMMA NamesQuiet ==
  ASSUME ServerInv, NamesInv, NEW c \in Call, SameFiles, OthersKept(c),
         GoesOn(c), Stage(c)', Locals(c)', ~ Keeps(c), ~ Keeps(c)'
  PROVE  NamesInv'
<1>1. \A d, e \in Call : d # e => Apart(d, e)'
  BY StaysApart DEF SameFiles
<1> QED
  BY <1>1, NamesFrame

(* A handler that returns has nothing left to be in order. *)
LEMMA ReturnIsQuiet ==
  ASSUME CallsOK, NEW c \in Call, Return(c)
  PROVE  /\ pc'[c] = "idle" /\ Stage(c)' /\ Locals(c)' /\ ~ Keeps(c)'
         /\ OthersKept(c)
  BY DEF CallsOK, Return, Goto, Stage, Locals, Keeps, OthersKept,
         HoldsPointer, Creates

(* A crash leaves no names, and transfers at most. *)
LEMMA NamesCrash ==
  ASSUME ServerInv, NamesInv, Crash
  PROVE  NamesInv'
<1>1. \A c \in Call :
        \/ pc'[c] = "idle"
        \/ (pc'[c] = "transfer" /\ pc[c] = "transfer" /\ req'[c] = req[c])
  BY DEF Crash
<1>2. \A c \in Call : Stage(c)'
  BY <1>1 DEF NamesInv, Stage, HoldsPointer, Creates
<1>3. \A c \in Call : Locals(c)'
  BY <1>1 DEF Crash, NamesInv, Locals, HoldsPointer
<1>4. ASSUME NEW c \in Call, NEW d \in Call, c # d PROVE Apart(c, d)'
  BY <1>1, <1>4 DEF NamesInv, Apart, SameName, Stage
<1>5. KeptNumbers' /\ NoInodeLeak'
  BY <1>1, ObjAssumption DEF Crash, KeptNumbers, Keeps, NoInodeLeak, UsedInums
<1>6. OneNumber'
  BY ObjAssumption DEF Crash, OneNumber
<1>7. DentriesResolve'
  BY InodeCountAssumption DEF Crash, DentriesResolve, NoInum, Inum
<1> QED
  BY <1>2, <1>3, <1>4, <1>5, <1>6, <1>7 DEF NamesInv
(* The first access of a handler, to the root directory's dentries. *)
LEMMA LookupsKeepNames ==
  ASSUME ServerInv, NamesInv, NEW c \in Call,
         \/ ReadLookup(c) \/ WriteLookup(c) \/ CreateLookup(c)
         \/ OpenLookup(c) \/ RemoveLookup(c) \/ ListLookup(c) \/ Relookup(c)
  PROVE  NamesInv'
<1>0. CASE Crash
  BY <1>0, NamesCrash
<1>1. CASE ~ Crash
  <2> USE DEF ServerInv
  <2>1. SameFiles
    BY <1>1 DEF SameFiles, ReadLookup, WriteLookup, CreateLookup, OpenLookup,
       RemoveLookup, ListLookup, Relookup, fileVars, inodeVars
  <2>2. pc[c] \in {"lookup", "relookup"} /\ ~ Keeps(c)
    BY DEF ReadLookup, WriteLookup, CreateLookup, OpenLookup,
       RemoveLookup, ListLookup, Relookup, At, Keeps
  <2>3. CASE Return(c)
    BY <2>1, <2>2, <2>3, ReturnIsQuiet, NamesQuiet DEF GoesOn
  <2>4. CASE ~ Return(c)
    <3>1. Stage(c) /\ Locals(c)
      BY DEF NamesInv
    <3>2. /\ UNCHANGED <<req, inode, swept, hand>>
          /\ \A d \in Call \ {c} : pc'[d] = pc[d] /\ inum'[d] = inum[d]
      BY <1>1, <2>4 DEF ReadLookup, WriteLookup, CreateLookup, OpenLookup,
         RemoveLookup, ListLookup, Relookup, Goto, FoundInum, CallsOK, localVars
    <3>3. OthersKept(c)
      BY <3>2 DEF OthersKept
    <3>4. /\ pc'[c] \in {"inode", "alloc", "fd", "unlink", "list"}
          /\ pc'[c] = "inode" => /\ req[c].op \in {"read", "write"}
                                /\ Linked(req[c].name)
                                /\ inum'[c] = children[req[c].name]
          /\ pc'[c] = "unlink" => /\ req[c].op = "remove"
                                 /\ Linked(req[c].name)
                                 /\ inum'[c] = children[req[c].name]
          /\ pc'[c] = "alloc" => /\ req[c].op \in {"write", "create", "open"}
                                /\ ~ Linked(req[c].name)
      BY <1>1, <2>4, <3>1 DEF ReadLookup, WriteLookup, CreateLookup,
         OpenLookup, RemoveLookup, ListLookup, Relookup, Goto, FoundInum,
         CallsOK, Is, At, Stage
    <3>5. Stage(c)'
      BY <2>1, <3>2, <3>4 DEF SameFiles, Stage, Linked, HoldsPointer, Creates
    <3>6. Locals(c)'
      BY <2>2, <3>1, <3>2, <3>4 DEF Locals, HoldsPointer
    <3>7. GoesOn(c) /\ ~ Keeps(c)'
      BY <2>2, <3>2, <3>4 DEF GoesOn, Keeps
    <3> QED
      BY <2>1, <2>2, <3>3, <3>5, <3>6, <3>7, NamesQuiet
  <2> QED
    BY <2>3, <2>4
<1> QED
  BY <1>0, <1>1

(* The steps of ReadFile, WriteFile and ReadDirectory that leave the       *)
(* directory alone, descriptors, and the ends of handlers.                 *)
LEMMA AccessKeepsNames ==
  ASSUME ServerInv, NamesInv, NEW c \in Call,
         \/ AllocFD(c) \/ CloseFile(c) \/ GetFileInode(c) \/ CountBlocks(c)
         \/ TakeBlock(c) \/ AppendBlock(c) \/ ReadTest(c) \/ Transfer(c)
         \/ ListOne(c) \/ ListDone(c)
  PROVE  NamesInv'
<1>0. CASE Crash
  BY <1>0, NamesCrash
<1>1. CASE ~ Crash
  <2> USE DEF ServerInv
  <2>1. SameFiles
    BY <1>1 DEF SameFiles, AllocFD, CloseFile, GetFileInode, CountBlocks, TakeBlock,
       AppendBlock, ReadTest, Transfer, ListOne, ListDone, fileVars, inodeVars
  <2>2. /\ pc[c] \in {"fd", "close", "inode", "list", "transfer"}
                      \cup HoldsPointer
        /\ ~ Keeps(c) /\ pc[c] # "idle"
    BY DEF AllocFD, CloseFile, GetFileInode, CountBlocks, TakeBlock,
       AppendBlock, ReadTest, Transfer, ListOne, ListDone, At, Keeps, HoldsPointer
  <2>3. CASE Return(c)
    BY <2>1, <2>2, <2>3, ReturnIsQuiet, NamesQuiet DEF GoesOn
  <2>4. CASE ~ Return(c)
    <3>1. Stage(c) /\ Locals(c)
      BY DEF NamesInv
    <3>2. /\ UNCHANGED <<req, inum, swept>>
          /\ pc'[c] \notin {"append", "transfer"} => hand'[c] \in {{}, hand[c]}
          /\ \A d \in Call \ {c} : /\ pc'[d] = pc[d] /\ inode'[d] = inode[d]
                                  /\ hand'[d] = hand[d]
      BY <1>1, <2>4 DEF AllocFD, CloseFile, GetFileInode, CountBlocks, TakeBlock,
         AppendBlock, ReadTest, Transfer, ListOne, ListDone, Goto, CallsOK, localVars
    <3>3. OthersKept(c)
      BY <3>2 DEF OthersKept
    <3>4. \/ /\ pc[c] = "list" /\ pc'[c] = "list" /\ inode'[c] = inode[c]
          \/ /\ pc[c] = "inode" /\ pc'[c] \in HoldsPointer
             /\ inode'[c] = GetInode(inum[c])
          \/ /\ pc[c] \in HoldsPointer /\ pc'[c] \in HoldsPointer
             /\ inode'[c] = inode[c] /\ (pc[c] = "append" => hand'[c] = {})
      BY <1>1, <2>4 DEF AllocFD, CloseFile, GetFileInode, CountBlocks, TakeBlock,
         AppendBlock, ReadTest, Transfer, ListOne, ListDone, Goto, CallsOK, At, localVars,
         HoldsPointer
    <3>5. Stage(c)'
      BY <2>1, <3>1, <3>2, <3>4 DEF SameFiles, Stage, Linked, HoldsPointer, Creates
    <3>6. Locals(c)'
      BY <2>1, <3>1, <3>2, <3>4 
         DEF SameFiles, Locals, HoldsPointer, GetInode, InTable
    <3>7. GoesOn(c) /\ ~ Keeps(c)'
      BY <3>2, <3>4 DEF GoesOn, Keeps, HoldsPointer
    <3> QED
      BY <2>1, <2>2, <3>3, <3>5, <3>6, <3>7, NamesQuiet
  <2> QED
    BY <2>3, <2>4
<1> QED
  BY <1>0, <1>1

(* ReadFile's and WriteFile's answers. *)
LEMMA RepliesKeepNames ==
  ASSUME ServerInv, NamesInv, NEW c \in Call,
         WriteReply(c) \/ ReadReply(c) \/ ReadClamp(c)
  PROVE  NamesInv'
<1>0. CASE Crash
  BY <1>0, NamesCrash
<1>1. CASE ~ Crash
  <2>1. /\ pc[c] \in HoldsPointer /\ pc[c] # "transfer"
        /\ \E indices, newSize : Reply(c, indices, newSize)
    BY <1>1 DEF WriteReply, ReadReply, ReadClamp, At, HoldsPointer
  <2>2. /\ UNCHANGED <<children, table, req, swept>>
        /\ pc' = [pc EXCEPT ![c] = "transfer"]
        /\ inum' = [inum EXCEPT ![c] = NoInum]
        /\ inode' = [inode EXCEPT ![c] = NoObj]
        /\ \E X : hand' = [hand EXCEPT ![c] = X]
    BY <2>1 DEF Reply, Goto, inodeVars
  <2>3. /\ OthersKept(c) /\ SameFiles
        /\ pc'[c] = "transfer" /\ inode'[c] = NoObj
    BY <2>2 DEF OthersKept, SameFiles, ServerInv, CallsOK
  <2>4. Stage(c) /\ Locals(c)
    BY DEF NamesInv
  <2>5. Stage(c)'
    BY <2>1, <2>2, <2>3, <2>4 DEF Stage, HoldsPointer, Creates
  <2>6. Locals(c)'
    BY <2>1, <2>2, <2>3, <2>4 DEF Locals, HoldsPointer
  <2>7. GoesOn(c) /\ ~ Keeps(c) /\ ~ Keeps(c)'
    BY <2>1, <2>2, <2>3 DEF GoesOn, Keeps, HoldsPointer
  <2> QED
    BY <2>3, <2>5, <2>6, <2>7, NamesQuiet
<1> QED
  BY <1>0, <1>1

(* A request that begins is apart from those that run, by the callers'     *)
(* exclusion.                                                              *)
LEMMA BeginKeepsNames ==
  ASSUME ServerInv, NamesInv, Exclusion # "none",
         NEW c \in Call, NEW r \in Requests, Begin(c, r)
  PROVE  NamesInv'
<1> USE DEF ServerInv
<1>1. /\ pc[c] = "idle" /\ pc'[c] \in {"close", "lookup"} /\ req'[c] = r
      /\ UNCHANGED <<children, table, inum, inode, swept, hand>>
      /\ \A d \in Call \ {c} : pc'[d] = pc[d] /\ req'[d] = req[d]
  BY DEF Begin, At, Goto, EntryPoint, CallsOK, fileVars, inodeVars
<1>2. OthersKept(c) /\ SameFiles /\ ~ Keeps(c) /\ ~ Keeps(c)'
  BY <1>1 DEF OthersKept, SameFiles, Keeps
<1>3. Stage(c)'
  BY <1>1 DEF Stage, HoldsPointer, Creates
<1>4. Locals(c)'
  BY <1>1 DEF NamesInv, Locals, HoldsPointer
<1>5. ASSUME NEW d \in Call \ {c} PROVE Apart(c, d)' /\ Apart(d, c)'
  <2> SUFFICES ASSUME pc[d] # "idle", r.op \notin {"close", "readdir"},
                      req[d].op \notin {"close", "readdir"},
                      r.name = req[d].name
               PROVE  /\ r.op # "remove" /\ req[d].op # "remove"
                      /\ Linked(r.name)
    BY <1>1 DEF Apart, SameName, Linked
  <2>1. MayOverlap(r, req[d])
    BY DEF Begin
  <2>2. NamesApart(r, req[d])
    BY <2>1 DEF MayOverlap, FilesApart
  <2> QED
    BY <2>2 DEF NamesApart
<1> QED
  BY <1>2, <1>3, <1>4, <1>5, NamesFrame
-----------------------------------------------------------------------------
(* Names: the steps that change the directory or the table *)

(* A number that AllocateFreeInode hands out was not in the table. *)
LEMMA NewNumber ==
  ASSUME InodeInv, NEW o \in Obj, NEW i \in DentryInum, AllocateFreeInode(o, i)
  PROVE  \/ i \notin Inum /\ UNCHANGED table
         \/ /\ i \in Inum /\ table[i] = NoObj
            /\ table' = [table EXCEPT ![i] = o]
  BY InodeCountAssumption
     DEF InodeInv, InodeTypeOK, InodeAccounting, AllocateFreeInode, IsTop,
         HeapHolds, inodeVars, NoFreeInode, Inum

(* AllocateFileInode: the call keeps the new number until it links it. *)
LEMMA AllocInodeKeepsNames ==
  ASSUME ServerInv, NamesInv, NEW c \in Call, AllocInode(c)
  PROVE  NamesInv'
<1> USE DEF ServerInv
<1>1. PICK o \in Obj, i \in DentryInum :
        /\ Unreferenced(o) /\ AllocateFreeInode(o, i)
        /\ inum' = [inum EXCEPT ![c] = i]
  BY DEF AllocInode
<1>2. \/ i \notin Inum /\ UNCHANGED table
      \/ /\ i \in Inum /\ table[i] = NoObj
         /\ table' = [table EXCEPT ![i] = o]
  BY <1>1, NewNumber
<1>3. \A j \in Inum : /\ table'[j] = table[j] \/ j = i
                      /\ table[j] # NoObj => table'[j] = table[j]
  BY <1>2 DEF InodeInv, InodeTypeOK
<1>4. /\ pc[c] = "alloc" /\ pc'[c] = "link" /\ inum'[c] = i
      /\ UNCHANGED <<children, req, inode, swept, hand>>
      /\ \A d \in Call \ {c} : pc'[d] = pc[d] /\ inum'[d] = inum[d]
  BY <1>1 DEF AllocInode, At, Goto, CallsOK
<1>5. OthersKept(c) /\ GoesOn(c)
  BY <1>4 DEF OthersKept, GoesOn
<1>6. \A d, e \in Call : d # e => Apart(d, e)'
  BY <1>4, <1>5, StaysApart
<1>7. ASSUME NEW d \in Call PROVE Stage(d)'
  BY <1>4 DEF NamesInv, Stage, Linked, HoldsPointer, Creates
<1>8. ASSUME NEW d \in Call PROVE Locals(d)'
  <2>1. CASE d = c
    BY <1>4, <2>1 DEF NamesInv, Locals, HoldsPointer
  <2>2. CASE d # c /\ pc[d] \in HoldsPointer
    <3>1. inode[d] = GetInode(inum[d]) /\ inode[d] # NoObj
      BY <2>2, ObjAssumption DEF NamesInv, Locals, CallsOK, HoldsPointer
    <3>2. GetInode(inum[d])' = GetInode(inum[d])
      BY <1>3, <1>4, <2>2, <3>1 DEF GetInode, InTable
    <3> QED
      BY <1>4, <2>2, <3>1, <3>2 DEF NamesInv, Locals, HoldsPointer
  <2>3. CASE d # c /\ pc[d] \notin HoldsPointer
    BY <1>4, <2>3 DEF NamesInv, Locals
  <2> QED
    BY <2>1, <2>2, <2>3
<1>9. ASSUME NEW j, InTable(j) PROVE InTable(j)' /\ (i \in Inum => j # i)
  BY <1>2, <1>3, <1>9 DEF InTable
<1>10. i \in Inum => InTable(i)'
  BY <1>2, ObjAssumption DEF InTable, InodeInv, InodeTypeOK
<1>11. KeptNumbers'
  <2> SUFFICES ASSUME NEW d \in Call, Keeps(d)', inum'[d] \in Inum
               PROVE  /\ InTable(inum[d])'
                      /\ \A n \in Name : children[n] # inum'[d]
                      /\ \A e \in Call \ {d} : Keeps(e)' => inum'[e] # inum'[d]
    BY <1>4 DEF KeptNumbers
  <2>1. \A e \in Call \ {c} : Keeps(e)' => Keeps(e)
    BY <1>4 DEF Keeps
  <2>2. CASE d = c
    <3>1. \A n \in Name : children[n] # i
      BY <1>4, <1>9, <2>2 DEF NamesInv, DentriesResolve
    <3>2. \A e \in Call \ {c} : Keeps(e) => inum[e] # i
      BY <1>4, <1>9, <2>2 DEF NamesInv, KeptNumbers
    <3> QED
      BY <1>4, <1>10, <2>1, <2>2, <3>1, <3>2
  <2>3. CASE d # c
    <3>1. /\ InTable(inum[d]) /\ inum'[d] = inum[d]
          /\ \A n \in Name : children[n] # inum[d]
          /\ \A e \in Call \ {d} : Keeps(e) => inum[e] # inum[d]
      BY <1>4, <2>1, <2>3 DEF NamesInv, KeptNumbers
    <3>2. InTable(inum[d])' /\ inum[d] # i
      BY <1>9, <2>3, <3>1 DEF InTable
    <3> QED
      BY <1>4, <2>1, <2>3, <3>1, <3>2
  <2> QED
    BY <2>2, <2>3
<1>12. OneNumber'
  <2>1. \A j \in Inum : table[j] # o
    BY <1>1 DEF Unreferenced
  <2> QED
    BY <1>2, <2>1 DEF NamesInv, OneNumber, InodeInv, InodeTypeOK
<1>13. DentriesResolve'
  BY <1>4, <1>9 DEF NamesInv, DentriesResolve
<1>14. NoInodeLeak'
  <2>1. ASSUME NEW j \in UsedInums' \ {ROOT_INUM}
        PROVE  \/ \E n \in Name : children'[n] = j
               \/ \E d \in Call : inum'[d] = j /\ pc'[d] \in {"link", "reclaim"}
    <3>1. CASE j = i
      BY <1>4, <3>1
    <3>2. CASE j # i
      <4>1. j \in UsedInums \ {ROOT_INUM}
        BY <1>3, <3>2 DEF UsedInums
      <4> QED
        BY <1>4, <4>1 DEF NamesInv, NoInodeLeak
    <3> QED
      BY <3>1, <3>2
  <2> QED
    BY <2>1 DEF NoInodeLeak
<1> QED
  BY <1>6, <1>7, <1>8, <1>11, <1>12, <1>13, <1>14 DEF NamesInv
(* AddDentry: the number the call has kept becomes that of a dentry. *)
LEMMA LinkKeepsNames ==
  ASSUME ServerInv, NamesInv, NEW c \in Call, Link(c)
  PROVE  NamesInv'
<1> USE DEF ServerInv
<1>1. PICK n \in Name : n = req[c].name
  BY RequestsAssumption DEF Link, At, CallsOK, Request
<1>2. /\ pc[c] = "link" /\ children[n] = NoInum /\ UNCHANGED table
      /\ children' = [children EXCEPT ![n] = inum[c]]
      /\ pc'[c] \in {"relookup", "fd", "idle"} /\ ~ Keeps(c)' /\ Keeps(c)
  BY <1>1 DEF Link, At, AddDentry, NamesInv, Stage, Linked, Creates, Goto,
     Return, CallsOK, inodeVars, Keeps
<1>3. /\ children'[n] = inum[c]
      /\ \A m \in Name \ {n} : children'[m] = children[m]
  BY <1>2 DEF FilesOK
<1>4. OthersKept(c) /\ GoesOn(c) /\ Stage(c)' /\ Locals(c)'
  <2>1. CASE Return(c)
    BY <1>2, <2>1, ReturnIsQuiet DEF GoesOn
  <2>2. CASE ~ Return(c)
    <3>1. /\ UNCHANGED localVars /\ \A d \in Call \ {c} : pc'[d] = pc[d]
          /\ pc'[c] = "relookup" => req[c].op = "write"
          /\ pc'[c] \in {"relookup", "fd"}
      BY <2>2 DEF Link, Goto, CallsOK, Is
    <3>2. OthersKept(c) /\ GoesOn(c)
      BY <1>2, <3>1 DEF OthersKept, GoesOn, localVars
    <3>3. Stage(c)'
      BY <3>1 DEF Stage, HoldsPointer, Creates, localVars
    <3>4. Locals(c)'
      BY <1>2, <3>1 DEF NamesInv, Locals, HoldsPointer, localVars
    <3> QED
      BY <3>2, <3>3, <3>4
  <2> QED
    BY <2>1, <2>2
<1>5. \A d, e \in Call : d # e => Apart(d, e)'
  BY <1>2, <1>3, <1>4, StaysApart
<1>6. ASSUME NEW d \in Call \ {c} PROVE Stage(d)'
  <2>1. /\ Stage(d) /\ pc'[d] = pc[d] /\ req'[d] = req[d]
        /\ inum'[d] = inum[d]
    BY <1>4 DEF NamesInv, OthersKept
  <2>2. pc[d] # "idle" => req[d].name \in Name
    BY RequestsAssumption DEF CallsOK, Request
  <2>3. pc[d] \in Creates => req[d].name # n
    <3> SUFFICES ASSUME pc[d] \in Creates, req[d].name = n PROVE FALSE
      OBVIOUS
    <3>1. SameName(d, c)
      BY <1>1, <1>2, <2>1 DEF SameName, Stage, Creates, NamesInv
    <3> QED
      BY <1>2, <3>1 DEF NamesInv, Apart, Linked, Creates
  <2>4. pc[d] \in HoldsPointer \cup {"inode", "unlink"} => req[d].name # n
    BY <1>2, <2>1 DEF Stage, Linked
  <2>5. req[d].name \in Name /\ req[d].name # n =>
          children'[req[d].name] = children[req[d].name]
    BY <1>3
  <2> QED
    BY <2>1, <2>2, <2>3, <2>4, <2>5
       DEF Stage, Linked, HoldsPointer, Creates
<1>7. ASSUME NEW d \in Call \ {c} PROVE Locals(d)'
  BY <1>2, <1>4 DEF NamesInv, Locals, OthersKept, GetInode, InTable
<1>8. NoInum \notin Inum
  BY InodeCountAssumption DEF NoInum, Inum
<1>9. inum[c] \in Inum =>
        /\ InTable(inum[c])
        /\ \A m \in Name : children[m] # inum[c]
        /\ \A d \in Call \ {c} : Keeps(d) => inum[d] # inum[c]
  BY <1>2 DEF NamesInv, KeptNumbers
<1>10. \A j \in Inum : InTable(j)' = InTable(j)
  BY <1>2 DEF InTable
<1>11. \A d \in Call : Keeps(d)' => Keeps(d) /\ d # c /\ inum'[d] = inum[d]
  BY <1>2, <1>4 DEF Keeps, OthersKept
<1>12. KeptNumbers'
  <2> SUFFICES ASSUME NEW d \in Call, Keeps(d)', inum'[d] \in Inum
               PROVE  /\ InTable(inum[d])'
                      /\ \A m \in Name : children'[m] # inum'[d]
                      /\ \A e \in Call \ {d} : Keeps(e)' => inum'[e] # inum'[d]
    BY DEF KeptNumbers
  <2>1. /\ Keeps(d) /\ d # c /\ inum'[d] = inum[d] /\ InTable(inum[d])
        /\ \A m \in Name : children[m] # inum[d]
        /\ \A e \in Call \ {d} : Keeps(e) => inum[e] # inum[d]
    BY <1>11 DEF NamesInv, KeptNumbers
  <2>2. InTable(inum[d])'
    BY <1>2, <2>1 DEF InTable
  <2>3. \A m \in Name : children'[m] # inum[d]
    BY <1>2, <1>3, <2>1
  <2> QED
    BY <1>11, <2>1, <2>2, <2>3
<1>13. DentriesResolve'
  <2> SUFFICES ASSUME NEW m \in Name, children'[m] \in Inum
               PROVE  /\ InTable(children[m])'
                      /\ \A k \in Name \ {m} : children'[k] # children'[m]
    BY DEF DentriesResolve
  <2>1. CASE m = n
    BY <1>2, <1>3, <1>9, <2>1 DEF InTable
  <2>2. CASE m # n
    <3>1. /\ children'[m] = children[m] /\ InTable(children[m])
          /\ \A k \in Name \ {m} : children[k] # children[m]
      BY <1>3, <2>2 DEF NamesInv, DentriesResolve
    <3>2. inum[c] # children[m]
      BY <1>9, <3>1
    <3> QED
      BY <1>2, <1>3, <3>1, <3>2 DEF InTable
  <2> QED
    BY <2>1, <2>2
<1>14. NoInodeLeak'
  <2>1. ASSUME NEW j \in UsedInums \ {ROOT_INUM}
        PROVE  \/ \E m \in Name : children'[m] = j
               \/ \E d \in Call : inum'[d] = j /\ pc'[d] \in {"link", "reclaim"}
    <3>1. CASE \E m \in Name : children[m] = j
      BY <1>2, <1>3, <1>8, <3>1 DEF UsedInums
    <3>2. ASSUME NEW d \in Call, inum[d] = j, pc[d] \in {"link", "reclaim"}
          PROVE  \/ \E m \in Name : children'[m] = j
                 \/ \E e \in Call : /\ inum'[e] = j
                                    /\ pc'[e] \in {"link", "reclaim"}
      BY <1>3, <1>4, <3>2 DEF OthersKept
    <3> QED
      BY <3>1, <3>2 DEF NamesInv, NoInodeLeak
  <2> QED
    BY <1>2, <2>1 DEF NoInodeLeak, UsedInums
<1>15. OneNumber'
  BY <1>2 DEF NamesInv, OneNumber
<1> QED
  BY <1>4, <1>5, <1>6, <1>7, <1>12, <1>13, <1>14, <1>15 DEF NamesInv

(* DeleteDentry: the removal keeps the number of the dentry it deletes. *)
LEMMA UnlinkKeepsNames ==
  ASSUME ServerInv, NamesInv, NEW c \in Call, Unlink(c)
  PROVE  NamesInv'
<1> USE DEF ServerInv
<1>1. PICK n \in Name : n = req[c].name
  BY RequestsAssumption DEF Unlink, At, CallsOK, Request
<1>2. /\ pc[c] = "unlink" /\ pc'[c] = "reclaim" /\ UNCHANGED table
      /\ children' = [children EXCEPT ![n] = NoInum] /\ UNCHANGED localVars
      /\ \A d \in Call \ {c} : pc'[d] = pc[d]
  BY <1>1 DEF Unlink, At, DeleteDentry, Goto, CallsOK, inodeVars
<1>3. /\ children'[n] = NoInum
      /\ \A m \in Name \ {n} : children'[m] = children[m]
  BY <1>2 DEF FilesOK
<1>4. /\ req[c].op = "remove" /\ inum[c] = children[n]
  BY <1>1, <1>2 DEF NamesInv, Stage
<1>5. UNCHANGED <<req, inum, inode, swept, hand>>
  BY <1>2 DEF localVars
<1>6. \A d \in Call \ {c} : ~ SameName(c, d) /\ ~ SameName(d, c)
  BY <1>4 DEF NamesInv, Apart, SameName
<1>7. ASSUME NEW d \in Call, NEW e \in Call, d # e PROVE Apart(d, e)'
  <2> SUFFICES ASSUME SameName(d, e)' PROVE Apart(d, e)'
    BY DEF Apart
  <2>1. SameName(d, e)
    BY <1>2, <1>5 DEF SameName
  <2>2. d # c /\ e # c /\ req[d].name \in Name
    BY <1>6, <1>7, <2>1, RequestsAssumption DEF SameName, CallsOK, Request
  <2>3. req[d].name # n
    BY <1>1, <1>2, <1>4, <1>6, <2>1, <2>2 DEF SameName
  <2> QED
    BY <1>2, <1>3, <1>5, <1>7, <2>1, <2>2, <2>3 DEF NamesInv, Apart, Linked
<1>8. ASSUME NEW d \in Call PROVE Stage(d)'
  <2>1. CASE d = c
    BY <1>2, <1>4, <1>5, <2>1 DEF Stage, HoldsPointer, Creates
  <2>2. CASE d # c
    <3>1. Stage(d) /\ pc'[d] = pc[d] /\ req'[d] = req[d] /\ inum'[d] = inum[d]
      BY <1>2, <1>5, <2>2 DEF NamesInv
    <3>2. pc[d] # "idle" => req[d].name \in Name
      BY RequestsAssumption DEF CallsOK, Request
    <3>3. pc[d] \in HoldsPointer \cup {"inode", "unlink"} => req[d].name # n
      BY <1>1, <1>2, <1>4, <1>6, <2>2, <3>1
         DEF SameName, Stage, HoldsPointer
    <3>4. req[d].name \in Name =>
            \/ children'[req[d].name] = children[req[d].name]
            \/ req[d].name = n /\ children'[req[d].name] = NoInum
      BY <1>3
    <3> QED
      BY <3>1, <3>2, <3>3, <3>4 DEF Stage, Linked, HoldsPointer, Creates
  <2> QED
    BY <2>1, <2>2
<1>9. ASSUME NEW d \in Call PROVE Locals(d)'
  BY <1>2, <1>5 DEF NamesInv, Locals, GetInode, InTable, HoldsPointer
<1>10. NoInum \notin Inum
  BY InodeCountAssumption DEF NoInum, Inum
<1>11. \A d \in Call : Keeps(d)' <=> Keeps(d) \/ d = c
  BY <1>2 DEF Keeps
<1>12. inum[c] \in Inum =>
        /\ InTable(inum[c])
        /\ \A m \in Name \ {n} : children[m] # inum[c]
        /\ \A d \in Call : Keeps(d) => inum[d] # inum[c]
  BY <1>4 DEF NamesInv, KeptNumbers, DentriesResolve
<1>13. KeptNumbers'
  <2> SUFFICES ASSUME NEW d \in Call, Keeps(d)', inum[d] \in Inum
               PROVE  /\ InTable(inum[d])
                      /\ \A m \in Name : children'[m] # inum[d]
                      /\ \A e \in Call \ {d} : Keeps(e)' => inum[e] # inum[d]
    BY <1>2, <1>5 DEF KeptNumbers, InTable
  <2>1. CASE d = c
    BY <1>3, <1>10, <1>11, <1>12, <2>1
  <2>2. CASE d # c
    <3>1. /\ InTable(inum[d])
          /\ \A m \in Name : children[m] # inum[d]
          /\ \A e \in Call \ {d} : Keeps(e) => inum[e] # inum[d]
      BY <1>11, <2>2 DEF NamesInv, KeptNumbers
    <3> QED
      BY <1>3, <1>4, <1>10, <1>11, <3>1
  <2> QED
    BY <2>1, <2>2
<1>14. DentriesResolve'
  BY <1>2, <1>3, <1>10 DEF NamesInv, DentriesResolve, InTable
<1>15. NoInodeLeak'
  <2>1. ASSUME NEW j \in UsedInums \ {ROOT_INUM}
        PROVE  \/ \E m \in Name : children'[m] = j
               \/ \E d \in Call : inum[d] = j /\ pc'[d] \in {"link", "reclaim"}
    <3>1. ASSUME NEW m \in Name, children[m] = j
          PROVE  \/ \E k \in Name : children'[k] = j
                 \/ \E d \in Call : inum[d] = j /\ pc'[d] \in {"link", "reclaim"}
      BY <1>2, <1>3, <1>4, <3>1
    <3>2. ASSUME NEW d \in Call, inum[d] = j, pc[d] \in {"link", "reclaim"}
          PROVE  pc'[d] \in {"link", "reclaim"}
      BY <1>2, <3>2
    <3> QED
      BY <3>1, <3>2 DEF NamesInv, NoInodeLeak
  <2> QED
    BY <1>2, <1>5, <2>1 DEF NoInodeLeak, UsedInums
<1>16. OneNumber'
  BY <1>2 DEF NamesInv, OneNumber
<1> QED
  BY <1>7, <1>8, <1>9, <1>13, <1>14, <1>15, <1>16 DEF NamesInv
(* ReclaimInodeSpace on one server: only the loop's progress changes. *)
LEMMA ReclaimKeepsNames ==
  ASSUME ServerInv, NamesInv, NEW c \in Call, ReclaimBlocks(c)
  PROVE  NamesInv'
<1>0. CASE Crash
  BY <1>0, NamesCrash
<1>1. CASE ~ Crash
  <2>1. /\ pc[c] = "reclaim" /\ \A d \in Call \ {c} : swept'[d] = swept[d]
        /\ UNCHANGED <<children, table, pc, req, inum, inode, hand>>
    BY <1>1 DEF ReclaimBlocks, At, fileVars, inodeVars, ServerInv, CallsOK
  <2>2. ASSUME NEW d \in Call PROVE Locals(d)'
    BY <2>1 DEF NamesInv, Locals, GetInode, InTable
  <2>3. ASSUME NEW d \in Call PROVE Stage(d)'
    BY <2>1 DEF NamesInv, Stage, Linked
  <2>4. ASSUME NEW d \in Call, NEW e \in Call, d # e PROVE Apart(d, e)'
    BY <2>1, <2>4 DEF NamesInv, Apart, SameName, Linked
  <2>5. KeptNumbers' /\ OneNumber'
    BY <2>1 DEF NamesInv, KeptNumbers, OneNumber, Keeps, InTable
  <2>6. DentriesResolve' /\ NoInodeLeak'
    BY <2>1 DEF NamesInv, DentriesResolve, NoInodeLeak, InTable, UsedInums
  <2> QED
    BY <2>2, <2>3, <2>4, <2>5, <2>6 DEF NamesInv
<1> QED
  BY <1>0, <1>1

(* DeleteInode: the number the removal has kept leaves the table, and no   *)
(* dentry and no other call has it.                                        *)
LEMMA DropInodeKeepsNames ==
  ASSUME ServerInv, NamesInv, NEW c \in Call, DropInode(c)
  PROVE  NamesInv'
<1> USE DEF ServerInv
<1>1. /\ pc[c] = "reclaim" /\ Keeps(c) /\ Return(c) /\ UNCHANGED children
      /\ DeleteInode(inum[c])
  BY DEF DropInode, At, Keeps
<1>2. /\ pc'[c] = "idle" /\ Stage(c)' /\ Locals(c)' /\ ~ Keeps(c)'
      /\ OthersKept(c)
  BY <1>1, ReturnIsQuiet
<1>3. inum[c] \in Inum =>
        /\ InTable(inum[c])
        /\ \A n \in Name : children[n] # inum[c]
        /\ \A d \in Call \ {c} : Keeps(d) => inum[d] # inum[c]
  BY <1>1 DEF NamesInv, KeptNumbers
<1>4. \A j \in Inum : table'[j] = IF j = inum[c] THEN NoObj ELSE table[j]
  BY <1>1, <1>3 DEF DeleteInode, InTable, InodeInv, InodeTypeOK, inodeVars
<1>5. ASSUME NEW j, j # inum[c]
      PROVE  InTable(j)' = InTable(j) /\ GetInode(j)' = GetInode(j)
  BY <1>4, <1>5 DEF InTable, GetInode
<1>6. \A d, e \in Call : d # e => Apart(d, e)'
  <2>1. GoesOn(c)
    BY <1>1, <1>2 DEF GoesOn
  <2> QED
    BY <1>1, <1>2, <2>1, StaysApart
<1>7. ASSUME NEW d \in Call \ {c} PROVE Stage(d)'
  BY <1>1, <1>2 DEF NamesInv, Stage, Linked, OthersKept
<1>8. ASSUME NEW d \in Call \ {c} PROVE Locals(d)'
  <2>1. /\ Locals(d) /\ pc'[d] = pc[d] /\ inode'[d] = inode[d]
        /\ swept'[d] = swept[d] /\ hand'[d] = hand[d] /\ inum'[d] = inum[d]
    BY <1>2 DEF NamesInv, OthersKept
  <2>2. CASE pc[d] \in HoldsPointer
    <3>1. inode[d] = GetInode(inum[d]) /\ inode[d] # NoObj
      BY <2>1, <2>2, ObjAssumption DEF Locals, CallsOK, HoldsPointer
    <3>2. inum[d] \in Inum
      BY <3>1 DEF GetInode, InTable
    <3>3. inum[d] = children[req[d].name] /\ req[d].name \in Name
      BY <2>2, RequestsAssumption
         DEF NamesInv, Stage, HoldsPointer, CallsOK, Request
    <3>4. inum[d] # inum[c]
      BY <1>3, <3>2, <3>3
    <3> QED
      BY <1>5, <2>1, <2>2, <3>1, <3>4 DEF Locals, HoldsPointer
  <2>3. CASE pc[d] \notin HoldsPointer
    BY <2>1, <2>3 DEF Locals
  <2> QED
    BY <2>2, <2>3
<1>9. \A d \in Call : Keeps(d)' => Keeps(d) /\ d # c /\ inum'[d] = inum[d]
  BY <1>2 DEF Keeps, OthersKept
<1>10. KeptNumbers'
  <2> SUFFICES ASSUME NEW d \in Call, Keeps(d)', inum'[d] \in Inum
               PROVE  /\ InTable(inum[d])'
                      /\ \A n \in Name : children'[n] # inum'[d]
                      /\ \A e \in Call \ {d} : Keeps(e)' => inum'[e] # inum'[d]
    BY DEF KeptNumbers
  <2>1. /\ Keeps(d) /\ d # c /\ inum'[d] = inum[d] /\ InTable(inum[d])
        /\ \A n \in Name : children[n] # inum[d]
        /\ \A e \in Call \ {d} : Keeps(e) => inum[e] # inum[d]
    BY <1>9 DEF NamesInv, KeptNumbers
  <2>2. inum[d] # inum[c]
    BY <1>1, <2>1
  <2>3. InTable(inum[d])'
    BY <1>5, <2>1, <2>2 DEF InTable
  <2> QED
    BY <1>1, <1>9, <2>1, <2>3
<1>11. OneNumber'
  BY <1>4, ObjAssumption DEF NamesInv, OneNumber
<1>12. DentriesResolve'
  <2> SUFFICES ASSUME NEW n \in Name, children[n] \in Inum
               PROVE  InTable(children[n])'
    BY <1>1 DEF NamesInv, DentriesResolve
  <2>1. InTable(children[n]) /\ children[n] # inum[c]
    BY <1>3 DEF NamesInv, DentriesResolve
  <2> QED
    BY <1>1, <1>4, <2>1 DEF InTable
<1>13. NoInodeLeak'
  <2>1. ASSUME NEW j \in UsedInums' \ {ROOT_INUM}
        PROVE  \/ \E n \in Name : children'[n] = j
               \/ \E d \in Call : inum'[d] = j /\ pc'[d] \in {"link", "reclaim"}
    <3>1. j # inum[c] /\ j \in UsedInums \ {ROOT_INUM}
      BY <1>4 DEF UsedInums
    <3>2. \/ \E n \in Name : children[n] = j
          \/ \E d \in Call \ {c} : inum[d] = j /\ pc[d] \in {"link", "reclaim"}
      BY <3>1 DEF NamesInv, NoInodeLeak
    <3> QED
      BY <1>1, <1>2, <3>2 DEF OthersKept
  <2> QED
    BY <2>1 DEF NoInodeLeak
<1> QED
  BY <1>2, <1>6, <1>7, <1>8, <1>10, <1>11, <1>12, <1>13 DEF NamesInv

(* Every step keeps the names in order, if the callers keep to their       *)
(* exclusion.                                                              *)
LEMMA NamesStep ==
  ASSUME Exclusion # "none"
  PROVE  ServerInv /\ NamesInv /\ [Next]_vars => NamesInv'
<1> SUFFICES ASSUME ServerInv, NamesInv, [Next]_vars PROVE NamesInv'
  OBVIOUS
<1>1. ASSUME NEW c \in Call, Step(c) PROVE NamesInv'
  BY <1>1, LookupsKeepNames, AccessKeepsNames, RepliesKeepNames,
     AllocInodeKeepsNames, LinkKeepsNames, UnlinkKeepsNames,
     ReclaimKeepsNames, DropInodeKeepsNames DEF Step
<1>2. ASSUME NEW c \in Call, NEW r \in Requests, Begin(c, r) PROVE NamesInv'
  BY <1>2, BeginKeepsNames
<1>3. CASE Kill
  BY <1>3, NamesCrash DEF Kill
<1>4. ASSUME UNCHANGED <<children, table, callVars>> PROVE NamesInv'
  <2> USE <1>4 DEF callVars
  <2>1. ASSUME NEW c \in Call PROVE Stage(c)' /\ Locals(c)'
    BY DEF NamesInv, Stage, Locals, Linked, GetInode, InTable
  <2>2. ASSUME NEW c \in Call, NEW d \in Call, c # d PROVE Apart(c, d)'
    BY <2>2 DEF NamesInv, Apart, SameName, Linked
  <2>3. KeptNumbers' /\ OneNumber' /\ DentriesResolve' /\ NoInodeLeak'
    BY DEF NamesInv, KeptNumbers, OneNumber, Keeps, InTable, DentriesResolve,
       NoInodeLeak, UsedInums
  <2> QED
    BY <2>1, <2>2, <2>3 DEF NamesInv
<1>5. ASSUME NEW s \in Server, NEW r \in Regions, RegisterMemoryRegion(s, r)
      PROVE  NamesInv'
  BY <1>4, <1>5 DEF RegisterMemoryRegion, inodeVars
<1>6. CASE RunServer
  BY <1>4, <1>6 DEF RunServer, inodeVars
<1>7. CASE UNCHANGED vars
  BY <1>4, <1>7 DEF vars, fileVars, inodeVars
<1> QED
  BY <1>1, <1>2, <1>3, <1>5, <1>6, <1>7 DEF Next

(* The root directory starts empty. *)
LEMMA NamesStart == Init => NamesInv
<1> SUFFICES ASSUME Init PROVE NamesInv
  OBVIOUS
<1>1. ASSUME NEW c \in Call PROVE Stage(c) /\ Locals(c)
  BY DEF Init, Stage, Locals, HoldsPointer, Creates
<1>2. ASSUME NEW c \in Call, NEW d \in Call PROVE Apart(c, d)
  BY DEF Init, Apart, SameName
<1>3. KeptNumbers /\ NoInodeLeak
  BY ObjAssumption
     DEF Init, InodeTableInit, KeptNumbers, Keeps, NoInodeLeak, UsedInums
<1>4. OneNumber
  BY ObjAssumption DEF Init, InodeTableInit, OneNumber
<1>5. DentriesResolve
  BY InodeCountAssumption DEF Init, DentriesResolve, NoInum, Inum
<1> QED
  BY <1>1, <1>2, <1>3, <1>4, <1>5 DEF NamesInv

(* Names are in order in every state. *)
LEMMA NamesHold ==
  ASSUME Exclusion # "none"
  PROVE  Spec => [](ServerInv /\ NamesInv)
  BY NamesStart, NamesStep, ServerInvStart, ServerInvStep, PTL DEF Spec

(* No inode is left behind: one that is in the table is named by a dentry, *)
(* or the call that makes or removes it still runs, if callers keep a      *)
(* removal apart from other requests on the name and creations of one name *)
(* apart from each other.                                                  *)
THEOREM InodesStayNamed ==
  ASSUME Exclusion # "none"
  PROVE  Spec => []NoInodeLeak
<1>1. NamesInv => NoInodeLeak
  BY DEF NamesInv
<1> QED
  BY <1>1, NamesHold, PTL

(* A dentry that was not made when the table was full leads to an inode,   *)
(* and to one that no other dentry leads to, under the same exclusion.     *)
THEOREM DentriesLeadToInodes ==
  ASSUME Exclusion # "none"
  PROVE  Spec => []DentriesResolve
<1>1. NamesInv => DentriesResolve
  BY DEF NamesInv
<1> QED
  BY <1>1, NamesHold, PTL
-----------------------------------------------------------------------------
(* Blocks: the steps that leave the files and the pools alone *)

(* An owner of a block, taken apart. *)
LEMMA OwnersAre ==
  ASSUME NEW s, NEW b
  PROVE  \A x : x \in Owners(s, b) <=>
           \/ \E o \in OwningObjs(s) :
                \E k \in EntriesOn(s, blocks[o], b) : x = <<o, k>>
           \/ \E d \in Appending(s, b) : x = <<d, 0>>
<1>1. \A x : x \in Listed(s, b) <=> \E o \in OwningObjs(s) :
                   \E k \in EntriesOn(s, blocks[o], b) : x = <<o, k>>
  BY DEF Listed
<1>2. \A x : x \in Owners(s, b) <=>
        \/ x \in Listed(s, b)
        \/ \E d \in Appending(s, b) : x = <<d, 0>>
  BY DEF Owners
<1> QED
  BY <1>1, <1>2

(* The same for the next state. *)
LEMMA OwnersWillBe ==
  ASSUME NEW CONSTANT s, NEW CONSTANT b
  PROVE  \A x : x \in Owners(s, b)' <=>
           \/ \E o \in OwningObjs(s)' :
                \E k \in EntriesOn(s, blocks'[o], b) : x = <<o, k>>
           \/ \E d \in Appending(s, b)' : x = <<d, 0>>
<1>1. \A x : x \in Listed(s, b)' <=> \E o \in OwningObjs(s)' :
                   \E k \in EntriesOn(s, blocks'[o], b) : x = <<o, k>>
  BY DEF Listed
<1>2. \A x : x \in Owners(s, b)' <=>
        \/ x \in Listed(s, b)'
        \/ \E d \in Appending(s, b)' : x = <<d, 0>>
  BY DEF Owners
<1> QED
  BY <1>1, <1>2

(* A pool stays sound when its blocks keep their owners. *)
LEMMA SoundFrame ==
  ASSUME NEW CONSTANT s \in Server, Sound(s), pool'[s] = pool[s],
         \A b \in Block : Owners(s, b)' = Owners(s, b)
  PROVE  Sound(s)'
  BY DEF Sound

(* The owners of blocks do not change when lists, writers and removals do  *)
(* not.                                                                    *)
LEMMA SameOwners ==
  ASSUME NEW CONSTANT s \in Server, UNCHANGED blocks,
         OwningObjs(s)' = OwningObjs(s),
         \A b \in Block : Appending(s, b)' = Appending(s, b)
  PROVE  \A b \in Block : Owners(s, b)' = Owners(s, b)
  BY DEF Owners, Listed

(* A call that is not about to append a block has none. *)
LEMMA SameAppending ==
  ASSUME NEW c \in Call, OthersKept(c), pc[c] # "append", pc'[c] # "append",
         NEW CONSTANT s \in Server
  PROVE  \A b \in Block : Appending(s, b)' = Appending(s, b)
  BY DEF Appending, OthersKept

(* A call that is not in RemoveFile's loop takes no blocks from a file. *)
LEMMA SameOwning ==
  ASSUME NEW c \in Call, OthersKept(c), UNCHANGED table,
         pc[c] # "reclaim", pc'[c] # "reclaim"
  PROVE  \A s \in Server : OwningObjs(s)' = OwningObjs(s)
<1> SUFFICES ASSUME NEW CONSTANT s \in Server, NEW CONSTANT o \in Obj
             PROVE  Swept(o, s)' <=> Swept(o, s)
  BY DEF OwningObjs
<1> QED
  BY DEF Swept, OthersKept, GetInode, InTable

(* A step of one handler that changes no file and no pool. *)
LEMMA BlocksFrame ==
  ASSUME BlocksInv, NEW c \in Call, OthersKept(c), SameFiles,
         UNCHANGED <<blocks, pool, stale>>,
         pc[c] \notin {"reclaim", "append"}, pc'[c] \notin {"reclaim", "append"},
         \A s \in Server : Reliable(s) => Transfers(c, s)'
  PROVE  BlocksInv'
<1> USE DEF SameFiles
<1> SUFFICES ASSUME NEW CONSTANT s \in Server, Reliable(s)'
             PROVE  Sound(s)' /\ \A d \in Call : /\ NothingMissed(d, s)'
                                                /\ Transfers(d, s)'
  BY DEF BlocksInv
<1>1. Reliable(s)
  BY DEF Reliable, Registered
<1>2. Sound(s) /\ \A d \in Call : NothingMissed(d, s) /\ Transfers(d, s)
  BY <1>1 DEF BlocksInv
<1>3. Sound(s)'
  BY <1>2, SoundFrame, SameOwners, SameOwning, SameAppending
<1>4. ASSUME NEW d \in Call \ {c} PROVE NothingMissed(d, s)' /\ Transfers(d, s)'
  BY <1>2 DEF NothingMissed, Transfers, InFile, OthersKept, HasEntries,
     GetInode, InTable, Linked
<1>5. NothingMissed(c, s)'
  BY DEF NothingMissed
<1> QED
  BY <1>1, <1>3, <1>4, <1>5

(* The same when c does not transfer afterwards. *)
LEMMA BlocksQuiet ==
  ASSUME BlocksInv, NamesInv', NEW c \in Call, OthersKept(c), SameFiles,
         UNCHANGED <<blocks, pool, stale>>,
         pc[c] \notin {"reclaim", "append"},
         pc'[c] \notin {"reclaim", "append", "transfer"}
  PROVE  BlocksInv'
<1>2. \A s \in Server : Transfers(c, s)'
  BY DEF Transfers
<1> QED
  BY <1>2, BlocksFrame

(* After a crash no pool is registered. *)
LEMMA BlocksCrash ==
  ASSUME Crash
  PROVE  BlocksInv'
  BY DEF Crash, BlocksInv, Reliable, Registered

(* Most steps of the handlers. *)
LEMMA HandlersKeepBlocks ==
  ASSUME ServerInv, NamesInv', BlocksInv, NEW c \in Call,
         \/ ReadLookup(c) \/ WriteLookup(c) \/ CreateLookup(c)
         \/ OpenLookup(c) \/ RemoveLookup(c) \/ ListLookup(c) \/ Relookup(c)
         \/ AllocFD(c) \/ CloseFile(c) \/ GetFileInode(c) \/ CountBlocks(c)
         \/ ReadTest(c) \/ Transfer(c) \/ ListOne(c) \/ ListDone(c)
         \/ \E r \in Requests : Begin(c, r)
  PROVE  BlocksInv'
<1>0. CASE Crash
  BY <1>0, BlocksCrash
<1>1. CASE ~ Crash
  <2>1. SameFiles /\ UNCHANGED <<blocks, pool, stale>>
    BY <1>1 DEF SameFiles, ReadLookup, WriteLookup, CreateLookup, OpenLookup,
       RemoveLookup, ListLookup, Relookup, AllocFD, CloseFile, GetFileInode,
       CountBlocks, ReadTest, Transfer, ListOne, ListDone, Begin, fileVars,
       inodeVars
  <2>2. pc[c] \notin {"reclaim", "append"}
    BY DEF ReadLookup, WriteLookup, CreateLookup, OpenLookup,
       RemoveLookup, ListLookup, Relookup, AllocFD, CloseFile, GetFileInode,
       CountBlocks, ReadTest, Transfer, ListOne, ListDone, Begin, At
  <2>3. CASE Return(c)
    <3>1. pc'[c] = "idle" /\ OthersKept(c)
      BY <2>3, ReturnIsQuiet DEF ServerInv
    <3> QED
      BY <2>1, <2>2, <3>1, BlocksQuiet
  <2>4. CASE ~ Return(c)
    <3>1. OthersKept(c)
      BY <1>1, <2>4 DEF ReadLookup, WriteLookup, CreateLookup, OpenLookup,
         RemoveLookup, ListLookup, Relookup, AllocFD, CloseFile, GetFileInode,
         CountBlocks, ReadTest, Transfer, ListOne, ListDone, Begin, OthersKept,
         Goto, FoundInum, localVars, ServerInv, CallsOK
    <3>2. pc'[c] \notin {"reclaim", "append", "transfer"}
      BY <1>1, <2>4 DEF ReadLookup, WriteLookup, CreateLookup, OpenLookup,
         RemoveLookup, ListLookup, Relookup, AllocFD, CloseFile, GetFileInode,
         CountBlocks, ReadTest, Transfer, ListOne, ListDone, Begin, At,
         Goto, EntryPoint, ServerInv, CallsOK
    <3> QED
      BY <2>1, <2>2, <3>1, <3>2, BlocksQuiet
  <2> QED
    BY <2>3, <2>4
<1> QED
  BY <1>0, <1>1
(* A handler that holds the pointer of an inode holds that of the file of  *)
(* its name, which is in the table and not being removed.                  *)
LEMMA PointerOfName ==
  ASSUME ServerInv, NamesInv, NEW c \in Call, pc[c] \in HoldsPointer
  PROVE  /\ inode[c] \in Obj /\ req[c].name \in Name /\ Linked(req[c].name)
         /\ inode[c] = GetInode(children[req[c].name])
         /\ inum[c] \in Inum /\ table[inum[c]] = inode[c]
         /\ \A d \in Call : pc[d] = "reclaim" => GetInode(inum[d]) # inode[c]
<1> USE DEF ServerInv
<1>1. inode[c] \in Obj /\ inode[c] = GetInode(inum[c])
  BY DEF CallsOK, NamesInv, Locals, HoldsPointer
<1>2. /\ req[c].name \in Name /\ Linked(req[c].name)
      /\ inum[c] = children[req[c].name]
  BY RequestsAssumption DEF CallsOK, Request, NamesInv, Stage, HoldsPointer
<1>3. inum[c] \in Inum /\ table[inum[c]] = inode[c]
  BY <1>1, ObjAssumption DEF GetInode, InTable
<1>4. ASSUME NEW d \in Call, pc[d] = "reclaim" PROVE GetInode(inum[d]) # inode[c]
  <2> SUFFICES ASSUME GetInode(inum[d]) = inode[c] PROVE FALSE
    OBVIOUS
  <2>1. inum[d] \in Inum /\ table[inum[d]] = inode[c]
    BY <1>1, ObjAssumption DEF GetInode, InTable
  <2>2. inum[d] = inum[c]
    BY <1>1, <1>3, <2>1 DEF NamesInv, OneNumber
  <2> QED
    BY <1>2, <1>4, <2>1, <2>2 DEF NamesInv, KeptNumbers, Keeps
<1> QED
  BY <1>1, <1>2, <1>3, <1>4

(* A reply names blocks of the file that was asked for. *)
LEMMA ReplyKeepsBlocks ==
  ASSUME ServerInv, NamesInv, BlocksInv, NEW c \in Call,
         pc[c] \in HoldsPointer \ {"append"}, NEW indices \in SUBSET Nat,
         NEW newSize, InList(inode[c], indices), Reply(c, indices, newSize)
  PROVE  BlocksInv'
<1>1. /\ inode[c] \in Obj /\ Linked(req[c].name)
      /\ inode[c] = GetInode(children[req[c].name])
      /\ inum[c] \in Inum /\ table[inum[c]] = inode[c]
  BY PointerOfName
<1>2. HeldElsewhere(c, inode[c])
  BY <1>1 DEF HeldElsewhere
<1>3. /\ UNCHANGED <<children, table, blocks, pool, stale, req, swept>>
      /\ pc' = [pc EXCEPT ![c] = "transfer"]
      /\ inum' = [inum EXCEPT ![c] = NoInum]
      /\ inode' = [inode EXCEPT ![c] = NoObj]
      /\ hand' = [hand EXCEPT ![c] = {blocks[inode[c]][k + 1] : k \in indices}]
  BY <1>2 DEF Reply, Goto, inodeVars
<1>4. /\ OthersKept(c) /\ SameFiles
      /\ pc[c] \notin {"reclaim", "append"} /\ pc'[c] \notin {"reclaim", "append"}
  BY <1>3 DEF OthersKept, SameFiles, ServerInv, CallsOK, HoldsPointer
<1>5. hand'[c] = {blocks[inode[c]][k + 1] : k \in indices}
  BY <1>3 DEF ServerInv, CallsOK
<1>6. ASSUME NEW a \in hand'[c] PROVE InFile(req[c].name, a)'
  <2>1. PICK k \in indices : a = blocks[inode[c]][k + 1]
    BY <1>5
  <2>2. k + 1 \in DOMAIN blocks[inode[c]]
    <3>1. k \in Nat /\ k < Len(blocks[inode[c]])
      BY DEF InList
    <3>2. blocks[inode[c]] \in Seq(BlockAddr)
      BY <1>1 DEF ServerInv, FilesOK
    <3>3. /\ Len(blocks[inode[c]]) \in Nat
          /\ DOMAIN blocks[inode[c]] = 1 .. Len(blocks[inode[c]])
      BY <3>2
    <3> QED
      BY <3>1, <3>3
  <2> QED
    BY <1>1, <1>3, <2>1, <2>2 DEF InFile, Linked, GetInode, InTable
<1>7. \A s \in Server : Transfers(c, s)'
  BY <1>6 DEF Transfers
<1> QED
  BY <1>3, <1>4, <1>7, BlocksFrame

(* ReadFile's and WriteFile's answers. *)
LEMMA RepliesKeepBlocks ==
  ASSUME ServerInv, NamesInv, BlocksInv, NEW c \in Call,
         WriteReply(c) \/ ReadReply(c) \/ ReadClamp(c)
  PROVE  BlocksInv'
<1>0. CASE Crash
  BY <1>0, BlocksCrash
<1>1. CASE ~ Crash
  <2>1. ASSUME NEW off \in Nat, NEW len \in Nat
        PROVE  ReplyIndices(off, len) \in SUBSET Nat
    BY <2>1, ReplyIndicesWithin
  <2>2. pc[c] \in HoldsPointer \ {"append"}
    BY DEF WriteReply, ReadReply, ReadClamp, At, HoldsPointer
  <2>3. /\ req[c].off \in Nat /\ req[c].len \in Nat
        /\ inode[c] \in Obj /\ size[inode[c]] \in Nat
    BY <2>2, RequestsAssumption
       DEF ServerInv, CallsOK, FilesOK, Request, HoldsPointer
  <2>4. CASE WriteReply(c) \/ ReadReply(c)
    <3>1. PICK newSize :
            /\ InList(inode[c], ReplyIndices(req[c].off, req[c].len))
            /\ Reply(c, ReplyIndices(req[c].off, req[c].len), newSize)
      BY <1>1, <2>4 DEF WriteReply, ReadReply
    <3>2. ReplyIndices(req[c].off, req[c].len) \in SUBSET Nat
      BY <2>1, <2>3
    <3> QED
      BY <2>2, <3>1, <3>2, ReplyKeepsBlocks
  <2>5. CASE ReadClamp(c)
    <3>1. PICK rest \in Nat :
            /\ InList(inode[c], ReplyIndices(req[c].off, rest))
            /\ Reply(c, ReplyIndices(req[c].off, rest), size[inode[c]])
      <4>1. /\ req[c].off <= size[inode[c]]
            /\ InList(inode[c],
                      ReplyIndices(req[c].off, size[inode[c]] - req[c].off))
            /\ Reply(c, ReplyIndices(req[c].off, size[inode[c]] - req[c].off),
                     size[inode[c]])
        BY <1>1, <2>5 DEF ReadClamp
      <4>2. size[inode[c]] - req[c].off \in Nat
        BY <2>3, <4>1
      <4> QED
        BY <4>1, <4>2
    <3>2. ReplyIndices(req[c].off, rest) \in SUBSET Nat
      BY <2>1, <2>3
    <3> QED
      BY <2>2, <3>1, <3>2, ReplyKeepsBlocks
  <2> QED
    BY <2>4, <2>5
<1> QED
  BY <1>0, <1>1

-----------------------------------------------------------------------------
(* Blocks: the steps that change block lists, removals or pools *)

(* Where an appended entry shows. *)
LEMMA AppendedEntries ==
  ASSUME NEW list \in Seq(BlockAddr), NEW s0 \in Server, NEW b0 \in Block,
         NEW s \in Server, NEW b \in Block
  PROVE  /\ EntriesOn(s, Append(list, [srv |-> s0, nr |-> b0]), b) =
              EntriesOn(s, list, b) \cup
                (IF s = s0 /\ b = b0 THEN {Len(list) + 1} ELSE {})
         /\ \A k \in DOMAIN list :
              /\ k \in DOMAIN Append(list, [srv |-> s0, nr |-> b0])
              /\ Append(list, [srv |-> s0, nr |-> b0])[k] = list[k]
<1> DEFINE a == [srv |-> s0, nr |-> b0]
<1>0. a \in BlockAddr /\ a.srv = s0 /\ a.nr = b0
  BY DEF BlockAddr
<1> HIDE DEF a
<1>1. /\ Len(list) \in Nat /\ DOMAIN list = 1 .. Len(list)
      /\ DOMAIN Append(list, a) = 1 .. Len(list) + 1
      /\ Append(list, a)[Len(list) + 1] = a
      /\ \A k \in 1 .. Len(list) : Append(list, a)[k] = list[k]
  BY <1>0
<1>2. \A k \in DOMAIN list : /\ k \in DOMAIN Append(list, a)
                             /\ Append(list, a)[k] = list[k]
  BY <1>1
<1>3. DOMAIN Append(list, a) = DOMAIN list \cup {Len(list) + 1}
  BY <1>1
<1>4. EntriesOn(s, Append(list, a), b) =
        EntriesOn(s, list, b) \cup
          (IF s = s0 /\ b = b0 THEN {Len(list) + 1} ELSE {})
  BY <1>0, <1>1, <1>2, <1>3 DEF EntriesOn
<1> QED
  BY <1>2, <1>4 DEF a
(* Taking a block from a pool that is not overdrawn. *)
LEMMA TakenBlock ==
  ASSUME SpaceTypeOK, NEW s \in Registered, NEW b \in Block,
         AllocateOneBlock(s, b), ~ pool'[s].wild
  PROVE  /\ ~ pool[s].wild /\ pool[s].free[b] > 0
         /\ pool'[s].total = pool[s].total
         /\ pool'[s].inused = pool[s].inused \cup {b}
         /\ \A d \in Block :
              pool'[s].free[d] =
                IF d = b THEN pool[s].free[d] - 1 ELSE pool[s].free[d]
<1>1. pool[s] \in Pool /\ s \in Server
  BY DEF SpaceTypeOK, Registered
<1>2. pool[s].free \in [Block -> Nat]
  BY <1>1 DEF Pool, HeapOver
<1>3. ~ pool[s].wild /\ IsTop(pool[s].free, b) /\ pool'[s] = Taken(pool[s], b)
  BY <1>1 DEF AllocateOneBlock, SpaceTypeOK, Pool
<1>4. /\ pool'[s].free = Pop(pool[s].free, b)
      /\ pool'[s].total = pool[s].total
      /\ pool'[s].inused = pool[s].inused \cup {b}
  BY <1>1, <1>3 DEF Taken, Pool
<1>5. \A d \in Block :
        pool'[s].free[d] =
          IF d = b THEN pool[s].free[d] - 1 ELSE pool[s].free[d]
  BY <1>2, <1>4 DEF Pop
<1> QED
  BY <1>3, <1>4, <1>5 DEF IsTop, HeapHolds

(* WriteFile's loop: the block it takes had no owner and gets one, the     *)
(* handler itself.                                                         *)
LEMMA TakeKeepsBlocks ==
  ASSUME ServerInv, NamesInv, BlocksInv, NEW c \in Call, TakeBlock(c)
  PROVE  BlocksInv'
<1> USE DEF ServerInv
<1>0. CASE Crash
  BY <1>0, BlocksCrash
<1>1. CASE ~ Crash
  <2>1. PICK s0 \in Registered, b0 \in Block :
          /\ AllocateOneBlock(s0, b0)
          /\ hand' = [hand EXCEPT ![c] = {[srv |-> s0, nr |-> b0]}]
    BY <1>1 DEF TakeBlock
  <2>2. /\ pc[c] = "grow" /\ pc'[c] = "append" /\ OthersKept(c)
        /\ UNCHANGED <<children, table, blocks, stale, req, inum, swept>>
    BY <1>1, <2>1 DEF TakeBlock, At, Goto, OthersKept, CallsOK, fileVars, inodeVars
  <2>5. s0 \in Server /\ \A s \in Server \ {s0} : pool'[s] = pool[s]
    BY <2>1 DEF AllocateOneBlock, Registered, SpaceTypeOK
  <2>6. ASSUME NEW CONSTANT s \in Server
        PROVE  OwningObjs(s)' = OwningObjs(s)
    BY <2>2, SameOwning
  <2>7. ASSUME NEW CONSTANT s \in Server, NEW CONSTANT b \in Block
        PROVE  Owners(s, b)' = Owners(s, b) \cup
                 (IF s = s0 /\ b = b0 THEN {<<c, 0>>} ELSE {})
    <3>1. hand'[c] = {[srv |-> s0, nr |-> b0]}
      BY <2>1 DEF CallsOK
    <3>2. [srv |-> s, nr |-> b] \in hand'[c] <=> s = s0 /\ b = b0
      BY <3>1
    <3>3. Appending(s, b)' = Appending(s, b) \cup
            (IF s = s0 /\ b = b0 THEN {c} ELSE {})
      BY <2>2, <3>2 DEF Appending, OthersKept
    <3>4. \A x : x \in Owners(s, b)' <=>
            x \in Owners(s, b) \/ (s = s0 /\ b = b0 /\ x = <<c, 0>>)
      BY <2>2, <2>6, <3>3, OwnersAre, OwnersWillBe
    <3> QED
      BY <3>4
  <2> SUFFICES ASSUME NEW CONSTANT s \in Server, Reliable(s)'
               PROVE  Sound(s)' /\ \A d \in Call : /\ NothingMissed(d, s)'
                                                  /\ Transfers(d, s)'
    BY DEF BlocksInv
  <2>8. Reliable(s)
    BY <2>1, <2>2, <2>5, TakenBlock DEF Reliable, Registered
  <2>9. Sound(s) /\ \A d \in Call : NothingMissed(d, s) /\ Transfers(d, s)
    BY <2>8 DEF BlocksInv
  <2>10. Sound(s)'
    <3>1. CASE s # s0
      BY <2>5, <2>7, <2>9, <3>1, SoundFrame
    <3>2. CASE s = s0
      <4>1. ~ pool'[s].wild
        BY DEF Reliable
      <4>2. /\ pool[s].free[b0] > 0
            /\ pool'[s].total = pool[s].total
            /\ pool'[s].inused = pool[s].inused \cup {b0}
            /\ \A d \in Block :
                 pool'[s].free[d] =
                   IF d = b0 THEN pool[s].free[d] - 1 ELSE pool[s].free[d]
        BY <2>1, <3>2, <4>1, TakenBlock
      <4>3. Owners(s, b0) = {} /\ b0 < pool[s].total /\ pool[s].free[b0] = 1
        BY <2>9, <4>2 DEF Sound
      <4>4. ASSUME NEW CONSTANT b \in Block
            PROVE  Owners(s, b)' = IF b = b0 THEN {<<c, 0>>}
                                   ELSE Owners(s, b)
        <5>1. CASE b = b0
          BY <2>7, <3>2, <4>3, <5>1
        <5>2. CASE b # b0
          <6>1. Owners(s, b)' = Owners(s, b) \cup {}
            BY <2>7, <5>2
          <6>2. Owners(s, b) \cup {} = Owners(s, b)
            OBVIOUS
          <6> QED
            BY <5>2, <6>1, <6>2
        <5> QED
          BY <5>1, <5>2
      <4>5. ASSUME NEW CONSTANT b \in Block
            PROVE  /\ \A x, y \in Owners(s, b)' : x = y
                   /\ Owners(s, b)' # {} => b < pool'[s].total
                   /\ pool'[s].free[b] =
                        IF b < pool'[s].total /\ Owners(s, b)' = {}
                        THEN 1 ELSE 0
                   /\ b \in pool'[s].inused <=> Owners(s, b)' # {}
        <5>1. CASE b = b0
          <6>1. Owners(s, b)' = {<<c, 0>>}
            BY <4>4, <5>1
          <6>2. /\ b \in pool'[s].inused /\ b < pool'[s].total
                /\ pool'[s].free[b] = 0
            BY <4>2, <4>3, <5>1
          <6> QED
            BY <6>1, <6>2
        <5>2. CASE b # b0
          BY <2>9, <4>2, <4>4, <5>2 DEF Sound
        <5> QED
          BY <5>1, <5>2
      <4> QED
        BY <4>5 DEF Sound
    <3> QED
      BY <3>1, <3>2
  <2>11. ASSUME NEW d \in Call PROVE NothingMissed(d, s)'
    BY <2>2, <2>9 DEF NothingMissed, HasEntries, GetInode, InTable, OthersKept
  <2>12. ASSUME NEW d \in Call PROVE Transfers(d, s)'
    BY <2>2, <2>9 DEF Transfers, InFile, Linked, GetInode, InTable, OthersKept
  <2> QED
    BY <2>10, <2>11, <2>12
<1> QED
  BY <1>0, <1>1

(* AppendFileBlockInfo: the block goes from the handler to the file. *)
LEMMA AppendKeepsBlocks ==
  ASSUME ServerInv, NamesInv, BlocksInv, NEW c \in Call, AppendBlock(c)
  PROVE  BlocksInv'
<1> USE DEF ServerInv
<1>1. PICK s0 \in Server, b0 \in Block : hand[c] = {[srv |-> s0, nr |-> b0]}
  BY DEF AppendBlock, At, CallsOK, BlockAddr
<1>2. /\ pc[c] \in HoldsPointer /\ pc[c] = "append" /\ pc'[c] = "grow"
      /\ OthersKept(c)
      /\ UNCHANGED <<children, table, stale, req, inum, swept, pool>>
      /\ blocks' = [blocks EXCEPT
                      ![inode[c]] = Append(@, [srv |-> s0, nr |-> b0])]
  BY <1>1 DEF AppendBlock, At, Goto, HoldsPointer, OthersKept, CallsOK, inodeVars
<1>3. PICK o \in Obj :
        /\ o = inode[c] /\ \E i \in Inum : table[i] = o
        /\ \A d \in Call : pc[d] = "reclaim" => GetInode(inum[d]) # o
  BY <1>2, PointerOfName
<1>4. /\ blocks'[o] = Append(blocks[o], [srv |-> s0, nr |-> b0])
      /\ \A q \in Obj \ {o} : blocks'[q] = blocks[q]
      /\ blocks[o] \in Seq(BlockAddr)
  BY <1>2, <1>3 DEF FilesOK
<1>5. ASSUME NEW CONSTANT s \in Server
      PROVE  /\ OwningObjs(s)' = OwningObjs(s) /\ o \in OwningObjs(s)
             /\ OwningObjs(s) \subseteq Obj
  <2>1. OwningObjs(s)' = OwningObjs(s)
    BY <1>2, SameOwning
  <2> QED
    BY <1>3, <2>1 DEF OwningObjs, Swept
<1>6. ASSUME NEW CONSTANT s \in Server, NEW CONSTANT b \in Block
      PROVE  /\ c \in Appending(s, b) <=> s = s0 /\ b = b0
             /\ Appending(s, b)' = Appending(s, b) \ {c}
  <2>1. [srv |-> s, nr |-> b] \in hand[c] <=> s = s0 /\ b = b0
    BY <1>1
  <2> QED
    BY <1>2, <2>1 DEF Appending, OthersKept
<1>7. ASSUME NEW CONSTANT s \in Server, NEW CONSTANT b \in Block
      PROVE  \A x : x \in Owners(s, b)' <=>
               \/ x \in Owners(s, b) /\ (s = s0 /\ b = b0 => x # <<c, 0>>)
               \/ s = s0 /\ b = b0 /\ x = <<o, Len(blocks[o]) + 1>>
  <2>1. EntriesOn(s, blocks'[o], b) = EntriesOn(s, blocks[o], b) \cup
          (IF s = s0 /\ b = b0 THEN {Len(blocks[o]) + 1} ELSE {})
    BY <1>4, AppendedEntries
  <2>2. \A q \in OwningObjs(s) \ {o} :
          EntriesOn(s, blocks'[q], b) = EntriesOn(s, blocks[q], b)
    BY <1>4, <1>5
  <2>3. \A q \in OwningObjs(s) : \A k \in EntriesOn(s, blocks[q], b) : k # 0
    BY <1>5 DEF EntriesOn, FilesOK
  <2>4. \A x : x \in Owners(s, b)' <=>
          \/ \E q \in OwningObjs(s) :
               \E k \in EntriesOn(s, blocks'[q], b) : x = <<q, k>>
          \/ \E d \in Appending(s, b) \ {c} : x = <<d, 0>>
    BY <1>5, <1>6, OwnersWillBe
  <2>5. \A x : x \in Owners(s, b) <=>
          \/ \E q \in OwningObjs(s) :
               \E k \in EntriesOn(s, blocks[q], b) : x = <<q, k>>
          \/ \E d \in Appending(s, b) : x = <<d, 0>>
    BY OwnersAre
  <2>6. CASE s = s0 /\ b = b0
    BY <1>5, <1>6, <2>1, <2>2, <2>3, <2>4, <2>5, <2>6
  <2>7. CASE ~ (s = s0 /\ b = b0)
    BY <1>5, <1>6, <2>1, <2>2, <2>4, <2>5, <2>7
  <2> QED
    BY <2>6, <2>7
<1> SUFFICES ASSUME NEW CONSTANT s \in Server, Reliable(s)'
             PROVE  Sound(s)' /\ \A d \in Call : /\ NothingMissed(d, s)'
                                                /\ Transfers(d, s)'
  BY DEF BlocksInv
<1>8. Sound(s) /\ \A d \in Call : NothingMissed(d, s) /\ Transfers(d, s)
  BY <1>2 DEF Reliable, Registered, BlocksInv
<1>9. Sound(s)'
  <2>1. ASSUME NEW CONSTANT b \in Block
        PROVE  /\ \A x, y \in Owners(s, b)' : x = y
               /\ Owners(s, b)' = {} <=> Owners(s, b) = {}
    <3>1. \A x, y \in Owners(s, b) : x = y
      BY <1>8 DEF Sound
    <3>2. s = s0 /\ b = b0 => <<c, 0>> \in Owners(s, b)
      BY <1>6, OwnersAre
    <3>3. CASE s = s0 /\ b = b0
      <4>1. Owners(s, b)' = {<<o, Len(blocks[o]) + 1>>}
        BY <1>7, <3>1, <3>2, <3>3
      <4> QED
        BY <3>2, <3>3, <4>1
    <3>4. CASE ~ (s = s0 /\ b = b0)
      <4>1. Owners(s, b)' = Owners(s, b)
        BY <1>7, <3>4
      <4> QED
        BY <3>1, <4>1
    <3> QED
      BY <3>3, <3>4
  <2> QED
    BY <1>2, <1>8, <2>1 DEF Sound
<1>10. ASSUME NEW d \in Call PROVE NothingMissed(d, s)'
  <2> DEFINE q == GetInode(inum[d])
  <2>1. q' = q
    BY <1>2 DEF GetInode, InTable
  <2>2. pc[d] = "reclaim" /\ q \in Obj => blocks'[q] = blocks[q]
    BY <1>3, <1>4
  <2>3. NothingMissed(d, s)
    BY <1>8
  <2> HIDE DEF q
  <2> QED
    BY <1>2, <2>1, <2>2, <2>3 DEF NothingMissed, HasEntries, OthersKept, q
<1>11. ASSUME NEW d \in Call PROVE Transfers(d, s)'
  <2> SUFFICES ASSUME NEW CONSTANT a \in hand[d], InFile(req[d].name, a)
               PROVE  InFile(req[d].name, a)'
    BY <1>2, <1>8 DEF Transfers, OthersKept
  <2> DEFINE q == GetInode(children[req[d].name])
  <2>1. q \in Obj /\ q' = q /\ Linked(req[d].name)'
    BY <1>2 DEF InFile, GetInode, InTable, Linked
  <2>2. PICK k \in DOMAIN blocks[q] : blocks[q][k] = a
    BY DEF InFile
  <2>3. k \in DOMAIN blocks'[q] /\ blocks'[q][k] = a
    <3> HIDE DEF q
    <3>1. CASE q = o
      BY <1>4, <2>2, <3>1, AppendedEntries
    <3>2. CASE q # o
      BY <1>4, <2>1, <2>2, <3>2
    <3> QED
      BY <3>1, <3>2
  <2> QED
    BY <2>1, <2>3 DEF InFile
<1> QED
  BY <1>9, <1>10, <1>11

(* A new inode has no blocks. *)
LEMMA AllocInodeKeepsBlocks ==
  ASSUME ServerInv, NamesInv, BlocksInv, NEW c \in Call, AllocInode(c)
  PROVE  BlocksInv'
<1> USE DEF ServerInv
<1>1. PICK o \in Obj, i \in DentryInum :
        /\ Unreferenced(o) /\ AllocateFreeInode(o, i)
        /\ inum' = [inum EXCEPT ![c] = i]
        /\ blocks' = [blocks EXCEPT ![o] = << >>]
  BY DEF AllocInode
<1>2. \/ i \notin Inum /\ UNCHANGED table
      \/ /\ i \in Inum /\ table[i] = NoObj
         /\ table' = [table EXCEPT ![i] = o]
  BY <1>1, NewNumber
<1>3. /\ \A j \in Inum : table[j] # NoObj => table'[j] = table[j]
      /\ \A j \in Inum : table[j] # o
      /\ \A j \in Inum : table'[j] # o => table'[j] = table[j]
  BY <1>1, <1>2 DEF InodeInv, InodeTypeOK, Unreferenced
<1>4. /\ pc[c] = "alloc" /\ pc'[c] = "link"
      /\ UNCHANGED <<children, stale, req, swept, hand, pool>>
      /\ \A d \in Call \ {c} : pc'[d] = pc[d] /\ inum'[d] = inum[d]
  BY <1>1 DEF AllocInode, At, Goto, CallsOK
<1>5. /\ blocks'[o] = << >>
      /\ \A q \in Obj \ {o} : blocks'[q] = blocks[q]
  BY <1>1 DEF FilesOK
<1>6. ASSUME NEW CONSTANT d \in Call, pc[d] = "reclaim" \/ pc'[d] = "reclaim"
      PROVE  /\ d # c /\ pc'[d] = pc[d] /\ inum'[d] = inum[d]
             /\ GetInode(inum[d])' = GetInode(inum[d])
             /\ GetInode(inum[d]) # o
  <2>1. d # c /\ pc'[d] = pc[d] /\ inum'[d] = inum[d] /\ pc[d] = "reclaim"
    BY <1>4, <1>6
  <2>2. InTable(inum[d]) \/ inum[d] \notin Inum
    BY <2>1 DEF NamesInv, KeptNumbers, Keeps
  <2>3. GetInode(inum[d])' = GetInode(inum[d])
    BY <1>3, <2>1, <2>2 DEF GetInode, InTable
  <2>4. GetInode(inum[d]) # o
    BY <1>3, ObjAssumption DEF GetInode, InTable
  <2> QED
    BY <2>1, <2>3, <2>4
<1>7. ASSUME NEW CONSTANT s \in Server, NEW CONSTANT q \in Obj \ {o}
      PROVE  q \in OwningObjs(s)' <=> q \in OwningObjs(s)
  <2>1. Swept(q, s)' <=> Swept(q, s)
    BY <1>4, <1>6 DEF Swept
  <2>2. (\E j \in Inum : table'[j] = q) <=> (\E j \in Inum : table[j] = q)
    BY <1>3, ObjAssumption
  <2> QED
    BY <2>1, <2>2 DEF OwningObjs
<1>8. ASSUME NEW CONSTANT s \in Server, NEW CONSTANT b \in Block
      PROVE  Owners(s, b)' = Owners(s, b)
  <2>1. EntriesOn(s, blocks'[o], b) = {} /\ o \notin OwningObjs(s)
    BY <1>3, <1>5 DEF EntriesOn, OwningObjs
  <2>2. OwningObjs(s) \subseteq Obj /\ OwningObjs(s)' \subseteq Obj
    BY DEF OwningObjs
  <2>3. \A x : x \in Owners(s, b)' <=>
          \/ \E q \in OwningObjs(s)' :
               \E k \in EntriesOn(s, blocks'[q], b) : x = <<q, k>>
          \/ \E d \in Appending(s, b) : x = <<d, 0>>
    <3>1. Appending(s, b)' = Appending(s, b)
      BY <1>4 DEF Appending
    <3> QED
      BY <3>1, OwnersWillBe
  <2>4. \A x : x \in Owners(s, b) <=>
          \/ \E q \in OwningObjs(s) :
               \E k \in EntriesOn(s, blocks[q], b) : x = <<q, k>>
          \/ \E d \in Appending(s, b) : x = <<d, 0>>
    BY OwnersAre
  <2>5. \A q \in Obj \ {o} :
          EntriesOn(s, blocks'[q], b) = EntriesOn(s, blocks[q], b)
    BY <1>5
  <2>6. \A x : x \in Owners(s, b)' <=> x \in Owners(s, b)
    BY <1>7, <2>1, <2>2, <2>3, <2>4, <2>5
  <2> QED
    BY <2>6
<1> SUFFICES ASSUME NEW CONSTANT s \in Server, Reliable(s)'
             PROVE  Sound(s)' /\ \A d \in Call : /\ NothingMissed(d, s)'
                                                /\ Transfers(d, s)'
  BY DEF BlocksInv
<1>9. Sound(s) /\ \A d \in Call : NothingMissed(d, s) /\ Transfers(d, s)
  BY <1>4 DEF Reliable, Registered, BlocksInv
<1>10. Sound(s)'
  BY <1>4, <1>8, <1>9, SoundFrame
<1>11. ASSUME NEW CONSTANT d \in Call PROVE NothingMissed(d, s)'
  <2> SUFFICES ASSUME pc'[d] = "reclaim", GetInode(inum[d])' \in Obj,
                      s \notin swept'[d], \E e \in swept'[d] : s < e
               PROVE  ~ HasEntries(GetInode(inum[d]), s)'
    BY DEF NothingMissed
  <2> DEFINE q == GetInode(inum[d])
  <2>1. q' = q /\ q # o /\ pc[d] = "reclaim"
    BY <1>6
  <2>2. blocks'[q] = blocks[q]
    BY <1>5, <2>1
  <2>3. ~ HasEntries(q, s)
    BY <1>4, <1>9, <2>1 DEF NothingMissed
  <2> HIDE DEF q
  <2>4. ~ HasEntries(q, s)'
    BY <2>1, <2>2, <2>3 DEF HasEntries
  <2> QED
    BY <2>4 DEF q
<1>12. ASSUME NEW CONSTANT d \in Call PROVE Transfers(d, s)'
  <2> SUFFICES ASSUME NEW a \in hand[d], InFile(req[d].name, a)
               PROVE  InFile(req[d].name, a)'
    BY <1>4, <1>9 DEF Transfers
  <2> DEFINE q == GetInode(children[req[d].name])
  <2>1. q \in Obj /\ q' = q /\ Linked(req[d].name)'
    BY <1>3, <1>4, ObjAssumption DEF InFile, GetInode, InTable, Linked
  <2>2. q # o
    BY <1>3, <2>1, ObjAssumption DEF GetInode, InTable
  <2>3. blocks'[q] = blocks[q]
    BY <1>5, <2>1, <2>2
  <2> QED
    BY <2>1, <2>3 DEF InFile
<1> QED
  BY <1>10, <1>11, <1>12

(* A new dentry takes the place of none. *)
LEMMA LinkKeepsBlocks ==
  ASSUME ServerInv, NamesInv, NamesInv', BlocksInv, NEW c \in Call, Link(c)
  PROVE  BlocksInv'
<1> USE DEF ServerInv
<1>1. PICK n \in Name : n = req[c].name
  BY RequestsAssumption DEF Link, At, CallsOK, Request
<1>2. /\ pc[c] = "link" /\ children[n] = NoInum
      /\ UNCHANGED <<table, blocks, pool, stale>>
      /\ children' = [children EXCEPT ![n] = inum[c]]
      /\ pc'[c] \in {"relookup", "fd", "idle"}
  BY <1>1 DEF Link, At, AddDentry, NamesInv, Stage, Linked, Creates, Goto,
     Return, CallsOK, inodeVars
<1>3. OthersKept(c)
  <2>1. CASE Return(c)
    BY <2>1, ReturnIsQuiet
  <2>2. CASE ~ Return(c)
    BY <2>2 DEF Link, Goto, OthersKept, CallsOK, localVars
  <2> QED
    BY <2>1, <2>2
<1> SUFFICES ASSUME NEW CONSTANT s \in Server, Reliable(s)'
             PROVE  Sound(s)' /\ \A d \in Call : /\ NothingMissed(d, s)'
                                                /\ Transfers(d, s)'
  BY DEF BlocksInv
<1>4. Sound(s) /\ \A d \in Call : NothingMissed(d, s) /\ Transfers(d, s)
  BY <1>2 DEF Reliable, Registered, BlocksInv
<1>5. Sound(s)'
  BY <1>2, <1>3, <1>4, SoundFrame, SameOwners, SameOwning, SameAppending
<1>6. ASSUME NEW d \in Call PROVE NothingMissed(d, s)'
  BY <1>2, <1>3, <1>4 DEF NothingMissed, OthersKept, HasEntries, GetInode, InTable
<1>7. Transfers(c, s)'
  BY <1>2 DEF Transfers
<1>8. ASSUME NEW d \in Call \ {c} PROVE Transfers(d, s)'
  <2> SUFFICES ASSUME NEW a \in hand[d], InFile(req[d].name, a),
                      pc[d] = "transfer"
               PROVE  InFile(req[d].name, a)'
    BY <1>3, <1>4 DEF Transfers, OthersKept
  <2>2. req[d].name \in Name /\ req[d].name # n
    BY <1>2, RequestsAssumption DEF InFile, Linked, CallsOK, Request
  <2>3. children'[req[d].name] = children[req[d].name] /\ req'[d] = req[d]
    BY <1>2, <1>3, <2>2 DEF OthersKept, FilesOK
  <2> QED
    BY <1>2, <2>3 DEF InFile, Linked, GetInode, InTable
<1> QED
  BY <1>5, <1>6, <1>7, <1>8

(* A removal has no transfer of the name beside it. *)
LEMMA UnlinkKeepsBlocks ==
  ASSUME ServerInv, NamesInv, BlocksInv, NEW c \in Call, Unlink(c)
  PROVE  BlocksInv'
<1> USE DEF ServerInv
<1>1. PICK n \in Name : n = req[c].name
  BY RequestsAssumption DEF Unlink, At, CallsOK, Request
<1>2. /\ pc[c] = "unlink" /\ pc'[c] = "reclaim"
      /\ UNCHANGED <<table, blocks, pool, stale>>
      /\ children' = [children EXCEPT ![n] = NoInum] /\ UNCHANGED localVars
      /\ \A d \in Call \ {c} : pc'[d] = pc[d]
  BY <1>1 DEF Unlink, At, DeleteDentry, Goto, CallsOK, inodeVars
<1>3. UNCHANGED <<req, inum, swept, hand>> /\ swept[c] = {}
  BY <1>2 DEF localVars, NamesInv, Locals
<1>4. \A m \in Name \ {n} : children'[m] = children[m]
  BY <1>2 DEF FilesOK
<1>5. \A d \in Call \ {c} : ~ SameName(c, d) /\ req[c].op = "remove"
  BY <1>2 DEF NamesInv, Apart, SameName, Stage
<1> SUFFICES ASSUME NEW CONSTANT s \in Server, Reliable(s)'
             PROVE  Sound(s)' /\ \A d \in Call : /\ NothingMissed(d, s)'
                                                /\ Transfers(d, s)'
  BY DEF BlocksInv
<1>6. Sound(s) /\ \A d \in Call : NothingMissed(d, s) /\ Transfers(d, s)
  BY <1>2 DEF Reliable, Registered, BlocksInv
<1>7. Sound(s)'
  <2>1. ASSUME NEW CONSTANT o \in Obj PROVE Swept(o, s)' <=> Swept(o, s)
    BY <1>2, <1>3 DEF Swept, GetInode, InTable
  <2>2. OwningObjs(s)' = OwningObjs(s)
    BY <1>2, <2>1 DEF OwningObjs
  <2>3. \A b \in Block : Appending(s, b)' = Appending(s, b)
    BY <1>2, <1>3 DEF Appending
  <2> QED
    BY <1>2, <1>6, <2>2, <2>3, SoundFrame, SameOwners
<1>8. ASSUME NEW d \in Call PROVE NothingMissed(d, s)'
  BY <1>2, <1>3, <1>6 DEF NothingMissed, HasEntries, GetInode, InTable
<1>9. ASSUME NEW d \in Call PROVE Transfers(d, s)'
  <2> SUFFICES ASSUME NEW a \in hand[d], InFile(req[d].name, a),
                      pc[d] = "transfer"
               PROVE  InFile(req[d].name, a)'
    BY <1>2, <1>3, <1>6 DEF Transfers
  <2>1. pc[d] = "transfer" /\ req[d].op \in {"read", "write"}
    BY DEF NamesInv, Stage
  <2>2. req[d].name \in Name /\ d # c
    BY <1>2, <2>1, RequestsAssumption DEF CallsOK, Request
  <2>3. req[d].name # n
    BY <1>1, <1>2, <1>5, <2>1, <2>2 DEF SameName
  <2> QED
    BY <1>2, <1>3, <1>4, <2>2, <2>3 DEF InFile, Linked, GetInode, InTable
<1> QED
  BY <1>7, <1>8, <1>9
(* What a removal in its loop works on is its own: no other removal, and   *)
(* no transfer, has the same inode.                                        *)
LEMMA ReclaimsAlone ==
  ASSUME ServerInv, NamesInv, NEW c \in Call, pc[c] = "reclaim",
         GetInode(inum[c]) # NoObj
  PROVE  /\ inum[c] \in Inum /\ table[inum[c]] = GetInode(inum[c])
         /\ GetInode(inum[c]) \in Obj
         /\ \A d \in Call \ {c} :
              pc[d] = "reclaim" => GetInode(inum[d]) # GetInode(inum[c])
         /\ \A n \in Name : GetInode(children[n]) # GetInode(inum[c])
         /\ \A d \in Call : inode[d] # GetInode(inum[c])
<1> USE DEF ServerInv
<1>1. /\ inum[c] \in Inum /\ table[inum[c]] = GetInode(inum[c])
      /\ GetInode(inum[c]) \in Obj
  <2>1. GetInode(inum[c]) \in Obj \cup {NoObj}
    BY GetInodeType DEF CallsOK, InodeInv
  <2> QED
    BY <2>1 DEF GetInode, InTable
<1>2. /\ \A n \in Name : children[n] # inum[c]
      /\ \A d \in Call \ {c} : pc[d] = "reclaim" => inum[d] # inum[c]
  BY <1>1 DEF NamesInv, KeptNumbers, Keeps
<1>3. ASSUME NEW i, GetInode(i) = GetInode(inum[c]) PROVE i = inum[c]
  BY <1>1, <1>3 DEF GetInode, InTable, NamesInv, OneNumber
<1>4. ASSUME NEW d \in Call PROVE inode[d] # GetInode(inum[c])
  <2>1. CASE pc[d] \in HoldsPointer
    BY <2>1, PointerOfName
  <2>2. CASE pc[d] \notin HoldsPointer
    BY <2>2 DEF NamesInv, Locals
  <2> QED
    BY <2>1, <2>2
<1> QED
  BY <1>1, <1>2, <1>3, <1>4

(* What ReclaimInodeSpace does to a pool that is not overdrawn. *)
LEMMA ReturnedBlocks ==
  ASSUME SpaceTypeOK, NEW s \in Registered, NEW list,
         ReclaimInodeSpace(s, list), ~ pool'[s].wild
  PROVE  /\ ~ pool[s].wild
         /\ pool'[s].total = pool[s].total
         /\ \A b \in Block :
              /\ pool'[s].free[b] =
                   pool[s].free[b] + Cardinality(EntriesOn(s, list, b))
              /\ b \in pool'[s].inused <=>
                   /\ b \in pool[s].inused
                   /\ Cardinality(EntriesOn(s, list, b)) = 0
<1> DEFINE times == [b \in Block |-> Cardinality(EntriesOn(s, list, b))]
           n == Cardinality({i \in DOMAIN list : list[i].srv = s})
<1>1. pool[s] \in Pool /\ s \in Server
  BY DEF SpaceTypeOK, Registered
<1>2. pool'[s] = Returned(pool[s], times, n)
  BY <1>1 DEF ReclaimInodeSpace, SpaceTypeOK
<1> HIDE DEF n
<1>3. /\ pool'[s].wild = pool[s].wild /\ pool'[s].total = pool[s].total
      /\ pool'[s].inused = {b \in pool[s].inused : times[b] = 0}
      /\ pool'[s].free = IF pool[s].wild THEN pool[s].free
                         ELSE [b \in Block |-> pool[s].free[b] + times[b]]
  BY <1>1, <1>2 DEF Returned, Pool
<1> QED
  BY <1>1, <1>3 DEF Pool

(* One round of RemoveFile's loop: the blocks of the file on the server    *)
(* have no owner any more and are free.                                    *)
LEMMA ReclaimKeepsBlocks ==
  ASSUME ServerInv, NamesInv, BlocksInv, NEW c \in Call, ReclaimBlocks(c)
  PROVE  BlocksInv'
<1> USE DEF ServerInv
<1>0. CASE Crash
  BY <1>0, BlocksCrash
<1>1. CASE ~ Crash
  <2>1. PICK s0 \in Unswept(c) :
          /\ \A d \in Unswept(c) : s0 <= d
          /\ GetInode(inum[c]) # NoObj
          /\ ReclaimInodeSpace(s0, blocks[GetInode(inum[c])])
          /\ swept' = [swept EXCEPT ![c] = @ \cup {s0}]
    BY <1>1 DEF ReclaimBlocks
  <2>2. /\ pc[c] = "reclaim"
        /\ UNCHANGED <<children, table, blocks, stale, pc, req, inum, hand>>
    BY <1>1 DEF ReclaimBlocks, At, fileVars, inodeVars
  <2>3. PICK o \in Obj : o = GetInode(inum[c])
    BY <2>1, <2>2, ReclaimsAlone
  <2>4. /\ \E i \in Inum : table[i] = o
        /\ \A d \in Call \ {c} : pc[d] = "reclaim" => GetInode(inum[d]) # o
    BY <2>1, <2>2, <2>3, ReclaimsAlone
  <2>5. /\ s0 \in Registered /\ s0 \in Server /\ s0 \notin swept[c]
        /\ swept'[c] = swept[c] \cup {s0}
        /\ \A d \in Call \ {c} : swept'[d] = swept[d]
    BY <2>1, ServerAssumption DEF Unswept, Registered, CallsOK
  <2>6. \A s \in Server \ {s0} : pool'[s] = pool[s]
    BY <2>1 DEF ReclaimInodeSpace, SpaceTypeOK
  <2>7. \A d \in Call : GetInode(inum[d])' = GetInode(inum[d])
    BY <2>2 DEF GetInode, InTable
  <2>8. ASSUME NEW CONSTANT s \in Server, NEW CONSTANT q \in Obj
        PROVE  Swept(q, s)' <=> Swept(q, s) \/ (q = o /\ s = s0)
    BY <2>2, <2>3, <2>5, <2>7 DEF Swept
  <2>9. ~ Swept(o, s0)
    BY <2>2, <2>3, <2>4, <2>5 DEF Swept
  <2>10. ASSUME NEW CONSTANT s \in Server
         PROVE  /\ s # s0 => OwningObjs(s)' = OwningObjs(s)
                /\ s = s0 => /\ o \in OwningObjs(s)
                             /\ OwningObjs(s)' = OwningObjs(s) \ {o}
    BY <2>2, <2>4, <2>8, <2>9 DEF OwningObjs
  <2> SUFFICES ASSUME NEW CONSTANT s \in Server, Reliable(s)'
               PROVE  Sound(s)' /\ \A d \in Call : /\ NothingMissed(d, s)'
                                                  /\ Transfers(d, s)'
    BY DEF BlocksInv
  <2>11. Reliable(s)
    <3>1. CASE s # s0
      BY <2>2, <2>6, <3>1 DEF Reliable, Registered
    <3>2. CASE s = s0
      <4>1. ~ pool'[s0].wild
        BY <3>2 DEF Reliable
      <4>2. ~ pool[s0].wild
        BY <2>1, <2>5, <4>1, ReturnedBlocks
      <4> QED
        BY <2>2, <2>5, <3>2, <4>2 DEF Reliable
    <3> QED
      BY <3>1, <3>2
  <2>12. Sound(s) /\ \A d \in Call : NothingMissed(d, s) /\ Transfers(d, s)
    BY <2>11 DEF BlocksInv
  <2>13. Sound(s)'
    <3>1. CASE s # s0
      <4>1. \A b \in Block : Appending(s, b)' = Appending(s, b)
        BY <2>2 DEF Appending
      <4> QED
        BY <2>2, <2>6, <2>10, <2>12, <3>1, <4>1, SoundFrame, SameOwners
    <3>2. CASE s = s0
      <4>1. ~ pool'[s].wild
        BY DEF Reliable
      <4>2. /\ pool'[s].total = pool[s].total
            /\ \A b \in Block :
                 /\ pool'[s].free[b] =
                      pool[s].free[b] + Cardinality(EntriesOn(s, blocks[o], b))
                 /\ b \in pool'[s].inused <=>
                      /\ b \in pool[s].inused
                      /\ Cardinality(EntriesOn(s, blocks[o], b)) = 0
        BY <2>1, <2>3, <2>5, <3>2, <4>1, ReturnedBlocks
      <4>3. ASSUME NEW CONSTANT b \in Block
            PROVE  /\ \A x, y \in Owners(s, b)' : x = y
                   /\ Owners(s, b)' # {} => b < pool'[s].total
                   /\ pool'[s].free[b] =
                        IF b < pool'[s].total /\ Owners(s, b)' = {}
                        THEN 1 ELSE 0
                   /\ b \in pool'[s].inused <=> Owners(s, b)' # {}
        <5>1. \A x : x \in Owners(s, b)' <=>
                \/ \E q \in OwningObjs(s) \ {o} :
                     \E k \in EntriesOn(s, blocks[q], b) : x = <<q, k>>
                \/ \E d \in Appending(s, b) : x = <<d, 0>>
          <6>1. Appending(s, b)' = Appending(s, b)
            BY <2>2 DEF Appending
          <6> QED
            BY <2>2, <2>10, <3>2, <6>1, OwnersWillBe
        <5>2. \A x : x \in Owners(s, b) <=>
                \/ \E q \in OwningObjs(s) :
                     \E k \in EntriesOn(s, blocks[q], b) : x = <<q, k>>
                \/ \E d \in Appending(s, b) : x = <<d, 0>>
          BY OwnersAre
        <5>3. CASE EntriesOn(s, blocks[o], b) = {}
          <6>1. \A x : x \in Owners(s, b)' <=> x \in Owners(s, b)
            BY <5>1, <5>2, <5>3
          <6>2. Owners(s, b)' = Owners(s, b)
            BY <6>1
          <6>3. Cardinality(EntriesOn(s, blocks[o], b)) = 0
            BY <5>3, FS_EmptySet
          <6>4. pool[s].free[b] \in Nat
            BY <2>12 DEF Sound
          <6> QED
            BY <2>12, <4>2, <6>2, <6>3, <6>4 DEF Sound
        <5>4. CASE EntriesOn(s, blocks[o], b) # {}
          <6>1. PICK k \in EntriesOn(s, blocks[o], b) : TRUE
            BY <5>4
          <6>2. <<o, k>> \in Owners(s, b)
            BY <2>10, <3>2, <5>2
          <6>3. \A x \in Owners(s, b) : x = <<o, k>>
            BY <2>12, <6>2 DEF Sound
          <6>4. \A j \in EntriesOn(s, blocks[o], b) : j = k
            BY <2>10, <3>2, <5>2, <6>3
          <6>5. EntriesOn(s, blocks[o], b) = {k}
            BY <6>1, <6>4
          <6>6. Cardinality(EntriesOn(s, blocks[o], b)) = 1
            BY <6>5, FS_Singleton
          <6>7. Owners(s, b)' = {}
            <7>1. k # 0
              BY <6>1 DEF EntriesOn, FilesOK
            <7> QED
              BY <5>1, <5>2, <6>3, <7>1
          <6>8. b < pool[s].total /\ pool[s].free[b] = 0
            BY <2>12, <6>2 DEF Sound
          <6> QED
            BY <4>2, <6>6, <6>7, <6>8
        <5> QED
          BY <5>3, <5>4
      <4> QED
        BY <4>3 DEF Sound
    <3> QED
      BY <3>1, <3>2
  <2>14. ASSUME NEW d \in Call PROVE NothingMissed(d, s)'
    <3>1. CASE d # c
      BY <2>2, <2>5, <2>7, <2>12, <3>1 DEF NothingMissed, HasEntries
    <3>2. CASE d = c
      <4> SUFFICES ASSUME s \notin swept'[c], NEW e \in swept'[c], s < e
                   PROVE  ~ HasEntries(o, s)
        BY <2>2, <2>3, <2>7, <3>2 DEF NothingMissed, HasEntries
      <4>1. s \notin swept[c] /\ s # s0
        BY <2>5
      <4>2. \E f \in swept[c] : s < f
        <5>1. CASE e \in swept[c]
          BY <5>1
        <5>2. CASE e = s0
          <6>1. s \notin Unswept(c)
            BY <2>1, <2>5, <5>2, ServerAssumption
          <6>2. s \in Registered
            BY <2>11 DEF Reliable
          <6>3. PICK f \in swept[c] : ~ (f < s)
            BY <6>1, <6>2 DEF Unswept
          <6>4. f \in Nat /\ s \in Nat /\ f # s
            BY <4>1, ServerAssumption DEF CallsOK
          <6> QED
            BY <6>3, <6>4
        <5> QED
          BY <2>5, <5>1, <5>2
      <4> QED
        BY <2>2, <2>3, <2>12, <4>1, <4>2 DEF NothingMissed
    <3> QED
      BY <3>1, <3>2
  <2>15. ASSUME NEW d \in Call PROVE Transfers(d, s)'
    BY <2>2, <2>12 DEF Transfers, InFile, Linked, GetInode, InTable
  <2> QED
    BY <2>13, <2>14, <2>15
<1> QED
  BY <1>0, <1>1
(* The end of RemoveFile: the inode that is dropped owns nothing any more. *)
LEMMA DropInodeKeepsBlocks ==
  ASSUME ServerInv, NamesInv, BlocksInv, NEW c \in Call, DropInode(c)
  PROVE  BlocksInv'
<1> USE DEF ServerInv
<1>1. /\ pc[c] = "reclaim" /\ Unswept(c) = {} /\ Return(c)
      /\ DeleteInode(inum[c]) /\ UNCHANGED <<children, stale, pool>>
  BY DEF DropInode, At
<1>2. OthersKept(c) /\ pc'[c] = "idle" /\ hand'[c] = {}
  BY <1>1, ReturnIsQuiet DEF Return, CallsOK
<1>3. PICK o \in Obj \cup {NoObj} : o = GetInode(inum[c])
  BY GetInodeType DEF CallsOK, InodeInv
<1>4. \A j \in Inum : table'[j] = IF j = inum[c] THEN NoObj ELSE table[j]
  BY <1>1 DEF DeleteInode, InTable, InodeInv, InodeTypeOK, inodeVars
<1>5. \A q \in Obj \ {o} : blocks'[q] = blocks[q]
  BY <1>3 DEF DropInode, FilesOK
<1>6. ASSUME NEW CONSTANT d \in Call, pc[d] = "reclaim" \/ pc'[d] = "reclaim",
             d # c
      PROVE  /\ pc'[d] = pc[d] /\ inum'[d] = inum[d] /\ swept'[d] = swept[d]
             /\ GetInode(inum[d])' = GetInode(inum[d])
             /\ GetInode(inum[d]) \in Obj => GetInode(inum[d]) # o
  <2>1. /\ pc'[d] = pc[d] /\ inum'[d] = inum[d] /\ swept'[d] = swept[d]
        /\ pc[d] = "reclaim"
    BY <1>2, <1>6 DEF OthersKept
  <2>2. inum[c] \in Inum => inum[d] # inum[c]
    BY <1>1, <1>6, <2>1 DEF NamesInv, KeptNumbers, Keeps
  <2>3. GetInode(inum[d])' = GetInode(inum[d])
    BY <1>4, <2>1, <2>2 DEF GetInode, InTable
  <2>4. GetInode(inum[d]) \in Obj => GetInode(inum[d]) # o
    BY <1>1, <1>3, <1>6, <2>1, ReclaimsAlone, ObjAssumption
  <2> QED
    BY <2>1, <2>3, <2>4
<1>7. ASSUME NEW CONSTANT n \in Name
      PROVE  /\ GetInode(children[n])' = GetInode(children[n])
             /\ GetInode(children[n]) \in Obj => GetInode(children[n]) # o
  <2>1. inum[c] \in Inum => children[n] # inum[c]
    BY <1>1 DEF NamesInv, KeptNumbers, Keeps
  <2>2. GetInode(children[n])' = GetInode(children[n])
    BY <1>1, <1>4, <2>1 DEF GetInode, InTable
  <2>3. GetInode(children[n]) \in Obj => GetInode(children[n]) # o
    BY <1>1, <1>3, ReclaimsAlone, ObjAssumption
  <2> QED
    BY <2>2, <2>3
<1>8. ASSUME NEW CONSTANT s \in Server, NEW CONSTANT q \in Obj \ {o}
      PROVE  q \in OwningObjs(s)' <=> q \in OwningObjs(s)
  <2>1. Swept(q, s)' <=> Swept(q, s)
    BY <1>1, <1>2, <1>3, <1>6 DEF Swept
  <2>2. (\E j \in Inum : table'[j] = q) <=> (\E j \in Inum : table[j] = q)
    BY <1>3, <1>4, ObjAssumption DEF GetInode, InTable
  <2> QED
    BY <2>1, <2>2 DEF OwningObjs
<1>9. ASSUME NEW CONSTANT s \in Server PROVE o \notin OwningObjs(s)'
  <2>1. CASE o = NoObj
    BY <2>1, ObjAssumption DEF OwningObjs
  <2>2. CASE o # NoObj
    <3>1. inum[c] \in Inum /\ table[inum[c]] = o /\ o \in Obj
      BY <1>1, <1>3, <2>2, ReclaimsAlone
    <3>2. \A j \in Inum : table'[j] # o
      BY <1>4, <2>2, <3>1 DEF NamesInv, OneNumber
    <3> QED
      BY <3>2 DEF OwningObjs
  <2> QED
    BY <2>1, <2>2
<1> SUFFICES ASSUME NEW CONSTANT s \in Server, Reliable(s)'
             PROVE  Sound(s)' /\ \A d \in Call : /\ NothingMissed(d, s)'
                                                /\ Transfers(d, s)'
  BY DEF BlocksInv
<1>10. Reliable(s)
  BY <1>1 DEF Reliable, Registered
<1>11. Sound(s) /\ \A d \in Call : NothingMissed(d, s) /\ Transfers(d, s)
  BY <1>10 DEF BlocksInv
<1>12. o \in OwningObjs(s) => ~ HasEntries(o, s)
  <2> SUFFICES ASSUME o \in OwningObjs(s) PROVE ~ HasEntries(o, s)
    OBVIOUS
  <2>1. o \in Obj /\ s \notin swept[c]
    BY <1>1, <1>3 DEF OwningObjs, Swept
  <2>2. PICK d \in swept[c] : ~ (d < s)
    BY <1>1, <1>10 DEF Unswept, Reliable
  <2>3. s < d
    <3>1. d \in Nat /\ s \in Nat /\ d # s
      BY <2>1, ServerAssumption DEF CallsOK
    <3> QED
      BY <2>2, <3>1
  <2> QED
    BY <1>1, <1>3, <1>11, <2>1, <2>3 DEF NothingMissed
<1>13. Sound(s)'
  <2>1. ASSUME NEW CONSTANT b \in Block PROVE Owners(s, b)' = Owners(s, b)
    <3>1. \A x : x \in Owners(s, b)' <=>
            \/ \E q \in OwningObjs(s)' :
                 \E k \in EntriesOn(s, blocks'[q], b) : x = <<q, k>>
            \/ \E d \in Appending(s, b) : x = <<d, 0>>
      <4>1. Appending(s, b)' = Appending(s, b)
        BY <1>1, <1>2, SameAppending
      <4> QED
        BY <4>1, OwnersWillBe
    <3>2. \A x : x \in Owners(s, b) <=>
            \/ \E q \in OwningObjs(s) :
                 \E k \in EntriesOn(s, blocks[q], b) : x = <<q, k>>
            \/ \E d \in Appending(s, b) : x = <<d, 0>>
      BY OwnersAre
    <3>3. \A q \in Obj \ {o} :
            EntriesOn(s, blocks'[q], b) = EntriesOn(s, blocks[q], b)
      BY <1>5
    <3>4. o \in OwningObjs(s) => EntriesOn(s, blocks[o], b) = {}
      BY <1>12 DEF HasEntries, EntriesOn
    <3>5. OwningObjs(s) \subseteq Obj /\ OwningObjs(s)' \subseteq Obj
      BY DEF OwningObjs
    <3>6. \A x : x \in Owners(s, b)' <=> x \in Owners(s, b)
      BY <1>8, <1>9, <3>1, <3>2, <3>3, <3>4, <3>5
    <3> QED
      BY <3>6
  <2> QED
    BY <1>1, <1>11, <2>1, SoundFrame
<1>14. ASSUME NEW CONSTANT d \in Call PROVE NothingMissed(d, s)'
  <2> SUFFICES ASSUME pc'[d] = "reclaim", GetInode(inum[d])' \in Obj,
                      s \notin swept'[d], \E e \in swept'[d] : s < e
               PROVE  ~ HasEntries(GetInode(inum[d]), s)'
    BY DEF NothingMissed
  <2> DEFINE q == GetInode(inum[d])
  <2>1. /\ q' = q /\ q \in Obj \ {o} /\ pc[d] = "reclaim"
        /\ swept'[d] = swept[d]
    BY <1>2, <1>6
  <2>2. blocks'[q] = blocks[q]
    BY <1>5, <2>1
  <2>3. ~ HasEntries(q, s)
    BY <1>11, <2>1 DEF NothingMissed
  <2> HIDE DEF q
  <2>4. ~ HasEntries(q, s)'
    BY <2>1, <2>2, <2>3 DEF HasEntries
  <2> QED
    BY <2>4 DEF q
<1>15. ASSUME NEW CONSTANT d \in Call PROVE Transfers(d, s)'
  <2>1. CASE d = c
    BY <1>2, <2>1 DEF Transfers
  <2>2. CASE d # c
    <3> SUFFICES ASSUME NEW a \in hand[d], InFile(req[d].name, a),
                        pc[d] = "transfer"
                 PROVE  InFile(req[d].name, a)'
      BY <1>2, <1>11, <2>2 DEF Transfers, OthersKept
    <3>1. PICK n \in Name : n = req[d].name
      BY RequestsAssumption DEF CallsOK, Request
    <3> DEFINE q == GetInode(children[n])
    <3>2. q' = q /\ q \in Obj \ {o} /\ Linked(n)'
      BY <1>1, <1>7, <3>1 DEF InFile, Linked
    <3>3. blocks'[q] = blocks[q] /\ req'[d] = req[d]
      BY <1>2, <1>5, <2>2, <3>2 DEF OthersKept
    <3>4. \E k \in DOMAIN blocks[q] : blocks[q][k] = a
      BY <3>1 DEF InFile
    <3>5. InFile(n, a)'
      BY <3>2, <3>3, <3>4 DEF InFile
    <3> QED
      BY <3>1, <3>3, <3>5
  <2> QED
    BY <2>1, <2>2
<1> QED
  BY <1>13, <1>14, <1>15

(* RegisterMemoryRegion: a pool that is set up while no block of it is in  *)
(* use is sound; otherwise it is not relied on.                            *)
LEMMA RegisterKeepsBlocks ==
  ASSUME ServerInv, ServerInv', BlocksInv, NEW s0 \in Server,
         NEW r \in Regions, RegisterMemoryRegion(s0, r)
  PROVE  BlocksInv'
<1> USE DEF ServerInv
<1>1. UNCHANGED <<children, table, blocks, pc, req, inum, swept, hand>>
  BY DEF RegisterMemoryRegion, callVars, inodeVars
<1>2. /\ pool' = [pool EXCEPT ![s0] = NewPool(r.addr, r.len)]
      /\ stale' = IF InUseOn(s0) THEN stale \cup {s0} ELSE stale \ {s0}
  BY DEF RegisterMemoryRegion, Construct
<1> SUFFICES ASSUME NEW CONSTANT s \in Server, Reliable(s)'
             PROVE  Sound(s)' /\ \A d \in Call : /\ NothingMissed(d, s)'
                                                /\ Transfers(d, s)'
  BY DEF BlocksInv
<1>3. \A b \in Block : Owners(s, b)' = Owners(s, b)
  BY <1>1 DEF Owners, Listed, Appending, OwningObjs, Swept, GetInode, InTable
<1>4. CASE s # s0
  <2>1. pool'[s] = pool[s] /\ (s \in stale' <=> s \in stale)
    BY <1>2, <1>4 DEF SpaceTypeOK
  <2>2. Sound(s) /\ \A d \in Call : NothingMissed(d, s) /\ Transfers(d, s)
    BY <2>1 DEF Reliable, Registered, BlocksInv
  <2>3. Sound(s)'
    BY <1>3, <2>1, <2>2, SoundFrame
  <2>4. ASSUME NEW d \in Call PROVE NothingMissed(d, s)' /\ Transfers(d, s)'
    BY <1>1, <2>2 DEF NothingMissed, Transfers, InFile, HasEntries, GetInode,
       InTable, Linked
  <2> QED
    BY <2>3, <2>4
<1>5. CASE s = s0
  <2>1. ~ InUseOn(s)
    BY <1>2, <1>5 DEF Reliable
  <2>2. \A o \in Obj : ~ HasEntries(o, s)
    BY <2>1 DEF InUseOn, HasEntries
  <2>3. \A b \in Block : Owners(s, b)' = {}
    <3> SUFFICES ASSUME NEW CONSTANT b \in Block, NEW x \in Owners(s, b)
                 PROVE  FALSE
      BY <1>3
    <3>2. Appending(s, b) = {}
      BY <2>1 DEF Appending, InUseOn
    <3>1. PICK o \in OwningObjs(s) : \E k \in EntriesOn(s, blocks[o], b) : TRUE
      BY <3>2, OwnersAre
    <3> QED
      BY <2>2, <3>1 DEF OwningObjs, EntriesOn, HasEntries
  <2>4. pool'[s] = NewPool(r.addr, r.len)
    BY <1>2, <1>5 DEF SpaceTypeOK
  <2>5. Sound(s)'
    <3> DEFINE total == TotalBlocks(r.addr, r.len)
    <3>1. /\ pool'[s].total = total /\ pool'[s].inused = {}
          /\ pool'[s].free = HeapOf(Block, 0 .. total - 1)
      BY <2>4 DEF NewPool
    <3>2. total \in Int
      BY <3>1 DEF SpaceTypeOK, Pool, Reliable, Registered
    <3> HIDE DEF total
    <3>3. \A b \in Block :
            pool'[s].free[b] = IF b < pool'[s].total THEN 1 ELSE 0
      BY <3>1, <3>2 DEF HeapOf, Block
    <3> QED
      BY <2>3, <3>1, <3>3 DEF Sound
  <2>6. ASSUME NEW d \in Call PROVE NothingMissed(d, s)'
    BY <1>1, <2>2 DEF NothingMissed, HasEntries
  <2>7. ASSUME NEW d \in Call PROVE Transfers(d, s)'
    BY <1>1, <2>1 DEF InUseOn, Transfers
  <2> QED
    BY <2>5, <2>6, <2>7
<1> QED
  BY <1>4, <1>5

(* Every step keeps the blocks in order, if the callers keep to their      *)
(* exclusion.                                                              *)
LEMMA BlocksStep ==
  ASSUME Exclusion # "none"
  PROVE  ServerInv /\ NamesInv /\ BlocksInv /\ [Next]_vars => BlocksInv'
<1> SUFFICES ASSUME ServerInv, NamesInv, BlocksInv, [Next]_vars
             PROVE  BlocksInv'
  OBVIOUS
<1>1. NamesInv' /\ ServerInv'
  BY NamesStep, ServerInvStep
<1>2. ASSUME NEW c \in Call, Step(c) \/ \E r \in Requests : Begin(c, r)
      PROVE  BlocksInv'
  BY <1>1, <1>2, HandlersKeepBlocks, RepliesKeepBlocks, TakeKeepsBlocks,
     AppendKeepsBlocks, AllocInodeKeepsBlocks, LinkKeepsBlocks, UnlinkKeepsBlocks,
     ReclaimKeepsBlocks, DropInodeKeepsBlocks DEF Step
<1>3. CASE Kill
  BY <1>3, BlocksCrash DEF Kill
<1>4. ASSUME UNCHANGED <<children, table, blocks, pool, stale, callVars>>
      PROVE  BlocksInv'
  <2> USE <1>4 DEF callVars
  <2> SUFFICES ASSUME NEW CONSTANT s \in Server, Reliable(s)'
               PROVE  Sound(s)' /\ \A d \in Call : /\ NothingMissed(d, s)'
                                                  /\ Transfers(d, s)'
    BY DEF BlocksInv
  <2>1. Sound(s) /\ \A d \in Call : NothingMissed(d, s) /\ Transfers(d, s)
    BY DEF Reliable, Registered, BlocksInv
  <2>2. Sound(s)'
    <3>1. OwningObjs(s)' = OwningObjs(s)
      BY DEF OwningObjs, Swept, GetInode, InTable
    <3>2. \A b \in Block : Appending(s, b)' = Appending(s, b)
      BY DEF Appending
    <3> QED
      BY <2>1, <3>1, <3>2, SameOwners, SoundFrame
  <2>3. ASSUME NEW d \in Call PROVE NothingMissed(d, s)' /\ Transfers(d, s)'
    BY <2>1 DEF NothingMissed, Transfers, InFile, HasEntries, GetInode,
       InTable, Linked
  <2> QED
    BY <2>2, <2>3
<1>5. ASSUME NEW s \in Server, NEW r \in Regions, RegisterMemoryRegion(s, r)
      PROVE  BlocksInv'
  BY <1>1, <1>5, RegisterKeepsBlocks
<1>6. CASE RunServer
  BY <1>4, <1>6 DEF RunServer, inodeVars
<1>7. CASE UNCHANGED vars
  BY <1>4, <1>7 DEF vars, fileVars, inodeVars
<1> QED
  BY <1>2, <1>3, <1>5, <1>6, <1>7 DEF Next

(* Names and blocks are in order in every state. *)
LEMMA BlocksHold ==
  ASSUME Exclusion # "none"
  PROVE  Spec => [](NamesInv /\ BlocksInv)
<1>1. Init => BlocksInv
  BY DEF Init, SpaceInit, BlocksInv, Reliable, Registered
<1> QED
  BY <1>1, NamesStart, NamesStep, ServerInvStart, ServerInvStep, BlocksStep,
     PTL DEF Spec

(* No block of a pool that can be relied on is ever in two files, or twice *)
(* in one, or with a writer that is about to append it: whatever requests  *)
(* and registrations overlap within the callers' exclusion, two writers    *)
(* are never given the same block, and a removal gives back only what its  *)
(* own file had.                                                           *)
THEOREM BlocksHaveOneOwner ==
  ASSUME Exclusion # "none"
  PROVE  Spec => []NoSharedBlock
<1>1. BlocksInv => NoSharedBlock
  BY DEF BlocksInv, Sound, NoSharedBlock
<1> QED
  BY <1>1, BlocksHold, PTL

(* Every block of a pool that can be relied on is free, once, or in use by *)
(* a file or by the writer that is about to append it to one: none is lost *)
(* and none is free while a file has it, through removals, crashes and     *)
(* storage servers that register again, between an allocation and its      *)
(* append too.                                                             *)
THEOREM BlocksAreConserved ==
  ASSUME Exclusion # "none"
  PROVE  Spec => []BlocksConserved
<1>1. BlocksInv => BlocksConserved
  BY DEF BlocksInv, Sound, BlocksConserved
<1> QED
  BY <1>1, BlocksHold, PTL

(* While a client transfers to or from a block by RDMA, the block belongs  *)
(* to the file it asked for: no removal takes the block away under it.     *)
THEOREM TransfersKeepTheirBlocks ==
  ASSUME Exclusion # "none"
  PROVE  Spec => []TransfersOwnTheirBlocks
<1>1. BlocksInv => TransfersOwnTheirBlocks
  <2> SUFFICES ASSUME BlocksInv, NEW c \in Call, NEW a \in hand[c],
                      pc[c] = "transfer", Reliable(a.srv)
               PROVE  InFile(req[c].name, a)
    BY DEF TransfersOwnTheirBlocks, InFile
  <2>1. a.srv \in Server
    BY DEF Reliable, Registered
  <2> QED
    BY <2>1 DEF BlocksInv, Transfers
<1> QED
  BY <1>1, BlocksHold, PTL

-----------------------------------------------------------------------------
(***************************************************************************)
(* The descriptors of the FUSE file system (SpongeFuse), however requests  *)
(* overlap.                                                                *)
(***************************************************************************)
OfHandle(c) == pc[c] # "idle" /\ req[c].op \in {"open", "close"}

(* Only OpenFile comes to AllocateFD, and only CloseFile to ReclaimFD;     *)
(* neither ends in any other way while the server runs.                    *)
FdStage(c) ==
  /\ pc[c] # "idle" /\ Is(c, "open") => pc[c] \in {"lookup", "alloc", "link", "fd"}
  /\ pc[c] # "idle" /\ Is(c, "close") => pc[c] = "close"
  /\ pc[c] = "fd" => Is(c, "open")
  /\ pc[c] = "close" => Is(c, "close")

(* The open files that calls are about.  One that is being opened has no   *)
(* descriptor yet, and one that is being released keeps its own.           *)
Serving ==
  /\ serves \in [Call -> Handle \cup {NoHandle}]
  /\ \A c \in Call : serves[c] # NoHandle <=> OfHandle(c)
  /\ \A c, d \in Call : serves[c] = serves[d] /\ serves[c] # NoHandle => c = d
  /\ \A c \in Call : serves[c] # NoHandle =>
       /\ Is(c, "open") => fh[serves[c]] = Closed
       /\ Is(c, "close") => fh[serves[c]] # Closed /\ req[c].fd = fh[serves[c]]

FreshFiles ==
  /\ fh \in [Handle -> Fd \cup {0, Closed}]
  /\ fresh \subseteq Handle
  /\ \A h \in fresh : fh[h] # Closed
  /\ ~ up => fresh = {} /\ fd_used_set = {}

FuseInv == /\ \A c \in Call : FdStage(c)
           /\ Serving /\ FreshFiles /\ DescriptorsOwned

(* What a step of a handler that neither uses descriptors nor ends the     *)
(* server does to the calls.                                               *)
Aside(c) ==
  /\ UNCHANGED <<up, fdVars>>
  /\ \A d \in Call \ {c} : pc'[d] = pc[d] /\ req'[d] = req[d]
  /\ \/ pc'[c] = "idle" /\ ~ OfHandle(c)
     \/ pc[c] # "idle" /\ pc'[c] # "idle" /\ req'[c] = req[c]
  /\ FdStage(c)'

(* Lookups and creations are such steps. *)
LEMMA LookupsAreAside ==
  ASSUME ServerInv, NEW c \in Call, FdStage(c), ~ Crash,
         \/ ReadLookup(c) \/ WriteLookup(c) \/ CreateLookup(c)
         \/ OpenLookup(c) \/ RemoveLookup(c) \/ ListLookup(c) \/ Relookup(c)
         \/ AllocInode(c) \/ Link(c)
  PROVE  Aside(c)
<1> USE DEF ServerInv, CallsOK, fileVars, localVars, Goto, Return, At, FoundInum,
        Is, FdStage, OfHandle
<1>1. UNCHANGED <<up, fdVars>>
  BY DEF ReadLookup, WriteLookup, CreateLookup, OpenLookup, RemoveLookup,
     ListLookup, Relookup, AllocInode, Link
<1>2. \A d \in Call \ {c} : pc'[d] = pc[d] /\ req'[d] = req[d]
  BY DEF ReadLookup, WriteLookup, CreateLookup, OpenLookup, RemoveLookup,
     ListLookup, Relookup, AllocInode, Link
<1>3. \/ pc'[c] = "idle" /\ ~ OfHandle(c)
      \/ /\ pc[c] # "idle" /\ pc'[c] # "idle" /\ req'[c] = req[c]
         /\ pc'[c] # "close"
         /\ pc'[c] = "fd" => Is(c, "open")
         /\ Is(c, "open") => pc'[c] \in {"lookup", "alloc", "link", "fd"}
         /\ ~ Is(c, "close")
  BY DEF ReadLookup, WriteLookup, CreateLookup, OpenLookup, RemoveLookup,
     ListLookup, Relookup, AllocInode, Link
<1> QED
  BY <1>1, <1>2, <1>3 DEF Aside

(* So are reading, writing, removing and listing. *)
LEMMA AccessIsAside ==
  ASSUME ServerInv, NEW c \in Call, FdStage(c), ~ Crash,
         \/ GetFileInode(c) \/ CountBlocks(c) \/ TakeBlock(c) \/ AppendBlock(c)
         \/ ReadTest(c)
         \/ WriteReply(c) \/ ReadReply(c) \/ ReadClamp(c) \/ Transfer(c)
         \/ Unlink(c) \/ ReclaimBlocks(c) \/ DropInode(c)
         \/ ListOne(c) \/ ListDone(c)
  PROVE  Aside(c)
<1> USE DEF ServerInv, CallsOK, fileVars, localVars, Goto, Return, At
<1>1. CASE \E indices, newSize : Reply(c, indices, newSize)
  <2>1. /\ UNCHANGED <<up, fdVars, req>> /\ pc' = [pc EXCEPT ![c] = "transfer"]
    BY <1>1 DEF Reply
  <2>2. pc[c] \notin {"idle", "lookup", "alloc", "link", "fd", "close"}
    BY DEF GetFileInode, CountBlocks, TakeBlock, AppendBlock, ReadTest, WriteReply, ReadReply,
       ReadClamp, Transfer, Unlink, ReclaimBlocks, DropInode, ListOne, ListDone
  <2> QED
    BY <2>1, <2>2 DEF Aside, FdStage, Is
<1>2. CASE \/ GetFileInode(c) \/ CountBlocks(c) \/ TakeBlock(c) \/ AppendBlock(c)
         \/ ReadTest(c)
           \/ Transfer(c) \/ Unlink(c) \/ ReclaimBlocks(c) \/ DropInode(c)
           \/ ListOne(c) \/ ListDone(c)
  <2>1. UNCHANGED <<up, fdVars>>
    BY <1>2 DEF GetFileInode, CountBlocks, TakeBlock, AppendBlock, ReadTest, Transfer, Unlink,
       ReclaimBlocks, DropInode, ListOne, ListDone
  <2>2. \A d \in Call \ {c} : pc'[d] = pc[d] /\ req'[d] = req[d]
    BY <1>2 DEF GetFileInode, CountBlocks, TakeBlock, AppendBlock, ReadTest, Transfer, Unlink,
       ReclaimBlocks, DropInode, ListOne, ListDone
  <2>3. /\ pc[c] \notin {"idle", "lookup", "alloc", "link", "fd", "close"}
        /\ \/ pc'[c] = "idle"
           \/ pc'[c] \notin {"idle", "fd", "close"} /\ req'[c] = req[c]
    BY <1>2 DEF GetFileInode, CountBlocks, TakeBlock, AppendBlock, ReadTest, Transfer, Unlink,
       ReclaimBlocks, DropInode, ListOne, ListDone
  <2> QED
    BY <2>1, <2>2, <2>3 DEF Aside, FdStage, Is, OfHandle
<1> QED
  BY <1>1, <1>2 DEF WriteReply, ReadReply, ReadClamp

(* A step that answers no open and no release leaves the open files alone. *)
LEMMA NothingAnswered ==
  ASSUME ServerInv, FuseInv, HandlesAnswered, UNCHANGED fdVars, up => up',
         \A c \in Call : Ended(c) => ~ OfHandle(c)
  PROVE  fh' = fh /\ serves' = serves /\ FreshFiles' /\ DescriptorsOwned'
<1>1. \A h \in Handle : ~ AnsweredHandle(h, "close") /\ ~ AnsweredHandle(h, "open")
  BY DEF AnsweredHandle, OfHandle, Ended, Is
<1>2. fh' = fh
  <2>1. \E answer : fh' = [h \in Handle |-> IF AnsweredHandle(h, "close") THEN Closed
                               ELSE IF AnsweredHandle(h, "open") THEN answer
                               ELSE fh[h]]
    BY DEF HandlesAnswered
  <2>2. fh' = [h \in Handle |-> fh[h]]
    BY <1>1, <2>1
  <2> QED
    BY <2>2 DEF FuseInv, FreshFiles
<1>3. serves' = serves
  <2>1. serves' = [c \in Call |-> IF Ended(c) THEN NoHandle ELSE serves[c]]
    BY DEF HandlesAnswered
  <2>2. \A c \in Call : Ended(c) => serves[c] = NoHandle
    BY DEF FuseInv, Serving
  <2> QED
    BY <2>1, <2>2 DEF FuseInv, Serving
<1>4. CASE up'
  <2>1. fresh' = {h \in Handle : IF AnsweredHandle(h, "open") THEN NewFd # {}
                                 ELSE h \in fresh /\ fh'[h] # Closed}
    BY <1>4 DEF HandlesAnswered
  <2>2. fresh' = fresh
    BY <1>1, <1>2, <2>1 DEF FuseInv, FreshFiles
  <2>3. strayed' <=> strayed
    BY <1>1, <1>4 DEF HandlesAnswered
  <2> QED
    BY <1>2, <1>3, <1>4, <2>2, <2>3 DEF FuseInv, FreshFiles, DescriptorsOwned, fdVars
<1>5. CASE ~ up'
  <2>1. fresh' = {} /\ fd_used_set' = {}
    BY <1>5 DEF HandlesAnswered, FuseInv, FreshFiles, fdVars
  <2> QED
    BY <1>2, <1>3, <2>1 DEF FuseInv, FreshFiles, DescriptorsOwned
<1> QED
  BY <1>4, <1>5

(* Handlers that have nothing to do with descriptors. *)
LEMMA AsideKeepsInv ==
  ASSUME ServerInv, FuseInv, NEW c \in Call, Aside(c), HandlesAnswered
  PROVE  FuseInv'
<1>1. \A d \in Call : Ended(d) => ~ OfHandle(d)
  BY DEF Aside, Ended
<1>2. fh' = fh /\ serves' = serves /\ FreshFiles' /\ DescriptorsOwned'
  BY <1>1, NothingAnswered DEF Aside
<1>3. \A d \in Call : FdStage(d)'
  BY DEF FuseInv, Aside, FdStage, Is
<1>4. \A d \in Call : /\ OfHandle(d)' <=> OfHandle(d)
                      /\ OfHandle(d) => req'[d] = req[d]
  BY DEF Aside, OfHandle
<1>5. Serving'
  BY <1>2, <1>4 DEF FuseInv, Serving, Is
<1> QED
  BY <1>2, <1>3, <1>5 DEF FuseInv

(* A storage server registers, or the metadata server starts again. *)
LEMMA OthersKeepFuseInv ==
  ASSUME ServerInv, FuseInv, HandlesAnswered,
         RunServer \/ \E s \in Server, r \in Regions : RegisterMemoryRegion(s, r)
  PROVE  FuseInv'
<1>1. UNCHANGED <<callVars, fdVars>> /\ up'
  BY DEF RunServer, RegisterMemoryRegion
<1>2. \A d \in Call : ~ Ended(d)
  BY <1>1 DEF Ended, callVars
<1>3. fh' = fh /\ serves' = serves /\ FreshFiles' /\ DescriptorsOwned'
  BY <1>1, <1>2, NothingAnswered
<1> QED
  BY <1>1, <1>3 DEF FuseInv, FdStage, Serving, OfHandle, Is, callVars

(* The server ends, and with it every call that is about an open file. *)
LEMMA CrashKeepsFuseInv ==
  ASSUME ServerInv, FuseInv, HandlesAnswered, Crash
  PROVE  FuseInv'
<1>1. /\ ~ up' /\ fd_used_set' = {}
      /\ \A c \in Call : IF pc[c] # "transfer" THEN pc'[c] = "idle"
                         ELSE pc'[c] = "transfer" /\ req'[c] = req[c]
  BY DEF Crash
<1>2. \A c \in Call : FdStage(c)' /\ ~ OfHandle(c)'
  BY <1>1 DEF FuseInv, FdStage, OfHandle, Is
<1>3. /\ fresh' = {} /\ OpenAnswer = {0}
  BY <1>1 DEF HandlesAnswered, OpenAnswer
<1>4. fh' \in [Handle -> Fd \cup {0, Closed}]
  BY <1>3 DEF HandlesAnswered, FuseInv, FreshFiles
<1>5. serves' = [c \in Call |-> NoHandle]
  <2>1. \A c \in Call : ~ Ended(c) => serves[c] = NoHandle
    BY <1>1 DEF FuseInv, Serving, FdStage, OfHandle, Ended, Is
  <2> QED
    BY <2>1 DEF HandlesAnswered
<1> QED
  BY <1>1, <1>2, <1>3, <1>4, <1>5
     DEF FuseInv, Serving, FreshFiles, DescriptorsOwned

(* OpenFile or CloseFile answers c: what is left to show is that the       *)
(* descriptors are in order.                                               *)
LEMMA AnswerKeepsInv ==
  ASSUME ServerInv, FuseInv, HandlesAnswered, NEW c \in Call, OfHandle(c),
         Return(c), up', DescriptorsOwned', fh' \in [Handle -> Fd \cup {0, Closed}],
         \A h \in fresh' : fh'[h] # Closed,
         \A h \in Handle : h # serves[c] => fh'[h] = fh[h]
  PROVE  FuseInv'
<1>1. /\ pc'[c] = "idle"
      /\ \A d \in Call \ {c} : pc'[d] = pc[d] /\ req'[d] = req[d]
  BY DEF Return, Goto, ServerInv, CallsOK
<1>2. \A d \in Call : FdStage(d)'
  BY <1>1 DEF FuseInv, FdStage, Is
<1>3. serves'[c] = NoHandle /\ \A d \in Call \ {c} : serves'[d] = serves[d]
  BY <1>1 DEF HandlesAnswered, Ended, OfHandle
<1>4. serves' \in [Call -> Handle \cup {NoHandle}]
  <2>1. serves' = [d \in Call |-> IF Ended(d) THEN NoHandle ELSE serves[d]]
    BY DEF HandlesAnswered
  <2> QED
    BY <2>1 DEF FuseInv, Serving
<1>5. \A d \in Call : serves'[d] # NoHandle <=> OfHandle(d)'
  BY <1>1, <1>3 DEF FuseInv, Serving, OfHandle
<1>6. \A d, e \in Call : serves'[d] = serves'[e] /\ serves'[d] # NoHandle => d = e
  BY <1>3 DEF FuseInv, Serving
<1>7. ASSUME NEW d \in Call, serves'[d] # NoHandle
      PROVE  /\ Is(d, "open")' => fh'[serves'[d]] = Closed
             /\ Is(d, "close")' => fh'[serves'[d]] # Closed /\ req'[d].fd = fh'[serves'[d]]
  <2>1. d # c /\ serves'[d] = serves[d] /\ req'[d] = req[d] /\ serves[d] \in Handle
    BY <1>1, <1>3, <1>7 DEF FuseInv, Serving
  <2>2. serves[d] # serves[c]
    BY <1>7, <2>1 DEF FuseInv, Serving
  <2> QED
    BY <1>7, <2>1, <2>2 DEF FuseInv, Serving, Is
<1>8. Serving'
  BY <1>4, <1>5, <1>6, <1>7 DEF Serving
<1>9. FreshFiles'
  <2>1. fresh' \subseteq Handle
    BY DEF HandlesAnswered
  <2> QED
    BY <2>1 DEF FreshFiles
<1> QED
  BY <1>2, <1>8, <1>9 DEF FuseInv

(* Whose open file an answer to c concerns. *)
LEMMA OneAnswered ==
  ASSUME ServerInv, FuseInv, NEW c \in Call, OfHandle(c), Return(c),
         NEW op \in {"open", "close"}
  PROVE  /\ serves[c] \in Handle
         /\ \A h \in Handle : AnsweredHandle(h, op) <=> h = serves[c] /\ Is(c, op)
<1>1. serves[c] \in Handle
  BY DEF FuseInv, Serving
<1>2. \A d \in Call : Ended(d) <=> d = c
  BY DEF Return, Goto, Ended, OfHandle, ServerInv, CallsOK
<1> QED
  BY <1>1, <1>2 DEF AnsweredHandle

(* fuse_open has its answer: a descriptor that nobody has, or none. *)
LEMMA AllocFDKeepsFuseInv ==
  ASSUME ServerInv, FuseInv, NEW c \in Call, AllocFD(c), HandlesAnswered
  PROVE  FuseInv'
<1>1. PICK fd \in Fd \cup {-1} : AllocateFD(fd)
  BY DEF AllocFD
<1>2. Return(c) /\ up /\ up' /\ OfHandle(c) /\ Is(c, "open") /\ ~ Is(c, "close")
  BY DEF AllocFD, At, fileVars, FuseInv, FdStage, OfHandle, Is
<1>3. PICK h \in Handle : h = serves[c]
  BY <1>2, OneAnswered
<1>4. /\ \A k \in Handle : AnsweredHandle(k, "open") <=> k = h
      /\ \A k \in Handle : ~ AnsweredHandle(k, "close")
  BY <1>2, <1>3, OneAnswered
<1>5. fh[h] = Closed /\ h \notin fresh
  BY <1>2, <1>3, HandlesAssumption DEF FuseInv, Serving, FreshFiles
<1>6. PICK answer \in OpenAnswer :
        fh' = [k \in Handle |-> IF k = h THEN answer ELSE fh[k]]
  BY <1>4 DEF HandlesAnswered
<1>7. fresh' = {k \in Handle : IF k = h THEN NewFd # {}
                               ELSE k \in fresh /\ fh'[k] # Closed}
  BY <1>2, <1>4 DEF HandlesAnswered
<1>8. strayed' <=> strayed
  BY <1>2, <1>4 DEF HandlesAnswered
<1>9. \A k \in Handle : fh'[k] = IF k = h THEN answer ELSE fh[k]
  BY <1>6
<1>10. CASE UNCHANGED fdVars
  <2>1. NewFd = {}
    BY <1>10 DEF NewFd, fdVars
  <2>2. answer \in {0, Closed}
    BY <1>2, <2>1 DEF OpenAnswer
  <2>3. fh' \in [Handle -> Fd \cup {0, Closed}]
    BY <1>6, <2>2 DEF FuseInv, FreshFiles
  <2>4. fresh' = fresh
    BY <1>5, <1>7, <1>9, <2>1 DEF FuseInv, FreshFiles
  <2>5. \A k \in fresh' : fh'[k] = fh[k] /\ fh'[k] # Closed
    BY <1>5, <1>9, <2>4 DEF FuseInv, FreshFiles
  <2>6. DescriptorsOwned'
    <3>1. {fh'[k] : k \in fresh'} = {fh[k] : k \in fresh}
      BY <2>4, <2>5
    <3> QED
      BY <1>8, <1>10, <2>4, <2>5, <3>1 DEF FuseInv, DescriptorsOwned, fdVars
  <2> QED
    BY <1>2, <1>3, <1>9, <2>3, <2>5, <2>6, AnswerKeepsInv
<1>11. CASE /\ fd \in Fd /\ IsTop(fd_free_list, fd)
            /\ fd_used_set' = fd_used_set \cup {fd}
  <2>1. fd \notin fd_used_set
    BY <1>11 DEF ServerInv, FdInv, FdTypeOK, FdAccounting, HeapOver, IsTop, HeapHolds
  <2>2. NewFd = {fd} /\ fd # Closed
    BY <1>11, <2>1, HandlesAssumption DEF NewFd
  <2>3. answer = fd
    BY <1>2, <2>2 DEF OpenAnswer
  <2>4. fh' \in [Handle -> Fd \cup {0, Closed}]
    BY <1>6, <1>11, <2>3 DEF FuseInv, FreshFiles
  <2>5. fresh' = fresh \cup {h}
    BY <1>5, <1>7, <1>9, <2>2 DEF FuseInv, FreshFiles
  <2>6. fh'[h] = fd /\ \A k \in fresh : k \in Handle /\ fh'[k] = fh[k] /\ fh'[k] # Closed
    BY <1>5, <1>9, <2>3 DEF FuseInv, FreshFiles
  <2>7. DescriptorsOwned'
    <3>1. CASE strayed'
      BY <3>1 DEF DescriptorsOwned
    <3>2. CASE ~ strayed'
      <4>1. /\ fd_used_set = {fh[k] : k \in fresh}
            /\ \A k, m \in fresh : fh[k] = fh[m] => k = m
        BY <1>8, <3>2 DEF FuseInv, DescriptorsOwned
      <4>2. {fh'[k] : k \in fresh'} = {fh[k] : k \in fresh} \cup {fd}
        BY <2>5, <2>6
      <4>3. \A k \in fresh : fh[k] # fd
        BY <2>1, <4>1
      <4>4. \A k, m \in fresh' : fh'[k] = fh'[m] => k = m
        BY <2>5, <2>6, <4>1, <4>3
      <4> QED
        BY <1>11, <4>1, <4>2, <4>4 DEF DescriptorsOwned
    <3> QED
      BY <3>1, <3>2
  <2>8. \A k \in fresh' : fh'[k] # Closed
    BY <2>2, <2>5, <2>6
  <2> QED
    BY <1>2, <1>3, <1>9, <2>4, <2>7, <2>8, AnswerKeepsInv
<1> QED
  BY <1>1, <1>10, <1>11 DEF AllocateFD

(* fuse_release has its answer: its own descriptor is free again. *)
LEMMA CloseFileKeepsFuseInv ==
  ASSUME ServerInv, FuseInv, NEW c \in Call, CloseFile(c), HandlesAnswered
  PROVE  FuseInv'
<1>1. ReclaimFD(req[c].fd)
  BY DEF CloseFile
<1>2. Return(c) /\ up /\ up' /\ OfHandle(c) /\ Is(c, "close") /\ ~ Is(c, "open")
  BY DEF CloseFile, At, fileVars, FuseInv, FdStage, OfHandle, Is
<1>3. PICK h \in Handle : h = serves[c]
  BY <1>2, OneAnswered
<1>4. /\ \A k \in Handle : AnsweredHandle(k, "close") <=> k = h
      /\ \A k \in Handle : ~ AnsweredHandle(k, "open")
  BY <1>2, <1>3, OneAnswered
<1>5. req[c].fd = fh[h]
  BY <1>2, <1>3, HandlesAssumption DEF FuseInv, Serving
<1>6. fh' = [k \in Handle |-> IF k = h THEN Closed ELSE fh[k]]
  BY <1>4 DEF HandlesAnswered
<1>7. \A k \in Handle : fh'[k] = IF k = h THEN Closed ELSE fh[k]
  BY <1>6
<1>8. fresh' = {k \in Handle : k \in fresh /\ fh'[k] # Closed}
  BY <1>2, <1>4 DEF HandlesAnswered
<1>9. fresh' = fresh \ {h}
  BY <1>7, <1>8 DEF FuseInv, FreshFiles
<1>10. strayed' <=> strayed \/ (h \notin fresh /\ fd_used_set' # fd_used_set)
  BY <1>2, <1>4 DEF HandlesAnswered
<1>11. fh' \in [Handle -> Fd \cup {0, Closed}]
  BY <1>6 DEF FuseInv, FreshFiles
<1>12. \A k \in fresh' : fh'[k] = fh[k] /\ fh'[k] # Closed /\ k \in fresh
  BY <1>7, <1>8, <1>9 DEF FuseInv, FreshFiles
<1>13. ASSUME ~ strayed' PROVE DescriptorsOwned'
  <2>1. /\ fd_used_set = {fh[k] : k \in fresh}
        /\ \A k, m \in fresh : fh[k] = fh[m] => k = m
    BY <1>10, <1>13 DEF FuseInv, DescriptorsOwned
  <2>2. {fh'[k] : k \in fresh'} = {fh[k] : k \in fresh \ {h}}
    BY <1>9, <1>12
  <2>3. \A k, m \in fresh' : fh'[k] = fh'[m] => k = m
    BY <1>12, <2>1
  <2>4. CASE h \in fresh
    <3>1. fd_used_set' = fd_used_set \ {fh[h]}
      BY <1>1, <1>5, <2>1, <2>4 DEF ReclaimFD
    <3>2. fd_used_set' = {fh[k] : k \in fresh \ {h}}
      BY <2>1, <2>4, <3>1
    <3> QED
      BY <2>2, <2>3, <3>2 DEF DescriptorsOwned
  <2>5. CASE h \notin fresh
    <3>1. fd_used_set' = fd_used_set /\ fresh \ {h} = fresh
      BY <1>10, <1>13, <2>5
    <3> QED
      BY <2>1, <2>2, <2>3, <3>1 DEF DescriptorsOwned
  <2> QED
    BY <2>4, <2>5
<1>14. DescriptorsOwned'
  BY <1>13 DEF DescriptorsOwned
<1> QED
  BY <1>2, <1>3, <1>7, <1>11, <1>12, <1>14, AnswerKeepsInv

(* An operation of the kernel begins. *)
LEMMA BeginKeepsFuseInv ==
  ASSUME ServerInv, FuseInv, NEW c \in Call, NEW r \in Requests,
         \/ FusePath(c, r) \/ FuseUnlink(c, r) \/ FuseMkdir(c, r)
         \/ \E h \in Handle : FuseOpen(c, h, r) \/ FuseRelease(c, h, r)
  PROVE  FuseInv'
<1>1. /\ Begin(c, r) /\ UNCHANGED <<fh, fresh, strayed, up, fdVars>>
  BY DEF FusePath, FuseUnlink, FuseMkdir, FuseOpen, FuseRelease, Begin, fuseVars, fileVars
<1>2. /\ pc[c] = "idle" /\ pc'[c] = EntryPoint(r.op) /\ req'[c] = r
      /\ \A d \in Call \ {c} : pc'[d] = pc[d] /\ req'[d] = req[d]
  BY <1>1 DEF Begin, At, Goto, ServerInv, CallsOK
<1>3. \A d \in Call : FdStage(d)'
  BY <1>2 DEF FuseInv, FdStage, Is, EntryPoint
<1>4. FreshFiles' /\ DescriptorsOwned'
  BY <1>1 DEF FuseInv, FreshFiles, DescriptorsOwned, fdVars
<1>5. serves[c] = NoHandle
  BY <1>2 DEF FuseInv, Serving, OfHandle
<1>6. CASE serves' = serves /\ r.op \notin {"open", "close"}
  <2>1. Serving'
    BY <1>1, <1>2, <1>5, <1>6 DEF FuseInv, Serving, OfHandle, Is
  <2> QED
    BY <1>3, <1>4, <2>1 DEF FuseInv
<1>7. ASSUME NEW h \in Handle, FuseOpen(c, h, r) \/ FuseRelease(c, h, r)
      PROVE  FuseInv'
  <2>1. /\ r.op \in {"open", "close"} /\ ~ Busy(h)
        /\ r.op = "open" => fh[h] = Closed
        /\ r.op = "close" => fh[h] # Closed /\ r.fd = fh[h]
        /\ serves' = [serves EXCEPT ![c] = h]
    BY <1>7 DEF FuseOpen, FuseRelease
  <2>2. \A d \in Call : serves'[d] = IF d = c THEN h ELSE serves[d]
    BY <2>1 DEF FuseInv, Serving
  <2>3. serves' \in [Call -> Handle \cup {NoHandle}]
    BY <2>1 DEF FuseInv, Serving
  <2>4. \A d \in Call : serves[d] # h
    BY <2>1 DEF Busy
  <2>5. \A d \in Call : serves'[d] # NoHandle <=> OfHandle(d)'
    BY <1>2, <2>1, <2>2, HandlesAssumption DEF FuseInv, Serving, OfHandle, EntryPoint
  <2>6. \A d, e \in Call : serves'[d] = serves'[e] /\ serves'[d] # NoHandle => d = e
    BY <2>2, <2>4 DEF FuseInv, Serving
  <2>7. \A d \in Call : serves'[d] # NoHandle =>
          /\ Is(d, "open")' => fh'[serves'[d]] = Closed
          /\ Is(d, "close")' => fh'[serves'[d]] # Closed /\ req'[d].fd = fh'[serves'[d]]
    BY <1>1, <1>2, <2>1, <2>2 DEF FuseInv, Serving, Is
  <2>8. Serving'
    BY <2>3, <2>5, <2>6, <2>7 DEF Serving
  <2> QED
    BY <1>3, <1>4, <2>8 DEF FuseInv
<1> QED
  BY <1>3, <1>4, <1>6, <1>7 DEF FusePath, FuseUnlink, FuseMkdir, FuseInv, fuseVars

(* An open or a release without a server. *)
LEMMA DownKeepsFuseInv ==
  ASSUME ServerInv, FuseInv, NEW h \in Handle, FuseDown(h)
  PROVE  FuseInv'
<1>1. /\ ~ up /\ ~ Busy(h) /\ UNCHANGED <<vars, serves, fresh, strayed>>
      /\ fh' = [fh EXCEPT ![h] = IF @ = Closed THEN 0 ELSE Closed]
  BY DEF FuseDown
<1>2. UNCHANGED <<up, pc, req, fd_used_set>>
  BY <1>1 DEF vars, fileVars, callVars, fdVars
<1>3. /\ fh' \in [Handle -> Fd \cup {0, Closed}]
      /\ \A k \in Handle : k # h => fh'[k] = fh[k]
  BY <1>1 DEF FuseInv, FreshFiles
<1>4. FreshFiles' /\ DescriptorsOwned'
  BY <1>1, <1>2, <1>3 DEF FuseInv, FreshFiles, DescriptorsOwned
<1>5. \A c \in Call : serves[c] # h
  BY <1>1 DEF Busy
<1>6. \A c \in Call : serves[c] # NoHandle => fh'[serves[c]] = fh[serves[c]]
  BY <1>3, <1>5 DEF FuseInv, Serving
<1>7. Serving'
  BY <1>1, <1>2, <1>6 DEF FuseInv, Serving, OfHandle, Is
<1> QED
  BY <1>2, <1>4, <1>7 DEF FuseInv, FdStage, Is

(* The invariant is inductive. *)
LEMMA FuseStepKeepsInv ==
  ServerInv /\ FuseInv /\ [FuseNext]_<<vars, fuseVars>> => FuseInv'
<1> SUFFICES ASSUME ServerInv, FuseInv, [FuseNext]_<<vars, fuseVars>> PROVE FuseInv'
  OBVIOUS
<1>1. ASSUME NEW c \in Call, Step(c), HandlesAnswered PROVE FuseInv'
  <2>1. CASE Crash
    BY <1>1, <2>1, CrashKeepsFuseInv
  <2>2. CASE ~ Crash /\ ~ AllocFD(c) /\ ~ CloseFile(c)
    <3>1. FdStage(c)
      BY DEF FuseInv
    <3>2. Aside(c)
      BY <1>1, <2>2, <3>1, LookupsAreAside, AccessIsAside DEF Step
    <3> QED
      BY <1>1, <3>2, AsideKeepsInv
  <2> QED
    BY <1>1, <2>1, <2>2, AllocFDKeepsFuseInv, CloseFileKeepsFuseInv
<1>2. CASE ServerStep
  BY <1>1, <1>2, OthersKeepFuseInv, CrashKeepsFuseInv DEF ServerStep, Kill
<1>3. CASE UNCHANGED <<vars, fuseVars>>
  BY <1>3 DEF vars, fuseVars, fileVars, callVars, fdVars, FuseInv, FdStage, Is,
     Serving, OfHandle, FreshFiles, DescriptorsOwned
<1> QED
  BY <1>2, <1>3, BeginKeepsFuseInv, DownKeepsFuseInv DEF FuseNext

(* A step of the file system is a step of the metadata server, or none. *)
LEMMA FuseStepsAreServerSteps ==
  [FuseNext]_<<vars, fuseVars>> => [Next]_vars
  BY DEF FuseNext, FusePath, FuseUnlink, FuseMkdir, FuseOpen, FuseRelease,
     FuseDown, ServerStep, Next

(* No file is open when the file system is mounted. *)
LEMMA FuseStart == FuseInit => ServerInv /\ FuseInv
<1> SUFFICES ASSUME FuseInit PROVE ServerInv /\ FuseInv
  OBVIOUS
<1>1. ServerInv
  BY ServerInvStart DEF FuseInit
<1>2. up /\ fd_used_set = {} /\ \A c \in Call : pc[c] = "idle"
  BY DEF FuseInit, Init, FileMapInit
<1> QED
  BY <1>1, <1>2 DEF FuseInit, FuseInv, FdStage, Serving, OfHandle, FreshFiles,
     DescriptorsOwned

(***************************************************************************)
(* Between FileMap and the kernel no descriptor is lost, shared or taken   *)
(* away by fuse_open and fuse_release, for every number of open files,     *)
(* descriptors and calls and every overlap of them.                        *)
(***************************************************************************)
THEOREM DescriptorsStayOwned == FuseSpec => []DescriptorsOwned
<1>1. FuseInv => DescriptorsOwned
  BY DEF FuseInv
<1>2. ServerInv /\ FuseInv /\ [FuseNext]_<<vars, fuseVars>> => (ServerInv /\ FuseInv)'
  BY ServerInvStep, FuseStepKeepsInv, FuseStepsAreServerSteps
<1> QED
  BY <1>1, <1>2, FuseStart, PTL DEF FuseSpec
=============================================================================
