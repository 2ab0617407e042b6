----------------------------- MODULE InodeTable -----------------------------
(***************************************************************************)
(* The inode table of the metadata server (src/fs/file.cpp, class          *)
(* InodeTable).  table_ maps an inode number to a shared_ptr; the object   *)
(* it points to is named by a member of Obj, so that a handler that still  *)
(* holds the pointer of a deleted inode is told apart from one that looked *)
(* its number up again.  Every operation runs under table_lock_ and is one *)
(* step.                                                                   *)
(***************************************************************************)
EXTENDS FreeHeap, FiniteSets

CONSTANTS InodeCount,       \* total_size_
          Obj,              \* names of heap-allocated Inode objects
          RootObj,          \* the object of the root directory
          NoObj             \* nullptr, or no entry in table_

ASSUME InodeCountAssumption == InodeCount \in Nat \ {0}
ASSUME ObjAssumption == RootObj \notin Obj /\ NoObj \notin Obj \cup {RootObj}

VARIABLES table, inode_free_list, cur_size

inodeVars == <<table, inode_free_list, cur_size>>

ROOT_INUM == 0

Inum == 0 .. InodeCount

(* What AllocateFreeInode answers when the table is full. *)
NoFreeInode == InodeCount + 1

InodeTypeOK == /\ table \in [Inum -> Obj \cup {RootObj, NoObj}]
               /\ inode_free_list \in HeapOver(Inum)
               /\ cur_size \in 0 .. InodeCount

(* Both constructors: the heap gets 1 .. total_size_, then CreateRootDir. *)
InodeTableInit ==
  /\ table = [i \in Inum |-> IF i = ROOT_INUM THEN RootObj ELSE NoObj]
  /\ inode_free_list = HeapOf(Inum, 1 .. InodeCount)
  /\ cur_size = 1

InTable(inum) == inum \in Inum /\ table[inum] # NoObj

(* nullptr (NoObj) when the number has no entry. *)
GetInode(inum) == IF InTable(inum) THEN table[inum] ELSE NoObj

(* Mutant of AllocateFreeInode: top() without pop(). *)
AllocateNoPop(o, new_inum) ==
  /\ new_inum \in Inum
  /\ IsTop(inode_free_list, new_inum)
  /\ table' = [table EXCEPT ![new_inum] = o]
  /\ UNCHANGED <<inode_free_list, cur_size>>

(* Mutant of AllocateFreeInode: cur_size_ is not counted up. *)
AllocateUncounted(o, new_inum) ==
  /\ new_inum \in Inum
  /\ IsTop(inode_free_list, new_inum)
  /\ inode_free_list' = Pop(inode_free_list, new_inum)
  /\ table' = [table EXCEPT ![new_inum] = o]
  /\ UNCHANGED cur_size

(* o is the object make_shared<Inode> creates, new_inum the result. *)
AllocateFreeInode(o, new_inum) ==
  \/ /\ cur_size = InodeCount
     /\ new_inum = NoFreeInode
     /\ UNCHANGED inodeVars
  \/ /\ cur_size # InodeCount
     /\ new_inum \in Inum
     /\ IsTop(inode_free_list, new_inum)
     /\ inode_free_list' = Pop(inode_free_list, new_inum)
     /\ cur_size' = cur_size + 1
     /\ table' = [table EXCEPT ![new_inum] = o]

(* Mutant of DeleteInode: the number is not looked up. *)
DeleteUnchecked(inum) ==
  /\ inum \in Inum
  /\ table' = [table EXCEPT ![inum] = NoObj]
  /\ inode_free_list' = Push(inode_free_list, inum)
  /\ cur_size' = cur_size - 1

DeleteInode(inum) ==
  \/ ~ InTable(inum) /\ UNCHANGED inodeVars
  \/ /\ InTable(inum)
     /\ table' = [table EXCEPT ![inum] = NoObj]
     /\ inode_free_list' = Push(inode_free_list, inum)
     /\ cur_size' = cur_size - 1

(* An object is free for make_shared when the table does not hold it. *)
InodeTableNext ==
  \/ \E o \in Obj, i \in Inum \cup {NoFreeInode} :
        (\A j \in Inum : table[j] # o) /\ AllocateFreeInode(o, i)
  \/ \E i \in Inum \cup {NoFreeInode} : DeleteInode(i)

InodeTableSpec == InodeTableInit /\ [][InodeTableNext]_inodeVars

-----------------------------------------------------------------------------
UsedInums == {i \in Inum : table[i] # NoObj}

(***************************************************************************)
(* An inode number is in the table or once in the heap, never both, never  *)
(* neither, and cur_size_ counts the entries.                              *)
(***************************************************************************)
InodeAccounting ==
  /\ \A i \in Inum : inode_free_list[i] = IF table[i] = NoObj THEN 1 ELSE 0
  /\ cur_size = Cardinality(UsedInums)

(***************************************************************************)
(* AllocateFreeInode calls top() without looking whether the heap is       *)
(* empty: the test of cur_size_ stands for it, although the heap starts    *)
(* with total_size_ numbers and cur_size_ with 1.  Whenever the test lets  *)
(* it through there is a number to pop.                                    *)
(***************************************************************************)
NeverPopsEmptyHeap == cur_size # InodeCount => ~ HeapEmpty(inode_free_list)

InodePool == INSTANCE IdPool WITH Ids <- Inum, live <- UsedInums

(***************************************************************************)
(* InodeTable implements the abstract allocator, the root being out from   *)
(* the start: every step that changes the table, the heap or the count     *)
(* takes a number that is not in use or gives back one that is.            *)
(***************************************************************************)
InodePoolNext == [][InodePool!Next]_inodeVars
=============================================================================
