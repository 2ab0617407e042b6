-------------------------- MODULE IdTableProofs ---------------------------
(***************************************************************************)
(* The tables that hand out identifiers: the descriptor table (FileMap)    *)
(* and the inode table (InodeTable), for every size.                       *)
(***************************************************************************)
EXTENDS FileMap, InodeTable, FiniteSetTheorems, TLAPS

-----------------------------------------------------------------------------
(* The descriptor table *)

FdInv == FdTypeOK /\ FdAccounting

(* AllocateFD takes the top of the heap, or answers -1. *)
LEMMA AllocateFDKeepsAccounts ==
  ASSUME FdInv, NEW new_fd, AllocateFD(new_fd)
  PROVE  FdInv'
  BY DEF FdInv, FdTypeOK, FdAccounting, HeapOver, fdVars, AllocateFD, IsTop,
         HeapHolds, Pop

(* ReclaimFD puts a used descriptor back and refuses all others. *)
LEMMA ReclaimFDKeepsAccounts ==
  ASSUME FdInv, NEW fd, ReclaimFD(fd)
  PROVE  FdInv'
  BY DEF FdInv, FdTypeOK, FdAccounting, HeapOver, fdVars, ReclaimFD, Push

(* Every step of FileMap keeps the heap and the used set complementary. *)
LEMMA FileMapStep == FdInv /\ [FileMapNext]_fdVars => FdInv'
<1> SUFFICES ASSUME FdInv, [FileMapNext]_fdVars PROVE FdInv'
  OBVIOUS
<1>1. CASE UNCHANGED fdVars
  BY <1>1 DEF FdInv, FdTypeOK, FdAccounting, fdVars
<1> QED
  BY <1>1, AllocateFDKeepsAccounts, ReclaimFDKeepsAccounts DEF FileMapNext

(* FileMap's constructor: every descriptor is in the heap, none in use. *)
LEMMA FileMapStart == FileMapInit => FdInv
  BY FdCountAssumption
     DEF FileMapInit, FdInv, FdTypeOK, FdAccounting, HeapOver, HeapOf

(* AllocateFD and ReclaimFD keep every descriptor in exactly one place,    *)
(* however often a client closes what it has closed before.                *)
THEOREM FdAccountingHolds == FileMapSpec => [](FdTypeOK /\ FdAccounting)
<1>1. FileMapSpec => []FdInv
  BY FileMapStart, FileMapStep, PTL DEF FileMapSpec
<1> QED
  BY <1>1, PTL DEF FdInv

(* AllocateFD and ReclaimFD implement the abstract allocator: a descriptor *)
(* that is out is not given to a second client.                            *)
THEOREM FileMapImplementsIdPool == FileMapSpec => FdPoolSpec
<1>1. FileMapInit => FdPool!Init
  BY DEF FileMapInit, FdPool!Init
<1>2. FdInv /\ [FileMapNext]_fdVars => [FdPool!Next]_fdVars
  <2> SUFFICES ASSUME FdInv, [FileMapNext]_fdVars
               PROVE  [FdPool!Next]_fdVars
    OBVIOUS
  <2> USE DEF FdInv, FdTypeOK, FdAccounting, HeapOver, fdVars, FdPool!Next
  <2>1. ASSUME NEW new_fd \in Fd \cup {-1}, AllocateFD(new_fd)
        PROVE  [FdPool!Next]_fdVars
    BY <2>1 DEF AllocateFD, IsTop, HeapHolds, FdPool!Acquire
  <2>2. ASSUME NEW fd \in 0 .. FdCount + 4, ReclaimFD(fd)
        PROVE  [FdPool!Next]_fdVars
    BY <2>2 DEF ReclaimFD, FdPool!Release
  <2> QED
    BY <2>1, <2>2 DEF FileMapNext
<1> QED
  BY <1>1, <1>2, FileMapStart, FileMapStep, PTL
     DEF FileMapSpec, FdPoolSpec

-----------------------------------------------------------------------------
(* The inode table *)

InodeInv == InodeTypeOK /\ InodeAccounting

(* The inode numbers are finitely many, one more than total_size_. *)
LEMMA InumCount == IsFiniteSet(Inum) /\ Cardinality(Inum) = InodeCount + 1
  BY InodeCountAssumption, FS_Interval DEF Inum

(* InodeTable's constructor: only the root directory is in the table. *)
LEMMA InodeTableStart == InodeTableInit => InodeInv
<1> SUFFICES ASSUME InodeTableInit PROVE InodeInv
  OBVIOUS
<1>1. InodeTypeOK
  BY InodeCountAssumption
     DEF InodeTableInit, InodeTypeOK, HeapOver, HeapOf, Inum, ROOT_INUM
<1>2. UsedInums = {ROOT_INUM}
  BY InodeCountAssumption, ObjAssumption
     DEF InodeTableInit, UsedInums, Inum, ROOT_INUM
<1>3. cur_size = Cardinality(UsedInums)
  BY <1>2, FS_Singleton DEF InodeTableInit
<1>4. \A i \in Inum : inode_free_list[i] = IF table[i] = NoObj THEN 1 ELSE 0
  BY InodeCountAssumption, ObjAssumption
     DEF InodeTableInit, HeapOf, Inum, ROOT_INUM
<1> QED
  BY <1>1, <1>3, <1>4 DEF InodeInv, InodeAccounting

(* AllocateFreeInode moves one number from the heap to the table. *)
LEMMA AllocateKeepsAccounts ==
  ASSUME InodeInv, NEW o \in Obj, NEW i \in Inum \cup {NoFreeInode},
         AllocateFreeInode(o, i)
  PROVE  InodeInv'
<1>1. CASE UNCHANGED inodeVars
  BY <1>1 DEF InodeInv, InodeTypeOK, InodeAccounting, UsedInums, inodeVars
<1>2. CASE ~ UNCHANGED inodeVars
  <2>0. /\ cur_size # InodeCount /\ i \in Inum
        /\ IsTop(inode_free_list, i)
        /\ inode_free_list' = Pop(inode_free_list, i)
        /\ cur_size' = cur_size + 1
        /\ table' = [table EXCEPT ![i] = o]
    BY <1>2 DEF AllocateFreeInode
  <2>1. table[i] = NoObj
    BY <2>0 DEF InodeInv, InodeAccounting, IsTop, HeapHolds
  <2>2. InodeTypeOK'
    BY <2>0, InodeCountAssumption
       DEF InodeInv, InodeTypeOK, HeapOver, IsTop, HeapHolds, Pop
  <2>3. UsedInums' = UsedInums \cup {i} /\ i \notin UsedInums
    BY <2>0, <2>1, ObjAssumption DEF UsedInums, InodeInv, InodeTypeOK
  <2>4. IsFiniteSet(UsedInums)
    BY InumCount, FS_Subset DEF UsedInums
  <2>5. Cardinality(UsedInums') = Cardinality(UsedInums) + 1
    BY <2>3, <2>4, FS_AddElement
  <2>6. \A j \in Inum :
          inode_free_list'[j] = IF table'[j] = NoObj THEN 1 ELSE 0
    BY <2>0, <2>1, ObjAssumption
       DEF InodeInv, InodeTypeOK, InodeAccounting, HeapOver, Pop
  <2> QED
    BY <2>0, <2>2, <2>5, <2>6 DEF InodeInv, InodeAccounting
<1> QED
  BY <1>1, <1>2

(* DeleteInode moves one number from the table to the heap. *)
LEMMA DeleteKeepsAccounts ==
  ASSUME InodeInv, NEW i \in Inum \cup {NoFreeInode}, DeleteInode(i)
  PROVE  InodeInv'
<1>1. CASE UNCHANGED inodeVars
  BY <1>1 DEF InodeInv, InodeTypeOK, InodeAccounting, UsedInums, inodeVars
<1>2. CASE ~ UNCHANGED inodeVars
  <2>0. /\ i \in Inum /\ table[i] # NoObj
        /\ table' = [table EXCEPT ![i] = NoObj]
        /\ inode_free_list' = Push(inode_free_list, i)
        /\ cur_size' = cur_size - 1
    BY <1>2 DEF DeleteInode, InTable
  <2>1. UsedInums' = UsedInums \ {i} /\ i \in UsedInums
    BY <2>0 DEF UsedInums, InodeInv, InodeTypeOK
  <2>2. IsFiniteSet(UsedInums)
    BY InumCount, FS_Subset DEF UsedInums
  <2>3. Cardinality(UsedInums') = Cardinality(UsedInums) - 1
    BY <2>1, <2>2, FS_RemoveElement
  <2>4. cur_size > 0
    BY <2>1, <2>2, FS_EmptySet, FS_CardinalityType
       DEF InodeInv, InodeAccounting
  <2>5. InodeTypeOK'
    BY <2>0, <2>4, InodeCountAssumption
       DEF InodeInv, InodeTypeOK, HeapOver, Push
  <2>6. \A j \in Inum :
          inode_free_list'[j] = IF table'[j] = NoObj THEN 1 ELSE 0
    BY <2>0 DEF InodeInv, InodeTypeOK, InodeAccounting, HeapOver, Push
  <2> QED
    BY <2>0, <2>3, <2>5, <2>6 DEF InodeInv, InodeAccounting
<1> QED
  BY <1>1, <1>2

(* Every step of InodeTable keeps its accounts. *)
LEMMA InodeTableStep == InodeInv /\ [InodeTableNext]_inodeVars => InodeInv'
<1> SUFFICES ASSUME InodeInv, [InodeTableNext]_inodeVars PROVE InodeInv'
  OBVIOUS
<1>1. CASE UNCHANGED inodeVars
  BY <1>1 DEF InodeInv, InodeTypeOK, InodeAccounting, UsedInums, inodeVars
<1> QED
  BY <1>1, AllocateKeepsAccounts, DeleteKeepsAccounts DEF InodeTableNext

(* A heap without numbers means a table without free places: the test of   *)
(* cur_size_ in AllocateFreeInode is then met.                             *)
LEMMA TestProtectsPop == InodeInv => NeverPopsEmptyHeap
<1> SUFFICES ASSUME InodeInv, HeapEmpty(inode_free_list)
             PROVE  cur_size = InodeCount
  BY DEF NeverPopsEmptyHeap
<1>1. UsedInums = Inum
  BY DEF InodeInv, InodeTypeOK, InodeAccounting, HeapEmpty, HeapOver, UsedInums
<1>2. cur_size = InodeCount + 1
  BY <1>1, InumCount DEF InodeInv, InodeAccounting
<1> QED
  BY <1>2, InodeCountAssumption DEF InodeInv, InodeTypeOK

(* AllocateFreeInode and DeleteInode keep table_, free_list_ and cur_size_ *)
(* in agreement.                                                           *)
THEOREM InodeAccountingHolds ==
  InodeTableSpec => [](InodeTypeOK /\ InodeAccounting)
<1>1. InodeTableSpec => []InodeInv
  BY InodeTableStart, InodeTableStep, PTL DEF InodeTableSpec
<1> QED
  BY <1>1, PTL DEF InodeInv

(* AllocateFreeInode never calls top() on an empty heap, whatever sequence *)
(* of allocations and deletions came before, the root's deletion included. *)
THEOREM HeapNeverPoppedEmpty == InodeTableSpec => []NeverPopsEmptyHeap
<1>1. InodeTableSpec => []InodeInv
  BY InodeTableStart, InodeTableStep, PTL DEF InodeTableSpec
<1> QED
  BY <1>1, TestProtectsPop, PTL

(* Every step of the table is a step of the abstract allocator: no number  *)
(* in use is allocated again.                                              *)
THEOREM InodeTableImplementsIdPool == InodeTableSpec => InodePoolNext
<1>1. InodeInv /\ [InodeTableNext]_inodeVars
        => [InodePool!Next]_inodeVars
  <2> SUFFICES ASSUME InodeInv, [InodeTableNext]_inodeVars,
                      inodeVars' # inodeVars
               PROVE  InodePool!Next
    OBVIOUS
  <2>1. ASSUME NEW o \in Obj, NEW i \in Inum \cup {NoFreeInode},
               AllocateFreeInode(o, i)
        PROVE  InodePool!Next
    <3>1. /\ i \in Inum /\ IsTop(inode_free_list, i)
          /\ table' = [table EXCEPT ![i] = o]
      BY <2>1 DEF AllocateFreeInode, inodeVars, UsedInums
    <3>2. i \notin UsedInums
      BY <3>1 DEF InodeInv, InodeAccounting, IsTop, HeapHolds, UsedInums
    <3>3. UsedInums' = UsedInums \cup {i}
      BY <3>1, ObjAssumption DEF UsedInums, InodeInv, InodeTypeOK
    <3> QED
      BY <3>1, <3>2, <3>3 DEF InodePool!Next, InodePool!Acquire
  <2>2. ASSUME NEW i \in Inum \cup {NoFreeInode}, DeleteInode(i)
        PROVE  InodePool!Next
    <3>1. i \in Inum /\ table[i] # NoObj /\ table' = [table EXCEPT ![i] = NoObj]
      BY <2>2 DEF DeleteInode, InTable, inodeVars, UsedInums
    <3>2. i \in UsedInums /\ UsedInums' = UsedInums \ {i}
      BY <3>1 DEF UsedInums, InodeInv, InodeTypeOK
    <3> QED
      BY <3>1, <3>2 DEF InodePool!Next, InodePool!Release
  <2> QED
    BY <2>1, <2>2 DEF InodeTableNext, inodeVars, UsedInums
<1> QED
  BY <1>1, InodeTableStart, InodeTableStep, PTL
     DEF InodeTableSpec, InodePoolNext
=============================================================================
