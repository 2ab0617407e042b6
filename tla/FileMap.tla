------------------------------ MODULE FileMap -------------------------------
(***************************************************************************)
(* The table of open file descriptors of the metadata server               *)
(* (src/fs/file.cpp, class FileMap).  Every operation runs under           *)
(* file_map_lock_ and is one step.                                         *)
(***************************************************************************)
EXTENDS FreeHeap, Integers

CONSTANT FdCount            \* total_size_: how many descriptors there are

ASSUME FdCountAssumption == FdCount \in Nat

VARIABLES fd_free_list, fd_used_set

fdVars == <<fd_free_list, fd_used_set>>

(* vec is 1 .. total_size_ + 3 and the heap takes it from the fourth on. *)
Fd == 4 .. FdCount + 3

FdTypeOK == /\ fd_free_list \in HeapOver(Fd)
            /\ fd_used_set \subseteq Fd

FileMapInit == /\ fd_free_list = HeapOf(Fd, Fd)
               /\ fd_used_set = {}

(* Mutant of AllocateFD: the -1 of an empty heap is recorded as used. *)
AllocateUnchecked(new_fd) ==
  \/ /\ HeapEmpty(fd_free_list)
     /\ new_fd = -1
     /\ fd_used_set' = fd_used_set \cup {new_fd}
     /\ UNCHANGED fd_free_list
  \/ /\ new_fd \in Fd
     /\ IsTop(fd_free_list, new_fd)
     /\ fd_free_list' = Pop(fd_free_list, new_fd)
     /\ fd_used_set' = fd_used_set \cup {new_fd}

(* new_fd is the result: -1 when the heap is empty. *)
AllocateFD(new_fd) ==
  \/ /\ HeapEmpty(fd_free_list)
     /\ new_fd = -1
     /\ UNCHANGED fdVars
  \/ /\ new_fd \in Fd
     /\ IsTop(fd_free_list, new_fd)
     /\ fd_free_list' = Pop(fd_free_list, new_fd)
     /\ fd_used_set' = fd_used_set \cup {new_fd}

(* Mutant of ReclaimFD: the descriptor is not looked up. *)
ReclaimUnchecked(fd) ==
  /\ fd \in Fd
  /\ fd_used_set' = fd_used_set \ {fd}
  /\ fd_free_list' = Push(fd_free_list, fd)

ReclaimFD(fd) ==
  \/ fd \notin fd_used_set /\ UNCHANGED fdVars
  \/ /\ fd \in fd_used_set
     /\ fd_used_set' = fd_used_set \ {fd}
     /\ fd_free_list' = Push(fd_free_list, fd)

FileMapNext == \/ \E new_fd \in Fd \cup {-1} : AllocateFD(new_fd)
               \/ \E fd \in 0 .. FdCount + 4 : ReclaimFD(fd)

FileMapSpec == FileMapInit /\ [][FileMapNext]_fdVars

-----------------------------------------------------------------------------
(***************************************************************************)
(* Every descriptor is in exactly one place: once in the heap, or in the   *)
(* set of used ones.  A descriptor reclaimed twice (CloseFile called again *)
(* by a client that retries) must not be in the heap twice, for AllocateFD *)
(* would then give it to two clients.                                      *)
(***************************************************************************)
FdAccounting ==
  \A fd \in Fd : fd_free_list[fd] = IF fd \in fd_used_set THEN 0 ELSE 1

FdPool == INSTANCE IdPool WITH Ids <- Fd, live <- fd_used_set

(***************************************************************************)
(* FileMap implements the abstract allocator, and every step that changes  *)
(* the heap or the set is one of its steps: AllocateFD never takes from    *)
(* the heap a descriptor that is in use.                                   *)
(***************************************************************************)
FdPoolSpec == FdPool!Init /\ [][FdPool!Next]_fdVars
=============================================================================
