---------------------------- MODULE SpaceManager ----------------------------
(***************************************************************************)
(* The block allocators of the metadata server (src/fs/spacemanager.cpp):  *)
(* one SpaceManager per storage server that has registered its memory.     *)
(* Addresses and lengths are uint64_t: arithmetic is modulo Word.          *)
(***************************************************************************)
EXTENDS FreeHeap, BlockPlan, FiniteSets, Integers

CONSTANTS Word,             \* 2^64; a smaller number in a run
          Server,           \* node ids of the storage servers
          MaxBlocks,        \* blocks the largest registered region can hold
          NoPool            \* the node id is not a key of space_manager_

ASSUME WordAssumption == Word \in Nat \ {0} /\ MaxBlocks \in 0 .. Word - 1
ASSUME ServerAssumption == Server \subseteq Nat

VARIABLE pool

Block == 0 .. MaxBlocks - 1

(* total: total_blocks_; free: free_list_; inused: inused_blocks_;         *)
(* cur: cur_blocks_.  wild says that the vector under free_list_ has been  *)
(* popped while empty: its end lies before its beginning from then on, and *)
(* what it answers is undefined.                                           *)
Pool == [total : 0 .. MaxBlocks, free : HeapOver(Block),
         inused : SUBSET Block, cur : 0 .. Word - 1, wild : BOOLEAN]

ASSUME NoPoolAssumption == NoPool \notin Pool

SpaceTypeOK == pool \in [Server -> Pool \cup {NoPool}]

SpaceInit == pool = [s \in Server |-> NoPool]

Registered == {s \in Server : pool[s] # NoPool}

-----------------------------------------------------------------------------
(* The geometry of a region of length bytes from address start. *)

(* Mutant of Wrap: signed arithmetic. *)
Signed(n) == n

Wrap(n) == n % Word

(* space_start_ is moved up to the next block boundary. *)
AlignedStart(start) ==
  IF start % FILE_BLOCK_SIZE = 0 THEN start
  ELSE LET up == Wrap(start + FILE_BLOCK_SIZE) IN up - (up % FILE_BLOCK_SIZE)

(* Mutant of TotalBlocks: a block for the part of one at the end. *)
TotalBlocksUp(start, length) ==
  (Wrap(Wrap(start + length - 1) - AlignedStart(start) + 1)
     + FILE_BLOCK_SIZE - 1) \div FILE_BLOCK_SIZE

(* total_blocks_, with space_end_ = start + length - 1 as the caller has it. *)
TotalBlocks(start, length) ==
  Wrap(Wrap(start + length - 1) - AlignedStart(start) + 1) \div FILE_BLOCK_SIZE

(* The constructor builds a vector of total_blocks_ numbers first; a count *)
(* no memory can hold makes it throw, and no SpaceManager comes to be.     *)
Constructible(start, length) == TotalBlocks(start, length) <= MaxBlocks

NewPool(start, length) ==
  LET total == TotalBlocks(start, length)
  IN  [total |-> total, free |-> HeapOf(Block, 0 .. total - 1),
       inused |-> {}, cur |-> 0, wild |-> FALSE]

(* space_manager_[nodeid] = make_shared<SpaceManager>(...) *)
Construct(s, start, length) ==
  /\ Constructible(start, length)
  /\ pool' = [pool EXCEPT ![s] = NewPool(start, length)]

(* The range, the counts and the heap are set anew; inused_blocks_ and     *)
(* cur_blocks_ are left as they are.  (No part of the program calls it.)   *)
ResetSpaceRange(s, start, length) ==
  /\ Constructible(start, length)
  /\ pool' = [pool EXCEPT ![s].total = TotalBlocks(start, length),
                          ![s].free = NewPool(start, length).free,
                          ![s].wild = FALSE]

-----------------------------------------------------------------------------
(* The operations; each runs under space_lock_. *)

(* Mutant of Taken: top() without pop(). *)
TakenNoPop(p, b) == [p EXCEPT !.inused = @ \cup {b}, !.cur = Wrap(@ + 1)]

(* Mutant of Taken: cur_blocks_ is not counted up. *)
TakenUncounted(p, b) == [p EXCEPT !.free = Pop(@, b), !.inused = @ \cup {b}]

(* p after block b has been taken from it. *)
Taken(p, b) == [p EXCEPT !.free = Pop(@, b), !.inused = @ \cup {b},
                         !.cur = Wrap(@ + 1)]

(* There is no test for an empty heap.  top() of an empty vector that once *)
(* held blocks reads a number that is still in memory, and pop() moves its *)
(* end before its beginning: the caller gets some block, the pool is wild. *)
(* (A vector that never held any has no memory: see NullHeap.)             *)
AllocateOneBlock(s, b) ==
  LET p == pool[s] IN
  \/ /\ ~ p.wild
     /\ IsTop(p.free, b)
     /\ pool' = [pool EXCEPT ![s] = Taken(p, b)]
  \/ /\ p.wild \/ HeapEmpty(p.free)
     /\ b < p.total
     /\ pool' = [pool EXCEPT ![s] = [p EXCEPT !.inused = @ \cup {b},
                                              !.cur = Wrap(@ + 1),
                                              !.wild = TRUE]]

(* top() of this pool reads through a null pointer. *)
NullHeap(s) == pool[s].total = 0

BlocksFor(length) == (length + FILE_BLOCK_SIZE - 1) \div FILE_BLOCK_SIZE

(* to_allocate blocks are refused only when total_blocks_ - cur_blocks_,   *)
(* an unsigned difference, is smaller.  res is the set of blocks returned. *)
SpaceRefused(s, length) ==
  BlocksFor(length) > Wrap(pool[s].total - pool[s].cur)

AllocateSpace(s, length, res) ==
  LET p == pool[s] IN
  \/ SpaceRefused(s, length) /\ res = {} /\ UNCHANGED pool
  \/ /\ ~ SpaceRefused(s, length) /\ ~ p.wild
     /\ Cardinality(res) = BlocksFor(length)
     /\ \A b \in res : HeapHolds(p.free, b)
     /\ \A b \in Block \ res, r \in res : HeapHolds(p.free, b) => r < b
     /\ pool' = [pool EXCEPT
          ![s] = [p EXCEPT !.free = [b \in Block |->
                               p.free[b] - (IF b \in res THEN 1 ELSE 0)],
                           !.inused = @ \cup res,
                           !.cur = Wrap(@ + Cardinality(res))]]
  \/ /\ ~ SpaceRefused(s, length) /\ p.wild
     /\ \A b \in res : b < p.total
     /\ pool' = [pool EXCEPT
          ![s] = [p EXCEPT !.inused = @ \cup res,
                           !.cur = Wrap(@ + BlocksFor(length))]]

(* Mutant of Returned: cur_blocks_ is not counted down. *)
ReturnedUncounted(p, times, n) ==
  [p EXCEPT !.free = IF p.wild THEN @ ELSE [b \in Block |-> @[b] + times[b]],
            !.inused = {b \in @ : times[b] = 0}]

(* Mutant of Returned: inused_blocks_ is cleared, the heap gets nothing. *)
ReturnedNowhere(p, times, n) ==
  [p EXCEPT !.inused = {b \in @ : times[b] = 0}, !.cur = Wrap(@ - n)]

(* times[b] says how often the list that is reclaimed names block b.       *)
(* Nothing checks that a block was in use.                                 *)
Returned(p, times, n) ==
  [p EXCEPT !.free = IF p.wild THEN @ ELSE [b \in Block |-> @[b] + times[b]],
            !.inused = {b \in @ : times[b] = 0},
            !.cur = Wrap(@ - n)]

ReclaimSpace(s, res) ==
  pool' = [pool EXCEPT ![s] = Returned(@, HeapOf(Block, res), Cardinality(res))]

(* The entries of an inode's block list that lie on server s. *)
EntriesOn(s, list, b) ==
  {i \in DOMAIN list : list[i].srv = s /\ list[i].nr = b}

ReclaimInodeSpace(s, list) ==
  pool' = [pool EXCEPT
    ![s] = Returned(@, [b \in Block |-> Cardinality(EntriesOn(s, list, b))],
                    Cardinality({i \in DOMAIN list : list[i].srv = s}))]
=============================================================================
