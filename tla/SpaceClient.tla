---------------------------- MODULE SpaceClient -----------------------------
(***************************************************************************)
(* SpaceManager alone, under callers that give back only what they hold    *)
(* and that reset a range only when they hold nothing.  taken is what the  *)
(* callers keep of the answers they got.                                   *)
(***************************************************************************)
EXTENDS SpaceManager

CONSTANTS Addresses, Lengths    \* of the regions that are registered

(* Word and the block size are powers of two, and a count of blocks that   *)
(* only a wrapped difference can give is one no memory can hold.           *)
ASSUME RegionAssumption ==
  /\ Addresses \subseteq Nat /\ Lengths \subseteq Nat
  /\ Word % FILE_BLOCK_SIZE = 0
  /\ (MaxBlocks + 2) * FILE_BLOCK_SIZE <= Word

VARIABLES taken, span           \* span: length of the registered region

clientVars == <<pool, taken, span>>

ClientTypeOK == /\ SpaceTypeOK
                /\ taken \in [Server -> SUBSET Block]
                /\ span \in [Server -> Nat]

ClientInit == /\ SpaceInit
              /\ taken = [s \in Server |-> {}]
              /\ span = [s \in Server |-> 0]

Register(s, a, l) == /\ taken[s] = {}
                     /\ Construct(s, a, l)
                     /\ span' = [span EXCEPT ![s] = l]
                     /\ UNCHANGED taken

Reset(s, a, l) == /\ s \in Registered /\ taken[s] = {} /\ ~ pool[s].wild
                  /\ ResetSpaceRange(s, a, l)
                  /\ span' = [span EXCEPT ![s] = l]
                  /\ UNCHANGED taken

TakeOne(s, b) == /\ s \in Registered /\ ~ NullHeap(s)
                 /\ AllocateOneBlock(s, b)
                 /\ taken' = [taken EXCEPT ![s] = @ \cup {b}]
                 /\ UNCHANGED span

TakeSpace(s, l, res) == /\ s \in Registered
                        /\ AllocateSpace(s, l, res)
                        /\ taken' = [taken EXCEPT ![s] = @ \cup res]
                        /\ UNCHANGED span

GiveBack(s, res) == /\ s \in Registered /\ res \subseteq taken[s]
                    /\ ReclaimSpace(s, res)
                    /\ taken' = [taken EXCEPT ![s] = @ \ res]
                    /\ UNCHANGED span

ClientNext ==
  \E s \in Server :
     \/ \E a \in Addresses, l \in Lengths : Register(s, a, l) \/ Reset(s, a, l)
     \/ \E b \in Block : TakeOne(s, b)
     \/ \E l \in Lengths, res \in SUBSET Block : TakeSpace(s, l, res)
     \/ \E res \in SUBSET Block : GiveBack(s, res)

ClientSpec == ClientInit /\ [][ClientNext]_clientVars

-----------------------------------------------------------------------------
Sound(s) == s \in Registered /\ ~ pool[s].wild

(***************************************************************************)
(* What the callers hold, what inused_blocks_ lists and what the heap      *)
(* lacks are the same blocks, and cur_blocks_ counts them, as long as no   *)
(* AllocateOneBlock has met an empty heap.                                 *)
(***************************************************************************)
SpaceAccounting ==
  \A s \in Server : Sound(s) =>
    /\ pool[s].inused = taken[s]
    /\ pool[s].cur = Cardinality(taken[s])
    /\ \A b \in Block : pool[s].free[b] =
          IF b < pool[s].total /\ b \notin taken[s] THEN 1 ELSE 0

(***************************************************************************)
(* AllocateSpace pops to_allocate times without looking at the heap.  What *)
(* its test on total_blocks_ - cur_blocks_ lets through, the heap can give.*)
(***************************************************************************)
SpaceTestSuffices ==
  \A s \in Server, l \in Lengths : Sound(s) /\ ~ SpaceRefused(s, l) =>
    BlocksFor(l) <= Cardinality({b \in Block : HeapHolds(pool[s].free, b)})

(***************************************************************************)
(* The server addresses block b as offset b * FILE_BLOCK_SIZE of the       *)
(* region, whatever the alignment took away at its start: no block a       *)
(* caller holds reaches beyond the region's length.                        *)
(***************************************************************************)
BlocksInsideRegion ==
  \A s \in Registered : \A b \in taken[s] : (b + 1) * FILE_BLOCK_SIZE <= span[s]
=============================================================================
