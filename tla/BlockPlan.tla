----------------------------- MODULE BlockPlan ------------------------------
(***************************************************************************)
(* How ReadFile and WriteFile (src/metadata/MetaServer.cpp) cut a request  *)
(* for length bytes from offset into the block infos of their reply: a     *)
(* first piece that starts inside a block, whole blocks, and a last piece. *)
(* A piece names the block by its index in the file, the offset within the *)
(* block, the number of bytes, and where they lie in the caller's buffer.  *)
(***************************************************************************)
EXTENDS Naturals, Sequences

CONSTANT FILE_BLOCK_SIZE

ASSUME PlanBlockSizeAssumption == FILE_BLOCK_SIZE \in Nat \ {0}

(* The arguments InitBlockInfo is called with. *)
Piece(block_idx, inner, length, buff_offset) ==
  [block_idx |-> block_idx, inner |-> inner, length |-> length,
   buff_offset |-> buff_offset]

Least(a, b) == IF a <= b THEN a ELSE b

(* offset & FILE_BLOCK_MASK *)
InnerOffset(offset) == offset % FILE_BLOCK_SIZE

(* Mutant of FirstLength: a first piece as long as the request. *)
FirstLengthWhole(offset, length) ==
  IF InnerOffset(offset) = 0 THEN 0 ELSE length

FirstLength(offset, length) ==
  IF InnerOffset(offset) = 0 THEN 0
  ELSE Least(FILE_BLOCK_SIZE - InnerOffset(offset), length)

(* The unaligned piece is added even when it has no bytes. *)
FirstPiece(offset, length) ==
  IF InnerOffset(offset) = 0 THEN << >>
  ELSE << Piece(offset \div FILE_BLOCK_SIZE, InnerOffset(offset),
                FirstLength(offset, length), 0) >>

(* Mutant of LoopBlock: start_block is not counted on after the first. *)
LoopBlockSame(offset) == offset \div FILE_BLOCK_SIZE

(* start_block when the loop over whole blocks begins. *)
LoopBlock(offset) ==
  offset \div FILE_BLOCK_SIZE + (IF InnerOffset(offset) = 0 THEN 0 ELSE 1)

WholeCount(offset, length) ==
  (length - FirstLength(offset, length)) \div FILE_BLOCK_SIZE

WholePieces(offset, length) ==
  [i \in 1 .. WholeCount(offset, length) |->
     Piece(LoopBlock(offset) + i - 1, 0, FILE_BLOCK_SIZE,
           FirstLength(offset, length) + (i - 1) * FILE_BLOCK_SIZE)]

LastPiece(offset, length) ==
  LET done == FirstLength(offset, length)
              + WholeCount(offset, length) * FILE_BLOCK_SIZE
  IN  IF length = done THEN << >>
      ELSE << Piece(LoopBlock(offset) + WholeCount(offset, length), 0,
                    length - done, done) >>

Plan(offset, length) ==
  FirstPiece(offset, length) \o WholePieces(offset, length)
                             \o LastPiece(offset, length)

(* Mutant of BlocksNeeded: the division is not rounded up. *)
BlocksNeededFloor(offset, length) == (offset + length) \div FILE_BLOCK_SIZE

(* total_blocks: how many blocks a file needs to be written up to the end  *)
(* of the request.                                                         *)
BlocksNeeded(offset, length) ==
  (offset + length + FILE_BLOCK_SIZE - 1) \div FILE_BLOCK_SIZE
=============================================================================
