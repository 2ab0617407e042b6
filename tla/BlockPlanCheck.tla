--------------------------- MODULE BlockPlanCheck ---------------------------
(***************************************************************************)
(* BlockPlan against what a reply must say byte by byte, over all requests *)
(* up to MaxOffset and MaxLength.                                          *)
(***************************************************************************)
EXTENDS BlockPlan

CONSTANTS MaxOffset, MaxLength

VARIABLES reqOffset, reqLength

planVars == <<reqOffset, reqLength>>

PlanInit == reqOffset = 0 /\ reqLength = 0

(* The requests are enumerated one byte later or longer at a time. *)
Later == reqOffset < MaxOffset /\ reqOffset' = reqOffset + 1 /\ UNCHANGED reqLength
Longer == reqLength < MaxLength /\ reqLength' = reqLength + 1 /\ UNCHANGED reqOffset

PlanNext == Later \/ Longer

PlanSpec == PlanInit /\ [][PlanNext]_planVars

Pieces == {Plan(reqOffset, reqLength)[i] : i \in DOMAIN Plan(reqOffset, reqLength)}

Holds(p, k) == p.buff_offset <= k /\ k < p.buff_offset + p.length

(***************************************************************************)
(* Byte k of the caller's buffer is in exactly one piece of the reply, and *)
(* that piece puts it at byte offset + k of the file; no piece has bytes   *)
(* beyond the request.                                                     *)
(***************************************************************************)
PlanIsExact ==
  /\ \A k \in 0 .. reqLength - 1 : \E p \in Pieces :
        /\ Holds(p, k)
        /\ p.block_idx * FILE_BLOCK_SIZE + p.inner + (k - p.buff_offset)
             = reqOffset + k
        /\ \A q \in Pieces : Holds(q, k) => q = p
  /\ \A p \in Pieces : p.buff_offset + p.length <= reqLength

(***************************************************************************)
(* A piece stays within its block, and every block the plan of a write     *)
(* names is among the total_blocks that WriteFile has made the file own    *)
(* (the assertion in ChangeFileBlockInfoLength).                           *)
(***************************************************************************)
PlanStaysInFile ==
  \A p \in Pieces : /\ p.inner + p.length <= FILE_BLOCK_SIZE
                    /\ p.block_idx < BlocksNeeded(reqOffset, reqLength)
=============================================================================
