--------------------------- MODULE MCSpongeClient ---------------------------
(* Instances of SpongeClient small enough for TLC. *)
EXTENDS SpongeClient, TLC

R(op, n, off, len) ==
  [op |-> op, name |-> n, off |-> off, len |-> len, fd |-> 4]

(* With blocks of two bytes: requests that lie within one block, as those  *)
(* of the FUSE file system do when they are aligned, here the last byte of *)
(* the first and of the second block; the read at 3 is cut at the file's   *)
(* end, and the read of nothing is answered with a piece of no bytes.      *)
BlockRequests ==
  UNION {{R("write", n, 1, 1), R("write", n, 3, 1), R("read", n, 1, 1),
          R("read", n, 3, 2), R("read", n, 1, 0), R("remove", n, 0, 0)} : n \in Name}

(* What the theorems ask of the requests holds of these. *)
ASSUME BlockRequestsFit ==
  Requests = BlockRequests => OneBlockRequests /\ EmptyRequestsFit

(* Requests that cross from the first block into the second. *)
CrossingRequests == UNION {{R("write", n, 0, 3), R("read", n, 0, 3)} : n \in Name}

(* Every thread is of a Client of its own. *)
OwnSocket == [c \in Call |-> c]

OneSocket == [c \in Call |-> CHOOSE k \in Socket : TRUE]

TwoBlocks == {[addr |-> 0, len |-> 4]}

MCSymmetry == Permutations(Obj) \cup Permutations(Call)
              \cup Permutations(Name)
=============================================================================
