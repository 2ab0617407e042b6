---------------------------- MODULE MCSpongeFuse ----------------------------
(* An instance of SpongeFuse small enough for TLC. *)
EXTENDS SpongeFuse, TLC

R(op, n, len, fd) == [op |-> op, name |-> n, off |-> 0, len |-> len, fd |-> fd]

(* What makes and removes names and descriptors, and what uses a block. *)
FuseRequests ==
  UNION {{R("open", n, 0, 0), R("remove", n, 0, 0), R("create", n, 0, 0),
          R("write", n, 1, 0), R("read", n, 1, 0), R("readdir", n, 0, 0)}
            \cup {R("close", n, 0, fd) : fd \in Fd \cup {0}} : n \in Name}

OneBlockRegions == {[addr |-> 0, len |-> 2]}

MCSymmetry == Permutations(Obj) \cup Permutations(Call)
              \cup Permutations(Name) \cup Permutations(Handle)
=============================================================================
