---------------------------- MODULE MCMetaServer ----------------------------
(* Instances of MetaServer small enough for TLC. *)
EXTENDS MetaServer, TLC

R(op, n, off, len) ==
  [op |-> op, name |-> n, off |-> off, len |-> len, fd |-> 4]

(* With blocks of two bytes: a write of two blocks, one inside the second  *)
(* block, and a read to the end.                                           *)
FileRequests ==
  UNION {{R("write", n, 0, 3), R("write", n, 3, 1), R("read", n, 0, 3),
          R("remove", n, 0, 0), R("create", n, 0, 0), R("readdir", n, 0, 0)}
         : n \in Name}

(* The requests that make and remove names and descriptors. *)
NameRequests ==
  UNION {{R("open", n, 0, 0), R("close", n, 0, 0), R("create", n, 0, 0),
          R("remove", n, 0, 0), R("write", n, 0, 1), R("read", n, 1, 1),
          R("readdir", n, 0, 0)} : n \in Name}

MCRegions == {[addr |-> 0, len |-> 4]}

(* States in which every registered pool is one the properties speak of. *)
ReliableOnly == \A s \in Registered : Reliable(s)

(* For callers that use one name at the same time: what changes or reads   *)
(* the file, and a write whose three blocks are -3 to an int below three.  *)
RaceRequests ==
  UNION {{R("write", n, 0, 3), R("write", n, 4, 1), R("read", n, 1, 2),
          R("remove", n, 0, 0)} : n \in Name}

OneBlockRegions == {[addr |-> 0, len |-> 2]}

(* A block returned twice is in the heap twice: MaxCopies bounds how often. *)
MaxCopies == 2

CopiesBounded ==
  \A s \in Registered : \A b \in Block : pool[s].free[b] <= MaxCopies

MCSymmetry == Permutations(Obj) \cup Permutations(Call)
              \cup Permutations(Name)
=============================================================================
