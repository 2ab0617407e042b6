--------------------------- MODULE MCRdmaTransfer ---------------------------
(***************************************************************************)
(* RdmaTransfer with the requests of its runs.  A page is two cells, a     *)
(* bounce buffer one page and the threshold two pages, so that size 3 is   *)
(* small (a chunk and a half) and size 4 is large (one chunk for each of   *)
(* the two workers).                                                       *)
(***************************************************************************)
EXTENDS RdmaTransfer

Sized(sizes) == [write: BOOLEAN, size: sizes]

MixedRequests == Sized({3, 4})
EvenRequests == Sized({4})
=============================================================================
