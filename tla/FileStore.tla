----------------------------- MODULE FileStore ------------------------------
(***************************************************************************)
(* What the file system as a whole promises to callers that do not use one *)
(* file at the same time.  A file is a sequence of bytes.  A write has two *)
(* steps: its answer sets the length of the file, and until its transfer   *)
(* is over the bytes it covers are Torn.  The byte at position p of the    *)
(* buffer that client c writes is <<c, p>>.                                *)
(*                                                                         *)
(* A write ends the file: what lay after its last byte is cut off.  Bytes  *)
(* between the old end and the beginning of the write are whatever the     *)
(* blocks held before.                                                     *)
(***************************************************************************)
EXTENDS Naturals, Sequences

CONSTANTS Name, Client,
          Extent,         \* the [off, len] that clients write
          NoFile, Torn, NoWrite

VARIABLES files,          \* NoFile or the bytes of the file
          writing         \* NoWrite or the [name, off, len] being transferred

Write == [name : Name, off : {e.off : e \in Extent}, len : {e.len : e \in Extent}]

Covers(w, p) == w.off <= p /\ p < w.off + w.len

Init == /\ files = [n \in Name |-> NoFile]
        /\ writing = [c \in Client |-> NoWrite]

OthersKept(n) == \A m \in Name \ {n} : files'[m] = files[m]

Create(n) == /\ files[n] = NoFile
             /\ files' = [files EXCEPT ![n] = << >>]
             /\ UNCHANGED writing

Remove(n) == /\ files[n] # NoFile
             /\ \A c \in Client : writing[c] = NoWrite \/ writing[c].name # n
             /\ files' = [files EXCEPT ![n] = NoFile]
             /\ UNCHANGED writing

BeginWrite(c, w) ==
  LET old == files[w.name]
      new == files'[w.name]
  IN  /\ writing[c] = NoWrite /\ old # NoFile
      /\ writing' = [writing EXCEPT ![c] = w]
      /\ OthersKept(w.name)
      /\ Len(new) = w.off + w.len
      /\ \A p \in 1 .. Len(new) :
           /\ Covers(w, p - 1) => new[p] = Torn
           /\ p <= w.off /\ p <= Len(old) => new[p] = old[p]

EndWrite(c) ==
  LET w == writing[c] IN
  /\ w # NoWrite
  /\ writing' = [writing EXCEPT ![c] = NoWrite]
  /\ files' = [files EXCEPT ![w.name] =
                 [p \in DOMAIN @ |->
                    IF Covers(w, p - 1) THEN <<c, p - 1 - w.off>> ELSE @[p]]]

(* The metadata server ends: every file is gone. *)
Lose == /\ files' = [n \in Name |-> NoFile]
        /\ writing' = [c \in Client |-> NoWrite]

Next == \/ \E n \in Name : Create(n) \/ Remove(n)
        \/ \E c \in Client : EndWrite(c) \/ \E w \in Write : BeginWrite(c, w)
        \/ Lose

Spec == Init /\ [][Next]_<<files, writing>>
=============================================================================
