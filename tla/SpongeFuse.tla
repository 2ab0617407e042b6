----------------------------- MODULE SpongeFuse -----------------------------
(***************************************************************************)
(* The FUSE file system (src/fuse/spfuse.cpp): every request to the        *)
(* metadata server comes from an operation of the kernel, and the          *)
(* descriptors that OpenFile answers are kept in the fh of the kernel's    *)
(* open files until they are released.  open and create send "open",       *)
(* release sends "close", mkdir sends "create", unlink and rmdir send      *)
(* "remove".                                                               *)
(***************************************************************************)
EXTENDS MetaServer

CONSTANTS Handle,           \* open files of the kernel
          Closed, NoHandle

ASSUME HandlesAssumption == Closed \notin Fd \cup {0} /\ NoHandle \notin Handle

VARIABLES fh,               \* fi->fh of every open file
          serves,           \* the open file that a call opens or releases
          fresh,            \* history: open files whose descriptor is of the
                            \* metadata server that runs now
          strayed           \* history: one that is not has closed a descriptor

fuseVars == <<fh, serves, fresh, strayed>>

FuseInit == /\ Init
            /\ fh = [h \in Handle |-> Closed]
            /\ serves = [c \in Call |-> NoHandle]
            /\ fresh = {}
            /\ strayed = FALSE

Busy(h) == \E c \in Call : serves[c] = h

-----------------------------------------------------------------------------
(* fuse_open and fuse_create *)
FuseOpen(c, h, r) ==
  /\ r.op = "open" /\ fh[h] = Closed /\ ~ Busy(h)
  /\ Begin(c, r)
  /\ serves' = [serves EXCEPT ![c] = h]
  /\ UNCHANGED <<fh, fresh, strayed>>

(* Mutant of FuseRelease: path is looked at, fi->fh is not. *)
FuseReleaseAny(c, h, r) ==
  /\ r.op = "close" /\ fh[h] # Closed /\ ~ Busy(h)
  /\ Begin(c, r)
  /\ serves' = [serves EXCEPT ![c] = h]
  /\ UNCHANGED <<fh, fresh, strayed>>

(* fuse_release *)
FuseRelease(c, h, r) ==
  /\ r.op = "close" /\ fh[h] # Closed /\ ~ Busy(h)
  /\ r.fd = fh[h]
  /\ Begin(c, r)
  /\ serves' = [serves EXCEPT ![c] = h]
  /\ UNCHANGED <<fh, fresh, strayed>>

(* fuse_read, fuse_write and fuse_readdir; fi is not looked at. *)
FusePath(c, r) == /\ r.op \in {"read", "write", "readdir"}
                  /\ Begin(c, r)
                  /\ UNCHANGED fuseVars

(* fuse_unlink and fuse_rmdir *)
FuseUnlink(c, r) == r.op = "remove" /\ Begin(c, r) /\ UNCHANGED fuseVars

(* fuse_mkdir *)
FuseMkdir(c, r) == r.op = "create" /\ Begin(c, r) /\ UNCHANGED fuseVars

(* Without a server the stubs have their empty replies at once: OpenFile   *)
(* answers 0, which fuse_open takes for a descriptor.  That fuse_release   *)
(* fails does not keep the file open.                                      *)
FuseDown(h) ==
  /\ ~ up /\ ~ Busy(h)
  /\ fh' = [fh EXCEPT ![h] = IF @ = Closed THEN 0 ELSE Closed]
  /\ UNCHANGED <<vars, serves, fresh, strayed>>

-----------------------------------------------------------------------------
(* The operations that a step of the server, or its end, answers. *)
Ended(c) == pc[c] # "idle" /\ pc'[c] = "idle"
AnsweredHandle(h, op) == \E c \in Call : serves[c] = h /\ Is(c, op) /\ Ended(c)

NewFd == fd_used_set' \ fd_used_set

(* fi->fh after fuse_open: the 0 of an empty reply when the server ended.  *)
(* With -1 it returns -errno; errno is whatever an earlier call left, and  *)
(* with 0 the file is open under an fh that was never set.                 *)
OpenAnswer == IF ~ up' THEN {0}
              ELSE IF NewFd # {} THEN NewFd
              ELSE {Closed, 0}

HandlesAnswered ==
  /\ \E answer \in OpenAnswer :
       fh' = [h \in Handle |-> IF AnsweredHandle(h, "close") THEN Closed
                               ELSE IF AnsweredHandle(h, "open") THEN answer
                               ELSE fh[h]]
  /\ serves' = [c \in Call |-> IF Ended(c) THEN NoHandle ELSE serves[c]]
  /\ fresh' = IF ~ up' THEN {}
              ELSE {h \in Handle : IF AnsweredHandle(h, "open") THEN NewFd # {}
                                   ELSE h \in fresh /\ fh'[h] # Closed}
  /\ strayed' = /\ up'
                /\ \/ strayed
                   \/ \E h \in Handle \ fresh :
                        AnsweredHandle(h, "close") /\ fd_used_set' # fd_used_set

ServerStep ==
  /\ \/ \E c \in Call : Step(c)
     \/ \E s \in Server, r \in Regions : RegisterMemoryRegion(s, r)
     \/ Kill \/ RunServer
  /\ HandlesAnswered

FuseNext ==
  \/ \E c \in Call, r \in Requests :
       \/ FusePath(c, r) \/ FuseUnlink(c, r) \/ FuseMkdir(c, r)
       \/ \E h \in Handle : FuseOpen(c, h, r) \/ FuseRelease(c, h, r)
  \/ \E h \in Handle : FuseDown(h)
  \/ ServerStep

FuseSpec == FuseInit /\ [][FuseNext]_<<vars, fuseVars>>

-----------------------------------------------------------------------------
(***************************************************************************)
(* Every descriptor that the server counts as used is the fh of one open   *)
(* file, and of one only, so that it comes back when that file is released *)
(* and no release takes another's away: however opens and releases overlap *)
(* and fail, at a full table and across restarts, as long as no open file  *)
(* of an earlier server has closed a descriptor of this one.               *)
(***************************************************************************)
DescriptorsOwned ==
  strayed \/ /\ fd_used_set = {fh[h] : h \in fresh}
             /\ \A h, k \in fresh : fh[h] = fh[k] => h = k
=============================================================================
