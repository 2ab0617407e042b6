---------------------------- MODULE RdmaTransfer ----------------------------
(***************************************************************************)
(* The data path of a client's RdmaSocket: RemoteRead and RemoteWrite, the *)
(* worker threads they hand large transfers to, the bounce buffers, and    *)
(* the one completion queue that every queue pair of the client uses.      *)
(*                                                                         *)
(* Sizes are counted in cells, a part of a page.  A cell of memory holds   *)
(* <<n, k>>, the k-th cell of the n-th call's data, so that a cell that    *)
(* arrives late, twice or from the wrong buffer is told from the right     *)
(* one.  Each calling thread has a user buffer and a remote region of its  *)
(* own; a call starts at the first cell of both.                           *)
(***************************************************************************)
EXTENDS Integers, Sequences, FiniteSets, FiniteSetsExt

CONSTANTS Callers,          \* threads that call RemoteRead and RemoteWrite
          Requests,         \* records [write, size], the calls they make
          Cells,            \* cells in a user buffer
          Page,             \* 4 KB, in cells
          SendPoolSize,     \* 1 MB, a bounce buffer
          Threshold,        \* 4 MB, the least size that workers transfer
          WORKER_NUMBER,
          SignalWrap,       \* 2^16, TransferSignal is a uint16_t
          OffsetWrap,       \* 2^8, Queue::offset is a uint8_t
          MaxCalls,         \* bound on the calls made
          MaxFaults         \* bound on the queue pairs that break and posts that fail

Workers == 0 .. WORKER_NUMBER - 1

ASSUME TransferAssumption ==
    /\ Callers \cap Int = {} /\ Callers # {} /\ IsFiniteSet(Callers)
    /\ {Cells, Page, SendPoolSize, Threshold, WORKER_NUMBER,
        SignalWrap, OffsetWrap, MaxCalls} \subseteq Nat \ {0}
    /\ MaxFaults \in Nat
    /\ WORKER_NUMBER <= 4          \* 2; PartSize is written for at most 4
    /\ WORKER_NUMBER < SignalWrap /\ 1 < OffsetWrap
    /\ Requests \subseteq [write: BOOLEAN, size: 1 .. Cells]

Threads == Callers \cup Workers

Cell == 0 .. Cells - 1

Value == (0 .. MaxCalls) \X Cell \cup {<<>>}      \* <<>>: nothing put there

TransferTask == [write: BOOLEAN, owner: Callers,
                 base: 0 .. Cells, size: 0 .. Cells]

WorkRequest == [write: BOOLEAN, owner: Callers, at: Cell, len: 1 .. Cells]

VARIABLES
    pc,              \* where each thread is
    job, done,       \* arguments and TotalSizeSend of its Hamal call
    next,            \* i of the loop that fills tasks
    tasks,           \* the tasks array on the stack of each caller
    queue, offset,   \* Queue<TransferTask *>; an entry names whose tasks
    held,            \* the pointer a worker popped
    TransferSignal,
    bounce,          \* SendPoolAddr of each TaskID
    posted,          \* work requests posted on QP TaskID + 1
    cq,              \* completions in the completion queue
    broken,          \* queue pairs in the error state
    unposted,        \* calls of ibv_post_send that failed
    user, remote,    \* the memory of each caller
    calls,           \* number of calls made
    shared           \* history: the latest call overlaps with others, see Apart

stackVars == <<next, tasks>>
queueVars == <<queue, offset, held>>
nicVars == <<posted, cq, broken, unposted>>
memVars == <<bounce, user, remote>>
useVars == <<calls, shared>>
vars == <<pc, job, done, stackVars, queueVars, TransferSignal,
          nicVars, memVars, useVars>>

NoTask == [write |-> FALSE, owner |-> CHOOSE c \in Callers : TRUE,
           base |-> 0, size |-> 0]

Init ==
    /\ pc = [t \in Threads |-> "idle"]
    /\ job = [t \in Threads |-> NoTask]
    /\ done = [t \in Threads |-> 0]
    /\ next = [c \in Callers |-> 0]
    /\ tasks = [c \in Callers |-> [w \in Workers |-> NoTask]]
    /\ queue = [w \in Workers |-> <<>>]
    /\ offset = [w \in Workers |-> 0]
    /\ held = [w \in Workers |-> NoTask.owner]
    /\ TransferSignal = 0
    /\ bounce = [w \in Workers |-> [k \in Cell |-> <<>>]]
    /\ posted = [w \in Workers |-> <<>>]
    /\ cq = 0 /\ broken = {} /\ unposted = 0
    /\ user = [c \in Callers |-> [k \in Cell |-> <<>>]]
    /\ remote = [c \in Callers |-> [k \in Cell |-> <<0, k>>]]
    /\ calls = 0 /\ shared = FALSE

At(t, l) == pc[t] = l
Goto(t, l) == pc' = [pc EXCEPT ![t] = l]

-----------------------------------------------------------------------------
(***************************************************************************)
(* RemoteRead and RemoteWrite.                                             *)
(***************************************************************************)

\* A caller with fresh data to write, or an empty buffer to read into.
UserBuffer(write) == [k \in Cell |-> IF write THEN <<calls + 1, k>> ELSE <<>>]

\* No call is under way, and what the workers have left to do is none of an
\* earlier overlap's.
Apart == /\ \A c \in Callers : At(c, "idle")
         /\ shared => \A w \in Workers :
                          At(w, "idle") /\ queue[w] = <<>> /\ offset[w] = 0

\* Nothing keeps the threads of a program apart: no lock guards a RdmaSocket.
Enter == /\ calls < MaxCalls
         /\ calls' = calls + 1
         /\ shared' = ~ Apart

Whole(c, r) == [write |-> r.write, owner |-> c, base |-> 0, size |-> r.size]

CallSmall(c, r) ==
    /\ At(c, "idle") /\ Enter
    /\ r.size < Threshold
    /\ Goto(c, "loop")
    /\ job' = [job EXCEPT ![c] = Whole(c, r)]
    /\ done' = [done EXCEPT ![c] = 0]
    /\ user' = [user EXCEPT ![c] = UserBuffer(r.write)]
    /\ UNCHANGED <<stackVars, queueVars, TransferSignal, nicVars, bounce, remote>>

\* Mutant of CallLarge: TransferSignal keeps what earlier calls left in it.
CallLargeNoReset(c, r) ==
    /\ At(c, "idle") /\ Enter
    /\ r.size >= Threshold
    /\ Goto(c, "push")
    /\ next' = [next EXCEPT ![c] = 0]
    /\ job' = [job EXCEPT ![c] = Whole(c, r)]
    /\ user' = [user EXCEPT ![c] = UserBuffer(r.write)]
    /\ UNCHANGED <<done, tasks, queueVars, TransferSignal, nicVars, bounce, remote>>

\* TransferSignal = 0 before the first task is handed over.
CallLarge(c, r) ==
    /\ At(c, "idle") /\ Enter
    /\ r.size >= Threshold
    /\ Goto(c, "push")
    /\ TransferSignal' = 0
    /\ next' = [next EXCEPT ![c] = 0]
    /\ job' = [job EXCEPT ![c] = Whole(c, r)]
    /\ user' = [user EXCEPT ![c] = UserBuffer(r.write)]
    /\ UNCHANGED <<done, tasks, queueVars, nicVars, bounce, remote>>

ShipSize(size) == ((size \div WORKER_NUMBER) \div Page) * Page

PartSize(i, size) == IF i < 3 THEN ShipSize(size) ELSE size - 3 * ShipSize(size)

Part(i, whole) == [whole EXCEPT !.base = i * ShipSize(whole.size),
                                !.size = PartSize(i, whole.size)]

\* PushPolling: the vector first, the counter the worker polls second.
PushBack(c) ==
    LET i == next[c] IN
    /\ At(c, "push")
    /\ tasks' = [tasks EXCEPT ![c][i] = Part(i, job[c])]
    /\ queue' = [queue EXCEPT ![i] = Append(@, c)]
    /\ Goto(c, "add")
    /\ UNCHANGED <<job, done, next, offset, held, TransferSignal, nicVars,
                   memVars, useVars>>

AddOffset(c) ==
    LET i == next[c] IN
    /\ At(c, "add")
    /\ offset' = [offset EXCEPT ![i] = (@ + 1) % OffsetWrap]
    /\ next' = [next EXCEPT ![c] = i + 1]
    /\ Goto(c, IF i + 1 < WORKER_NUMBER THEN "push" ELSE "wait")
    /\ UNCHANGED <<job, done, tasks, queue, held, TransferSignal, nicVars,
                   memVars, useVars>>

\* Mutant of ReturnLarge: the first worker to finish ends the call.
ReturnEarly(c) ==
    /\ At(c, "wait") /\ TransferSignal > 0
    /\ Goto(c, "idle")
    /\ UNCHANGED <<job, done, stackVars, queueVars, TransferSignal, nicVars,
                   memVars, useVars>>

ReturnLarge(c) ==
    /\ At(c, "wait") /\ TransferSignal = WORKER_NUMBER
    /\ Goto(c, "idle")
    /\ UNCHANGED <<job, done, stackVars, queueVars, TransferSignal, nicVars,
                   memVars, useVars>>

-----------------------------------------------------------------------------
(***************************************************************************)
(* DataTransferWorker: PopPolling, then the task it points to.             *)
(***************************************************************************)
TakeFront(w) ==
    /\ At(w, "idle") /\ offset[w] # 0
    /\ held' = [held EXCEPT ![w] = Head(queue[w])]
    /\ queue' = [queue EXCEPT ![w] = Tail(@)]
    /\ Goto(w, "sub")
    /\ UNCHANGED <<job, done, stackVars, offset, TransferSignal, nicVars,
                   memVars, useVars>>

SubOffset(w) ==
    /\ At(w, "sub")
    /\ offset' = [offset EXCEPT ![w] = (@ + OffsetWrap - 1) % OffsetWrap]
    /\ job' = [job EXCEPT ![w] = tasks[held[w]][w]]
    /\ done' = [done EXCEPT ![w] = 0]
    /\ Goto(w, "loop")
    /\ UNCHANGED <<stackVars, queue, held, TransferSignal, nicVars, memVars, useVars>>

-----------------------------------------------------------------------------
(***************************************************************************)
(* InboundHamal and OutboundHamal, run by a worker on its own TaskID and   *)
(* by the caller of a small transfer on TaskID 0.                          *)
(***************************************************************************)
TaskID(t) == IF t \in Callers THEN 0 ELSE t

SendSize(t) == Min({SendPoolSize, job[t].size - done[t]})

More(t) == done[t] < job[t].size

\* memcpy of the cells from[f ..] over the cells to[g ..].
Copied(to, g, from, f, len) ==
    [k \in Cell |-> IF k \in g .. (g + len - 1) THEN from[k - g + f] ELSE to[k]]

CopyIn(t) ==
    /\ At(t, "loop") /\ job[t].write /\ More(t)
    /\ bounce' = [bounce EXCEPT ![TaskID(t)] =
           Copied(@, 0, user[job[t].owner], job[t].base + done[t], SendSize(t))]
    /\ Goto(t, "post")
    /\ UNCHANGED <<job, done, stackVars, queueVars, TransferSignal, nicVars,
                   user, remote, useVars>>

MayPost(t) == IF job[t].write THEN At(t, "post") ELSE At(t, "loop") /\ More(t)

\* RdmaRead, or RdmaWrite once the bounce buffer is filled.
Post(t) ==
    /\ MayPost(t)
    /\ posted' = [posted EXCEPT ![TaskID(t)] = Append(@,
           [write |-> job[t].write, owner |-> job[t].owner,
            at |-> job[t].base + done[t], len |-> SendSize(t)])]
    /\ Goto(t, "poll")
    /\ UNCHANGED <<job, done, stackVars, queueVars, TransferSignal, cq, broken,
                   unposted, memVars, useVars>>

\* ibv_post_send fails and the function answers false.  The Hamals do not
\* look at the answer and poll for a completion that nothing will bring.
PostFails(t) ==
    /\ MayPost(t)
    /\ Cardinality(broken) + unposted < MaxFaults
    /\ unposted' = unposted + 1
    /\ Goto(t, "poll")
    /\ UNCHANGED <<job, done, stackVars, queueVars, TransferSignal, posted, cq,
                   broken, memVars, useVars>>

\* What follows PollCompletion in OutboundHamal and in InboundHamal.
Polled(t) ==
    /\ IF job[t].write
       THEN /\ done' = [done EXCEPT ![t] = @ + SendSize(t)]
            /\ Goto(t, "loop")
       ELSE Goto(t, "copy") /\ UNCHANGED done
    /\ UNCHANGED <<job, stackVars, queueVars, TransferSignal, posted, broken,
                   unposted, memVars, useVars>>

\* Mutant of Poll: ibv_poll_cq is asked once, without the loop.
PollOnce(t) ==
    /\ At(t, "poll")
    /\ cq' = IF cq > 0 THEN cq - 1 ELSE cq
    /\ Polled(t)

\* Mutant of Poll: ibv_poll_cq is asked for as many entries as there are.
PollAll(t) ==
    /\ At(t, "poll") /\ cq > 0
    /\ cq' = 0
    /\ Polled(t)

\* PollCompletion takes any one completion, whatever queue pair it is from,
\* and the Hamals ignore its status.
Poll(t) ==
    /\ At(t, "poll") /\ cq > 0
    /\ cq' = cq - 1
    /\ Polled(t)

CopyOut(t) ==
    /\ At(t, "copy")
    /\ user' = [user EXCEPT ![job[t].owner] =
           Copied(@, job[t].base + done[t], bounce[TaskID(t)], 0, SendSize(t))]
    /\ done' = [done EXCEPT ![t] = @ + SendSize(t)]
    /\ Goto(t, "loop")
    /\ UNCHANGED <<job, stackVars, queueVars, TransferSignal, nicVars, bounce,
                   remote, useVars>>

\* Mutant of Finish: InboundHamal returns without the increment.
FinishSilently(t) ==
    /\ At(t, "loop") /\ ~ More(t)
    /\ TransferSignal' = IF job[t].write THEN (TransferSignal + 1) % SignalWrap
                         ELSE TransferSignal
    /\ Goto(t, "idle")
    /\ UNCHANGED <<job, done, stackVars, queueVars, nicVars, memVars, useVars>>

\* __sync_fetch_and_add(&TransferSignal, 1); a small call returns here.
Finish(t) ==
    /\ At(t, "loop") /\ ~ More(t)
    /\ TransferSignal' = (TransferSignal + 1) % SignalWrap
    /\ Goto(t, "idle")
    /\ UNCHANGED <<job, done, stackVars, queueVars, nicVars, memVars, useVars>>

-----------------------------------------------------------------------------
(***************************************************************************)
(* The network card carries out the requests of a queue pair in order.  A  *)
(* request that fails puts its queue pair in the error state, where every  *)
(* later request is completed with an error.                               *)
(***************************************************************************)
Carried(s) ==
    LET wr == Head(posted[s]) IN
    IF wr.write
    THEN /\ remote' = [remote EXCEPT ![wr.owner] =
                Copied(@, wr.at, bounce[s], 0, wr.len)]
         /\ UNCHANGED bounce
    ELSE /\ bounce' = [bounce EXCEPT ![s] =
                Copied(@, 0, remote[wr.owner], wr.at, wr.len)]
         /\ UNCHANGED remote

Complete(s) ==
    /\ posted[s] # <<>>
    /\ posted' = [posted EXCEPT ![s] = Tail(@)]
    /\ cq' = cq + 1

NicDone(s) ==
    /\ s \notin broken
    /\ Complete(s) /\ Carried(s)
    /\ UNCHANGED <<pc, job, done, stackVars, queueVars, TransferSignal, broken,
                   unposted, user, useVars>>

NicFail(s) ==
    /\ s \in broken \/ Cardinality(broken) + unposted < MaxFaults
    /\ Complete(s)
    /\ broken' = broken \cup {s}
    /\ UNCHANGED <<pc, job, done, stackVars, queueVars, TransferSignal, unposted,
                   memVars, useVars>>

-----------------------------------------------------------------------------
Call(c) == \E r \in Requests : CallSmall(c, r) \/ CallLarge(c, r)

CallerStep(c) == PushBack(c) \/ AddOffset(c) \/ ReturnLarge(c)

WorkerStep(w) == TakeFront(w) \/ SubOffset(w)

HamalStep(t) ==
    CopyIn(t) \/ Post(t) \/ PostFails(t) \/ Poll(t) \/ CopyOut(t) \/ Finish(t)

NicStep(s) == NicDone(s) \/ NicFail(s)

Next == \/ \E c \in Callers : Call(c) \/ CallerStep(c)
        \/ \E w \in Workers : WorkerStep(w) \/ NicStep(w)
        \/ \E t \in Threads : HamalStep(t)

Spec == Init /\ [][Next]_vars

\* Threads are scheduled and the card makes progress; nobody has to call.
Fairness == /\ \A c \in Callers : WF_vars(CallerStep(c))
            /\ \A w \in Workers : WF_vars(WorkerStep(w)) /\ WF_vars(NicStep(w))
            /\ \A t \in Threads : WF_vars(HamalStep(t))

FairSpec == Spec /\ Fairness

-----------------------------------------------------------------------------
\* Every variable holds a value of the type the class declares for it.
TypeOK ==
    /\ pc \in [Threads -> {"idle", "push", "add", "wait", "sub", "loop",
                           "post", "poll", "copy"}]
    /\ job \in [Threads -> TransferTask]
    /\ done \in [Threads -> 0 .. Cells]
    /\ next \in [Callers -> 0 .. WORKER_NUMBER]
    /\ tasks \in [Callers -> [Workers -> TransferTask]]
    /\ queue \in [Workers -> Seq(Callers)]
    /\ offset \in [Workers -> 0 .. OffsetWrap - 1]
    /\ held \in [Workers -> Callers]
    /\ TransferSignal \in 0 .. SignalWrap - 1
    /\ posted \in [Workers -> Seq(WorkRequest)]
    /\ cq \in Nat /\ broken \subseteq Workers /\ unposted \in Nat
    /\ bounce \in [Workers -> [Cell -> Value]]
    /\ {user, remote} \subseteq [Callers -> [Cell -> Value]]
    /\ calls \in 0 .. MaxCalls /\ shared \in BOOLEAN

InLargeCall(c) == pc[c] \in {"push", "add", "wait"}

Outstanding == UNION {{s} \X (1 .. Len(posted[s])) : s \in Workers}

\* There is one completion, waiting or still to come, for every thread in
\* PollCompletion whose request was posted, however many threads share the
\* socket: a thread that takes another's completion leaves its own for the
\* other, and none is left over for a later transfer to find.  A post that
\* fails is what leaves one poller too many, for good.
CompletionBalance ==
    cq + Cardinality(Outstanding) + unposted
        = Cardinality({t \in Threads : At(t, "poll")})

\* A worker touches the tasks array of a caller only while that caller is
\* inside the large call whose stack frame holds it, and what it works on is
\* what that call put there; unless calls overlap, which TransferSignal, one
\* for the whole socket, is not made for.
TasksPinned ==
    ~ shared => \A w \in Workers :
        /\ \A i \in 1 .. Len(queue[w]) : InLargeCall(queue[w][i])
        /\ At(w, "sub") => InLargeCall(held[w])
        /\ pc[w] \notin {"idle", "sub"} =>
               InLargeCall(job[w].owner) /\ job[w] = tasks[job[w].owner][w]

\* PushPolling and PopPolling change the same vector without a lock: while
\* one is between its two steps the other does not touch the vector, unless
\* calls overlap.
QueueHandoff ==
    ~ shared => \A c \in Callers :
        /\ At(c, "push") => /\ At(next[c], "idle")
                            /\ queue[next[c]] = <<>> /\ offset[next[c]] = 0
        /\ At(c, "add") => At(next[c], "idle") /\ offset[next[c]] = 0

\* Cells that both ends of a transfer agree on.
Moved(c, from, upto) == \A k \in from .. (upto - 1) : user[c][k] = remote[c][k]

\* What a small transfer has counted as sent is at its destination, so that
\* it returns with all of its data moved, whatever calls went before it, on
\* this thread or another; unless its queue pair broke or it overlaps with
\* another call, which uses the same bounce buffer.
SmallTransferMoved ==
    \A c \in Callers : pc[c] \in {"loop", "post"} /\ broken = {} /\ ~ shared =>
        Moved(c, job[c].base, job[c].base + done[c])

\* "Used to notify compeletion of data transfer" (RdmaSocket.hpp:98): when
\* TransferSignal lets a large call return, its data is at its destination.
LargeTransferMoved ==
    \A c \in Callers :
        At(c, "wait") /\ TransferSignal = WORKER_NUMBER /\ broken = {} =>
            Moved(c, 0, job[c].size)

\* Every RemoteRead and RemoteWrite returns, a broken queue pair included,
\* and small ones also when they overlap: polls that take each other's
\* completions come out even.  Two things make calls wait for ever: a failed
\* ibv_post_send, and an overlap with a large call, when other threads count
\* TransferSignal past the value that the large call waits for.
TransfersReturn ==
    \A c \in Callers : ~ At(c, "idle") ~>
        \/ At(c, "idle") \/ unposted > 0
        \/ shared /\ \E d \in Callers : InLargeCall(d)
=============================================================================
