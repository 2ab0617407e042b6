----------------------------- MODULE BatchPost ------------------------------
(***************************************************************************)
(* The batch verbs of a client's RdmaSocket (src/net/RdmaSocket.cpp,       *)
(* _RdmaBatchSend, _RdmaBatchRead, _RdmaBatchWrite): a list of work        *)
(* requests is built and posted at once.  Every SignalPeriod-th request of *)
(* a peer asks for a completion; before the next such one is added to a    *)
(* list, one completion is polled.  All peers share the client's           *)
(* completion queue, and one thread posts.                                 *)
(***************************************************************************)
EXTENDS Naturals, Sequences, FiniteSets

CONSTANTS Peers,
          SignalPeriod,     \* SIGNAL_BATCH + 1 = 32
          MAX_POST_LIST,    \* 24
          QPS_MAX_DEPTH,    \* 128, requests a send queue can hold
          MaxPosts,         \* bound on the requests of a peer
          MaxLost,          \* bound on the completions that are lost
          Idle              \* no batch verb is running

ASSUME BatchAssumption ==
    /\ {SignalPeriod, MAX_POST_LIST, QPS_MAX_DEPTH, MaxPosts} \subseteq Nat \ {0}
    /\ MaxLost \in Nat
    /\ MAX_POST_LIST < SignalPeriod
    /\ IsFiniteSet(Peers)
    /\ (Cardinality(Peers) + 1) * SignalPeriod <= QPS_MAX_DEPTH

VARIABLES
    counter,    \* peer->counter
    handed,     \* requests given to ibv_post_send
    lost,       \* of those, the signalled ones it did not post
    executed,   \* requests the device has carried out
    freed,      \* requests whose place in the send queue is free again
    cqes,       \* completions: the peer and the number of the request
    list        \* the list being built: its peer and the requests to add

batchVars == <<counter, handed, lost, executed, freed, cqes, list>>

BatchInit == /\ counter = [p \in Peers |-> 0]
             /\ handed = [p \in Peers |-> 0]
             /\ lost = [p \in Peers |-> {}]
             /\ executed = [p \in Peers |-> 0]
             /\ freed = [p \in Peers |-> 0]
             /\ cqes = <<>> /\ list = Idle

(* Mutant of Signalled: no request asks for a completion. *)
SignalledNever(n) == FALSE

(* (counter & SIGNAL_BATCH) == 0 *)
Signalled(n) == n % SignalPeriod = 0

Batch(p, size) ==
    /\ list = Idle /\ counter[p] + size <= MaxPosts
    /\ list' = [to |-> p, left |-> size, polled |-> FALSE]
    /\ UNCHANGED <<counter, handed, lost, executed, freed, cqes>>

MustPoll == counter[list.to] % SignalPeriod = 0 /\ counter[list.to] > 0 /\ ~ list.polled

(* PollCompletion takes the oldest completion, whoever it belongs to; the  *)
(* device's driver then frees every place up to that request.              *)
PollBatch ==
    LET e == Head(cqes) IN
    /\ list # Idle /\ list.left > 0 /\ MustPoll /\ cqes # <<>>
    /\ cqes' = Tail(cqes)
    /\ freed' = [freed EXCEPT ![e.peer] = e.number + 1]
    /\ list' = [list EXCEPT !.polled = TRUE]
    /\ UNCHANGED <<counter, handed, lost, executed>>

(* Mutant of AddRequest: nothing is polled. *)
AddUnpolled ==
    /\ list # Idle /\ list.left > 0
    /\ counter' = [counter EXCEPT ![list.to] = @ + 1]
    /\ list' = [list EXCEPT !.left = @ - 1, !.polled = FALSE]
    /\ UNCHANGED <<handed, lost, executed, freed, cqes>>

AddRequest ==
    /\ list # Idle /\ list.left > 0 /\ ~ MustPoll
    /\ counter' = [counter EXCEPT ![list.to] = @ + 1]
    /\ list' = [list EXCEPT !.left = @ - 1, !.polled = FALSE]
    /\ UNCHANGED <<handed, lost, executed, freed, cqes>>

(* ibv_post_send of the whole list *)
PostList ==
    /\ list # Idle /\ list.left = 0
    /\ handed' = [handed EXCEPT ![list.to] = counter[list.to]]
    /\ list' = Idle
    /\ UNCHANGED <<counter, lost, executed, freed, cqes>>

(* ibv_post_send refuses the list from some request on; counter has been   *)
(* advanced for all of them.  Whether a request without completion was     *)
(* posted makes no difference to the polls.                                *)
PostListFails ==
    LET p == list.to IN
    /\ list # Idle /\ list.left = 0
    /\ \E k \in handed[p] .. counter[p] - 1 :
          lost' = [lost EXCEPT ![p] = @ \cup {n \in k .. counter[p] - 1 : Signalled(n)}]
    /\ Cardinality(UNION {{q} \X lost'[q] : q \in Peers}) <= MaxLost
    /\ handed' = [handed EXCEPT ![p] = counter[p]]
    /\ list' = Idle
    /\ UNCHANGED <<counter, executed, freed, cqes>>

(* The device carries out the next request of p, or passes over one that   *)
(* was not posted.                                                         *)
Execute(p) ==
    /\ executed[p] < handed[p]
    /\ executed' = [executed EXCEPT ![p] = @ + 1]
    /\ cqes' = IF Signalled(executed[p]) /\ executed[p] \notin lost[p]
               THEN Append(cqes, [peer |-> p, number |-> executed[p]]) ELSE cqes
    /\ UNCHANGED <<counter, handed, lost, freed, list>>

BatchStep == PollBatch \/ AddRequest \/ PostList \/ PostListFails

BatchNext == \/ \E p \in Peers : Execute(p) \/ \E n \in 1 .. MAX_POST_LIST : Batch(p, n)
             \/ BatchStep

BatchSpec == BatchInit /\ [][BatchNext]_batchVars

BatchFairness == /\ WF_batchVars(BatchStep)
                 /\ \A p \in Peers : WF_batchVars(Execute(p))

-----------------------------------------------------------------------------
(***************************************************************************)
(* A list always fits into the send queue, although the places of requests *)
(* without completion are free again only after a later completion has     *)
(* been polled, a poll may take the completion of another peer, and lists  *)
(* may fail.  With the numbers of RdmaSocket.hpp this is so for up to      *)
(* three servers.                                                          *)
(***************************************************************************)
ListFits ==
    list # Idle /\ list.left = 0 =>
        counter[list.to] - freed[list.to] <= QPS_MAX_DEPTH

(***************************************************************************)
(* Every batch verb returns: the completion it polls for is never that of  *)
(* a request in the list it has not posted yet.  Only a signalled request  *)
(* that ibv_post_send did not take leaves a later poll without completion. *)
(***************************************************************************)
BatchesReturn ==
    list # Idle ~> list = Idle \/ \E p \in Peers : lost[p] # {}
=============================================================================
