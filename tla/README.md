# SpongeBob in TLA+

SpongeBob is a small distributed file system. A metadata server keeps the names,
inodes and block lists; storage servers lend their memory; clients ask the
metadata server by gRPC where the bytes of a file are and then move them
themselves by one-sided RDMA. This directory models the parts of it that keep
state, checks them with TLC on small instances and proves nearly all of the
safety results with TLAPS for instances of any size. Line numbers refer to the repository.

## 1. Inventory

| Part | State | Operations | Used by |
|---|---|---|---|
| `FileMap` (src/fs/file.cpp) | heap of free descriptors, set of used ones; a mutex | AllocateFD, ReclaimFD | OpenFile, CloseFile |
| `InodeTable` (src/fs/file.cpp) | map from number to `shared_ptr<Inode>`, heap of free numbers, count; a mutex | AllocateFreeInode, DeleteInode, GetInode | all handlers |
| `Inode`, `Dentry` (src/fs/file.cpp) | children of the root directory; block list and size of a file; **no lock** | AddDentry, DeleteDentry, GetDentry, AppendFileBlockInfo, SetSize | all handlers |
| `SpaceManager` (src/fs/spacemanager.cpp), one per storage server | heap of free blocks, set and count of used ones; a mutex | constructor, AllocateOneBlock, AllocateSpace, ReclaimSpace, ReclaimInodeSpace, ResetSpaceRange | WriteFile, RemoveFile, RegisterMemoryRegion |
| `MetadataServiceImpl` (src/metadata/MetaServer.cpp) | the above and the map of SpaceManagers, **without a lock** | ReadFile, WriteFile, CreateFile, OpenFile, CloseFile, RemoveFile, ReadDirectory, RegisterMemoryRegion | MetadataClient by gRPC, one thread per call |
| `MetadataClient`, `Client` (src/client/Client.cpp) | the answers a client holds, its buffers | read, write, create | FUSE and MPI programs |
| FUSE file system (src/fuse/spfuse.cpp) | the `fh` of the kernel's open files | open, create, release, read, write, readdir, mkdir, rmdir, unlink | the kernel |
| `RdmaSocket`, data path (src/net/RdmaSocket.cpp, include/queue.h) | bounce buffers, completion queue, task queues, `TransferSignal` | RemoteRead, RemoteWrite, DataTransferWorker, InboundHamal, OutboundHamal, PollCompletion | Client |
| `RdmaSocket`, batch verbs | `counter` of each peer, places in the send queues | _RdmaBatchSend, _RdmaBatchRead, _RdmaBatchWrite | nobody at this commit |
| `RdmaSocket`, verbs objects | device, completion queues, protection domain, memory region, queue pairs; members that nothing initialises | CreateResources, CreateQueuePair, ModifyQPto*, ResourcesDestroy | constructor, ConnectQueuePair, destructor |
| `RdmaSocket`, connections | `MyNodeID`, `MaxNodeID`, `peers`, TCP connections | RdmaListen, RdmaAccept, RdmaConnect, ConnectQueuePair, DataSyncwithSocket | Client, StorageServer |
| `StorageServer`, `Pool` | the mapped device | constructor: listen, then register once | - |
| tests, configuration, debug | none of their own | - | - |

How they interact. A client thread calls a stub; gRPC runs the handler in a
thread of its own; handlers share the maps above. The answer to a read or a
write is a list of block infos that the client uses after the handler has
returned, without the metadata server's knowledge. A storage server registers
its memory when it starts; the metadata server keeps nothing on disk. A client
connects to node 1, which gives it a node id, and then to the other servers.

What is hard: handlers interleave at every access to the directory, the inodes
and the map of SpaceManagers; an inode may be removed while another handler
holds its pointer; block infos may outlive the file; processes crash and start
again with empty tables; tables and free lists run out; a request may be cut
anywhere within a block; threads share one completion queue and one bounce
buffer; posts fail and are polled for; a caller's stack is read by workers; a
timeout races an answer.
PROJECT.json lists these hazards one by one with the property that covers each.

What makes the parts correct:

* the allocators: an identifier is in one place, and is not given out twice;
* request planning: every byte once, at the right place, in a block the file has;
* the metadata service: a block belongs to one file, none is lost, an inode is
  reachable, a dentry leads to an inode, sizes are covered by blocks, every
  request ends;
* the data path: a call returns when, and only when, its data is moved, and
  nobody uses its stack afterwards;
* connections: node ids identify clients, both sides agree, all get through;
* verbs objects: a peer that others can see is complete, and what was made is
  released in an order the library accepts;
* clients, servers and storage memory together: a file is a sequence of bytes, a
  write changes its bytes and no others, a read returns what the file holds;
* FUSE: a descriptor belongs to one open file, and comes back when that is
  released.

## 2. Modules

| Module | Models | Remarks |
|---|---|---|
| `FreeHeap` | `std::priority_queue` with `std::greater` | a function from identifiers to multiplicities, so that an identifier pushed twice is there twice |
| `IdPool` | - | abstract allocator: what FileMap and InodeTable promise |
| `FileMap`, `InodeTable` | the classes | one action per operation, each under its mutex |
| `BlockPlan` | the three-part split of a request in ReadFile and WriteFile, and `total_blocks` | operators |
| `BlockPlanCheck` | - | BlockPlan against a byte-by-byte definition |
| `SpaceManager` | the class, one pool per storage server | operators that constrain `pool'`; arithmetic modulo `Word` |
| `SpaceClient` | - | SpaceManager alone under well-behaved callers |
| `MetaServer` | MetadataServiceImpl, Inode, Dentry, the calls of clients, registration, crash and restart | composes FileMap, InodeTable, SpaceManager and BlockPlan |
| `MCMetaServer` | - | requests, regions, constraints and symmetry for TLC |
| `FileStore` | - | abstract file system: what the whole promises |
| `SpongeClient`, `MCSpongeClient` | Client and the stubs, and the memory of the storage servers | extends MetaServer; refines FileStore |
| `SpongeFuse`, `MCSpongeFuse` | the FUSE operations and the kernel's open files | extends MetaServer |
| `RdmaTransfer`, `MCRdmaTransfer` | the data path and an RDMA card | |
| `BatchPost` | the batch verbs of a client | |
| `RdmaResources` | the verbs objects of one RdmaSocket | every call may fail |
| `RdmaConnect` | connections between clients and storage servers | |
| `Components` | - | FileMap, InodeTable, SpaceClient, BlockPlanCheck, RdmaResources, RdmaTransfer and BatchPost, one of them in each behaviour, for TLC |
| `IdTableProofs`, `BlockPlanProofs`, `ComponentProofs` | - | theorems about the allocators and request planning; the last also about the types of all parts in `Components` |
| `MetaServerProofs`, `MetaServerNamesProofs` | - | theorems about the metadata service for every overlap, and under the callers' exclusion; the latter also about FUSE |
| `SpongeClientProofs` | - | the refinement of FileStore, and what reads return |
| `RdmaProofs`, `RdmaConnectProofs` | - | theorems about one RdmaSocket (verbs objects, transfers, batches), and about connections |

### MetaServer

A member of `Call` is a client thread with at most one request. Its `pc` is the
place in its handler, or `"transfer"` while the client uses the block infos.
A handler is cut into steps at its accesses to shared state: the lookup of the
dentry, the allocation of an inode, AddDentry, GetInode, the count of blocks,
the two halves of a round of the allocation loop, the answer with SetSize,
DeleteDentry, each ReclaimInodeSpace, DeleteInode. What a mutex protects is one
step. AllocateOneBlock lets go of its mutex before AppendFileBlockInfo is called
(MetaServer.cpp:181-182): between `TakeBlock` and `AppendBlock` the block is in
use and in no list, in the `hand` of its handler. ReadFile asks for the size
twice, hence `ReadTest` and `ReadClamp`. The building of an answer is one step:
block lists only grow while somebody holds the inode.

`NewBlocks` converts the number of missing blocks to an `int`, as line 166 does:
`IntLimit` stands for 2^31. From there on the number is negative or cut short,
the loop allocates too few blocks and the answer indexes beyond the list, which
is a `Crash` in the model. `CountFits` says of a request that its blocks can be
counted, and `EmptyRequestsFit` that of requests without bytes: an empty write
far out would set the size without touching the list. The sum of offset and
length is taken to stay below 2^64 - 2^20; FUSE passes a signed 64-bit offset.

An inode object is a member of `Obj`, so that a handler that holds the
`shared_ptr` of a deleted inode is told from one that looked the number up
again; an object without references is blank and may be used for a new inode.

`Crash` is the end of the process: everything the server had is gone and
clients that have their block infos carry on. It follows a read through
`nullptr`, a failed assertion, `rand() % 0`, or comes from outside (`Kill`).

`AllocateOneBlock` on an empty heap is undefined behaviour. With the library the
build uses, the vector's memory still holds numbers and its end moves before its
beginning; the model lets the caller get any block of the pool and marks the
pool `wild`, after which anything it gives is arbitrary. A pool that never held
a block has no memory: `NullHeap`, a crash.

The server orders nothing, so `Exclusion` says what its callers do not overlap:

* `"none"`: everything overlaps;
* `"names"`: a removal overlaps neither a request on the same name nor a
  listing, and two requests on one name overlap only once the file exists (this
  is how a FUSE mount of one process or an MPI job with one file per rank uses
  the server); requests on different names overlap freely;
* `"files"`: as `"names"`, and nobody writes a file that another request uses;
* `"calls"`: one request at a time.

`SizeCovered`, `WriteStaysInList` (of requests that fit) and `CallsReturn` are
checked under `"none"`.
The properties about blocks and inodes need `"names"`: two creations of one name
at once leave an inode without a dentry, two removals at once return its blocks
twice, and a writer that holds a removed inode appends blocks nobody returns.
The hazards in PROJECT.json say so at their lines.

`stale` is a history variable: the storage servers that registered anew while
blocks of their previous region were still in a list or in a call's hand, also
that of a writer between AllocateOneBlock and AppendFileBlockInfo. The properties about blocks
speak of `Reliable` pools, neither `stale` nor `wild`.

### SpongeClient and FileStore

`mem` has the bytes of every block of every storage server, `todo` the pieces of
an answer that a client has not moved yet and `buf` its buffer. The answer of
ReadFile or WriteFile is the plan of the request (`BlockPlan`) with the addresses
of the blocks; then one piece is moved at a time, to or from the *beginning* of
the buffer, as Client.cpp does. The storage memory outlives every process, so
that a block given to another file has the old bytes in it.

A piece is at most a block, 1 MB, which is also the size of a bounce buffer and
below the 4 MB from which RemoteRead and RemoteWrite use workers: it is one
round of a Hamal loop, run by the calling thread on TaskID 0. `leg` is where the
thread is in it: `CopyIn` into `bounce`, `Post` on the queue pair to the piece's
server (or `PostFails`, with the result ignored), `Poll`, `CopyOut`. The card
carries out what is posted (`Carry`) or fails, with its queue pair (`CarryFails`,
`broken`); a poll takes any completion of the socket, of any status. A `Socket` is the
RdmaSocket of a Client, and `SocketOf` says which Client a thread uses. The
threads of a FUSE mount all use one: fuse_main (spfuse.cpp:237) runs its
operations in several threads, and neither Client nor RdmaSocket has a lock. The
steps of two such threads interleave freely in the model, as in the program,
and they then mix their data. What is claimed of files is therefore claimed of
behaviours with `SocketsApart`: no two threads of one Client are in RemoteRead or
RemoteWrite together. Nothing in the code ensures it; MPI programs with one
thread per process and FUSE with `-s` do. With one socket for both calls and
`SocketsApart` taken out of the constraint of `client_store`, TLC finds
StoreSpec violated: a thread's copy replaces in the bounce buffer what another
has posted and the card has not yet sent.

`FileStore` is what is left when blocks, servers and handlers are forgotten. A
file is a sequence of bytes. A write has two steps, since the server sets the
size when it answers and the bytes come later: in between they are `Torn`. It
also says what the code does and a reader might not expect: a write ends the
file at its last byte (MetaServer.cpp:219), bytes between the old end and the
write are whatever was in the blocks, and the end of the metadata server loses
every file. `StoreSpec` is the refinement, with the mapping `Contents`.

It holds for requests within one block (`OneBlockRequests`: no answer to a
request, given where files can end, reaches into a second block; TLC evaluates
that the requests of `client_store` are such, BlockRequestsFit). These are what
the documented FUSE tests make, each by itself: with `-o direct_io` and fio's `--bs=128k` every request lies in one
block of 1 MB. The run `client_pieces` shows that requests over two blocks do not
read back.

### SpongeFuse

The kernel's open files are `Handle`; `fh` is `fi->fh`. open and create send
OpenFile, release sends CloseFile with `fi->fh`, the other operations only a
path. The stubs do not look at the status of a call: OpenFile of a server that
is down or dies answers 0, which fuse_open takes for a descriptor (`FuseDown`,
`OpenAnswer`); with -1, a full table, it returns `-errno`, and if errno is 0 the
file is open all the same. `fresh` and `strayed` are history variables: which
open files have a descriptor of the server that runs now, and whether one of an
earlier server has closed a descriptor of this one, which the code cannot prevent.
mkdir always reports a failure, as CreateDiretory returns 0, after it has made
the directory.

### RdmaResources

One thread goes through CreateResources, the connections and ResourcesDestroy.
`garbage` says whether the memory under `pd`, `ctx`, `mr` and `peers`, which the
constructor does not initialise, was zero; where the code then follows one of
these pointers the process ends (`"crashed"`). CreateQueuePair reads through the
new queue pair before it tests it, so its failure ends the process as well.

### BatchPost

`Signalled` is `(counter & SIGNAL_BATCH) == 0`, with a period of 3 for 32. The
card carries out the requests of a queue pair in order; the places of requests
without completion are free again when a later completion of the same queue pair
is polled. ListFits needs (peers + 1) * period - 1 places, and TLC finds a list
that does not fit when there is one less; 128 places are enough for three servers
(conf.xml has two). `PostListFails` is an ibv_post_send that refuses the list
from some request on, after `counter` has been advanced for all of it; `lost` has
the signalled requests among those. A later poll then has no completion to wait
for, and BatchesReturn says that nothing else keeps a batch from returning.

### RdmaTransfer

Threads are the callers and the workers; a Hamal step is the copy into the
bounce buffer, the post, the poll, the copy out. `PushPolling` and `PopPolling`
are two steps each, the vector and the counter, as the code has no lock there.
The build sets `-O0` (CMakeLists.txt:74), so the loops that poll `offset` and
`TransferSignal` read memory each time. The card carries out the requests of a
queue pair in order and adds a completion; it may break a queue pair, after
which requests complete with an error that the Hamals ignore. Memory cells hold
`<<call, cell>>`, so that old, foreign and misplaced data are told apart. One
RDMA request is one step of the card.

ibv_post_send may fail (`PostFails`, counted in `unposted`); RdmaRead and
RdmaWrite then answer false, the Hamals do not look at it (RdmaSocket.cpp:932,
1022) and PollCompletion waits for a completion that nothing brings, or takes
another thread's. CompletionBalance counts these; TransfersReturn holds until the
first one.

Any number of threads may call at once. `shared` is a history variable: the
latest call began while another was under way, or while the workers were still
busy with calls that had overlapped (`Apart`). A worker busy with a call that
overlapped with none does not set it: that no such worker is left is what
TasksPinned and QueueHandoff show. Overlapping calls spoil each
other's bounce buffer, and overlapping with a large one also `TransferSignal`, so
TasksPinned, QueueHandoff and SmallTransferMoved are about calls that overlap
with no other, whatever calls of any thread went before them; CompletionBalance
is about all, and TransfersReturn about all but overlaps with a large call.

`Client` moves at most one block (1 MB) per call, below the 4 MB from which
workers are used; the large path is there for direct users of RdmaSocket. Its
parts are `(i < 3) ? shipSize : (size - 3 * shipSize)`, written for four workers
and used with two (RdmaSocket.cpp:889, 993): when the size is not twice a number
of pages the end of the transfer belongs to no part. The model has it so; the
sizes of the runs are ones the parts make up.

### RdmaConnect

A client goes through RdmaConnect; DataSyncwithSocket writes and then reads, so
what a side writes belongs to the step that leads to the read. A Listener serves
one connection after the other. A read that meets the end of file answers 0 and
is repeated for ever, as in the code: there is no step for it. A timeout
(SO_RCVTIMEO, clients only) may come at any moment at which there is no answer.
When a server's process ends (`Stop`), a message that it had written and the
client had not read yet is taken to be lost; TCP may still deliver it. No verbs
call fails here: what then becomes of a connection is in RdmaResources.

## 3. Runs

| Run | Checks | Instance |
|---|---|---|
| `components` | descriptors, inodes, blocks: FdAccounting, InodeAccounting, NeverPopsEmptyHeap, SpaceAccounting, SpaceTestSuffices, BlocksInsideRegion, refinement of IdPool by FileMap and InodeTable | 3 descriptors and calls with numbers not in use, 3 inodes and the root, 3 blocks with an aligned and an unaligned start, lengths from 0 to 3 blocks, Word 64 |
| | request planning: PlanIsExact, PlanStaysInFile | blocks of 4 bytes, offsets to 13, lengths to 14 |
| | verbs objects: PeersUsable, ClientReleases | a client with 1 completion queue or a server with 2 or 3, 3 queue pairs per peer, 3 peers |
| | transfers: CompletionBalance, TasksPinned, QueueHandoff, SmallTransferMoved, TransfersReturn | 2 callers, 2 workers, 2 calls of 3 or 4 cells, overlapping or not, 1 broken queue pair or failed post, with fairness |
| | batches: ListFits, BatchesReturn | 2 peers, period 3, lists of up to 2, 9 places, 10 requests per peer, 1 lost completion, with fairness |
| `server_names` | NoSharedBlock, BlocksConserved, NoInodeLeak, DentriesResolve, TransfersOwnTheirBlocks | 2 names, 2 calls, 2 servers of 2 blocks |
| `server_limits` | NoInodeLeak, NoSharedBlock, BlocksConserved | 1 file inode, 1 descriptor, 2 names, 2 servers of 1 block; pools overdrawn and replaced |
| `server_race` | SizeCovered, WriteStaysInList, CallsReturn | 2 calls on one name, nothing excluded, a write beyond what an int counts, with fairness |
| `client_store` | StoreSpec (refinement of FileStore), ReadReturnsFile | 2 clients, 2 files, 1 server of 2 blocks of 2 bytes, requests within one block, `"files"`, a socket per call, kills and restarts, failed posts |
| `fuse` | DescriptorsOwned | 2 open files, 2 calls, 2 names, 1 descriptor, 1 block, kills and restarts |
| `connect` | UniqueNodeIDs, PeerAgreement, PeersKept, ConnectReturns, EveryoneJoins | 2 clients, 2 servers, timeouts, 1 client dies, server 2 comes late and restarts, with fairness |

The types of the parts are checked in `components` (ComponentTypes), those of
MetaServer in `server_race` (TypeOK).

Five runs show where the code does not do what it says; PROJECT.json quotes the
lines.

| Run | What it shows |
|---|---|
| `read_full_table` | with the inode table full, opening a new name makes a dentry without an inode, and reading it fails the assertion in ReadFile |
| `client_pieces` | a request over two blocks uses the beginning of the caller's buffer for both, so that what is read back is not the file |
| `rdma_steal` | a worker takes the other's completion and a large transfer returns before its data is there |
| `connect_restart` | a restarted node 1 gives out ids that are in use |
| `connect_wedge` | a client that gives up leaves the server's Listener in the exchange for ever |

That ReadFile uses the dentry before it tests it (MetaServer.cpp:82), so that a
read of a missing name ends the server, is in ReadLookup; no run is spent on it.

Bounds and why they are enough.

* Blocks of 2 bytes in MetaServer: requests then have aligned, unaligned, one-
  and two-block forms. `BlockPlanCheck` has the remaining alignments.
* Two calls: every race listed is between two handlers. Two servers: a file
  spans servers and a removal returns blocks in two steps.
* `Word` is small; regions that wrap around are among the inputs of
  `components`. In MetaServer's runs it only keeps the block count of an overdrawn
  pool finite, which nothing there reads.
* `IntLimit` is 4 where every request is meant to fit, and 3 in `server_race`,
  where a write of three blocks does not.
* One server of two blocks in `client_store`: the second file gets the blocks of
  the first, and a file of two blocks leaves none. One descriptor and two open
  files in `fuse`: the table is full, and a number is given out again at once.
* `ReliableOnly` (`server_names`, `client_store`) stops at states in which a pool is overdrawn or
  replaced while in use, about which the block properties say nothing;
  `server_limits` goes on from those. `SpongeClient` adds states in which a queue
  pair has failed or two threads of one Client are in transfers together. In `client_store` this also leaves out the
  client that still moves bytes when the metadata server has restarted, the
  storage server has registered anew and its blocks belong to another file: that
  write does land in the other file.
* `Obj` has an object for every inode of a full table, one for a removed inode
  that a call still holds and one for a new inode, wherever these occur together:
  an allocation never waits for an object.
* `CopiesBounded` (`server_race`): without exclusion a block may
  be returned again and again and be in the heap ever more often; MaxCopies = 2.
* A page is two cells, a bounce buffer one page, the threshold two pages: a
  small transfer of one and a half chunks, and a large one of a chunk per worker.
* `SignalWrap` and `OffsetWrap` are above what the calls of a run can reach, as
  2^16 and 2^8 are: a large call resets the signal, and it counts the workers.
* Symmetry is used in the safety runs only, over objects, calls and names.
* CHECK_DEADLOCK is off where the system may stop: clients need not call again,
  and bounded calls, faults and crashes run out.

Fairness. `MetaServer`: weak fairness of every handler and client thread, since
the operating system schedules them and a handler never waits for another call.
Nothing is assumed about new requests, registrations, kills or restarts.
`RdmaTransfer`: weak fairness of every thread and of the card's queue pairs; a
thread that polls is schedulable. `BatchPost`: the same; nobody has to start a
batch. `RdmaConnect`: weak fairness of every process;
a timeout that is due fires. ConnectReturns leaves out a client whose server's
process ended while it was reading: it may read the end of file for ever
(`"spin"`). EveryoneJoins is about the behaviours in which no client gives up and
no server stops, and presumes that no verbs call fails. The next-state relations of clients that need not act are not fair.

Every property of a passing run has a mutant, a definition next to the one it
replaces that does what a plausible mistake would (a guard dropped, a counter
not counted, a top without its pop), under which TLC finds it violated.

## 4. Proofs

Every invariant, every refinement and every other safety property of a passing
run is a theorem, for instances of any size. The invariants that are proved by induction are stronger
than the properties; this section says by what.

`IdTableProofs`. FdInv is the type and FdAccounting together, and is inductive.
From it follow FdAccountingHolds and, since a used descriptor is not in the heap
and a free one not in use, FileMapImplementsIdPool.

InodeInv is, for the inode table, the type and InodeAccounting; the cardinality of
the used numbers goes up and down by one (FiniteSetTheorems). The interesting
consequence is HeapNeverPoppedEmpty: an empty heap means that all
`total_size_ + 1` numbers are in the table, while `cur_size_` is at most
`total_size_` by its type. InodeTableImplementsIdPool is the refinement.

`BlockPlanProofs`. PlanWithinBlocksNeeded: a block that begins before the end of
the write is below `total_blocks`, and each of the three parts begins before it;
the products are handled in four lemmas on division by the block size.

`ComponentProofs`. For every region, block size and `Word`:

* BlocksStayInside, SpaceAccountingHolds, SpaceTestHolds. SpaceInv relates a pool
  to what its callers hold: they hold blocks below `total_blocks_`, these lie in
  the region, and until the pool is overdrawn `inused_blocks_`, `cur_blocks_` and
  the heap say the same. That `total_blocks_` blocks fit into the region, from an
  aligned or unaligned start and with differences that wrap, is a lemma of its
  own; it needs that `Word` is a multiple of the block size with room for the
  largest region (RegionAssumption; 2^64 and 2^20 in the code).
* PlansAreExact and PlansStayInFile: every byte of a request is in one piece, by
  cases on the three parts. No induction is needed, as the k-th piece of a plan
  is given in closed form.
* ComponentsStayTyped: PartsInv is the invariant of each part, and a step of
  `Components` is one of a part while the others stay.

`MetaServerProofs`. For every set of names, calls, requests, regions, objects and
servers and every `Exclusion`:

* TypeCorrect. TypeOK is not inductive. ServerInv adds the accounts of the two
  tables (so that `cur_size_` stays in range), that no number but 0 leads to the
  root object, that a handler in flight has a request, and that one that answers
  or allocates has an inode.
* SizesStayCovered and WritesStayInList follow from GrowthInv: a writer in its
  loop satisfies `Len(blocks) + need >= total_blocks` (WriteProgress). It holds
  although `need` is worked out once, because lists of inodes somebody holds only
  grow; the removal of a file blanks an object only when no call holds it. It is
  stated for requests whose count fits an int, since only then is `need` what
  they miss; SizesStayCovered therefore assumes EmptyRequestsFit (a longer
  request that does not fit ends in the crash and sets no size).

`MetaServerNamesProofs`. The first five results have the hypothesis
`Exclusion # "none"`; section 2 says which races break them otherwise.

* InodesStayNamed and DentriesLeadToInodes need NamesInv: what a handler looked
  up is still so (a dentry it found is there with the same number, a name it
  missed is missing), a number that its handler has allocated and not linked, or
  unlinked and not deleted, is known to that handler alone, and an object has one
  number. Why it holds is Apart: of two requests on one name neither is a removal,
  and the name exists unless both are transfers left over by a crash.
* BlocksHaveOneOwner, BlocksAreConserved and TransfersKeepTheirBlocks need
  BlocksInv, for every reliable pool: a block has at most one owner, a place in
  one list or a handler between AllocateOneBlock and AppendFileBlockInfo, and
  the heap and the used set agree with the owners; a removal that has gone past a server
  without finding it registered had no blocks there; the blocks a client moves are
  in the list of the file it asked for.
* DescriptorsStayOwned (FuseSpec, every `Exclusion`) needs FuseInv: a call that
  opens or releases is about one open file and an open file about one call; the
  file has no descriptor while it is opened and keeps its own while it is
  released; only OpenFile reaches AllocateFD and only CloseFile ReclaimFD.

`SpongeClientProofs`. ClientImplementsStore (the refinement StoreSpec) and
ReadsReturnTheFile, for any number of names, calls, sockets, servers and blocks,
any block size and any requests that satisfy `OneBlockRequests` and
`EmptyRequestsFit`, with `Exclusion` `"calls"` or `"files"`, for behaviours in
which every pool stays reliable, no queue pair fails and no two threads of one
Client are in a transfer together (`[]ReliableOnly`; the run has the same
predicate as its constraint, and sections 2 and 3 say what happens otherwise).
Any number of threads may share a socket, one transfer after the other; failed
posts, kills and restarts are among the behaviours. The inductive invariant
ClientInv is ServerInv, GrowthInv, NamesInv and BlocksInv with

* CourseInv: nobody uses a file that another call writes; a handler that cuts a
  read still sees it go beyond the end; an inode that is not linked yet is empty;
  files end where a write of the request set does; blocks are on registered
  servers;
* DataInv: a client that transfers has at most one piece left, which is its whole
  buffer and names the block that its file has *now* at that place; once it is
  moved, buffer and file agree byte by byte, as long as the file is there;
* SocketInv: requests and completions of a socket are there only while a thread
  polls for them, the one request is that thread's, and the bounce buffer has
  what it writes.

The steps of a transfer are first taken together. `Left` and `Got` are the pieces
and the buffer as they will be when the thread has polled and copied what the
card has already moved; SocketStep shows that in these terms every step is one of
`AtomicNext`, where the card's step moves the piece as a whole and copies, posts
and polls change nothing. This is where SocketsApart is needed. DataInv and the
rest of the argument are about `Left` and `Got`; when a call returns they are
`todo` and `buf`.

The steps are then mapped one by one: AddDentry to Create, DeleteDentry to
Remove, the answer of WriteFile to BeginWrite, the return of Client::write to
EndWrite, the end of the server to Lose, and everything else to no step. Two of
these are more than bookkeeping. The move of a piece is invisible, because the
block is in one place of one file (BlocksInv) and the bytes it changes there are
those that FileStore has as torn. And a handler that allocates, appends or gives
back blocks leaves every file as it was but for blocks beyond its end (Still).

`RdmaConnectProofs`. NodeIDsUnique, PeersAgreeOnNumbers and PeersStay, for any
number of clients and servers, if node 1 does not stop (`1 \notin Mortal`; the
run `connect_restart` is what happens otherwise). Node 1 writes a number before
it reads from the client, and counts on only after that read. JoinInv therefore
speaks of the numbers a client has *or will read* (IdsOf): they are at most
`MaxNodeID`, equal to it only for the client whose ExchangeID is being served,
and nobody else's. A client that died there may leave its number to the next one;
hence Numbered. The rest says that a client visits node 1 first and once, that
only the first message of node 1 gives a number, and that other servers are told
that number.

`RdmaProofs`.

* EnteredPeersUsable and ClientReleasesAll (RdmaResources): ResInv says what
  exists at every stage of CreateResources, and that all queue pairs of a
  connection have the completion queue that `cqPtr` still points to while they
  are created, which is never queue 0 on a server.
* CompletionsBalance, for any number of callers and failed posts: TransferInv adds that threads
  send within their tasks and tasks within buffers, and that `offset` is what
  PushPolling and PopPolling have counted of the vector. The latter also shows that
  a worker never pops an empty vector.
* StackIsPinned, QueuesAreHandedOver and SmallTransfersMove, for any number of
  callers, about calls that overlap with no other (`~ shared`), and up to four
  workers (as many as the split of a task is written for; the code has two). A
  program with one calling thread makes only such calls; a FUSE mount with
  several threads does not, and there these three say nothing. SoleCaller is
  what the one call under way keeps true, whoever makes it: Handoff says where each
  worker is with the task it was given, and that `TransferSignal` counts those
  that came through. SmallInv follows the cells of a piece through bounce buffer,
  request and memory while no queue pair is broken.
* ListsFit, for any number of peers and any period with (peers + 1) * period
  places. PollsPay: the signalled requests not polled yet, and one more between a
  poll and the request it pays for, are at most as many as the peers that have
  sent anything. A peer with more than (n + 1) * period requests in its queue has
  more than n of them.

Assumptions are those of the modules: sizes are natural numbers, block size,
word and inode count positive, requests have natural offsets and lengths, sets of
threads and peers are finite, the wrapped counters can count the workers, the
null values differ from the others (of FileStore's three, MarksAssumption asks
that NoFile is no sequence of bytes and NoWrite no write). TLC evaluates them in
the runs.

Only model-checked: liveness (CallsReturn, TransfersReturn, ConnectReturns,
EveryoneJoins, BatchesReturn), which needs fairness and ENABLED.

## 5. What is not modelled

* Hash collisions of names (children_ is keyed by the hash alone), the type of an
  inode and the `is_dir` flags, which no handler branches on after creation, and
  the `length` field of a block info, which nothing reads.
* Transfers that overlap on one socket, as far as their data goes: the models have
  their steps, and no property speaks of the bytes they leave. Likewise transfers
  on a queue pair that has failed, and what becomes of the callers of a failed
  ibv_post_send: they poll for ever.
* Requests that end at or beyond 2^64 - 2^20, where `total_blocks` itself wraps.
* Which block an overdrawn pool gives out: any block of the pool (that
  BlocksInsideRegion holds of those is the model's choice, not a result).
* Data races inside the containers. `children_`, `block_info_list_` and
  `space_manager_` are read and written without a lock, and GetInode reads
  `table_[inum]` after its unlock. The model takes each access as one step.
* The byte counts that read and write return: 0 for a failed call, as at the end
  of the file.
* Partial TCP reads and writes, the limit of the listen queue, SIGPIPE, node ids
  beyond 1000 entries of `peers` or 16 bits.
* ServerConnect (its call is commented out), WriteTest (never set), single sends,
  receives and atomics (no caller), statistics.
* The FUSE operations that return a constant (getattr answers a size of 123 for
  every path), device mapping, configuration parsing, debug output, the test and
  benchmark programs.

## 6. Plan

Done: the allocators, request planning, the metadata service, clients and the
abstract file store, FUSE, the data path, batches, verbs objects, connections;
the theorems of section 4. In order, what is left:

1. RdmaConnect and RdmaTransfer together: transfers after an incomplete connect.
2. The byte stream of DataSyncwithSocket.
