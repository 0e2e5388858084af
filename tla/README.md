# CUtility in TLA+

Models of the C utility library in `src/`, checked with TLC, and theorems about
every component, proved with TLAPS. The code is modelled as it is, mistakes
included: where it does something other than its comments say, a run that
expects a violation shows it.

## 1. The system

CUtility is a library of eight components. Nothing in it is persistent and
nothing talks to another process; what is hard is threads, pointers, and the
arithmetic of small containers.

| component | state | operations | uses |
|---|---|---|---|
| TaskEngine (`taskEngine.c`) | `task_queue`, `workers`, `task_mutex`, `worker_mutex`, `running`, `max_workers`; each worker's locals | `Init`, `Destroy`, `Task_Queued`, `Task_Add`, `Task_Del`, both `_Batch` forms, `Start`, `Stop`, the worker loop | Task, Listing, pthreads |
| Task (`task.c`) | per task: `depend`, `blocks`, `enable`, `exec`, `priority`, a mutex only the engine uses | `Init`, `Free`, `Depend_Add`, `Depend_Del`, four queries, `setEnabled`, `Reset`, `ResetTree`, `Do` | Listing |
| HashTree (`hashtree.c`, `hashtree_foreach.c`) | a tree of nodes, one byte of the key per edge, data at the nodes; during `Foreach` a stack shared by threads under a mutex | `Init`, `Free`, `Assign`, `Retrive`, `Release`, `Count`, `Foreach` | pthreads |
| Listing (`listing.c`, `listing_foreach.c`) | a doubly linked list, its count, and a cache of recently used positions; during `Foreach` a cursor shared by threads | `Insert`, `Remove`, `At`, `Sort`, `Merge`, `Clone`, `Find`, `IndexOf`, `Foreach` | pthreads |
| BitString (`bitstring.c`) | bytes and a bit count | `Init`, `Free`, `Get`, `Set`, `Fill`, `Copy` | - |
| Batch (`batch.c`) | a listing of (routine, data) nodes | `Init`, `Free`, `Add`, three `Del`s, `Run` | Listing |
| Tabulation (`tabulation.c`) | a hash tree of indexes, each a hash tree of listings | `Init`, `Free`, `CreateIndex`, `DropIndex`, `Add`, `Del`, `Query` | HashTree, Listing |
| `util.h` | - | `fmalloc`, which aborts when memory runs out | - |

How they interact: everything is a direct call under the caller's thread,
except that `Foreach` of the two containers and `TaskEngine` create threads.
Callbacks run on those threads: a `Listing_Find` with several threads pushes
into its result from all of them, and the engine's workers run the client's
tasks, which may call the engine again. Tasks point to each other in both
directions; the engine's queue points to tasks it does not own.

What makes each component correct:

* TaskEngine: a task is run by one worker and once; not before what it depends
  on; the queue is only touched under `task_mutex`; the engine stops, and every
  call returns or crashes where it is known to.
* Task: both copies of an edge agree; no listing points to a freed task; the
  walks answer over the whole dependency tree, circles included.
* BitString: `Fill` and `Copy` change the bits of the range and no others.
* HashTree: it is a map from keys to data; `Foreach` gives every entry to one
  thread, once.
* Listing: it is a sequence; the links agree in both directions; the cache never
  answers with another entry; `Foreach` gives every entry to one thread, once.
* Batch: a node is in the batch from its addition to its deletion, and is freed
  once; a delete takes what it was asked for; `Run` calls every node and returns.
* Tabulation: an index lists the data added and not deleted, each once, under its
  hash, and they are still there.

## 2. The modules

| module | models | composes |
|---|---|---|
| `TaskGraph` | the depth-first walks of `task.c` as pure operators, and the graph they are compared with | |
| `ListingOps` | a listing as its users see it, by `listing.h` | |
| `Task` | `task.c`: addresses, edges, flags | TaskGraph, ListingOps |
| `TaskPool` | abstract: the order in which a pool may run tasks | TaskGraph |
| `TaskEngine` | `taskEngine.c`: threads, mutexes, queue, workers | TaskGraph, ListingOps; implements TaskPool |
| `HashTree` | `hashtree.c` | |
| `HashTreeForeach` | `hashtree_foreach.c` over the trees of HashTree | HashTree |
| `BitString` | `bitstring.c` | |
| `Listing` | `listing.c`: nodes, pointers and the position cache, as coded | |
| `ListingForeach` | `listing_foreach.c`, and `Clone` and `Find` through it | Listing |
| `Batch` | `batch.c` and its threads | ListingOps |
| `Tabulation` | `tabulation.c` | ListingOps |
| `ListingLemmas` | lemmas on the operators of ListingOps | ListingOps |
| `TaskEngineProofs`, `TaskProofs`, `ListingProofs`, `BitStringProofs`, `HashTreeProofs`, `BatchProofs`, `TabulationProofs` | theorems | the module they are named for (ListingProofs: ListingForeach, HashTreeProofs: HashTreeForeach) |
| `MC*` | the instances TLC checks | |

Definitions have the names of the functions they model. `PROJECT.json` maps
every definition to its lines. Definitions whose names end in `_Slip` are small
mistakes one could make in the code, next to the definition they would change;
no model uses them. Each property has one that breaks it, which shows that the
property is about that code.

**Layers.** Task, TaskEngine, Batch and Tabulation take a listing (and Tabulation a
hash tree) as its header describes it, and not as it is built: as coded,
`Listing_Insert` into an empty list compares where it should assign
(`listing.c:263-264`), so that no list ever gets a head, and `HashTree_Foreach` does
not return, so that no program of the upper layers would reach its second
statement. Each layer is checked against what the layer below promises; where a
layer breaks its own promise is shown in its own module. What a promise leaves
open is modelled: `Listing_Foreach` gives every entry to one of any number of
threads (`listing_foreach.c:67`), in any order, and two pushes to one listing are
not ordered by anything. One promise is kept as worded: `Listing_Sort` ends in an
arrangement in which the callback is true of every two neighbours
(`listing.c:128-129`), so where there is none it never returns, and the thread stays
in the sort with `task_mutex` locked.

### TaskEngine

A thread is between two statements; `pc` names the next one (`loop` is line 102,
`count` 104, `spawn` 111, `push`/`link` 116, `unspawn` 123, `relock` 124, `pop` 134,
`check` 140, `run` 154, `ran` 155, `unlock` 156 and 162, `readd` 160, `repost` 161,
`exit` 167, `unlink` 169, `last` 182; Main's `first`... and `join`... are 193-201 and
210-224). What is done under a mutex that every access to the same data takes is
one step. What is not is cut:

* workers is pushed to in the spawn loop without `worker_mutex` and read by the
  join loops without it; a push or a removal is a read and a write, so that two
  can lose an update, and the join loop reads three times;
* `exec`, the callback and the task's mutex are three steps;
* `running` is read and written with no mutex.

Assumptions: mutexes are normal pthread mutexes (locking one's own blocks,
unlocking another's releases it); a `pthread_t` is not used for a second thread;
a thread that frees its entry of workers leaves a pointer whose dereference is a
fault; a callback ends, and may stop the engine without waiting
(`CallbackStops`); inside `Task_isEnabled` and the check loop, flags are read at
one moment (the loop runs under `task_mutex`, and a dependency that passed stays
passed while that is held). The faults - a NULL task, a NULL or freed thread,
use after destroy - stop the model. Three things are coarser than in C: the tests of
line 111 and the creation of the thread after them are one step; a sort that has no
end when it begins is taken to have none (a callback that runs meanwhile could give it
one); and an entry of `workers` that a lost update lists again after it was freed counts
as a good one. The last two make the model run on where C may stop, or stop where C may
run on; no property of section 3 turns on it.

Because of the inverted query at line 29 no call of the API can put a task in
the queue. To see the workers at work, the client of most runs fills
`task_queue` itself before it starts the engine (`Preloads`): the struct is
public. `EngineApi` is the client that only uses the API.

### Task

A task is an address; `free` gives it back, and `Task_Init` may get it again, so a
pointer left in a listing points to the new task (that is what `dirty` and
`NoStale` are about). `Task_Free` is as coded: its two loops have their callbacks
exchanged. The walks are one recursive function, `Walk`, on the stack of the
source; stopping early is not visible in the queries because they change nothing. They are
compared with `Reach`, the smallest set with the task in it and all the dependencies of
its members, and `OnCycle`, which know nothing of stacks. The addresses are finitely many
(`TaskAssumption`), as memory is.

### Listing and ListingForeach

A header and a node are addresses; `head`, `tail`, `next`, `prev` are functions. The
cache is three arrays: `ids` and `nodes` hold values, `index` holds pointers, which
are to a cached index (`IdPtr`), NULL, or what `malloc` left there: a word behind or
before the header, or one that cannot be read. `Garbage` are the caches a new
header may have; a word so close behind the header that its distance, divided once more,
is a place inside the arrays is not among them. A piece of the code that may stop (a NULL, freed or garbage
pointer, a search that reads outside) is an operator that gives the set of its
results, empty when it stops; the action then ends in `fault`. Three mistakes decide
what can be seen: the first insertion never links its node (`StaysEmpty`), so the
client may link nodes of its own into the public struct (`Client_Link`), which is
how the other lines are reached; the shift of the cache does not move its
pointers (`OneSlot`); the removal of the last entry takes any node, because its
pointer is not initialised (`Target`). What then becomes of a listing can be anything: an
insertion or a removal whose search was led astray works on a node that is not of its
listing (`Strays`), be it freed, of another listing, or nowhere. `ShapeKept` says that the
links of all listings stay right until that happens, by whatever other call. The turns of
a sort are counted, and end at `MostTurns`, which no list of all the nodes needs. Two divisions of a pointer difference by a
size (`n \div 8` in Del, `n \div 4` in the search) are as compiled for 64 bits.

In `ListingForeach` a thread takes the cursor under the mutex in one step and runs
the callback in another; a push of Clone or Find reads the count, and inserts at it
in a later step. Find and Clone are called before anything else was called on the
listing they go through (`MaxBefore`): after one step all their threads work on the
first node for ever, whatever the history of the listing was.

### Batch

A node is an address, allocated (`DOMAIN node`) or not; the batch is a sequence of
addresses, so one that was freed and is still in it would be seen. The three deletes
are one action with a pattern that may leave out the routine or the data. Each
`Foreach` runs with any set of threads that has the caller: `get_nprocs()` is not
constant. A thread's push into the result of a Find is a read and a write, so that
one can undo another. `given` (how often the callback of this `Foreach` has got each
node), `adds` (how often a pair was added and not deleted) and `raced` are history, and
no guard reads them.

### Tabulation

The indexes are a function from names to hash routine, cleaning routine (it frees
what it is pointed to, or does nothing) and a function from hashes to listings. A
`Foreach` over the indexes is a set of turns, taken in any order, each one step. The
client's data change between calls, and an address that a cleaning routine freed is
allocated again. Memory may run out where `tabulation.c` allocates; the containers
do not lack it inside. One thread calls these functions: nothing in the file
locks anything. `member` and `changed` are history, and no guard reads them.

### HashTree and HashTreeForeach

A node is named by the bytes on its path. `Look` is what the search meets: nothing
to search (a NULL array), a NULL subnode (left by a failing malloc), a search
that does not end, or the subnode. The search is modelled with its loop; on the
trees that can be built it ends exactly when the only subnode has the byte,
hence `OneBranch`. `Foreach` moves one stack under one mutex; a turn of
`Queue_Next` is one step and the callback another. It has no end in the code:
each call stops in a NULL dereference, so the lines after it are not modelled.
Its threads start in one step; a failing `pthread_create` (`hashtree_foreach.c:162`), the
`malloc` of the copy of the key that can fail and end a thread (118-127, 143-148), and the
hash, into which line 124 copies a byte of the stack's pointer, are left out.

### BitString

A byte is the set of the positions of its one bits, so that masks are sets and
shifts move them. The properties quantify over every call a client can make in
the state, against a definition bit by bit.

## 3. The runs

| run | instance | question | result |
|---|---|---|---|
| EngineWorkers | 3 tasks (a chain with a shared dependency, or a circle with one outside), 2 workers and the client's thread, which adds a task a second time and deletes, enables and disables, creations that fail, callbacks that stop | who runs what and when, and what happens to the queue: `TypeOK`, `TaskOwned`, `ExecClosed`, `PoolSpec`, `QueueMutex`, `QueueOnlyShrinks` | holds |
| EngineApi | empty queue, 3 starts, 3 workers, fair threads | `NothingEverQueued`, `AliveListed`, `EngineStops`, `CallsEnd` | holds |
| EngineJoin | empty queue, 1 worker, 1 start | the join loop only uses entries that are in `workers` (line 224) | violated |
| EngineStops | 1 worker, fair threads | the last worker stops the engine (line 182) | violated |
| Task | 3 addresses, 3 edges | `Mirror`, `SafeIfDetached`, `QueriesAgree`, `ResetsWholeTree` | holds |
| TaskStale | the same | no pointer to a freed task | violated |
| HashTree | 2 bytes, all 15 keys of up to 3, 2 values, 2 threads | tree, entries and walk | holds |
| HashTreeWalk | the same | the stack is tested before it is used (line 107) | violated |
| BitString | strings of 17 and 10 bits | `FillExact`, `CopyReached` | holds |
| Listing | 2 headers, 4 nodes, a cache of 3, 2 threads, 3 calls, caches of zeros, unreadable words and readable ones | `TypeOK`, the cache (`OneSlot`, `SelectExact`, `CacheKept`), the links (`ShapeKept`, `SequenceExact`), what is never found (`StaysEmpty`, `OnlyFirstGiven`), `EmptyReturns` | holds |
| Batch | 3 nodes, 2 routines, 1 or 2 threads a call, fair threads | `TypeOK`, `DelExact`, `AsOften`, `NeverReclaimed`, `RunComplete` | holds |
| Tabulation | 2 indexes, 2 data of 2 values, 2 hash routines, cleaning or not | `TypeOK`, `IndexExact`, `ListedFreed` | holds |

**Bounds.** Two workers and Main are three threads on one queue: a popper, one that
looks at its task, and one that changes `workers`. Three tasks give a shared
dependency and a circle with an outsider; they are queued in a bad order, and as the
client may add one of them again, and delete it, there are queues with a duplicate and
queues that run empty under the test at line 105. `MaxStarts` and `MaxQueue` cap
what the client does. In `Task`, `MaxDeps` 2 and `MaxEdges` 3 allow a double edge and
a circle of three. In `HashTree` three bytes give a node below a node below the
root, which Release treats differently. In `BitString` 17 bits are two whole bytes
and one bit, so that a range has a first, a middle and a last byte, and 10 bits
give another alignment for the end. In `Listing` four nodes have two in the middle,
which is what the exchange in Sort and an insertion in the middle need; three
entries of the cache are a first, a middle and a last; of the second header, the
operand of Merge and the result of Find, no calls are made. Three calls are enough to
fill the cache, shift it and use it. `Uint` is 256: the count stays below 8, and
what matters of the width is that `count - 1 - v` is large when it is negative. In `Batch`
three nodes are a match before, after and besides one that does not match, and two
matches can be pushed at the same time; two data would only repeat what two routines
show. In `Tabulation` one hash routine tells the two values apart and one does not,
so that a listing has none, one or two data, and a datum can change its listing in
one index and keep it in the other. Neither caps the number of calls. With four nodes the ways in which a search goes astray
need the removal of the last entry; with five there are others, so `ShapeKept` names
the cause (`Strays`) and not the call, and is proved for any number of nodes
(section 4). Symmetry is over workers in the engine's safety
runs and over addresses in `Task`; no liveness run uses it.

**Deadlock** is not checked: every program here may stop (a fault, an idle client, a
sort that does not end, a destroyed engine).

**Fairness.** `FairSpec` is weak fairness of each thread's steps: the operating
system runs a thread that can run. No client call is fair. A mutex is taken in
one step that is enabled while it is free; in `EngineApi` no thread takes one
again and again, so weak fairness is enough. That run has no failing creation:
with one, an uninitialised thread stays in `workers` and nothing stops.
`FairForeachSpec` and the `FairSpec` of Batch are weak fairness of each thread of a
`Foreach`, and of the join, which can be done once the others are through. In
`EmptyReturns` and `RunComplete` every callback ends, and no turn waits for a client.

## 4. What is proved

Everything below holds for every value of the constants, from the assumptions the
modules name. The lemmas on listings that the proofs share are in `ListingLemmas`:
what `Without`, the result of removing every entry of a set, contains and keeps,
that it is never empty, and how often an entry is left in it; and that a loop that
descends has a result (`LoopExists`). The last three
need induction on the length, which goes by the least counterexample (`Smallest`, from
the well-foundedness of `<`).

### TaskEngine

`TaskEngineProofs` proves, for every set of tasks and threads, every dependency
graph and queue, and every bound:

* `TypeCorrect`, `QueueMutexHolds`, `TaskOwnedHolds`, `ExecClosedHolds`: the invariants;
* `QueueOnlyShrinksHolds`: no step queues a task that was not queued;
* `Implementation`: TaskEngine implements TaskPool, with the tasks between the
  decision to run and the setting of `exec` as the executing ones.

The inductive invariant `IInv` is `TypeOK`, `QueueMutex`, `Owned` and `Ordered`.
`TaskOwned` alone is not inductive: `Unlock` sets `mutex` to None for the task in a
thread's hands, so one must know that the hands of a thread outside `Holding`
are empty, and that nobody but its owner has a task (`HandEmpty`). `ExecClosed`
alone is not inductive: `Ran` sets `exec` two steps after the check, so one must
know of every thread about to run that its dependencies are done or depend on
the task in turn (`ReadyToRun`), and that its task is not executed
(`NotExecuted`). Most steps only move a thread along and change none of this
(`Quiet`, `StepCases`); five do, and each has its own step in the proof.
`Implementation` follows: `Check` is `Begin` when it decides to run, `Ran` is `End`, and
all other steps stutter.

`NothingEverQueuedHolds` and `AliveListedHolds` are about the client that only uses the API
(`Preloads` is within `{<<>>}`, which is what `TaskEngine_Init` leaves; `EngineApi` is that
client with three workers). The invariant, `Calm`, says that the queue is empty, which
puts most of the places of a worker out of reach (`CalmPlaces`); that a worker between
the read and the write of `workers` has `worker_mutex` and Main is not there
(`ListingMutex`); that what such a thread has read is still so (`ReadStill`); and that a
worker is in `workers`, or in the hands of Main (`ListedOrHeld`). With tasks in the
queue `ListingMutex` is false, because of the trylock at line 107.

### Task

`TaskProofs`, for every finite set of addresses, every graph and every sequence of calls:

* `TypeCorrect`; `MirrorHolds`. `Mirror` alone is not inductive: a new task may get an
  address that was freed, so one must know that no listing of a sound task has such an
  address in it (`Clean`). That holds after `Task_Free` because a task without edges is in
  nobody's listing, which is `Mirror` before the step. Which edges the loops delete does not
  matter, only that both listings lose the same ones.
* `QueriesAgreeHolds`: the walks end, pop exactly the tree, and meet a circle exactly if there
  is one. The state of a walk is the top frame with the tasks on the stack, a visit
  (`Visits`). Going on to the next dependency or down to one that is not on the stack makes a
  number smaller (`Measure`: tasks not on the stack times the longest listing plus one, plus
  what is left of this one), so the loop over visits has a solution (`VisitingSome`), and so
  has the loop over stacks, whose result is that of its top frame followed by that of the
  others (`LoopSome`); `WalkIs` says that `Walk` is the first. Then by induction on the measure:
  nothing outside of a closed set is popped (`PopsWithin`), what is popped has its dependencies
  popped or on the stack (`PopsCovered`), a dependency on the stack closes a circle because all
  tasks on it lead to the top (`CircIsCycle`), and where none was met what is below the top
  is closed without the top (`NoCircIsAcyclic`).
* `SafeIfDetachedHolds`: without dirty addresses no listing points to a free one
  (`NoStaleIfDetached`, from `Clean`), so the tasks that exist are closed under dependencies, and
  the walk of `Task_ResetTree` stays in them. `ResetsWholeTreeHolds` uses the same facts.

### Listing

`ListingProofs`, for every cache size and garbage, and any number of headers, nodes, calls and
threads:

* `OneSlotHolds`: every pointer to a cached index is to the first. It is inductive with the
  shape of the record (`Sound`), operation by operation on the cache, wherever the searches
  end.
* `TypeCorrect`. What a search gives does not matter, because every caller looks at it first.
  Three operations need an argument: `Lowest(k)` has k nodes in ascending order
  (`LowestFacts`), which is what `Client_Link` takes its choice from; a turn of the sort
  keeps the types, and by induction on the turns that are left so does the loop
  (`SortKeeps`); and a thread in a push has the listing it pushes to (`Pushing`).
* `StaysEmptyHolds`: a call that finds no first node leaves none. The sort of such a
  listing ends where it began or stops, and `Chain` of NULL is empty.
* `SelectExactHolds`: the search of the cache ends at a slot or stops (`ProbeSlot`, by
  induction on the width of the window); from a right place, going along `next` or `prev`
  leads to the right node (`AlongChain`, `AlongBack`). `OneSlot` is what makes the division
  of line 224 harmless: it only ever divides 0.
* `CacheKeptHolds`: what one of these calls makes of the nodes is the old sequence, or the
  old one with the new node at one end (`FrontChain`, `EndChain`), and the new cache points
  to what was just added (`AddedRight`). A right listing has no node twice (`Joined`), so that
  there is room for the new node in the bound of `Chain`.
* `ShapeKeptHolds`: for any number of nodes and headers, `Strays` names everything that can
  break the links. A listing is right when it has a sequence of nodes (`Held`), which is then
  its `Chain` (`HeldShaped`); the listings are right together when none of these nodes is in
  two (`Laid`). Each operation makes one of these sequences into another: with a new node at
  a place (`InsertHeld`), without a node (`DropHeld`), with two neighbours exchanged
  (`SwapHeld`), or with another sequence behind it (`JoinHeld`). A listing whose nodes are not
  touched stays as it is (`SameHeld`, `Rebuilt`). The sort keeps the nodes and its place
  among them, turn by turn (`TurnHeld`). A thread pushes to a listing that exists, and
  only such a listing is freed (`Alive`).
* `OnlyFirstGivenHolds`, where `MaxBefore` is 0: a `Foreach` over a listing that no other call
  was made on gives the first entry, and no other, in every turn. That is what the run
  looks at too; `FInv` follows the entry through the hands of the threads, and has to know
  that a callback that pushes into the same listing does not push in front.

### HashTree

`HashTreeProofs` is about every set of bytes, keys, data and threads. The search and the walk
along a key are recursive functions; that they exist, and what one turn of them gives, is
proved first (`SearchIs`, `FollowIs`, `InUseOne`), with the size of the window of the
binary search as the measure. `SearchOne` is the fact all the rest needs: among no more than one subnode the search
ends exactly at the byte it looks for. `TreeShape` and `OneBranch` are not
inductive alone: that no second subnode is ever made depends on what the search does
in the tree there is, so `Shaped` says of the tree that a node has at most one subnode, that
this is a node, and that the beginnings of a name are nodes, each the subnode of the
one before. From it follow `TreeShapeHolds`, `OneBranchHolds`, `RetrieveFindsHolds`, and
for the steps `AssignIsExact` and `EntriesStayHolds`, with memory running out at every
malloc.

`GivenOnceHolds` and `NoEntryGivenHolds` are about the walk. `Down` and `Advance` are
recursive functions too; that they exist (`DownIs`, `AdvanceIs`) needs that they end.
The way down ends because no key is longer than the longest of the tree (`Bounded`, an
invariant of its own: an assignment makes no node longer than its key). The loop of
`Queue_Next` ends because a frame never gets a second subnode to count, so that after the
first turn the stack only gets shorter (`TurnAgain`). `LoopExists` and `LoopAll` say this once of
every loop that descends. The inductive invariant `Walking` adds that every node on the stack is
longer than those below it and no longer than a node in hand, and that no node is in hand
before the first turn: the top that a thread takes next is shorter than all that was given.

### BitString

`TypeCorrect`, `FillSetsItsRange`, `CopyTakesWhatItReaches`, for strings of every length and
every call a client can make. They are not about sequences of calls, so the invariant is the
type; the work is in the arithmetic. `RangeFacts` takes the divisions apart: a range starts in bit o of
byte f and ends before bit b of byte f + a, and the loop, the masks and the shifts are
linear in these. Copy is proved
byte by byte for each way in which the two alignments can differ (`AlignedBit`), and apart for a string and itself.

### Batch

`TypeCorrect` (an entry is in the batch once, and allocated until `Batch_Free`: no
call reads a freed node), `NeverReclaimedHolds`, `DelExactHolds`, for every number of
nodes, routines, data and threads. `IInv` adds to the types that what a thread has in
hand and what is left to give is in the batch, allocated until `Batch_Free`, and that
only a Find pushes. For `DelExact` a second invariant,
`FInv`, follows a match of the delete from `todo` through a thread's hand to `matches`: with
one thread none is lost (`AllFound`), with several the last push is not (`OneFound`).
`AsOftenHolds` counts: the nodes that hold a pair are as many as its additions (`Counts`); a
push to the front adds one, a delete removes all of a pair when `FInv` says that it found
all (`Single`: no second thread has come while `raced` is false). The other half of
`AsOften`, that a `Run` which is over has called every node once and no node that is not in
the batch, is `GInv`: a node of the batch is in `todo`, in one thread's hand or was called once,
and in no two of these.

### Tabulation

`TypeCorrect`, `IndexExactHolds`, `ListedFreedHolds`, for every number of indexes, data,
values and hash routines. `IndexExact` speaks of the moments between calls. Within a
call it is wrong of the indexes whose turn is still to come, so `Members` relates
`member` to the listings index by index, with `todo`; `Placed` says where a datum that
did not change can be listed, which is what makes a deletion find all of it.

### Model-checked only

* Under fairness: `EngineStops`, `CallsEnd`, `EmptyReturns`, `RunComplete`.
* `SequenceExact`: which sequence an insertion in the middle, `Remove`, `Sort` and `Merge`
  make of the nodes. `ShapeKeptHolds` proves that there is one.

## 5. Where the code and its comments differ

Each is a finding in `PROJECT.json`, with the run that shows it, as a violation or as
the property that holds instead of what the comment says.

| where | what |
|---|---|
| `taskEngine.c:29` | the inverted query: a task is added only if it is queued already |
| `taskEngine.c:224` | Stop with wait uses the front of `workers` after the last worker may have left |
| `taskEngine.c:107` | the inverted trylock: the worker that got the mutex keeps it |
| `task.c:57-58` | the exchanged callbacks: freed tasks stay in the listings |
| `bitstring.c:93` | the loop bound of Copy: the last bits may not be copied |
| `hashtree.c:63` | the search does not end unless it finds |
| `hashtree.c:108` | looking up a key below a leaf dereferences NULL |
| `hashtree.c:148` | Release recurses into Retrieve |
| `hashtree_foreach.c:94` | the stack is used before it is tested |
| `hashtree_foreach.c:115` | Foreach skips the nodes with data |
| `listing.c:263` | the first insertion compares where it should assign |
| `listing.c:280` | an insertion in the middle is one place late, and cached at another |
| `listing.c:307` | removing the last entry uses an uninitialised pointer |
| `listing.c:153` | an exchange in Sort at an end of the list dereferences NULL |
| `listing.c:326` | a removed node stays cached at another index, and can be found and freed again |
| `listing.c:113` | the cache moves its entries and not the pointers to them |
| `listing_foreach.c:44` | the cursor is compared, not advanced |
| `batch.c:23` | nodes are not unique |
| `batch.c:35` | the deleted nodes are never freed |
| `batch.c:44` | a delete with several threads can miss a match |
| `tabulation.c:67` | the cleaning routine gets the datum |
| `tabulation.c:117` | a new index is filled from itself |

## 6. Not modelled, and what is left

Every component with logic of its own is modelled. Not modelled: `util.h` (memory that
runs out aborts the program; the models do not take that step), `Task_FreeTree`
(declared, not defined), `Listing_isEmpty` (declared; `listing.c:384` defines
`Listing_isEmtpy`), `Listing_Cache_Reset` (called by nobody), the answers of
`Table_Query`, the build files, and
the tests of BitString. The hazards without a property in `PROJECT.json` are all
reached by the models; their notes say why no property speaks of them.

What could still be added: a proof of `SequenceExact`, from the lemmas of `ShapeKeptHolds`
and the order in which a sort that ends leaves the entries.
