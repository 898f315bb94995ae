# MetaObject: a verification development

MetaObject is a C++ library for objects whose signals, slots and parameters are
connected at run time, across threads. This directory models its concurrent core
and the life of its objects in TLA+, checks the models with TLC and proves the
results that matter most with TLAPS. Paths below are relative to the repository.

## 1. Inventory

| Component | State | Operations | Interacts with |
|---|---|---|---|
| Thread specific queues (`src/inter_thread.cpp`) | one queue and mutex per thread, `impl::mtx` over the map | Push, Run, RunOnce, RemoveFromQueue | signals push, `Thread::Main` runs, `~ISlot` removes |
| Threads (`src/thread/Thread.cpp`) | `_run`, work and event queue, interruption request | PushEventQueue, PushWork, Start, Stop, SetInnerLoop, `~Thread`, Main | runs the thread's specific queue and an inner loop slot |
| Thread pool, handles (`src/thread/ThreadPool.cpp`, `ThreadHandle.cpp`) | threads, reference counts, availability | RequestThread, ReturnThread, Cleanup, copies and moves of handles | owns Threads |
| Signals (`include/MetaObject/Signals/detail`) | relays of a signal, slots of a relay, relays of a slot, a mutex per signal and relay | connect, disconnect, emit, destroy | calls slots or pushes them to queues |
| Memory blocks and pools (`src/MemoryBlock.cpp`, `src/Allocator.cpp`, `Detail/AllocatorImpl.hpp`) | map of the allocated regions of each block, list of blocks | allocate, deallocate, growth | backing allocators (malloc, CUDA) |
| Allocators of host and device (same files) | lists of freed blocks with time stamps, reference counts, one instance per thread or a locked one for all | allocate, free, allocate and release bytes, clear, thread end | pools, CUDA, the allocator set for the thread |
| Parameters (`src/parameters/Parameter.cpp`, `include/MetaObject/Parameters/detail`) | value, time stamp, modified flag, subscriber count; an input's source | UpdateData, Commit, SetInput, GetInput, deletion | signals (update, delete), buffers |
| Buffers (`Parameters/Buffers`) | values by time stamp, capacity | UpdateData, GetDataPtr, prune, wait | between a parameter and its inputs |
| Meta objects (`src/IMetaObject.cpp`) | signals, slots, parameters, connections of an object | Init, Connect, AddParameter, ConnectInput, destruction | everything above |
| Relay manager, variable manager (`src/RelayManager.cpp`, `src/VariableManager.cpp`) | named relays, shared parameters | ConnectSlot, ConnectSignal, Add/Get/RemoveParameter | signals, parameters |
| Registry, context (`src/thread_registry.cpp`, `src/Context.cpp`) | thread ids per kind, default context, allocators of a thread | RegisterThread, GetThread, GetDefaultThreadContext, SetDefaultThreadContext, SetThreadAllocator, SetGlobalAllocator | threads, allocators |
| Macros, introspection (`Detail/MetaObjectMacrosImpl.hpp`, `Parameters/ParameterMacros.hpp` and others) | overloads per member, static descriptions | InitParameters, BindSlots, InitSignals, save, load, Get...InfoStatic | factory, serialisation |
| Factory, serialisation (`src/MetaObjectFactory.cpp`, `src/serializer.cpp`, `IO/memory.hpp`) | constructors, plugins, living objects, files | LoadPlugin, Create, Get, Serialize, DeSerialize, save, load | runtime object system, cereal |
| Server and client, UI proxies, logging, profiling, Python | see section 6 | | |

What is hard here: mutexes are held while user code runs (emission, `Run`), a
destructor must wait out everybody who might still reach the object, callbacks
run on another thread later, threads are stopped by interruption, and memory is
carved out of blocks with padding. The list of hazards with their lines is in
`PROJECT.json`.

What makes each component correct:

- queues: a callback runs at most once, on its thread, in the order of its
  sender, unless its slot is destroyed; then never after the destructor.
- threads: pushed callbacks run; Stop, Start and the destructor take effect.
- pool and handles: one owner per thread; a thread lives as long as its handles.
- signals: an emission reaches every connected slot, on the slot's thread, and
  no slot that is being destroyed.
- pools: regions are disjoint, inside the blocks, aligned, and come back.
- allocators: no memory has two clients, on whichever thread it is released;
  what is lost is lost in known ways only.
- parameters, buffers: a reader sees a value that was written for its time
  stamp, never a destroyed source; nobody waits for ever.
- objects: an emission reaches a slot as often as they are connected, a
  parameter reports to its owner, and a recompile brings back what was recorded.
- registry and context: work reaches a thread of its type, a thread its own
  context and a matrix the allocator that made it.
- macros, factory, files: description, object and archive agree, and a loaded
  pointer has the type that was saved.

## 2. Modules

| Module | Models | Kind |
|---|---|---|
| `InterThread` | the thread specific queues with both kinds of lock | component |
| `Mailbox` | what the queues promise, without locks | abstract specification |
| `Thread` | `mo::Thread` | component |
| `Signals` | signals, relays, slots and destructors, on top of `InterThread` | composition |
| `MemoryBlock` | `MemoryBlock<XPU>` as operators | pure algorithm |
| `MemoryPool` | `CpuMemoryPoolImpl` and `PoolPolicy<GpuMat>` | component |
| `Parameters` | outputs, inputs that follow them, SetInput, destruction | component |
| `Buffers` | the buffers between an output and an input on another thread | component |
| `HostAllocators` | the host policies: pool, stack, pinned, combined, counted, per thread and global | component |
| `DeviceAllocators` | the policies for `GpuMat`: padding, stack of freed blocks, no caching, combined | component |
| `ThreadPool` | `ThreadPool` and `ThreadHandle` | component |
| `ThreadContexts` | registry, default contexts, the allocator a thread finds | component |
| `Wiring` | connections of objects, relay manager, what a recompile rebuilds | composition |
| `ObjectParameters` | parameters and inputs of objects, variable manager, recompile | composition |
| `Reflection` | what the declaration macros make of a hierarchy of classes | pure algorithm, with actions |
| `ObjectStore` | factory, object files, shared pointers in a file | component |
| `MC*` | instances for TLC | |
| `InterThreadProofs`, `SignalsProofs`, `MemoryPoolProofs`, `ParametersProofs`, `BuffersProofs` | theorems about the module of that name | proofs |
| `AllocatorsProofs` | theorems about `HostAllocators` and `DeviceAllocators` | proofs |
| `ThreadServicesProofs` | theorems about `Thread`, `ThreadPool` and `ThreadContexts` | proofs |
| `ObjectsProofs` | theorems about `ObjectStore`, `Reflection`, `ObjectParameters` and `Wiring` | proofs |

`MCMemoryPool` composes `MemoryPool`, `HostAllocators` and `DeviceAllocators`, and
`MCObjects` the modules from `ThreadPool` to `ObjectStore`. These parts share no
state in the code, so a behaviour is about one of them: the variable `focus` names
it in the initial state, the others keep their initial values, and the state space
is the sum of theirs.

### InterThread, Mailbox
`loop[t]` is where thread t is in `run`/`run_once`, `pc[t]` where it is in `push`
or `remove_from_queue`; `mtx` and `queueMtx` are the mutexes. A callback runs
while its queue's mutex is held (`loop[t] = "call"`), and can then push or destroy
slots, as the constants `NestedPush` and `NestedRemove` allow. Every queue exists
from the start; the code creates one at the first access, and scanning an empty
queue removes nothing. `Mailbox` has the queue, the running callback and the life
of a slot only: a slot may be freed when nothing of it is queued or running.
`InterThread` holds the mapping (`Abstract`): queues, running callbacks and the life of
slots as they are, without positions and mutexes.

### Thread
Each position of `Main` between two accesses to shared data is a value of `pc`.
Interruption follows boost: a request is consumed by the next wait or sleep, which
throws. Callbacks of the queues run under `_mtx` and are one step. The queues are
drained as written: `back()` is executed, `pop()` removes the front.

### Signals
A thread's work is a stack of frames (an emission or a destructor), since a slot
that is called directly may emit or destroy in turn; the frame of an emission carries
its number, so that what it pushes can be told from what an emission inside it
pushes. Emission takes the signal's mutex, then for each relay the relay's mutex,
then calls each slot or pushes to its thread's queue with the actions of
`InterThread` as conjuncts. `~TypedSlot` takes
the slot out of its relays one by one and `~ISlot` then begins RemoveFromQueue
without asking whether a push is under way. `InterThread` has that question as a
guard (`NonePushedFor`); `UsesQueuesSafely` shows that the guard always holds.
Connecting one slot and relay twice is left to `Wiring`.

### MemoryBlock, MemoryPool
A block is its bounds and the set of its regions. The arithmetic is the code's:
padding is added to the room of a hole, comparisons are strict where the code's
are, pointer differences wrap modulo `Word`. A pool step is one call, since a pool
belongs to a thread or holds its mutex for the call.

### Parameters
A thread is a stack of frames: an update, its emission, the commit of an input that
it reaches, a SetInput, a destructor. Each frame holds at most the mutex of one
object, and a frame that needs a mutex waits for the other threads to have none of
that object. `raw` and `shared` are the two pointers of an input, `Feed` the one the
code follows; `wired[p]` are the inputs whose slots are on p's signals, which SetInput
adds to and only the destructor of an input takes from. Connecting twice to the same
source calls the slot twice in the code, to the same effect. Releasing the last
`shared_ptr` runs the destructor inside the call that does so. Values are named by
the stamp they were written for.

The main thread wires and destroys, then lets the others run. That is a condition on
the program, not something the code enforces: SetInput takes the two mutexes in the
other order than an update, and the pointers are followed without a mutex.

### Buffers
One producer, which updates the output, and one consumer, which asks the input.
`kind` and `orderly` are chosen in the initial state: orderly threads write the
stamps 0, 1, 2, ... and ask for each until it comes, as the tests do, others write
and ask for anything. The producer holds the buffer's mutex (`bufMtx`) from the
insertion to the end of the emission, which needs the input's (`inMtx`).
GetData copies and prunes in two steps, as the mutex is released in between. A map
is the sequence of its stamps in their order; `Those` walks it.

### HostAllocators, DeviceAllocators
Both see a pool as the set of regions it has handed out (its inside is `MemoryPool`)
and count calls of the clock. On the host, `mat` is what a client holds and by which
policy it got it; `stack` and `pool` exist once per thread and once for all. A
release goes to the stack or pool of the thread that releases, as the code does, so
a region of a pool that another thread allocated is lost: `lost` and `orphans`
record each such way, and `HostConserves` says there is no other. The list node that
is read after it was erased shows its value or garbage. `aborted` is the assertion on
the reference count when a thread ends: `allocateCpu` of bytes counts and the matrices
do not, so an ordinary program meets it (`AllocatorImpl.hpp:424`).

A request of half the initial block or more may be refused by a pool, since a block
made for it is no larger than it and the comparison is strict: the client then holds
nothing of this allocator.

On the device a matrix is freed through the header that goes last, perhaps a region of
interest, whose address and size are what the list then records. The combined
allocator routes it by that size, and a block of the pool says yes to any address in
it and to its end (`MemoryBlock.cpp:94`): when no region begins there nothing is
released, nothing fails, and the count still drops (`TakeBack`). `leaked` records each
such region, and `DeviceCounts` says that there is no other loss, that only the
combined allocator has it and that what leaked is neither used again nor listed. A
matrix of the stack that comes back to the pool throws, unless it begins where a block
of the pool ends. `ReleaseAll` is called when no client has a region: it takes the
pool's blocks away. `StackPolicy` looks up a size after erasing its entry
(`AllocatorImpl.hpp:268`): the block waits with size 0 and no request is ever served
by it again. `clear` advances the iterator that erase has just returned, past the end
back to the first entry: `ClearStep` is one round of that loop and `Cleared` all of
them.

### ThreadPool
`pooled` is the list of threads with their counts; handles are copied, moved,
assigned and destroyed in any order. `RequestThread` does not mark the thread it gives
as taken: `shared` records the threads that were given out while held. A move over a
handle that holds another thread loses that reference (`leaked`). The properties speak
of all other threads.

### ThreadContexts
The registry, both default contexts of a thread and the device allocator it finds.
Nothing leaves the registry in the code, and `SetGpuAllocatorHelper` and
`SetCpuAllocatorHelper` have empty bodies, so neither has an effect here. `strays`
records each matrix that was given to an allocator it did not come from.

### Wiring
`net` is the graph of signals, relays and slots as the objects keep it; `records` is
`_connections`. The relay of a connection is known by its number, that of the manager
by the name and signature it is kept under: one that nobody has asked for yet is no
different from one without slots. A relay that returns a value holds one slot, a signal
that returns one has one relay. `Rewire` is a recompile: the objects in a set are
destroyed and made again, and `Init(false)` of each walks its records (`Relinked`). The
history variables `up` and `joined` say what was asked for: the properties compare it
with what an emission reaches. Observations that no document contradicts: connections
that were cut are made again at the next recompile, as their records stay; connections
without a receiver are not; a replaced object drops out of the relays of the manager.
`ConnectSlot` of the manager returns false though it connects. A receiver
that is replaced too is told to bind its slots when a record does not find the slot,
so the record finds it either way.

### ObjectParameters
A parameter made at run time is never found by `UpdateParameter`, which makes another
under its name each time; `AddMade` replaces. `Swap` is a recompile of several objects
in any order: `Init(false)` of a consumer initialises the parameters of a producer
that does not have the output yet, and those report to their object more than once
(`early`). Run-time parameters do not survive. An input has its two pointers, `raw` and
`shared`, and `wired`, the parameters at which its delete slot is registered. SetInput
sets one pointer and leaves the other, and GetInput reads the shared one when there is
one (`Reads`). The death of a parameter that the input was once set to directly, or of
the buffer it had, clears both. So an input whose records mix a buffer and a direct
connection reads the buffer, whichever came last, and a second buffer leaves it with
nothing, since the first dies in the assignment (`SetBuffer`). `InputsRestored` says of
all other inputs that a recompile brings the last connection back, whatever the two
pointers held before. `BufferedVariableManager` links as the
base class does, without a buffer.

### Reflection, ObjectStore
A class is its parents and the kinds of its members; the macros' overloads become the
sequences in which a traversal visits members, with a base that is reached on two
paths visited twice. INPUT and PERSISTENT describe nothing, and a PERSISTENT value is
lost at a recompile though it is saved to archives. What a class's traversals visit is
computed when it is defined and kept in `class`, as the code's overloads call those of
the parents.

In `ObjectStore` the runtime object system is external: a constructor is known by its
index, an object by its type and number. `Restart` is another process, which may load
its plugins in another order. Two pointers to one object become two objects there when
the number that was saved is not the one the new object gets; the test
`serialize_unique_instance` loads where the number agrees.

## 3. Runs

| Run | Bounds | Shows |
|---|---|---|
| `queues_nested` | 2 threads, 2 slots, 2 pushes each, nested pushes and removals | `QueuesSound` (nothing of a slot once it may be freed), `QueuesDeliver` (once, none lost, in order) and the refinement of Mailbox; the threads may deadlock, as the code's |
| `thread` | 2 events, 1 work item, 3 Start/Stop, backlog 1, `~Thread` at any time | `ThreadSound` (nothing lost, Stop is prompt), queues drain, Start takes effect, join returns |
| `thread_lost` | backlog 2 | an event is lost (finding) |
| `signals_order` | 3 threads, 2 slots, 2 relays, 3 changes | one order for all receivers, on their thread |
| `signals_nested` | 2 threads, 2 slots, 2 signals, 2 emissions, 2 changes, slots that emit and destroy | nobody calls a destroyed slot; every step uses the queues as InterThread allows |
| `signals_live` | 2 threads, 1 slot, leaf functions | slots and relays agree and no threads wait in a circle for their mutexes and the queues' (both in `SignalsSound`); emissions and destructors return, queues empty |
| `memory` | blocks of 6 and 3 or more bytes, at most 2, 3 sizes, 2 alignments, 3 regions each; on the host 2 threads, 2 clients, 3 addresses, 2 sizes around the threshold, one tick; on the device 2 clients, 3 addresses, 3 shapes, list of 2, blocks of 4 and more | regions are disjoint, come back, are aligned and best fitting; nobody shares memory, and what is lost is lost in the ways the models name |
| `inputs` | 2 outputs, 2 inputs, 3 objects, 2 threads, 3 changes, 2 updates | no dead source, inputs follow, no deadlock once wired |
| `inputs_set` | 2 changes | SetInput leaves the old value (finding) |
| `buffers` | capacity 2, padding 1, size 3, 4 updates, 4 stamps, 1 SetSize | pointers stay valid, what may be asked for stays, all stamps arrive, nobody waits for ever |
| `buffers_input` | 2 updates | GetInput deadlocks with an update (finding) |
| `objects` | pool: 3 handles, 2 threads, 3 requests; registry and contexts: 3 threads, 2 types, 3 contexts; wiring: 3 objects, 2 signatures, 2 relays beside the manager's, 1 record each; parameters: 2 objects, 2 run-time parameters, 2 records (1 while the variable manager lists a parameter); classes: 3, with at most 2, 1 and 0 members of 7 kinds; store: 3 plugins, 3 types, 2 objects | counts, contexts, links, notifications, descriptions and files are right (`PoolSound` ... `StoreSound`); recompiles and files restore (`RecompileKeepsLinks`, `RecompileRestoresInputs`, `RecompileKeepsValues`, `RestoresInPlace`) |

Two threads suffice for each race between a runner, a sender and a remover over one
queue; the third is there for two senders to one receiver. Cycles of three locks are
left to the theorem `DeadlockFree`. Two slots make it visible that the wrong one is
removed, two pushes that an order is lost. Three regions in a block are the least
that leave a hole between two others; two blocks are the least for growth and for the
wrong block to be asked. Two outputs and two inputs give chains, rewiring, and an
input that two parameters notify; three changes are a source, another source and the
death of the first. A size of padding + 2 is the least that lets an orderly consumer
free a blocking buffer, so four updates make the producer wait; the defaults (100 and
5) are far from it.

Two clients and three addresses are the least for a block to be reused by one client
while another has one and a third is stale; one tick makes a block stale. Of the
device's three shapes one is small enough for the pool and its matrix can be freed as
a part; with an initial block of 8 bytes (`GpuInitial`, and 4 on the host,
`HostInitial`) a request of half of it or more is one the pool may refuse. Two records
of one input are the least that mix a buffer and a direct connection. Links through
the variable manager are never recorded, so one record beside them is enough
(`FewRecords` in MCObjects). Three handles on one thread are the least where a count
can be wrong in both directions. Three classes give a base that is reached on two
paths. Two relays of connections beside the manager's are the least for a relay that
another replaces; a behaviour of `Wiring` is about both signatures and one slot of
each, which keep at most three relays together (`Kept` in MCObjects), or about the one
that returns a value and two slots (`Unused`). Two objects in the store are two
pointers to different objects, or two to one and room for a copy.

Deadlock checking is off where the system may stop: in the nested runs, where the
code deadlocks; after a Thread has ended; when the calls of `Parameters` and `Buffers`
are used up; where every entry of the map is taken for good by regions that padding has
made overlap, or the program has aborted (`memory`); when the bounds of `objects` are
used up; and in the runs that end with a finding.

**Fairness.** `FairSpec` of InterThread and Signals assumes that threads keep
running, that callbacks return, that the loop of a thread comes back to `RunOnce`
(`Thread::Main` calls it once in each iteration) and that a mutex which is released
again and again is eventually acquired by each waiter: strong fairness on the steps
of calls that have begun. `Thread` needs weak fairness of Main and the destructor
only; nothing is assumed of the clients. In `Parameters` and `Buffers` calls that have
begun go on, with strong fairness for the mutexes, and an orderly consumer comes back
for the next stamp, as the loops of the tests do. `memory` and `objects` state no
fairness: every call there is one step, and nobody waits.

## 4. Proofs

Every theorem holds for all values of the constants that the named `ASSUME`s of its
module allow; further conditions are stated in the theorem and listed at the end.

`InterThreadProofs`, for any sets of threads and slots and any bound on pushes:

- `TypeCorrect`: the type invariant is inductive.
- `LocksHeld`: a mutex is owned by t exactly when t's position is in a section it
  protects. Needed by the results below.
- `DeadlockFree`, for leaf callbacks: the runner of a queue waits for nobody, a
  remover that holds `mtx` waits for runners only, and everyone else waits for
  `mtx` or a queue: a set of threads that wait for each other would have to contain
  a runner or a remover, whose wait leads out of the set.
- `SafeToDestroy`: the invariant `RemovalInv` says of each slot that is dying which
  queues have been scanned (the complement of `todo`), that they hold none of its
  calls and that their runners execute none. It becomes `NoUseAfterRemoval` when
  `todo` is empty. `QueuesAreSound` states both as the run does. That no call is being
  pushed comes from the guard of RemoveCall, which `SafeUse` below discharges for the
  signals.
- `Delivery`: `QueuesDeliver` speaks of executed callbacks only. `DeliveryInv` adds
  those that wait and the one on its way: what a sender is pushing is the latest it
  sent (`MsgIsLatest`), everything in a queue or log is older (`AllSettled`), log
  and queue together are in the sender's order (`AllOrdered`), and what is in none
  of them was the call of a slot that has died (`NoneLost`).
- `Refinement`: each step of InterThread is one step of Mailbox or none. The step
  that needs an invariant is the return of RemoveFromQueue, which is Mailbox's Free:
  `RemovalInv` says that no queue or runner has the slot any more.

`ThreadServicesProofs`, first `Thread`, for any sets of callbacks and any number of
Start and Stop:

- `StopTakesEffect`: while `_run` is set or the inner loop is on, no late iteration
  has been counted (`PromptInv`). What waits in a queue was pushed (`QueuedPushed`):
  without that the type invariant is not inductive.
- `Sound`: `ThreadSound` if `Backlog = 1`, that is, while at most one event waits:
  back() and front() are then the same element. With two the property is false, as
  the run `thread_lost` shows.

`SignalsProofs`, for any threads, slots, signals and relays. The module composes
InterThread, so its proofs rest on the invariants above:

- `SigInvariant`: `SigInv` says that each frame of a thread's stack holds exactly the
  mutexes of its position (`FramesInv`), that slots and relays know each other except
  where a destructor is between the two (`Linked`), that a slot past its relays is in
  none (`Detached`), and that the queue call under way belongs to the innermost frame
  (`CallFrame`). The step that needs all of them is EmitPush, which must not push for
  a slot whose destructor has passed: the emission holds the relay's mutex and the
  relay still lists the slot.
- `SafeUse`: every step uses the queues as InterThread demands. `~ISlot` begins its
  removal without asking for pushes under way; a push is under way only under the
  mutex of a relay that has the slot, and the slot is in none.
- `DyingSlotNotCalled` and `SigTypeCorrect` follow from the invariant.
- `LeafSlotsSound`: deadlock freedom if slots neither emit nor destroy. A thread then
  has one frame (`OneFrameEach`) and each mutex an owner that is at work (`Owned`).
  Waits go from signals to relays to queues, so a set of threads that wait for each
  other would wait for queues only, which `DeadlockFree`'s argument excludes.
- `SlotsStayHome`, if emissions pass the Context of the emitting thread: a frame
  carries its thread's Context, and what is in a queue belongs to slots of its thread.
- `EmissionsInOrder`, under the same condition: an emission holds its signal's mutex
  for all its pushes, so nothing of that signal comes behind what it has pushed
  (`Latest`); hence no two queues have two emissions of one signal in different
  orders (`Agree`). Nested emissions make it necessary to know each callback's
  emission by number (`Numbered`, `FrameNums`, `NumsApart`, `SignedItems`).

`MemoryPoolProofs`, for blocks and requests of any size, CPU and GPU:

- `NothingHandedOutTwice`: until a request needs padding (the history variable
  `padded`), no two clients hold the same byte. The invariant `Tidy`: regions of a
  block are disjoint and inside it, blocks are apart, what a client holds is a region
  of a block, and no two clients hold the same address. The lemma `AllocateFree` says
  that what `allocate` returns is free memory, from the definition of the holes.
  After padding the invariant is lost, in the model as in the code.
- `BytesAreDisjoint`: with byte requests only (`ElemSizes = {1}`, the
  `allocate(num_bytes)` of both pools) padding never arises, so the same holds
  without a condition.
- `PoolTypes`, `MemoryIsAligned`: with or without padding.
- `FreesReachTheirBlock`: on the CPU and without padding, the blocks record exactly
  what clients hold (`Kept`). The GPU pool counts the end of a block as part of it
  (`AllocatorImpl.hpp:120`), so where one block ends and the next begins a free goes
  to the wrong one, and TLC shows `NothingLeaks` violated there.
- `FreeNeverThrows`: until padding, on both, no free fails.
- `MemoryFitsBest`: until padding, the holes that `allocate` looks at are exactly the
  maximal runs of free bytes (`HoleIsRun`, `LastIsRun`, `RunIsHole`), so the search
  over the map of regions serves from a smallest run that is larger than the request.

`AllocatorsProofs`, for any threads, clients, blocks, sizes and shapes, any threshold,
delay and width of size_t:

- `HostMemorySound`: `HostInv` adds to `HostSound` what a release relies on. Memory in
  use is where its size and the policy say (`Placed`; `HostSound` only says that it is
  in one of the two places), the lists have each block once and with its size
  (`Lists`), lists and pools of different threads have nothing in common (`ListsApart`,
  `PoolsApart`).
- `DeviceMemorySound`: the same for the device (`DeviceInv`), as long as no exception
  has left a call that frees; `Accounted` is `DeviceCounts` with the leaked regions,
  whose addresses are in the pool or the heap and with no client (`Clients`). `Lies`
  says where the memory is that a header shows: the release decides by the bytes of
  the matrix and by the policy, the bound on the size by whether the header shows the
  first address.

What the two cleaning loops leave in a list is proved by the least number of rounds
after which it could be wrong (`KeptRight`, `ClearedRight`): the loops are recursive
functions, whose existence is proved in the same way (`LoopRuns`, `SweepRuns`).

`ParametersProofs`, for any outputs, inputs and threads, over chains of inputs of any
length. `ParametersAssumption` lets data flow one way between objects (`MayFeed` goes
upwards by `Level`): in a circle of objects the code deadlocks.

- `StructureInvariant` is the base: types (`Typing`), stamps that UpdateData gave
  (`Stamps`), which frames may lie on which (`Stacks`), a main thread that is alone
  until all run (`Phases`), mutexes with one owner (`Exclusive`), and `Upwards`: what
  is inner in a stack belongs to a higher object than those locked further out.
- `NobodyWaitsInACircle`: among the mutexes that are held, the one of the highest
  object has an owner that `Upwards` keeps from waiting for any other. That there is
  a highest needs that `Objects` is finite.
- `LivesInvariant`: what an input points to is alive and knows the input, or SetInput
  is about to wire the two (`Attached`); what a frame works on is alive (`Living`,
  `Connected`); a destructor is in the stack once (`Distinct`) and still has to tell
  all who point to its parameter (`Announced`).
- `SourcesAreSound`: from these, and from `Matching`: the value of an output is that
  of its stamp, but in the middle of an update. GetData follows sources through
  inputs; the lemmas about `Feed` compute that by well-founded recursion on `Level`.
- `SourcesAreKept`: the action property, from what each step does to the two pointers.
- `StampsFollowSources`: an input has the stamp of its source or some frame will
  still give it that stamp (`Followed`). The stamp that a commit carries stays right,
  since the emission that called it holds the source's mutex (`Committing`), and the
  one SetInput took belongs to the source it will be wired to (`Taken`). In a state
  without frames the second alternative is gone.

`BuffersProofs`, for any kinds, capacities, paddings, stamps and numbers of updates:

- `PointersStayGood`: a pointer into a map stays valid, since the pruning that follows
  goes by the stamp that was asked for (`Reading`), and no other step takes an entry
  out of a map. `Store` keeps the order of the stamps; the lemma `ThoseRight` says what
  the walk over a sequence returns.
- `NothingLeavesEarly`: the action property `Retains`, one case per kind of buffer. For
  a ring it needs that it is no longer than its capacity, which is positive (`Ring`).

Then the pool, for any finite set of handles
(`ThreadPoolAssumption`), any size of the pool and any number of requests:

- `PoolIsSound`: `PoolSound` is inductive as it stands. A thread that was given out
  once and lost no reference counts its handles exactly, so the decrement that returns
  it is that of its last handle; and handles of different requests meet only on threads
  in `shared`. The lemmas count: a handle that comes to hold a thread makes one holder
  more, one that lets go one less (`OneMore`, `OneLess`), and there is one lemma for
  each action.

Then the contexts, for any threads, types, matrices and number of contexts:

- `ThreadsFindTheirOwn`: both default contexts of a thread were made for it
  (`BothOwn`), whichever is found; and a matrix that was not marked could go home at
  once (`Unmarked`), as a change of allocator marks what was made before it, and the
  adapters fix the common allocator to the one that served already.

`ObjectsProofs`, first the factory and its files, for any plugins, types, settings and
numbers of objects:

- `StoreIsSound`: `StoreInv` adds to `StoreSound` what loading relies on: living objects
  have constructors and distinct numbers (`Living`), and a JSON file has an object's
  parameters at the first of its nodes only (`Written`). That the numbers stay below
  the bound needs that a load makes at most one object for each node (`AfterNodes`).
- `StoreRestores`: loading is a fold over the nodes; after k of them the first k
  pointers are those that were saved, and what was met has its parameters (`InPlace`).

Then what the macros make of a class, for any hierarchy of classes and any members:

- `MacrosAgree`: `ReflInv` says that the three traversals of a class visit the same
  fields, which the class or one defined before it declares (`ClassesAre`), that the
  object has these fields and what Init added (`ObjectRecords`), and that an archive has
  one value for each position of `SaveOrder`, the same where a field comes twice
  (`ArchivesAre`): what a base that two paths reach needs, since load reads it twice.
- `ReflKeepsValues`: what `SERIALIZE_` was declared for is kept under its name, and the
  second Init assigns nothing.

Then the parameters, for any finite set of objects, any inputs, outputs, parameters made
at run time, records and contexts:

- `ParametersAreSound`: `ParamInv` has in addition that an object that exists lists all
  it declares. A recompile is a fold over the objects, each turn a fold over its
  records: `After` says how often the parameters of an object report when its turn is
  to come, or has been, and whether a consumer has initialised it before.
- `InputsAreRestored`: the new input begins with both pointers empty, and what is
  rebuilt before its last record is direct or dropped, so its shared one stays empty
  (`Bufferless`). The last record sets the pointer that `Via` asks for, and either is
  then what `Reads` finds (`LastRecordIs`, `Restored`). The turns of other objects
  leave it alone (`OtherLinks`). Without the exception in the property the claim is
  false, and TLC finds the mixed records.

Then the links between objects, for any finite sets of signals and slots and any number
of connections and records:

- `WiresAreSound`: `WireInv` describes the relays for which the history has an entry
  (`Wired`). A relay's slots exist and keep it (`Kept`); a signal has a relay at most
  once (`Orderly`); a signal or slot is in the manager's relay exactly when it joined
  (`Managed`); and each link in force has a relay of its own, which holds its slot and
  which its signal has, while such a relay without a link reaches nobody
  (`LinksKnown`). So the relays by which an emission reaches a slot are, one to one, the
  links between the two and the manager's relay (`ReachedIs`): `ReachesOncePerLink` has
  no proof without that bijection. There is a lemma for each operation on the graph.
- `LinksAreKept`: a recorded link in force has a record (`LinksWritten`), though a
  record may have outlived its link. A recompile is a fold over the replaced objects,
  each turn a fold over its records: `Walked` says which links an object has after the
  first so many records, `LinksRestored` which links there are after so many objects,
  and that those of others are untouched. A slot that is gone has no links to keep.

Conditions beyond the constants' types: leaf callbacks and leaf slots for freedom from
deadlock (nested ones do deadlock), Contexts passed by emissions for the place and the
order of calls, one waiting event for `Sound`, no padding for the pools, the CPU for
`FreesReachTheirBlock`, and one-way data flow for Parameters. For each there is a run
whose behaviours meet it.

**Only model-checked.** Liveness under fairness is out of the prover's reach. Where a
proof needs an induction that can be put into a set, the library's theorems on
well-founded orders give it: chains of inputs, the loops over lists and the folds over
records and files are treated so. A fold gets a lemma that names its intermediate values
(`FoldExists` and, for each, one `...Runs`), and an invariant of these is proved by the
least position at which it could fail.

## 5. Findings

1. `Thread::Main` executes the newest callback of a queue and removes the oldest.
2. `SetInput` by raw pointer does not replace a source that was set by `shared_ptr`;
   and when SetInput releases the last reference to the old source, the death of
   that source takes the new one with it.
3. `GetInput` behind a map or stream buffer deadlocks with an update of the output:
   input then buffer on one side, buffer then input on the other. The tests read
   these buffers with GetData, which does not take the input's mutex.

Beyond these the models reproduce behaviour that no document contradicts, see the
hazards and section 2: `MemoryBlock::allocate` refuses a chunk that fits exactly
(`MemoryBlock.cpp:83`), so a pool that grows for a request cannot serve it from a new
block of exactly its size, and `Grow` has that alternative; the pool of the device leaks
what is freed through a region of interest; an input goes on reading a buffer after a
direct connection; regions overlap when
element sizes are mixed; nested callbacks deadlock; an interruption inside the inner
loop's sleep is swallowed, which is why `JoinReturns` speaks of a Main that is parked.

## 6. Not modelled, and why

`PROJECT.json` lists every component with its status.

- Parameter server and client, ZeroMQ: `ParameterClient` and `ParameterPublisher`
  return false or nothing from every call; the server, compiled with ZeroMQ only,
  answers with a list. There is no protocol yet.
- User interface proxies: what they keep is the state of Qt's widgets.
- Logging, profiling, Python, examples, instantiations: output and glue.
- `RegisterNotifier` of the queues, `ScopeDebugPolicy`, `proxy.hpp`, `BufferPolicy.hpp`
  and `ConstMap.hpp`: nothing in the sources uses them.
- The compiler and the replacement of constructors: RuntimeCompiledCPlusPlus is a
  submodule that is not in the repository. What a recompile does to objects is modelled.
- Formats: cereal's archives, the text form, and formatting in general.
- Rewiring of inputs while other threads update, the first use of a parameter's mutex
  by two threads at once, handles that live through `ThreadPool::Cleanup`: undefined
  behaviour in the code, and conditions under which the models' results hold.
- `TypedInputParameter` and its copy, `Update` from another parameter, subscriber
  counts and flags of parameters; counters of memory usage, which nothing decides on.
- Wiring and emission at once, beyond the connections of `Signals`: Wiring takes one
  call at a time.
