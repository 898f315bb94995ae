----------------------------- MODULE HostAllocators -----------------------------
(***************************************************************************)
(* The host side of the allocators: CpuPoolPolicy, CpuStackPolicy, their   *)
(* mt_ forms, PinnedAllocator, CombinedPolicy, RefCountPolicy for cv::Mat  *)
(* (src/Allocator.cpp, Detail/AllocatorImpl.hpp).                          *)
(*                                                                         *)
(* A request below the threshold is served by a memory pool, another by a  *)
(* stack of freed blocks of exactly its size, else by cudaMallocHost.  The *)
(* pool and the stack are those of the thread that calls, also when a      *)
(* matrix is released, or the global ones of the mt_ policies.  Inside a   *)
(* pool, see MemoryPool: here it is the set of regions it has handed out.  *)
(* The global instances take a mutex for each call; a call is one step.    *)
(***************************************************************************)
EXTENDS Integers, Sequences, FiniteSets, SequencesExt

CONSTANTS
  Threads,
  Global,     (* names the global instances                                   *)
  Mats,       (* matrices and byte allocations that clients hold              *)
  HostBlocks, (* addresses                                                    *)
  HostSizes,
  Threshold,  (* CombinedPolicy: smaller requests go to the pool              *)
  HostInitial, (* initial_size of a pool                                      *)
  Delay,      (* deallocation_delay                                           *)
  HostWord,   (* size_t: numbers below HostWord                               *)
  MaxTime,    (* bound: the clock                                             *)
  MaxBytes    (* bound: byte allocations of a stack                           *)

ASSUME HostAssumption ==
  /\ HostBlocks \subseteq Nat \ {0} /\ HostSizes \subseteq Nat
  /\ HostInitial \in Nat /\ MaxTime \in Nat

Instances == Threads \cup {Global}

VARIABLES
  mat,     (* what each client name holds, Nothing if nothing                 *)
  stack,   (* deallocate_stack of each instance: ptr, free_time, size         *)
  pool,    (* regions handed out by each pool and not taken back              *)
  heap,    (* blocks got from cudaMallocHost and not given back, with sizes   *)
  refs,    (* ref_count of RefCountPolicy<CpuMemoryStackImpl>                 *)
  alive,   (* threads that have not ended                                     *)
  clock,
  lost,    (* history: blocks that no list and no client knows any more       *)
  orphans, (* history: regions whose pool ended with its thread               *)
  aborted  (* an assertion of the code failed: the program has ended          *)

hostVars == <<mat, stack, pool, heap, refs, alive, clock, lost, orphans, aborted>>

Nothing == [ptr |-> 0, size |-> 0, count |-> 0, form |-> "none"]
User == 0     (* no memory of a policy: the user's own data, or nullptr       *)
Garbage == -1 (* an address read from a list node that is freed               *)

HostInit ==
  /\ mat = [m \in Mats |-> Nothing]
  /\ stack = [i \in Instances |-> <<>>] /\ pool = [i \in Instances |-> {}]
  /\ heap = [b \in {} |-> 0] /\ refs = [i \in Instances |-> 0]
  /\ alive = Threads /\ clock = 0 /\ lost = {} /\ orphans = {} /\ aborted = FALSE

InPools == orphans \cup UNION {pool[i] : i \in Instances}
Unused == HostBlocks \ (DOMAIN heap \cup InPools)
Fresh == CHOOSE b \in Unused : \A c \in Unused : b <= c
Without(f, b) == [x \in DOMAIN f \ {b} |-> f[x]]

\* What a client may call: a policy, which it reaches itself or through
\* CpuAllocatorThreadAdapter and the allocator set for its thread or for all;
\* allocateCpu; PinnedStlAllocatorPoolThread; PinnedAllocator is apart.  The
\* release of a matrix goes back to the policy that allocated it.
Forms == {"thread", "mt", "bytes", "stl"}

\* PinnedStlAllocatorPoolThread always asks the pool, CombinedPolicy for less
\* than the threshold.
ToPool(n, form) == n < Threshold \/ form = "stl"

InstanceOf(t, form) == IF form = "mt" THEN Global ELSE t

Hold(m, ptr, n, form) ==
  mat' = [mat EXCEPT ![m] = [ptr |-> ptr, size |-> n, count |-> 1, form |-> form]]

\* A header on data of the user: USER_ALLOCATED, never freed here.
AllocateUser(m, n) ==
  /\ Hold(m, User, n, "thread")
  /\ UNCHANGED <<stack, pool, heap, refs, lost>>

\* A block added for a request of at least half the initial size is not larger
\* than the request, so it may be refused: the client has nullptr.
AllocatePool(t, m, n, form) ==
  /\ ToPool(n, form)
  /\ \/ /\ Unused # {}
        /\ Hold(m, Fresh, n, form)
        /\ pool' = [pool EXCEPT ![InstanceOf(t, form)] = @ \cup {Fresh}]
     \/ n >= HostInitial \div 2 /\ Hold(m, User, n, form) /\ UNCHANGED pool
  /\ UNCHANGED <<stack, heap, refs, lost>>

Fits(s, n) == {k \in DOMAIN s : s[k].size = n}
FirstFit(s, n) == CHOOSE k \in Fits(s, n) : \A j \in Fits(s, n) : k <= j

\* Mutant: the block stays in the list of free blocks.
Unlisted(s, k) == s

Taken(s, k) == RemoveAt(s, k)

\* RefCountPolicy overrides the virtual allocate(size_t), but neither the
\* allocation of matrices nor deallocate(void*, size_t): nothing counts down.
Counted(i, form) == IF form = "bytes" THEN [refs EXCEPT ![i] = @ + 1] ELSE refs

\* The first block of the size is reused.  allocate(size_t) erases the node of
\* the list before it reads the address from it: what the freed node shows is
\* the address, or anything.
AllocateStack(t, m, n, form) ==
  LET i == InstanceOf(t, form)  s == stack[i] IN
  /\ ~ToPool(n, form)
  /\ form = "bytes" => refs[i] < MaxBytes
  /\ refs' = Counted(i, form)
  /\ UNCHANGED pool
  /\ \/ /\ Fits(s, n) # {}
        /\ stack' = [stack EXCEPT ![i] = Taken(s, FirstFit(s, n))]
        /\ LET b == s[FirstFit(s, n)].ptr IN
           \/ Hold(m, b, n, form) /\ UNCHANGED lost
           \/ /\ form = "bytes"
              /\ Hold(m, Garbage, n, form) /\ lost' = lost \cup {b}
        /\ UNCHANGED heap
     \/ /\ Fits(s, n) = {} /\ Unused # {}
        /\ Hold(m, Fresh, n, form)
        /\ heap' = [b \in DOMAIN heap \cup {Fresh} |-> IF b = Fresh THEN n ELSE heap[b]]
        /\ UNCHANGED <<stack, lost>>

AllocatePinned(m, n) ==
  /\ Unused # {}
  /\ Hold(m, Fresh, n, "pinned")
  /\ heap' = [b \in DOMAIN heap \cup {Fresh} |-> IF b = Fresh THEN n ELSE heap[b]]
  /\ UNCHANGED <<stack, pool, refs, lost>>

HostAllocate(t, m, n) ==
  /\ ~aborted /\ t \in alive /\ mat[m] = Nothing
  /\ \/ AllocateUser(m, n) \/ AllocatePinned(m, n)
     \/ \E form \in Forms :
          AllocatePool(t, m, n, form) \/ AllocateStack(t, m, n, form)
  /\ UNCHANGED <<alive, clock, orphans, aborted>>

\* cleanup: the difference of two clock_t is compared as a size_t.  To force
\* it, time is 0, and every difference but that of time 0 wraps to a large one.
Stale(e, time) == (time - e.time) % HostWord > Delay

\* What is not stale, in its order: the loop over the list, up to element k.
Kept(s, time) ==
  LET kept[k \in 0 .. Len(s)] ==
        IF k = 0 THEN <<>>
        ELSE IF Stale(s[k], time) THEN kept[k - 1] ELSE Append(kept[k - 1], s[k])
  IN kept[Len(s)]

\* Mutant: what leaves the list is not given back.
NotFreed(s, time) == {}

FreedAt(s, time) == {s[k].ptr : k \in {j \in DOMAIN s : Stale(s[j], time)}}
AfterFree(s, time) == [b \in DOMAIN heap \ FreedAt(s, time) |-> heap[b]]

ReleaseStack(t, m) ==
  LET i == InstanceOf(t, mat[m].form)
      s == Append(stack[i], [ptr |-> mat[m].ptr, time |-> clock, size |-> mat[m].size])
  IN /\ stack' = [stack EXCEPT ![i] = Kept(s, clock)]
     /\ heap' = AfterFree(s, clock)
     /\ UNCHANGED <<pool, lost>>

\* The pool of the calling thread looks for the region among its own and says
\* no to another's, which nobody hears.  Bytes are never given back.
ReleasePool(t, m) ==
  LET i == InstanceOf(t, mat[m].form)  b == mat[m].ptr IN
  /\ IF mat[m].form # "bytes" /\ b \in pool[i]
     THEN pool' = [pool EXCEPT ![i] = @ \ {b}] /\ UNCHANGED lost
     ELSE lost' = lost \cup {b} /\ UNCHANGED pool
  /\ UNCHANGED <<stack, heap>>

ReleasePinned(m) ==
  heap' = Without(heap, mat[m].ptr) /\ UNCHANGED <<stack, pool, lost>>

Copy(m) ==
  /\ ~aborted /\ mat[m].count = 1 /\ mat[m].form \notin {"bytes", "stl"}
  /\ mat' = [mat EXCEPT ![m].count = 2]
  /\ UNCHANGED <<stack, pool, heap, refs, alive, clock, lost, orphans, aborted>>

\* deallocate acts when the last header goes.  An address that was garbage
\* cannot be returned: freeing it is undefined behaviour, the client keeps it.
HostRelease(t, m) ==
  /\ ~aborted /\ t \in alive /\ mat[m] # Nothing /\ mat[m].ptr # Garbage
  /\ IF mat[m].count > 1
     THEN mat' = [mat EXCEPT ![m].count = @ - 1] /\ UNCHANGED <<stack, pool, heap, lost>>
     ELSE /\ mat' = [mat EXCEPT ![m] = Nothing]
          /\ \/ mat[m].ptr = User /\ UNCHANGED <<stack, pool, heap, lost>>
             \/ mat[m].ptr # User /\ mat[m].form = "pinned" /\ ReleasePinned(m)
             \/ /\ mat[m].ptr # User /\ mat[m].form # "pinned"
                /\ IF ToPool(mat[m].size, mat[m].form) THEN ReleasePool(t, m) ELSE ReleaseStack(t, m)
  /\ UNCHANGED <<refs, alive, clock, orphans, aborted>>

\* The stack of a thread frees its blocks when the thread ends, and its pool
\* the memory of every region it handed out.  The destructor of the stack
\* asserts that ref_count is 0; a failed assertion leaves a destructor by an
\* exception, which ends the program.
ThreadExit(t) ==
  /\ ~aborted /\ t \in alive
  /\ alive' = alive \ {t}
  /\ aborted' = (refs[t] # 0)
  /\ IF refs[t] # 0 THEN UNCHANGED <<stack, heap, lost, pool, orphans>>
     ELSE /\ heap' = AfterFree(stack[t], 0)
          /\ LET left == Kept(stack[t], 0)
             IN lost' = lost \cup {left[k].ptr : k \in DOMAIN left}
          /\ stack' = [stack EXCEPT ![t] = <<>>]
          /\ pool' = [pool EXCEPT ![t] = {}] /\ orphans' = orphans \cup pool[t]
  /\ UNCHANGED <<mat, refs, clock>>

Tick ==
  /\ ~aborted /\ clock < MaxTime /\ clock' = clock + 1
  /\ UNCHANGED <<mat, stack, pool, heap, refs, alive, lost, orphans, aborted>>

HostNext ==
  \/ \E t \in Threads, m \in Mats : HostRelease(t, m) \/ \E n \in HostSizes : HostAllocate(t, m, n)
  \/ \E m \in Mats : Copy(m)
  \/ \E t \in Threads : ThreadExit(t)
  \/ Tick

HostSpec == HostInit /\ [][HostNext]_hostVars

-----------------------------------------------------------------------------
(* Properties *)

HostTypeOK ==
  /\ mat \in [Mats -> [ptr : HostBlocks \cup {User, Garbage}, size : Nat, count : 0..2,
                       form : {"none", "thread", "mt", "bytes", "stl", "pinned"}]]
  /\ stack \in [Instances -> Seq([ptr : HostBlocks, time : Nat, size : Nat])]
  /\ pool \in [Instances -> SUBSET HostBlocks]
  /\ DOMAIN heap \subseteq HostBlocks /\ refs \in [Instances -> Nat]
  /\ alive \subseteq Threads /\ clock \in Nat
  /\ lost \subseteq HostBlocks /\ orphans \subseteq HostBlocks

Used == {m \in Mats : mat[m].ptr \in HostBlocks}
ListedIn(i) == {stack[i][k].ptr : k \in DOMAIN stack[i]}
Listed == UNION {ListedIn(i) : i \in Instances}

\* Through any mix of policies, copies, releases on other threads and threads
\* that end, two clients never share memory, no free list holds memory that is
\* in use or holds it twice, and the memory in use is there, with its size,
\* unless its pool ended with the thread that allocated it.
NeverShared ==
  /\ \A m, o \in Used : m # o => mat[m].ptr # mat[o].ptr
  /\ \A m \in Used :
       /\ mat[m].ptr \notin Listed
       /\ \/ mat[m].ptr \in DOMAIN heap /\ heap[mat[m].ptr] = mat[m].size
          \/ mat[m].ptr \in InPools
  /\ \A i, j \in Instances : i # j => ListedIn(i) \cap ListedIn(j) = {}
  /\ \A i \in Instances : Cardinality(ListedIn(i)) = Len(stack[i])
  /\ Listed \subseteq DOMAIN heap

\* What cudaMallocHost or a pool gave is in use or free in a list.  Only these
\* ways lose it: bytes of a pool, a region released on another thread, a freed
\* node that showed garbage, a block freed at time 0 when the stack ends.
HostConserves ==
  DOMAIN heap \cup InPools \subseteq {mat[m].ptr : m \in Used} \cup Listed \cup lost \cup orphans

HostSound == HostTypeOK /\ NeverShared /\ HostConserves

===============================================================================
