---------------------------- MODULE DeviceAllocators ----------------------------
(***************************************************************************)
(* The device side of the allocators (Detail/AllocatorImpl.hpp): SizeNeeded*)
(* of the padding policies, StackPolicy<GpuMat>, NonCachingPolicy, and the *)
(* combined allocator with its lock and its reference count.               *)
(*                                                                         *)
(* A GpuMat is freed through the header that goes last, which may show a   *)
(* part of the matrix only (a region of interest).  StackPolicy records    *)
(* that header's data pointer, CombinedPolicy routes by that header's size,*)
(* and a block of the pool says yes to any address in it, its end too,     *)
(* whether a region begins there or not.  LockPolicy holds its mutex for   *)
(* each call, and an allocator without it belongs to one thread: a call is *)
(* one step.  memoryUsage, which is never initialised and decides nothing, *)
(* is left out.                                                            *)
(***************************************************************************)
EXTENDS Integers, Sequences, FiniteSets, SequencesExt

CONSTANTS
  GpuMats,    (* matrices and byte allocations of the clients                 *)
  GpuBlocks,  (* addresses, a set of positive numbers                         *)
  Shapes,     (* pairs <<rows, bytes of a row>> that clients ask for          *)
  ByteSizes,
  Alignment,  (* textureAlignment                                             *)
  Pitch,      (* external: cudaMallocPitch rounds a row up to a multiple      *)
  Small,      (* CombinedPolicy's threshold                                   *)
  GpuInitial, (* _initial_block_size of the pool                              *)
  GpuDelay,   (* deallocateDelay                                              *)
  MaxGpuTime, (* bound: the clock                                             *)
  MaxFree     (* bound: entries of the list of free blocks                    *)

ASSUME DeviceAssumption ==
  /\ IsFiniteSet(GpuMats) /\ GpuBlocks \subseteq Nat \ {0}
  /\ Shapes \subseteq (Nat \ {0}) \X (Nat \ {0}) /\ ByteSizes \subseteq Nat
  /\ Alignment \in Nat \ {0} /\ Pitch \in Nat \ {0}
  /\ Small \in Nat /\ GpuInitial \in Nat /\ GpuDelay \in Nat /\ MaxGpuTime \in Nat /\ MaxFree \in Nat

VARIABLES
  policy,   (* the allocator: "stack", "universal" (RefCountPolicy of         *)
            (* CombinedPolicy) or "plain" (NonCachingPolicy)                  *)
  gmat,     (* what each client name holds                                    *)
  free,     (* deallocateList                                                 *)
  sizes,    (* current_allocations                                            *)
  gheap,    (* blocks got from CUDA and not given back, with their sizes      *)
  region,   (* regions handed out by the pool                                 *)
  gcount,   (* ref_count                                                      *)
  time,
  leaked,   (* history: blocks and regions that were released, and that no    *)
            (* list took back                                                 *)
  thrown    (* an exception left a call that frees, mostly from a destructor: *)
            (* the program has ended                                          *)

devVars == <<policy, gmat, free, sizes, gheap, region, gcount, time, leaked,
             thrown>>

\* off: the address is inside the block; area: rows * cols * elemSize.
NoMat == [ptr |-> 0, off |-> FALSE, size |-> 0, area |-> 0, bytes |-> FALSE]

DeviceInit ==
  /\ policy \in {"stack", "universal", "plain"}
  /\ gmat = [m \in GpuMats |-> NoMat] /\ free = <<>>
  /\ sizes = [b \in {} |-> 0] /\ gheap = [b \in {} |-> 0] /\ region = {}
  /\ gcount = 0 /\ time = 0 /\ leaked = {} /\ thrown = FALSE

RoundUp(n, unit) == IF n % unit = 0 THEN n ELSE n + unit - (n % unit)

\* PitchedPolicy::SizeNeeded: a single row or column has no padding; a column
\* counts as one row here.
SizeNeeded(shape) ==
  (IF shape[1] = 1 THEN shape[2] ELSE RoundUp(shape[2], Alignment)) * shape[1]

\* cudaMallocPitch and cudaMalloc decide the size of a new block themselves.
NewSize(shape) == (IF shape[1] = 1 THEN shape[2] ELSE RoundUp(shape[2], Pitch)) * shape[1]

NewAddress == GpuBlocks \ (DOMAIN gheap \cup region)
Lowest(S) == CHOOSE b \in S : \A c \in S : b <= c
With(f, b, n) == [x \in DOMAIN f \cup {b} |-> IF x = b THEN n ELSE f[x]]
Less(f, S) == [x \in DOMAIN f \ S |-> f[x]]
\* Mutant: the entry is reused when it is large enough for half the request.
FitsRoughly(n) == {k \in DOMAIN free : 2 * free[k].size >= n}

FitsAt(n) == {k \in DOMAIN free : free[k].size = n}

GiveMat(m, b, off, n, area) ==
  gmat' = [gmat EXCEPT ![m] = [ptr |-> b, off |-> off, size |-> n,
                               area |-> area, bytes |-> area = 0]]

\* StackPolicy::allocate: an entry of exactly the size needed, else new memory
\* of size fresh.  allocate(size_t) (area 0) notes the size of the address.
FromStack(m, n, fresh, area) ==
  /\ \/ /\ FitsAt(n) # {}
        /\ LET e == free[Lowest(FitsAt(n))] IN GiveMat(m, e.ptr, e.off, n, area)
        /\ free' = RemoveAt(free, Lowest(FitsAt(n)))
        /\ UNCHANGED gheap
     \/ /\ FitsAt(n) = {} /\ NewAddress # {}
        /\ GiveMat(m, Lowest(NewAddress), FALSE, fresh, area)
        /\ gheap' = With(gheap, Lowest(NewAddress), fresh)
        /\ UNCHANGED free
  /\ sizes' = IF area = 0 THEN With(sizes, gmat'[m].ptr, n) ELSE sizes
  /\ UNCHANGED region

\* PoolPolicy::allocate: when no block has room, one of half the initial size or
\* of the request is added, and a block serves only requests that are smaller.
\* A matrix refused is cv's to allocate elsewhere, bytes refused are nullptr.
FromPool(m, n, area) ==
  /\ \/ /\ NewAddress # {}
        /\ GiveMat(m, Lowest(NewAddress), FALSE, n, area)
        /\ region' = region \cup {Lowest(NewAddress)}
     \/ n >= GpuInitial \div 2 /\ UNCHANGED <<gmat, region>>
  /\ UNCHANGED <<free, sizes, gheap>>

FromCuda(m, n, area) ==
  /\ NewAddress # {}
  /\ GiveMat(m, Lowest(NewAddress), FALSE, n, area)
  /\ gheap' = With(gheap, Lowest(NewAddress), n)
  /\ UNCHANGED <<free, sizes, region>>

\* The combined allocator compares the bytes of the matrix, without padding.
AllocateMat(m, shape) ==
  LET area == shape[1] * shape[2] IN
  \/ policy = "stack" /\ FromStack(m, SizeNeeded(shape), NewSize(shape), area)
  \/ policy = "universal" /\ area < Small /\ FromPool(m, SizeNeeded(shape), area)
  \/ /\ policy = "universal" /\ area >= Small
     /\ FromStack(m, SizeNeeded(shape), NewSize(shape), area)
  \/ policy = "plain" /\ FromCuda(m, NewSize(shape), area)

\* allocateGpu: the combined allocator asks the pool, whatever the size.
AllocateBytes(m, n) ==
  \/ policy = "stack" /\ FromStack(m, n, n, 0)
  \/ policy = "universal" /\ FromPool(m, n, 0)
  \/ policy = "plain" /\ FromCuda(m, n, 0)

\* Mutant: a request that the pool refuses is counted.
AnyCounted == IF policy = "universal" THEN gcount + 1 ELSE gcount

CountMore == IF policy = "universal" /\ gmat' # gmat THEN gcount + 1 ELSE gcount

DeviceAllocate(m) ==
  /\ ~thrown /\ gmat[m] = NoMat
  /\ \/ \E shape \in Shapes : AllocateMat(m, shape)
     \/ \E n \in ByteSizes : AllocateBytes(m, n)
  /\ gcount' = CountMore
  /\ UNCHANGED <<policy, time, leaked, thrown>>

TooOld(e) == time - e.time > GpuDelay

\* clear: the iterator that erase returns is incremented at once, so the entry
\* behind an erased one is skipped; behind the last it wraps to the first.
ClearStep(c) ==
  IF c.at > Len(c.list) THEN c
  ELSE IF ~TooOld(c.list[c.at]) THEN [list |-> c.list, at |-> c.at + 1]
  ELSE LET r == RemoveAt(c.list, c.at) IN
       [list |-> r, at |-> IF c.at <= Len(r) THEN c.at + 1 ELSE 1]

\* The loop.  At most Len(s) entries are erased, and before and after each the
\* iterator takes at most Len(s) steps.
Cleared(s) ==
  LET steps == (Len(s) + 1) * (Len(s) + 1)
      cleared[n \in 0 .. steps] ==
        IF n = 0 THEN [list |-> s, at |-> 1] ELSE ClearStep(cleared[n - 1])
  IN cleared[steps].list

\* Mutant: clear frees a block and leaves its entry in the list.
AllKept(s) == s

Swept(s) == Cleared(s)

\* cudaFree refuses an address inside a block.
GiveBack(s, kept) ==
  LET gone == ToSet(s) \ ToSet(kept) IN
  /\ gheap' = Less(gheap, {e.ptr : e \in gone})
  /\ thrown' = \E e \in gone : e.off

\* A freed block waits in the list until clear finds it too old.
ToList(b, off, n) ==
  LET s == Append(free, [ptr |-> b, off |-> off, time |-> time, size |-> n]) IN
  /\ Len(free) < MaxFree
  /\ free' = Swept(s) /\ GiveBack(s, Cleared(s))

\* PoolPolicy::free and deallocate: the first block with the address in it, from
\* begin to end, says yes, and forgets the region that begins there, if any.  So
\* a header that begins inside its region leaves the region allocated, and so
\* does any when the block before the region's own ends where that one begins.
TakeBack(b, inside) ==
  \/ ~inside /\ region' = region \ {b} /\ UNCHANGED leaked
  \/ leaked' = leaked \cup {b} /\ UNCHANGED region

\* free(GpuMat*) through a header that begins where the matrix does, or inside,
\* and shows less than the threshold or not (tiny).  cudaFree refuses an address
\* inside a block.  The pool throws when the matrix is the stack's, unless that
\* begins where a block of the pool ends.
FreeMat(m, inside, tiny) ==
  LET b == gmat[m].ptr IN
  \/ /\ policy = "plain" /\ gheap' = Less(gheap, {b}) /\ thrown' = inside
     /\ UNCHANGED <<free, region, leaked>>
  \/ /\ policy = "stack" \/ (policy = "universal" /\ ~tiny)
     /\ ToList(b, gmat[m].off \/ inside, gmat[m].size)
     /\ UNCHANGED <<region, leaked>>
  \/ /\ policy = "universal" /\ tiny
     /\ \/ b \in region /\ TakeBack(b, inside) /\ UNCHANGED thrown
        \/ b \notin region /\ thrown' = TRUE /\ UNCHANGED <<region, leaked>>
        \/ /\ b \notin region /\ ~inside /\ ~gmat[m].off
           /\ leaked' = leaked \cup {b} /\ UNCHANGED <<region, thrown>>
     /\ UNCHANGED <<free, gheap>>

\* deallocate: the entry of current_allocations is erased before its size is
\* read, so the list is told size 0, and so is the map.
FreeBytes(m) ==
  LET b == gmat[m].ptr IN
  \/ /\ policy = "stack" /\ b \in DOMAIN sizes /\ sizes' = With(sizes, b, 0)
     /\ ToList(b, gmat[m].off, 0) /\ UNCHANGED <<region, leaked>>
  \/ /\ policy = "universal" /\ TakeBack(b, FALSE)
     /\ UNCHANGED <<free, sizes, gheap, thrown>>
  \/ /\ policy = "plain" /\ gheap' = Less(gheap, {b})
     /\ UNCHANGED <<free, sizes, region, leaked, thrown>>

\* Mutant: the return of bytes is not counted.
MatsCounted(m) == IF policy = "universal" /\ ~gmat[m].bytes THEN gcount - 1 ELSE gcount

CountAfter(m) == IF policy = "universal" /\ ~thrown' THEN gcount - 1 ELSE gcount

DeviceFree(m) ==
  /\ ~thrown /\ gmat[m] # NoMat
  /\ \/ gmat[m].bytes /\ FreeBytes(m)
     \/ /\ ~gmat[m].bytes /\ UNCHANGED sizes
        /\ \E inside, tiny \in BOOLEAN :
             (gmat[m].area < Small => tiny) /\ FreeMat(m, inside, tiny)
  /\ gcount' = CountAfter(m)
  /\ gmat' = [gmat EXCEPT ![m] = NoMat] /\ UNCHANGED <<policy, time>>

\* Release empties the list, and the pool: with regions in use that would take
\* them from under their clients.
ReleaseAll ==
  /\ ~thrown /\ policy # "plain" /\ region \subseteq leaked
  /\ free' = <<>> /\ GiveBack(free, <<>>)
  /\ region' = {} /\ leaked' = leaked \ region
  /\ UNCHANGED <<policy, gmat, sizes, gcount, time>>

DeviceTick ==
  /\ ~thrown /\ time < MaxGpuTime /\ time' = time + 1
  /\ UNCHANGED <<policy, gmat, free, sizes, gheap, region, gcount, leaked, thrown>>

DeviceNext ==
  \/ \E m \in GpuMats : DeviceAllocate(m) \/ DeviceFree(m)
  \/ ReleaseAll \/ DeviceTick

DeviceSpec == DeviceInit /\ [][DeviceNext]_devVars

-----------------------------------------------------------------------------
(* Properties *)

DeviceTypeOK ==
  /\ gmat \in [GpuMats -> [ptr : GpuBlocks \cup {0}, off : BOOLEAN, size : Nat,
                            area : Nat, bytes : BOOLEAN]]
  /\ free \in Seq([ptr : GpuBlocks, off : BOOLEAN, time : Nat, size : Nat])
  /\ DOMAIN gheap \subseteq GpuBlocks /\ DOMAIN sizes \subseteq GpuBlocks
  /\ region \subseteq GpuBlocks /\ gcount \in Nat /\ time \in Nat
  /\ leaked \subseteq GpuBlocks /\ thrown \in BOOLEAN

Live == {m \in GpuMats : gmat[m] # NoMat}
Waiting == {free[k].ptr : k \in DOMAIN free}

\* Across shapes, paddings, reuse and the sweeps of the list, clients never
\* share a block, the list holds no block in use and none twice, and who got
\* a block by its first address has all the bytes that were asked for.
NoneShared ==
  ~thrown =>
    /\ \A m, o \in Live : m # o => gmat[m].ptr # gmat[o].ptr
    /\ \A m \in Live :
         /\ gmat[m].ptr \notin Waiting
         /\ \/ gmat[m].ptr \in region
            \/ /\ gmat[m].ptr \in DOMAIN gheap
               /\ gmat[m].off \/ gheap[gmat[m].ptr] >= gmat[m].size
    /\ Waiting \subseteq DOMAIN gheap /\ Cardinality(Waiting) = Len(free)

\* What CUDA or the pool gave is in use, waits in the list or was leaked by the
\* pool's answer to an address that no region begins at; no other policy leaks,
\* and nothing leaked is in use again or waits.  The reference count of the
\* combined allocator is the number of its matrices and byte regions, whichever
\* of its parts a request or a release went to and whatever that answered.
DeviceCounts ==
  ~thrown =>
    /\ DOMAIN gheap \cup region \subseteq {gmat[m].ptr : m \in Live} \cup Waiting \cup leaked
    /\ leaked \cap ({gmat[m].ptr : m \in Live} \cup Waiting) = {}
    /\ leaked \subseteq DOMAIN gheap \cup region
    /\ policy # "universal" => leaked = {}
    /\ policy = "universal" => gcount = Cardinality(Live)

\* Memory of the device goes to one client at a time (NoneShared), and the ways
\* to lose it are those of the pool (DeviceCounts).
DeviceSound == DeviceTypeOK /\ NoneShared /\ DeviceCounts

===============================================================================
