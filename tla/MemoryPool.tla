------------------------------- MODULE MemoryPool ------------------------------
(***************************************************************************)
(* The pools that hand out memory from MemoryBlocks: CpuMemoryPoolImpl     *)
(* (src/src/Allocator.cpp) and PoolPolicy<GpuMat>                          *)
(* (include/MetaObject/Detail/AllocatorImpl.hpp of src).  A request goes to*)
(* the blocks in order; when none serves it, the pool adds a block.        *)
(*                                                                         *)
(* A pool belongs to one thread, or each operation holds its mutex, so an  *)
(* operation is one step.                                                  *)
(***************************************************************************)
EXTENDS MemoryBlock, Sequences, FiniteSets

CONSTANTS
  InitialSize,   (* _initial_block_size                                       *)
  Sizes,         (* the sizes that clients ask for                            *)
  ElemSizes,     (* the alignments they ask for                               *)
  Bases,         (* where the backing allocator puts blocks                   *)
  Gpu,           (* TRUE: PoolPolicy<GpuMat>, FALSE: CpuMemoryPoolImpl        *)
  MaxBlocks,     (* bound: blocks of the pool                                 *)
  MaxEntries     (* bound: entries in the map of a block, and regions held     *)

ASSUME PoolAssumption ==
  /\ InitialSize \in Nat \ {0}
  /\ Sizes \subseteq Nat \ {0}
  /\ ElemSizes \subseteq Nat \ {0}
  /\ Bases \subseteq Nat
  /\ Gpu \in BOOLEAN
  /\ MaxBlocks \in Nat /\ MaxEntries \in Nat
  /\ Word \in Nat

VARIABLES
  blocks,   (* the list of blocks                                             *)
  held,     (* the regions clients hold: where, and what they asked for       *)
  padded    (* history: whether memory was ever placed behind padding         *)

vars == <<blocks, held, padded>>

Apart(b, c) == b.end <= c.begin \/ c.end <= b.begin

Init ==
  /\ \E base \in Bases : blocks = <<NewBlock(base, InitialSize)>>
  /\ held = {}
  /\ padded = FALSE

Serves(i, size, e) == Allocate(blocks[i], size, e) # {}

(* The client receives the memory of candidate c.                          *)
Give(c, size, e) ==
  /\ held' = held \cup {[ptr |-> c.ptr, size |-> size, elem |-> e]}
  /\ padded' = (padded \/ c.padded)

(* The first block that has room serves the request.                       *)
Serve(size, e) ==
  /\ Cardinality(held) < MaxEntries
  /\ \A i \in DOMAIN blocks : Cardinality(blocks[i].used) < MaxEntries
  /\ \E i \in DOMAIN blocks :
       /\ \A j \in DOMAIN blocks : j < i => ~Serves(j, size, e)
       /\ \E c \in Allocate(blocks[i], size, e) :
            /\ blocks' = [blocks EXCEPT ![i] = Take(@, c.ptr, size)]
            /\ Give(c, size, e)

Larger(m, n) == IF m < n THEN n ELSE m

(* None has: a new block, large enough for half the initial size and for   *)
(* the request, is added and asked.  It stays when it does not serve.      *)
Grow(size, e) ==
  /\ \A i \in DOMAIN blocks : ~Serves(i, size, e)
  /\ Len(blocks) < MaxBlocks
  /\ \E base \in Bases :
       LET b == NewBlock(base, Larger(InitialSize \div 2, size)) IN
       /\ \A i \in DOMAIN blocks : Apart(b, blocks[i])
       /\ \/ \E c \in Allocate(b, size, e) :
               /\ blocks' = Append(blocks, Take(b, c.ptr, size))
               /\ Give(c, size, e)
          \/ /\ Allocate(b, size, e) = {}
             /\ blocks' = Append(blocks, b)
             /\ UNCHANGED <<held, padded>>

(* The CPU pool asks the block that contains p, the GPU pool asks the      *)
(* blocks in order until one says yes.                                     *)
Accepts(b, p) ==
  DeAllocates(b, p) /\ (Gpu \/ p < b.end)

Free(h) ==
  /\ h \in held
  /\ \E i \in DOMAIN blocks :
       /\ Accepts(blocks[i], h.ptr)
       /\ \A j \in DOMAIN blocks : j < i => ~Accepts(blocks[j], h.ptr)
       /\ blocks' = [blocks EXCEPT ![i] = Release(@, h.ptr)]
  /\ held' = held \ {h}
  /\ UNCHANGED padded

(* No block does: deallocate returns false, free throws.                   *)
FreeFails(h) ==
  /\ h \in held
  /\ \A i \in DOMAIN blocks : ~Accepts(blocks[i], h.ptr)
  /\ held' = held \ {h}
  /\ UNCHANGED <<blocks, padded>>

Next ==
  \/ \E size \in Sizes, e \in ElemSizes : Serve(size, e) \/ Grow(size, e)
  \/ \E h \in held : Free(h) \/ FreeFails(h)

Spec == Init /\ [][Next]_vars

----------------------------------------------------------------------------
(* Properties                                                              *)

(* The variables have their types.                                         *)
Entries == [from : Nat, to : Nat]

TypeOK ==
  /\ blocks \in Seq([begin : Nat, end : Nat, used : SUBSET Entries])
  /\ held \subseteq [ptr : Nat, size : Sizes, elem : ElemSizes]
  /\ padded \in BOOLEAN

(* The memory two clients hold does not overlap, and all of it is memory of*)
(* the pool: best fit, growth and release never hand out a byte twice.  As *)
(* long as no request needed padding, that is: allocate adds the padding to*)
(* the size of a hole where it should take it away.                        *)
Disjoint ==
  /\ \A g, h \in held : g # h => g.ptr + g.size <= h.ptr \/ h.ptr + h.size <= g.ptr
  /\ \A h \in held : \E i \in DOMAIN blocks :
       blocks[i].begin <= h.ptr /\ h.ptr + h.size <= blocks[i].end

NoOverlap == ~padded => Disjoint

(* Nothing is lost: what the blocks record as allocated is what clients    *)
(* hold, so memory given back can be handed out again.                     *)
NothingLeaks ==
  ~padded =>
    UNION {{x.from : x \in blocks[i].used} : i \in DOMAIN blocks} = {h.ptr : h \in held}

(* Memory begins at a multiple of the element size it was asked for with,  *)
(* whatever sizes and alignments came before.                              *)
Aligned == \A h \in held : h.ptr % h.elem = 0

(* The maximal runs of free bytes of a block, from the bytes.              *)
FreeByte(b, a) ==
  b.begin <= a /\ a < b.end /\ \A x \in b.used : a < x.from \/ x.to <= a
Begins(b) == {a \in b.begin .. b.end : FreeByte(b, a) /\ ~FreeByte(b, a - 1)}
Ends(b) == {a \in b.begin .. b.end : ~FreeByte(b, a) /\ FreeByte(b, a - 1)}
FreeRuns(b) ==
  {r \in Begins(b) \X Ends(b) : r[1] < r[2] /\ \A a \in r[1] .. r[2] - 1 : FreeByte(b, a)}

(* Best fit against its definition over bytes: memory comes from the start *)
(* of a smallest run that is larger than the request.                      *)
BestFit ==
  ~padded => \A i \in DOMAIN blocks :
    LET runs == FreeRuns(blocks[i]) IN
    \A size \in Sizes : \A c \in Allocate(blocks[i], size, 1) :
      \E r \in runs :
        /\ r[1] = c.ptr /\ r[2] - r[1] > size
        /\ \A q \in runs : q[2] - q[1] > size => r[2] - r[1] <= q[2] - q[1]

(* Memory that a block serves is aligned, and from its smallest sufficient *)
(* hole.                                                                   *)
FitsBest == Aligned /\ BestFit

================================================================================
