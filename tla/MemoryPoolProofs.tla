---------------------------- MODULE MemoryPoolProofs ---------------------------
(***************************************************************************)
(* The pools never hand out a byte twice, for any sizes, blocks and order  *)
(* of requests, as long as no request needs padding: requests for bytes, as*)
(* CpuMemoryPool::allocate(num_bytes) and PoolPolicy::allocate(sizeNeeded) *)
(* make them, never do.  After padding they do hand bytes out twice.       *)
(* Without padding the CPU pool loses nothing either; types and alignment  *)
(* hold with it too.                                                       *)
(***************************************************************************)
EXTENDS MemoryPool, SequenceTheorems, TLAPS

Block == [begin : Nat, end : Nat, used : SUBSET Entries]

(* The entries of a block lie in the block, none is empty, and no two      *)
(* overlap.                                                                *)
BlockOK(b) ==
  /\ b \in Block
  /\ b.begin <= b.end
  /\ \A x \in b.used : b.begin <= x.from /\ x.from < x.to /\ x.to <= b.end
  /\ \A x, y \in b.used : x # y => x.to <= y.from \/ y.to <= x.from

Region(h) == [from |-> h.ptr, to |-> h.ptr + h.size]

(* The inductive invariant: the blocks are in order and apart, and what a  *)
(* client holds is an entry of a block.                                    *)
Tidy ==
  /\ blocks \in Seq(Block)
  /\ held \subseteq [ptr : Nat, size : Sizes, elem : ElemSizes]
  /\ \A i \in DOMAIN blocks : BlockOK(blocks[i])
  /\ \A i, j \in DOMAIN blocks : i # j => Apart(blocks[i], blocks[j])
  /\ \A h \in held : \E i \in DOMAIN blocks : Region(h) \in blocks[i].used
  /\ \A g, h \in held : g # h => g.ptr # h.ptr

PoolInv == padded \in BOOLEAN /\ (~padded => Tidy)

(* What is invariant when clients only ask for bytes.                      *)
PlainInv == Tidy /\ padded = FALSE

----------------------------------------------------------------------------
(* What MemoryBlock::allocate and the updates of the map do to one block   *)

LEMMA NoPadding ==
  ASSUME NEW lo \in Nat, NEW hi, NEW e, ~Candidate(lo, hi, e).padded
  PROVE  Candidate(lo, hi, e).ptr = lo
<1>1. alignmentOffset(lo, e) = 0
  BY DEF Candidate
<1> QED
  BY <1>1 DEF Candidate

(* A hole lies between the entries.                                        *)
LEMMA HoleBefore ==
  ASSUME NEW b, BlockOK(b), NEW x \in b.used, NEW lo \in Before(b, x.from)
  PROVE  /\ lo \in Nat /\ b.begin <= lo
         /\ \A y \in b.used : y.to <= lo \/ x.from <= y.from
<1>1. CASE \A y \in b.used : y.from >= x.from
  BY <1>1 DEF BlockOK, Before, Block
<1>2. CASE ~(\A y \in b.used : y.from >= x.from)
  <2>1. PICK y \in b.used : lo = y.to /\ \A z \in b.used : z.from < x.from => z.from <= y.from
    BY <1>2 DEF Before
  <2> QED
    BY <2>1 DEF BlockOK, Block, Entries
<1> QED BY <1>1, <1>2

LEMMA HoleAfter ==
  ASSUME NEW b, BlockOK(b), NEW lo \in LastHole(b)
  PROVE  /\ lo \in Nat /\ b.begin <= lo
         /\ \A y \in b.used : y.to <= lo
<1>1. CASE b.used = {}
  BY <1>1 DEF BlockOK, LastHole, Block
<1>2. CASE b.used # {}
  <2>1. PICK y \in b.used : lo = y.to /\ \A z \in b.used : z.from <= y.from
    BY <1>2 DEF LastHole
  <2> QED
    BY <2>1 DEF BlockOK, Block, Entries
<1> QED BY <1>1, <1>2

(* Memory that a block hands out lies in the block and in no entry.        *)
LEMMA AllocateFree ==
  ASSUME NEW b, BlockOK(b), NEW size \in Nat \ {0}, NEW e,
         NEW c \in Allocate(b, size, e), ~c.padded
  PROVE  /\ c.ptr \in Nat /\ b.begin <= c.ptr /\ c.ptr + size <= b.end
         /\ \A y \in b.used : c.ptr + size <= y.from \/ y.to <= c.ptr
<1> DEFINE p == c.ptr
<1>1. c \in Candidates(b, size, e)
  BY DEF Allocate
<1>2. CASE (\E x \in b.used : \E lo \in Before(b, x.from) :
              Span(x.from, lo) > size /\ c = Candidate(lo, x.from, e))
  <2>0. PICK x \in b.used :
          (\E lo \in Before(b, x.from) :
             Span(x.from, lo) > size /\ c = Candidate(lo, x.from, e))
    BY <1>2
  <2>1. PICK lo \in Before(b, x.from) :
          Span(x.from, lo) > size /\ c = Candidate(lo, x.from, e)
    BY <2>0
  <2>2. lo \in Nat /\ b.begin <= lo /\ \A y \in b.used : y.to <= lo \/ x.from <= y.from
    BY HoleBefore
  <2>3. p = lo
    BY <2>1, <2>2, NoPadding
  <2>4. CASE lo <= x.from
    <3>1. x.from - lo > size
      BY <2>1, <2>4 DEF Span
    <3> QED
      BY <2>2, <2>3, <3>1 DEF BlockOK, Block, Entries
  <2>5. CASE ~(lo <= x.from)
    <3>1. PICK y \in b.used : lo = y.to /\ y.from < x.from
      BY <2>2, <2>5 DEF Before, BlockOK, Block, Entries
    <3> QED
      BY <3>1, <2>5 DEF BlockOK, Block, Entries
  <2> QED BY <2>4, <2>5
<1>3. CASE (\E lo \in LastHole(b) :
              Span(b.end, lo) >= size /\ c = Candidate(lo, b.end, e))
  <2>1. PICK lo \in LastHole(b) : Span(b.end, lo) >= size /\ c = Candidate(lo, b.end, e)
    BY <1>3
  <2>2. lo \in Nat /\ b.begin <= lo /\ \A y \in b.used : y.to <= lo
    BY HoleAfter
  <2>3. p = lo
    BY <2>1, <2>2, NoPadding
  <2>4. lo <= b.end
    BY DEF LastHole, BlockOK, Block, Entries
  <2>5. b.end - lo >= size
    BY <2>1, <2>4 DEF Span
  <2> QED
    BY <2>2, <2>3, <2>5 DEF BlockOK, Block, Entries
<1>4. ASSUME NEW x \in b.used, c \in HoleCandidates(b, x, size, e)
      PROVE  \E lo \in Before(b, x.from) :
               Span(x.from, lo) > size /\ c = Candidate(lo, x.from, e)
  BY <1>4 DEF HoleCandidates
<1>5. ASSUME c \in LastCandidates(b, size, e)
      PROVE  \E lo \in LastHole(b) : Span(b.end, lo) >= size /\ c = Candidate(lo, b.end, e)
  BY <1>5 DEF LastCandidates
<1>6. \/ \E x \in b.used : c \in HoleCandidates(b, x, size, e)
      \/ c \in LastCandidates(b, size, e)
  BY <1>1 DEF Candidates
<1> QED
  BY <1>2, <1>3, <1>4, <1>5, <1>6

LEMMA TakeOK ==
  ASSUME NEW b, BlockOK(b), NEW size \in Nat \ {0}, NEW e,
         NEW c \in Allocate(b, size, e), ~c.padded
  PROVE  /\ BlockOK(Take(b, c.ptr, size))
         /\ Take(b, c.ptr, size).used = b.used \cup {[from |-> c.ptr, to |-> c.ptr + size]}
         /\ Take(b, c.ptr, size).begin = b.begin /\ Take(b, c.ptr, size).end = b.end
<1> DEFINE p == c.ptr
           new == [from |-> p, to |-> p + size]
<1>1. /\ p \in Nat /\ b.begin <= p /\ p + size <= b.end
      /\ \A y \in b.used : p + size <= y.from \/ y.to <= p
  BY AllocateFree
<1>2. \A y \in b.used : y.from # p
  BY <1>1 DEF BlockOK, Block, Entries
<1>3. Take(b, p, size) = [b EXCEPT !.used = b.used \cup {new}]
  BY <1>2 DEF Take, BlockOK, Block
<1>4. new \in Entries
  BY <1>1 DEF Entries
<1>5. Take(b, p, size) \in Block /\ Take(b, p, size).used = b.used \cup {new}
      /\ Take(b, p, size).begin = b.begin /\ Take(b, p, size).end = b.end
  BY <1>3, <1>4 DEF BlockOK, Block
<1> QED
  BY <1>1, <1>4, <1>5 DEF BlockOK, Block, Entries

LEMMA ReleaseOK ==
  ASSUME NEW b, BlockOK(b), NEW p \in Nat
  PROVE  /\ BlockOK(Release(b, p))
         /\ Release(b, p).used = {x \in b.used : x.from # p}
         /\ Release(b, p).begin = b.begin /\ Release(b, p).end = b.end
  BY DEF BlockOK, Release, Block

LEMMA NewOK ==
  ASSUME NEW base \in Nat, NEW size \in Nat
  PROVE  /\ BlockOK(NewBlock(base, size))
         /\ NewBlock(base, size).used = {}
  BY DEF BlockOK, NewBlock, Block

----------------------------------------------------------------------------
(* The pool                                                                *)

LEMMA InitOK == Init => Tidy
<1> SUFFICES ASSUME Init PROVE Tidy
  OBVIOUS
<1>1. PICK base \in Bases : blocks = <<NewBlock(base, InitialSize)>>
  BY DEF Init
<1>2. BlockOK(NewBlock(base, InitialSize))
  BY NewOK, PoolAssumption
<1>3. NewBlock(base, InitialSize) \in Block
  BY <1>2 DEF BlockOK
<1>4. blocks \in Seq(Block) /\ DOMAIN blocks = {1} /\ blocks[1] = NewBlock(base, InitialSize)
  BY <1>1, <1>3
<1> QED
  BY <1>2, <1>4 DEF Init, Tidy

(* One block changes, its bounds do not, and the entries of the clients    *)
(* that remain are still there.                                            *)
LEMMA BlockStep ==
  ASSUME Tidy, NEW i \in DOMAIN blocks, NEW b, BlockOK(b),
         b.begin = blocks[i].begin, b.end = blocks[i].end,
         blocks' = [blocks EXCEPT ![i] = b]
  PROVE  /\ blocks' \in Seq(Block) /\ DOMAIN blocks' = DOMAIN blocks
         /\ blocks'[i] = b
         /\ \A j \in DOMAIN blocks : j # i => blocks'[j] = blocks[j]
         /\ \A j \in DOMAIN blocks : BlockOK(blocks'[j])
         /\ \A j, k \in DOMAIN blocks : j # k => Apart(blocks'[j], blocks'[k])
<1>1. blocks \in Seq(Block) /\ b \in Block
  BY DEF Tidy, BlockOK
<1>2. blocks' \in Seq(Block) /\ DOMAIN blocks' = DOMAIN blocks
  BY <1>1
<1>3. blocks'[i] = b /\ \A j \in DOMAIN blocks : j # i => blocks'[j] = blocks[j]
  BY <1>1
<1>4. \A j \in DOMAIN blocks : BlockOK(blocks'[j])
  BY <1>3 DEF Tidy
<1>5. \A j \in DOMAIN blocks : blocks'[j].begin = blocks[j].begin /\ blocks'[j].end = blocks[j].end
  BY <1>3
<1>6. \A j, k \in DOMAIN blocks : j # k => Apart(blocks'[j], blocks'[k])
  BY <1>5 DEF Tidy, Apart
<1> QED BY <1>2, <1>3, <1>4, <1>6

(* What a client holds lies in a block, and is not empty.                  *)
LEMMA HeldInside ==
  ASSUME Tidy, NEW h \in held
  PROVE  /\ h.ptr \in Nat /\ h.size \in Nat \ {0}
         /\ \E i \in DOMAIN blocks :
              /\ Region(h) \in blocks[i].used
              /\ blocks[i].begin <= h.ptr /\ h.ptr + h.size <= blocks[i].end
<1>1. h.ptr \in Nat /\ h.size \in Nat \ {0}
  BY PoolAssumption DEF Tidy
<1>2. PICK i \in DOMAIN blocks : Region(h) \in blocks[i].used
  BY DEF Tidy
<1>3. BlockOK(blocks[i])
  BY DEF Tidy
<1> QED
  BY <1>1, <1>2, <1>3 DEF BlockOK, Region

LEMMA ServeOK ==
  ASSUME Tidy, NEW size \in Sizes, NEW e \in ElemSizes, Serve(size, e), ~padded'
  PROVE  Tidy'
<1>1. size \in Nat \ {0}
  BY PoolAssumption
<1>2. PICK i \in DOMAIN blocks : \E c \in Allocate(blocks[i], size, e) :
        /\ blocks' = [blocks EXCEPT ![i] = Take(blocks[i], c.ptr, size)]
        /\ Give(c, size, e)
  BY DEF Serve, Tidy
<1>20. PICK c \in Allocate(blocks[i], size, e) :
        /\ blocks' = [blocks EXCEPT ![i] = Take(blocks[i], c.ptr, size)]
        /\ Give(c, size, e)
  BY <1>2
<1> DEFINE p == c.ptr
<1>3. /\ blocks' = [blocks EXCEPT ![i] = Take(blocks[i], p, size)]
      /\ held' = held \cup {[ptr |-> p, size |-> size, elem |-> e]}
      /\ ~c.padded
  BY <1>20 DEF Give
<1> DEFINE new == [ptr |-> p, size |-> size, elem |-> e]
<1>4. BlockOK(blocks[i])
  BY DEF Tidy
<1>5. /\ p \in Nat /\ blocks[i].begin <= p /\ p + size <= blocks[i].end
      /\ \A y \in blocks[i].used : p + size <= y.from \/ y.to <= p
  BY <1>1, <1>3, <1>4, AllocateFree
<1>6. /\ BlockOK(Take(blocks[i], p, size))
      /\ Take(blocks[i], p, size).used = blocks[i].used \cup {[from |-> p, to |-> p + size]}
      /\ Take(blocks[i], p, size).begin = blocks[i].begin
      /\ Take(blocks[i], p, size).end = blocks[i].end
  BY <1>1, <1>3, <1>4, TakeOK
<1> HIDE DEF p
<1>7. /\ blocks' \in Seq(Block) /\ DOMAIN blocks' = DOMAIN blocks
      /\ blocks'[i] = Take(blocks[i], p, size)
      /\ \A j \in DOMAIN blocks : j # i => blocks'[j] = blocks[j]
      /\ \A j \in DOMAIN blocks : BlockOK(blocks'[j])
      /\ \A j, k \in DOMAIN blocks : j # k => Apart(blocks'[j], blocks'[k])
  BY <1>3, <1>6, BlockStep
<1>8. held' \subseteq [ptr : Nat, size : Sizes, elem : ElemSizes]
  BY <1>3, <1>5 DEF Tidy
<1>9. \A h \in held' : \E j \in DOMAIN blocks' : Region(h) \in blocks'[j].used
  <2>1. \A h \in held : \E j \in DOMAIN blocks : Region(h) \in blocks[j].used
    BY DEF Tidy
  <2>2. \A j \in DOMAIN blocks : blocks[j].used \subseteq blocks'[j].used
    BY <1>6, <1>7
  <2>3. Region(new) \in blocks'[i].used
    BY <1>6, <1>7 DEF Region
  <2> QED
    BY <1>3, <1>7, <2>1, <2>2, <2>3
<1>10. \A h \in held : h.ptr # p
  <2> SUFFICES ASSUME NEW h \in held PROVE h.ptr # p
    OBVIOUS
  <2>1. /\ h.ptr \in Nat /\ h.size \in Nat \ {0}
        /\ \E j \in DOMAIN blocks :
             /\ Region(h) \in blocks[j].used
             /\ blocks[j].begin <= h.ptr /\ h.ptr + h.size <= blocks[j].end
    BY HeldInside
  <2>2. PICK j \in DOMAIN blocks :
          /\ Region(h) \in blocks[j].used
          /\ blocks[j].begin <= h.ptr /\ h.ptr + h.size <= blocks[j].end
    BY <2>1
  <2>3. CASE j = i
    BY <1>1, <1>5, <2>1, <2>2, <2>3 DEF Region
  <2>4. CASE j # i
    <3>1. Apart(blocks[j], blocks[i]) /\ BlockOK(blocks[j])
      BY <2>4 DEF Tidy
    <3> QED
      BY <1>1, <1>4, <1>5, <2>1, <2>2, <3>1 DEF Apart, BlockOK, Block
  <2> QED BY <2>3, <2>4
<1>11. \A g, h \in held' : g # h => g.ptr # h.ptr
  BY <1>3, <1>10 DEF Tidy
<1> QED
  BY <1>7, <1>8, <1>9, <1>11 DEF Tidy

LEMMA GrowOK ==
  ASSUME Tidy, NEW size \in Sizes, NEW e \in ElemSizes, Grow(size, e), ~padded'
  PROVE  Tidy'
<1>1. size \in Nat \ {0}
  BY PoolAssumption
<1>2. Larger(InitialSize \div 2, size) \in Nat
  BY <1>1, PoolAssumption DEF Larger
<1> DEFINE fresh(base) == NewBlock(base, Larger(InitialSize \div 2, size))
<1>3. PICK base \in Bases :
        /\ \A i \in DOMAIN blocks : Apart(fresh(base), blocks[i])
        /\ \/ \E c \in Allocate(fresh(base), size, e) :
                /\ blocks' = Append(blocks, Take(fresh(base), c.ptr, size))
                /\ Give(c, size, e)
           \/ /\ blocks' = Append(blocks, fresh(base))
              /\ UNCHANGED held
  BY DEF Grow
<1> DEFINE b == fresh(base)
<1>4. BlockOK(b) /\ b.used = {}
  BY <1>2, NewOK, PoolAssumption
<1> HIDE DEF b
<1>5. \A i \in DOMAIN blocks : Apart(b, blocks[i])
  BY <1>3 DEF b
(* Whatever is appended has the bounds of b.                               *)
<1>6. ASSUME NEW c, BlockOK(c), c.begin = b.begin, c.end = b.end, blocks' = Append(blocks, c)
      PROVE  /\ blocks' \in Seq(Block) /\ DOMAIN blocks' = DOMAIN blocks \cup {Len(blocks) + 1}
             /\ Len(blocks) + 1 \notin DOMAIN blocks
             /\ blocks'[Len(blocks) + 1] = c
             /\ \A j \in DOMAIN blocks : blocks'[j] = blocks[j]
             /\ \A j \in DOMAIN blocks' : BlockOK(blocks'[j])
             /\ \A j, k \in DOMAIN blocks' : j # k => Apart(blocks'[j], blocks'[k])
  <2>1. blocks \in Seq(Block) /\ c \in Block
    BY <1>6 DEF Tidy, BlockOK
  <2>2. /\ blocks' \in Seq(Block) /\ DOMAIN blocks' = DOMAIN blocks \cup {Len(blocks) + 1}
        /\ Len(blocks) + 1 \notin DOMAIN blocks
        /\ blocks'[Len(blocks) + 1] = c
        /\ \A j \in DOMAIN blocks : blocks'[j] = blocks[j]
    BY <1>6, <2>1
  <2>3. \A j \in DOMAIN blocks' : BlockOK(blocks'[j])
    BY <1>6, <2>2 DEF Tidy
  <2>4. \A j \in DOMAIN blocks : Apart(c, blocks[j]) /\ Apart(blocks[j], c)
    BY <1>5, <1>6 DEF Apart
  <2>5. \A j, k \in DOMAIN blocks' : j # k => Apart(blocks'[j], blocks'[k])
    BY <2>2, <2>4 DEF Tidy
  <2> QED BY <2>2, <2>3, <2>5
<1>7. CASE (\E c \in Allocate(b, size, e) :
              /\ blocks' = Append(blocks, Take(b, c.ptr, size))
              /\ Give(c, size, e))
  <2>0. PICK d \in Allocate(b, size, e) :
          /\ blocks' = Append(blocks, Take(b, d.ptr, size))
          /\ Give(d, size, e)
    BY <1>7
  <2> DEFINE p == d.ptr
             new == [ptr |-> p, size |-> size, elem |-> e]
             c == Take(b, p, size)
  <2>1. /\ blocks' = Append(blocks, Take(b, p, size))
        /\ held' = held \cup {[ptr |-> p, size |-> size, elem |-> e]}
        /\ ~d.padded
    BY <2>0 DEF Give
  <2>2. p \in Nat /\ b.begin <= p /\ p + size <= b.end
    BY <1>1, <1>4, <2>1, AllocateFree
  <2>3. BlockOK(c) /\ c.used = {[from |-> p, to |-> p + size]}
        /\ c.begin = b.begin /\ c.end = b.end
    BY <1>1, <1>4, <2>1, TakeOK
  <2> HIDE DEF c, p
  <2>4. blocks' = Append(blocks, c)
    BY <2>1 DEF c
  <2>5. /\ blocks' \in Seq(Block) /\ DOMAIN blocks' = DOMAIN blocks \cup {Len(blocks) + 1}
        /\ blocks'[Len(blocks) + 1] = c
        /\ \A j \in DOMAIN blocks : blocks'[j] = blocks[j]
        /\ \A j \in DOMAIN blocks' : BlockOK(blocks'[j])
        /\ \A j, k \in DOMAIN blocks' : j # k => Apart(blocks'[j], blocks'[k])
    BY <1>6, <2>3, <2>4
  <2>6. held' \subseteq [ptr : Nat, size : Sizes, elem : ElemSizes]
    BY <2>1, <2>2 DEF Tidy
  <2>7. \A h \in held : \E j \in DOMAIN blocks' : Region(h) \in blocks'[j].used
    BY <2>5 DEF Tidy
  <2>8. Region(new) \in blocks'[Len(blocks) + 1].used
    BY <2>3, <2>5 DEF Region
  <2>9. \A h \in held' : \E j \in DOMAIN blocks' : Region(h) \in blocks'[j].used
    BY <2>1, <2>5, <2>7, <2>8
  <2>10. \A h \in held : h.ptr # p
    <3> SUFFICES ASSUME NEW h \in held PROVE h.ptr # p
      OBVIOUS
    <3>1. /\ h.ptr \in Nat /\ h.size \in Nat \ {0}
          /\ \E j \in DOMAIN blocks :
               blocks[j].begin <= h.ptr /\ h.ptr + h.size <= blocks[j].end
      BY HeldInside
    <3>2. PICK j \in DOMAIN blocks :
            blocks[j].begin <= h.ptr /\ h.ptr + h.size <= blocks[j].end
      BY <3>1
    <3>3. Apart(b, blocks[j]) /\ BlockOK(blocks[j])
      BY <1>5 DEF Tidy
    <3> QED
      BY <1>1, <1>4, <2>2, <3>1, <3>2, <3>3 DEF Apart, BlockOK, Block
  <2>11. \A g, h \in held' : g # h => g.ptr # h.ptr
    BY <2>1, <2>10 DEF Tidy
  <2> QED
    BY <2>5, <2>6, <2>9, <2>11 DEF Tidy
<1>8. CASE /\ blocks' = Append(blocks, b)
           /\ UNCHANGED held
  <2>1. /\ blocks' \in Seq(Block) /\ DOMAIN blocks' = DOMAIN blocks \cup {Len(blocks) + 1}
        /\ \A j \in DOMAIN blocks : blocks'[j] = blocks[j]
        /\ \A j \in DOMAIN blocks' : BlockOK(blocks'[j])
        /\ \A j, k \in DOMAIN blocks' : j # k => Apart(blocks'[j], blocks'[k])
    BY <1>4, <1>6, <1>8
  <2>2. \A h \in held' : \E j \in DOMAIN blocks' : Region(h) \in blocks'[j].used
    BY <1>8, <2>1 DEF Tidy
  <2> QED
    BY <1>8, <2>1, <2>2 DEF Tidy
<1> QED
  BY <1>3, <1>7, <1>8 DEF b

LEMMA FreeOK ==
  ASSUME Tidy, NEW h \in held, Free(h)
  PROVE  Tidy'
<1>1. PICK i \in DOMAIN blocks : blocks' = [blocks EXCEPT ![i] = Release(blocks[i], h.ptr)]
  BY DEF Free, Tidy
<1>2. held' = held \ {h}
  BY DEF Free
<1>3. h.ptr \in Nat /\ BlockOK(blocks[i])
  BY DEF Tidy
<1>4. /\ BlockOK(Release(blocks[i], h.ptr))
      /\ Release(blocks[i], h.ptr).used = {x \in blocks[i].used : x.from # h.ptr}
      /\ Release(blocks[i], h.ptr).begin = blocks[i].begin
      /\ Release(blocks[i], h.ptr).end = blocks[i].end
  BY <1>3, ReleaseOK
<1>5. /\ blocks' \in Seq(Block) /\ DOMAIN blocks' = DOMAIN blocks
      /\ blocks'[i] = Release(blocks[i], h.ptr)
      /\ \A j \in DOMAIN blocks : j # i => blocks'[j] = blocks[j]
      /\ \A j \in DOMAIN blocks : BlockOK(blocks'[j])
      /\ \A j, k \in DOMAIN blocks : j # k => Apart(blocks'[j], blocks'[k])
  BY <1>1, <1>4, BlockStep
<1>6. \A g \in held' : \E j \in DOMAIN blocks' : Region(g) \in blocks'[j].used
  <2> SUFFICES ASSUME NEW g \in held' PROVE \E j \in DOMAIN blocks' : Region(g) \in blocks'[j].used
    OBVIOUS
  <2>1. g \in held /\ g.ptr # h.ptr
    BY <1>2 DEF Tidy
  <2>2. PICK j \in DOMAIN blocks : Region(g) \in blocks[j].used
    BY <2>1 DEF Tidy
  <2>3. CASE j = i
    BY <1>4, <1>5, <2>1, <2>2, <2>3 DEF Region
  <2>4. CASE j # i
    BY <1>5, <2>2, <2>4
  <2> QED BY <2>3, <2>4
<1> QED
  BY <1>2, <1>5, <1>6 DEF Tidy

(* padded is never reset, and does not matter once it is TRUE.             *)
LEMMA NextOK == ASSUME PoolInv, [Next]_vars PROVE PoolInv'
<1>1. padded' \in BOOLEAN /\ (~padded' => ~padded)
  <2>1. ASSUME NEW size \in Sizes, NEW e \in ElemSizes, Serve(size, e)
        PROVE  padded' \in BOOLEAN /\ (~padded' => ~padded)
    BY <2>1 DEF Serve, Give, PoolInv
  <2>2. ASSUME NEW size \in Sizes, NEW e \in ElemSizes, Grow(size, e)
        PROVE  padded' \in BOOLEAN /\ (~padded' => ~padded)
    <3>1. (\E c : padded' = (padded \/ c.padded)) \/ UNCHANGED padded
      BY <2>2 DEF Grow, Give
    <3>2. CASE (\E c : padded' = (padded \/ c.padded))
      BY <3>2, Zenon
    <3> QED BY <3>1, <3>2 DEF PoolInv
  <2>3. ASSUME NEW h \in held, Free(h) \/ FreeFails(h)
        PROVE  padded' \in BOOLEAN /\ (~padded' => ~padded)
    BY <2>3 DEF Free, FreeFails, PoolInv
  <2>4. CASE UNCHANGED vars
    BY <2>4 DEF vars, PoolInv
  <2> QED
    BY <2>1, <2>2, <2>3, <2>4 DEF Next
<1>2. SUFFICES ASSUME ~padded' PROVE Tidy'
  BY <1>1 DEF PoolInv
<1>3. Tidy
  BY <1>1, <1>2 DEF PoolInv
<1>4. ASSUME NEW size \in Sizes, NEW e \in ElemSizes, Serve(size, e) PROVE Tidy'
  BY <1>2, <1>3, <1>4, ServeOK
<1>5. ASSUME NEW size \in Sizes, NEW e \in ElemSizes, Grow(size, e) PROVE Tidy'
  BY <1>2, <1>3, <1>5, GrowOK
<1>6. ASSUME NEW h \in held, Free(h) PROVE Tidy'
  BY <1>3, <1>6, FreeOK
<1>7. ASSUME NEW h \in held, FreeFails(h) PROVE Tidy'
  BY <1>3, <1>7 DEF FreeFails, Tidy
<1>8. CASE UNCHANGED vars
  BY <1>3, <1>8 DEF vars, Tidy
<1> QED
  BY <1>4, <1>5, <1>6, <1>7, <1>8 DEF Next

LEMMA TidyDisjoint == Tidy => Disjoint
<1> SUFFICES ASSUME Tidy PROVE Disjoint
  OBVIOUS
<1>1. \A h \in held : \E i \in DOMAIN blocks :
        blocks[i].begin <= h.ptr /\ h.ptr + h.size <= blocks[i].end
  BY HeldInside
<1>2. ASSUME NEW g \in held, NEW h \in held, g # h
      PROVE  g.ptr + g.size <= h.ptr \/ h.ptr + h.size <= g.ptr
  <2>1. /\ g.ptr \in Nat /\ g.size \in Nat \ {0}
        /\ \E i \in DOMAIN blocks :
             /\ Region(g) \in blocks[i].used
             /\ blocks[i].begin <= g.ptr /\ g.ptr + g.size <= blocks[i].end
    BY HeldInside
  <2>2. /\ h.ptr \in Nat /\ h.size \in Nat \ {0}
        /\ \E i \in DOMAIN blocks :
             /\ Region(h) \in blocks[i].used
             /\ blocks[i].begin <= h.ptr /\ h.ptr + h.size <= blocks[i].end
    BY HeldInside
  <2>3. PICK i \in DOMAIN blocks :
          /\ Region(g) \in blocks[i].used
          /\ blocks[i].begin <= g.ptr /\ g.ptr + g.size <= blocks[i].end
    BY <2>1
  <2>4. PICK j \in DOMAIN blocks :
          /\ Region(h) \in blocks[j].used
          /\ blocks[j].begin <= h.ptr /\ h.ptr + h.size <= blocks[j].end
    BY <2>2
  <2>5. CASE i = j
    <3>1. Region(g) # Region(h)
      BY <1>2 DEF Tidy, Region
    <3>2. BlockOK(blocks[i])
      BY DEF Tidy
    <3> QED
      BY <2>3, <2>4, <2>5, <3>1, <3>2 DEF BlockOK, Region
  <2>6. CASE i # j
    <3>1. Apart(blocks[i], blocks[j]) /\ BlockOK(blocks[i]) /\ BlockOK(blocks[j])
      BY <2>6 DEF Tidy
    <3> QED
      BY <2>1, <2>2, <2>3, <2>4, <3>1 DEF Apart, BlockOK, Block
  <2> QED BY <2>5, <2>6
<1> QED
  BY <1>1, <1>2 DEF Disjoint

(* As long as no request needs padding, no two clients hold the same byte, *)
(* and what they hold is memory of the pool: for blocks and requests of any*)
(* size, any number of blocks and any order of requests and releases, on   *)
(* CPU and GPU.                                                            *)
THEOREM NothingHandedOutTwice == Spec => []NoOverlap
<1>1. Init => PoolInv
  BY InitOK DEF Init, PoolInv
<1>2. PoolInv /\ [Next]_vars => PoolInv'
  BY NextOK
<1>3. PoolInv => NoOverlap
  BY TidyDisjoint DEF PoolInv, NoOverlap
<1> QED
  BY <1>1, <1>2, <1>3, PTL DEF Spec

LEMMA BytesNeedNoPadding ==
  ASSUME NEW b, BlockOK(b), NEW size, NEW c \in Allocate(b, size, 1)
  PROVE  ~c.padded
<1>1. c \in Candidates(b, size, 1)
  BY DEF Allocate
<1>2. ASSUME NEW lo \in Nat, NEW hi PROVE ~Candidate(lo, hi, 1).padded
  <2>1. lo % 1 = 0 /\ (1 - 0) % 1 = 0
    OBVIOUS
  <2>2. alignmentOffset(lo, 1) = 0
    BY <2>1 DEF alignmentOffset
  <2> QED
    BY <2>2 DEF Candidate
<1>3. ASSUME NEW x \in b.used, c \in HoleCandidates(b, x, size, 1) PROVE ~c.padded
  <2>1. PICK lo \in Before(b, x.from) : c = Candidate(lo, x.from, 1)
    BY <1>3 DEF HoleCandidates
  <2>2. lo \in Nat
    BY HoleBefore
  <2> QED BY <2>1, <2>2, <1>2
<1>4. ASSUME c \in LastCandidates(b, size, 1) PROVE ~c.padded
  <2>1. PICK lo \in LastHole(b) : c = Candidate(lo, b.end, 1)
    BY <1>4 DEF LastCandidates
  <2>2. lo \in Nat
    BY HoleAfter
  <2> QED BY <2>1, <2>2, <1>2
<1>5. \/ \E x \in b.used : c \in HoleCandidates(b, x, size, 1)
      \/ c \in LastCandidates(b, size, 1)
  BY <1>1 DEF Candidates
<1> QED BY <1>3, <1>4, <1>5

(* Requests for bytes need no padding: the clients of                      *)
(* CpuMemoryPool::allocate(num_bytes) and PoolPolicy::allocate(sizeNeeded) *)
(* never share a byte, whatever they do.                                   *)
THEOREM BytesAreDisjoint ==
  ASSUME ElemSizes = {1}
  PROVE  Spec => []Disjoint
<1>1. Init => PlainInv
  BY InitOK DEF Init, PlainInv
<1>2. PlainInv /\ [Next]_vars => PlainInv'
  <2> SUFFICES ASSUME PlainInv, [Next]_vars PROVE PlainInv'
    OBVIOUS
  <2>0. Tidy /\ padded = FALSE
    BY DEF PlainInv
  <2>1. ASSUME NEW size \in Sizes, NEW e \in ElemSizes, Serve(size, e) PROVE padded' = FALSE
    <3>1. PICK i \in DOMAIN blocks : \E c \in Allocate(blocks[i], size, e) : Give(c, size, e)
      BY <2>1 DEF Serve
    <3>2. PICK c \in Allocate(blocks[i], size, e) : padded' = (padded \/ c.padded)
      BY <3>1 DEF Give
    <3>3. BlockOK(blocks[i]) /\ e = 1
      BY <2>0 DEF Tidy
    <3>4. ~c.padded
      BY <3>3, BytesNeedNoPadding
    <3> QED BY <2>0, <3>2, <3>4
  <2>2. ASSUME NEW size \in Sizes, NEW e \in ElemSizes, Grow(size, e) PROVE padded' = FALSE
    <3> DEFINE fresh(base) == NewBlock(base, Larger(InitialSize \div 2, size))
    <3>1. PICK base \in Bases :
            (\E c \in Allocate(fresh(base), size, e) : Give(c, size, e)) \/ UNCHANGED padded
      BY <2>2 DEF Grow
    <3>2. CASE (\E c \in Allocate(fresh(base), size, e) : Give(c, size, e))
      <4>1. PICK c \in Allocate(fresh(base), size, e) : padded' = (padded \/ c.padded)
        BY <3>2 DEF Give
      <4>2. Larger(InitialSize \div 2, size) \in Nat /\ base \in Nat /\ e = 1
        BY PoolAssumption DEF Larger
      <4>3. BlockOK(fresh(base))
        BY <4>2, NewOK
      <4> HIDE DEF fresh
      <4>4. ~c.padded
        BY <4>2, <4>3, BytesNeedNoPadding
      <4> QED BY <2>0, <4>1, <4>4
    <3> QED BY <2>0, <3>1, <3>2
  <2>3. ASSUME NEW h \in held, Free(h) \/ FreeFails(h) PROVE padded' = FALSE
    BY <2>0, <2>3 DEF Free, FreeFails
  <2>4. ASSUME UNCHANGED vars PROVE padded' = FALSE
    BY <2>0, <2>4 DEF vars
  <2>5. padded' = FALSE
    BY <2>1, <2>2, <2>3, <2>4 DEF Next
  <2> QED BY <2>0, <2>5, NextOK DEF PoolInv, PlainInv
<1>3. PlainInv => Disjoint
  BY TidyDisjoint DEF PlainInv
<1> QED
  BY <1>1, <1>2, <1>3, PTL DEF Spec

----------------------------------------------------------------------------
(* Types and alignment, whether requests need padding or not               *)

LEMMA OffsetAligns ==
  ASSUME NEW p \in Nat, NEW e \in Nat \ {0}
  PROVE  alignmentOffset(p, e) \in Nat /\ (p + alignmentOffset(p, e)) % e = 0
<1> DEFINE q == p \div e  r == p % e
<1>1. r \in 0 .. e - 1 /\ q \in Nat /\ p = e * q + r
  OBVIOUS
<1>2. alignmentOffset(p, e) = (e - r) % e
  BY DEF alignmentOffset
<1> HIDE DEF q, r
<1>3. CASE r = 0
  <2>1. e % e = 0 /\ (e * q) % e = 0
    BY <1>1
  <2>2. alignmentOffset(p, e) = 0 /\ p + 0 = e * q
    BY <1>1, <1>2, <1>3, <2>1
  <2> QED BY <2>1, <2>2
<1>4. CASE r # 0
  <2>1. e - r \in 0 .. e - 1
    BY <1>1, <1>4
  <2>2. alignmentOffset(p, e) = e - r
    BY <1>2, <2>1
  <2>3. p + (e - r) = e * (q + 1)
    BY <1>1
  <2>4. (e * (q + 1)) % e = 0
    BY <1>1
  <2> QED BY <2>1, <2>2, <2>3, <2>4
<1> QED BY <1>3, <1>4

(* Memory that a block hands out has an aligned address, whatever the map  *)
(* of the block holds.                                                     *)
LEMMA AllocateType ==
  ASSUME NEW b \in Block, NEW size, NEW e \in Nat \ {0}, NEW c \in Allocate(b, size, e)
  PROVE  c.ptr \in Nat /\ c.ptr % e = 0 /\ c.padded \in BOOLEAN
<1>1. c \in Candidates(b, size, e)
  BY DEF Allocate
<1>2. ASSUME NEW lo \in Nat, NEW hi, c = Candidate(lo, hi, e)
      PROVE  c.ptr \in Nat /\ c.ptr % e = 0 /\ c.padded \in BOOLEAN
  <2> DEFINE off == alignmentOffset(lo, e)
  <2>1. off \in Nat /\ (lo + off) % e = 0
    BY OffsetAligns
  <2>2. c.ptr = lo + off
    BY <1>2 DEF Candidate
  <2>3. c.padded = (off # 0)
    BY <1>2 DEF Candidate
  <2>4. c.padded \in BOOLEAN
    BY <2>3, Zenon
  <2> HIDE DEF off
  <2> QED BY <2>1, <2>2, <2>4
<1>3. b.begin \in Nat /\ \A x \in b.used : x.to \in Nat
  BY DEF Block, Entries
<1>4. ASSUME NEW x \in b.used, c \in HoleCandidates(b, x, size, e)
      PROVE  c.ptr \in Nat /\ c.ptr % e = 0 /\ c.padded \in BOOLEAN
  <2>1. PICK lo \in Before(b, x.from) : c = Candidate(lo, x.from, e)
    BY <1>4 DEF HoleCandidates
  <2>2. lo \in Nat
    BY <1>3 DEF Before
  <2> QED BY <1>2, <2>1, <2>2
<1>5. ASSUME c \in LastCandidates(b, size, e)
      PROVE  c.ptr \in Nat /\ c.ptr % e = 0 /\ c.padded \in BOOLEAN
  <2>1. PICK lo \in LastHole(b) : c = Candidate(lo, b.end, e)
    BY <1>5 DEF LastCandidates
  <2>2. lo \in Nat
    BY <1>3 DEF LastHole
  <2> QED BY <1>2, <2>1, <2>2
<1> QED BY <1>1, <1>4, <1>5 DEF Candidates

LEMMA TakeType ==
  ASSUME NEW b \in Block, NEW p \in Nat, NEW size \in Nat
  PROVE  Take(b, p, size) \in Block /\ Release(b, p) \in Block
BY DEF Take, Release, Block, Entries

AlignedInv == TypeOK /\ Aligned

LEMMA GiveTyped ==
  ASSUME AlignedInv, NEW size \in Sizes, NEW e \in ElemSizes,
         NEW b \in Block, NEW c \in Allocate(b, size, e), Give(c, size, e)
  PROVE  /\ held' \subseteq [ptr : Nat, size : Sizes, elem : ElemSizes]
         /\ padded' \in BOOLEAN
         /\ \A h \in held' : h.ptr % h.elem = 0
<1>1. c.ptr \in Nat /\ c.ptr % e = 0 /\ c.padded \in BOOLEAN
  BY AllocateType, PoolAssumption
<1>2. held' = held \cup {[ptr |-> c.ptr, size |-> size, elem |-> e]}
  BY DEF Give
<1>3. padded' = (padded \/ c.padded) /\ padded \in BOOLEAN
  BY DEF Give, AlignedInv, TypeOK
<1>4. padded' \in BOOLEAN
  BY <1>1, <1>3, Zenon
<1>5. held \subseteq [ptr : Nat, size : Sizes, elem : ElemSizes]
  BY DEF AlignedInv, TypeOK
<1>6. \A h \in held : h.ptr % h.elem = 0
  BY DEF AlignedInv, Aligned
<1> QED BY <1>1, <1>2, <1>4, <1>5, <1>6

LEMMA AlignedStep ==
  ASSUME AlignedInv, [Next]_vars PROVE AlignedInv'
<1>1. /\ blocks \in Seq(Block)
      /\ held \subseteq [ptr : Nat, size : Sizes, elem : ElemSizes]
      /\ padded \in BOOLEAN /\ \A h \in held : h.ptr % h.elem = 0
  BY DEF AlignedInv, TypeOK, Aligned, Block
<1> DEFINE Held ==
             /\ held' \subseteq [ptr : Nat, size : Sizes, elem : ElemSizes]
             /\ padded' \in BOOLEAN
             /\ \A h \in held' : h.ptr % h.elem = 0
<1>2. ASSUME blocks' \in Seq(Block), Held PROVE AlignedInv'
  BY <1>2 DEF AlignedInv, TypeOK, Aligned, Block
<1>3. ASSUME NEW i \in DOMAIN blocks, NEW b \in Block, blocks' = [blocks EXCEPT ![i] = b]
      PROVE  blocks' \in Seq(Block)
  BY <1>1, <1>3
<1>4. \A i \in DOMAIN blocks : blocks[i] \in Block
  BY <1>1
<1>5. ASSUME NEW size \in Sizes, NEW e \in ElemSizes, Serve(size, e) PROVE AlignedInv'
  <2>1. PICK i \in DOMAIN blocks : \E c \in Allocate(blocks[i], size, e) :
          /\ blocks' = [blocks EXCEPT ![i] = Take(blocks[i], c.ptr, size)]
          /\ Give(c, size, e)
    BY <1>1, <1>5 DEF Serve
  <2>2. PICK c \in Allocate(blocks[i], size, e) :
          /\ blocks' = [blocks EXCEPT ![i] = Take(blocks[i], c.ptr, size)]
          /\ Give(c, size, e)
    BY <2>1
  <2>3. c.ptr \in Nat /\ size \in Nat
    BY <1>4, AllocateType, PoolAssumption
  <2>4. Take(blocks[i], c.ptr, size) \in Block
    BY <1>4, <2>3, TakeType
  <2>5. blocks' \in Seq(Block)
    BY <1>3, <2>2, <2>4
  <2>6. Held
    BY <1>4, <2>2, GiveTyped
  <2> QED BY <1>2, <2>5, <2>6
<1>6. ASSUME NEW size \in Sizes, NEW e \in ElemSizes, Grow(size, e) PROVE AlignedInv'
  <2> DEFINE fresh(base) == NewBlock(base, Larger(InitialSize \div 2, size))
  <2>1. PICK base \in Bases :
          \/ \E c \in Allocate(fresh(base), size, e) :
               /\ blocks' = Append(blocks, Take(fresh(base), c.ptr, size))
               /\ Give(c, size, e)
          \/ /\ blocks' = Append(blocks, fresh(base))
             /\ UNCHANGED <<held, padded>>
    BY <1>6 DEF Grow
  <2>2. Larger(InitialSize \div 2, size) \in Nat /\ base \in Nat /\ size \in Nat
    BY PoolAssumption DEF Larger
  <2>3. fresh(base) \in Block
    BY <2>2, NewOK DEF BlockOK
  <2> DEFINE b == fresh(base)
  <2> HIDE DEF b, fresh
  <2>4. CASE \E c \in Allocate(b, size, e) :
               /\ blocks' = Append(blocks, Take(b, c.ptr, size))
               /\ Give(c, size, e)
    <3>1. PICK c \in Allocate(b, size, e) :
            /\ blocks' = Append(blocks, Take(b, c.ptr, size))
            /\ Give(c, size, e)
      BY <2>4
    <3>2. b \in Block
      BY <2>3 DEF b
    <3>3. c.ptr \in Nat
      BY <3>2, AllocateType, PoolAssumption
    <3>4. Take(b, c.ptr, size) \in Block
      BY <2>2, <3>2, <3>3, TakeType
    <3>5. blocks' \in Seq(Block)
      BY <1>1, <3>1, <3>4
    <3>6. Held
      BY <3>1, <3>2, GiveTyped
    <3> QED BY <1>2, <3>5, <3>6
  <2>5. CASE blocks' = Append(blocks, b) /\ UNCHANGED <<held, padded>>
    <3>1. blocks' \in Seq(Block)
      BY <1>1, <2>3, <2>5 DEF b
    <3> QED BY <1>1, <1>2, <2>5, <3>1
  <2> QED BY <2>1, <2>4, <2>5 DEF b
<1>7. ASSUME NEW h \in held, Free(h) PROVE AlignedInv'
  <2>1. PICK i \in DOMAIN blocks : blocks' = [blocks EXCEPT ![i] = Release(blocks[i], h.ptr)]
    BY <1>1, <1>7 DEF Free
  <2>2. Release(blocks[i], h.ptr) \in Block
    BY <1>1, <1>4, TakeType
  <2>3. blocks' \in Seq(Block)
    BY <1>3, <2>1, <2>2
  <2>4. held' = held \ {h} /\ padded' = padded
    BY <1>7 DEF Free
  <2> QED BY <1>1, <1>2, <2>3, <2>4
<1>8. ASSUME NEW h \in held, FreeFails(h) PROVE AlignedInv'
  <2>1. held' = held \ {h} /\ UNCHANGED <<blocks, padded>>
    BY <1>8 DEF FreeFails
  <2> QED BY <1>1, <1>2, <2>1
<1>9. CASE UNCHANGED vars
  BY <1>1, <1>2, <1>9 DEF vars
<1> QED BY <1>5, <1>6, <1>7, <1>8, <1>9 DEF Next

LEMMA AlignedInvariant == Spec => []AlignedInv
<1>1. Init => AlignedInv
  <2> SUFFICES ASSUME Init PROVE AlignedInv
    OBVIOUS
  <2>1. PICK base \in Bases : blocks = <<NewBlock(base, InitialSize)>>
    BY DEF Init
  <2>2. NewBlock(base, InitialSize) \in Block
    BY NewOK, PoolAssumption DEF BlockOK
  <2>3. blocks \in Seq(Block)
    BY <2>1, <2>2
  <2> QED BY <2>3 DEF Init, AlignedInv, TypeOK, Aligned, Block
<1> QED BY <1>1, AlignedStep, PTL DEF Spec

(* The pools record natural addresses in every block, with or without      *)
(* padding.                                                                *)
THEOREM PoolTypes == Spec => []TypeOK
<1>1. AlignedInv => TypeOK
  BY DEF AlignedInv
<1> QED BY <1>1, AlignedInvariant, PTL

(* Memory begins at a multiple of the element size it was asked for with,  *)
(* for any sizes and alignments, whatever came before: also where padding  *)
(* has made regions overlap.                                               *)
THEOREM MemoryIsAligned == Spec => []Aligned
<1>1. AlignedInv => Aligned
  BY DEF AlignedInv
<1> QED BY <1>1, AlignedInvariant, PTL

----------------------------------------------------------------------------
(* What is given back can be handed out again                              *)

(* An entry of a block is memory that some client holds.                   *)
Kept == \A i \in DOMAIN blocks : \A x \in blocks[i].used : \E h \in held : x.from = h.ptr

KeptInv == PoolInv /\ (~padded => Kept)

LEMMA ServeKeeps ==
  ASSUME Tidy, Kept, NEW size \in Sizes, NEW e \in ElemSizes, Serve(size, e), ~padded'
  PROVE  Kept'
<1>1. size \in Nat \ {0} /\ blocks \in Seq(Block)
  BY PoolAssumption DEF Tidy
<1>2. PICK i \in DOMAIN blocks : \E c \in Allocate(blocks[i], size, e) :
        /\ blocks' = [blocks EXCEPT ![i] = Take(blocks[i], c.ptr, size)]
        /\ Give(c, size, e)
  BY <1>1 DEF Serve
<1>3. PICK c \in Allocate(blocks[i], size, e) :
        /\ blocks' = [blocks EXCEPT ![i] = Take(blocks[i], c.ptr, size)]
        /\ Give(c, size, e)
  BY <1>2
<1> DEFINE p == c.ptr
<1>4. held' = held \cup {[ptr |-> p, size |-> size, elem |-> e]} /\ ~c.padded
  BY <1>3 DEF Give
<1>5. BlockOK(blocks[i])
  BY DEF Tidy
<1>6. Take(blocks[i], p, size).used = blocks[i].used \cup {[from |-> p, to |-> p + size]}
  BY <1>1, <1>4, <1>5, TakeOK
<1>7. /\ DOMAIN blocks' = DOMAIN blocks /\ blocks'[i] = Take(blocks[i], p, size)
      /\ \A j \in DOMAIN blocks : j # i => blocks'[j] = blocks[j]
  BY <1>1, <1>3
<1> HIDE DEF p
<1>8. ASSUME NEW j \in DOMAIN blocks', NEW x \in blocks'[j].used
      PROVE  \E h \in held' : x.from = h.ptr
  <2>1. CASE x \in blocks[j].used
    BY <1>4, <1>7, <2>1 DEF Kept
  <2>2. CASE x \notin blocks[j].used
    <3>1. j = i
      BY <1>7, <1>8, <2>2
    <3>2. x \in Take(blocks[i], p, size).used
      BY <1>7, <1>8, <3>1
    <3> DEFINE new == [from |-> p, to |-> p + size]
               g == [ptr |-> p, size |-> size, elem |-> e]
    <3>3. new.from = p /\ g.ptr = p /\ g \in held'
      BY <1>4
    <3>4. Take(blocks[i], p, size).used = blocks[i].used \cup {new}
      BY <1>6
    <3> HIDE DEF new, g
    <3>5. x = new
      BY <2>2, <3>1, <3>2, <3>4
    <3> QED BY <3>3, <3>5
  <2> QED BY <2>1, <2>2
<1> QED BY <1>8 DEF Kept

LEMMA GrowKeeps ==
  ASSUME Tidy, Kept, NEW size \in Sizes, NEW e \in ElemSizes, Grow(size, e), ~padded'
  PROVE  Kept'
<1>1. size \in Nat \ {0} /\ Larger(InitialSize \div 2, size) \in Nat /\ blocks \in Seq(Block)
  BY PoolAssumption DEF Larger, Tidy
<1> DEFINE fresh(base) == NewBlock(base, Larger(InitialSize \div 2, size))
<1>2. PICK base \in Bases :
        \/ \E c \in Allocate(fresh(base), size, e) :
             /\ blocks' = Append(blocks, Take(fresh(base), c.ptr, size))
             /\ Give(c, size, e)
        \/ blocks' = Append(blocks, fresh(base)) /\ UNCHANGED held
  BY DEF Grow
<1> DEFINE b == fresh(base)
<1>3. BlockOK(b) /\ b.used = {}
  BY <1>1, NewOK, PoolAssumption
<1> HIDE DEF b
<1>4. ASSUME NEW n \in Block, blocks' = Append(blocks, n), held \subseteq held',
             \A x \in n.used : \E h \in held' : x.from = h.ptr
      PROVE  Kept'
  <2>1. DOMAIN blocks' = DOMAIN blocks \cup {Len(blocks) + 1}
        /\ blocks'[Len(blocks) + 1] = n
        /\ \A j \in DOMAIN blocks : blocks'[j] = blocks[j]
    BY <1>1, <1>4
  <2> QED BY <1>4, <2>1 DEF Kept
<1>5. ASSUME NEW c \in Allocate(b, size, e), Give(c, size, e),
             blocks' = Append(blocks, Take(b, c.ptr, size))
      PROVE  Kept'
  <2>1. held' = held \cup {[ptr |-> c.ptr, size |-> size, elem |-> e]} /\ ~c.padded
    BY <1>5 DEF Give
  <2>2. BlockOK(Take(b, c.ptr, size))
        /\ Take(b, c.ptr, size).used = b.used \cup {[from |-> c.ptr, to |-> c.ptr + size]}
    BY <1>1, <1>3, <2>1, TakeOK
  <2>3. Take(b, c.ptr, size) \in Block
    BY <2>2 DEF BlockOK
  <2>4. \A x \in Take(b, c.ptr, size).used : \E h \in held' : x.from = h.ptr
    <3>1. \A x \in Take(b, c.ptr, size).used : x = [from |-> c.ptr, to |-> c.ptr + size]
      BY <1>3, <2>2
    <3>2. \A x \in Take(b, c.ptr, size).used : x.from = c.ptr
      BY <3>1
    <3>3. [ptr |-> c.ptr, size |-> size, elem |-> e] \in held'
      BY <2>1
    <3> DEFINE g == [ptr |-> c.ptr, size |-> size, elem |-> e]
    <3>4. g \in held' /\ g.ptr = c.ptr
      BY <3>3
    <3> HIDE DEF g
    <3> QED BY <3>2, <3>4
  <2> QED BY <1>4, <1>5, <2>1, <2>3, <2>4
<1>6. ASSUME blocks' = Append(blocks, b), UNCHANGED held PROVE Kept'
  <2>1. b \in Block
    BY <1>3 DEF BlockOK
  <2> QED BY <1>3, <1>4, <1>6, <2>1
<1> QED BY <1>2, <1>5, <1>6 DEF b

(* The block that says yes to h is the one whose map has its entry.        *)
LEMMA FreeKeeps ==
  ASSUME Tidy, Kept, ~Gpu, NEW h \in held, Free(h)
  PROVE  Kept'
<1>1. PICK i \in DOMAIN blocks :
        Accepts(blocks[i], h.ptr) /\ blocks' = [blocks EXCEPT ![i] = Release(blocks[i], h.ptr)]
  BY DEF Free, Tidy
<1>2. held' = held \ {h} /\ h.ptr \in Nat /\ blocks \in Seq(Block)
  BY DEF Free, Tidy
<1>3. blocks[i].begin <= h.ptr /\ h.ptr < blocks[i].end
  BY <1>1 DEF Accepts, DeAllocates
<1>4. BlockOK(blocks[i])
  BY DEF Tidy
<1>5. Release(blocks[i], h.ptr).used = {x \in blocks[i].used : x.from # h.ptr}
  BY <1>2, <1>4, ReleaseOK
<1>6. /\ DOMAIN blocks' = DOMAIN blocks /\ blocks'[i] = Release(blocks[i], h.ptr)
      /\ \A j \in DOMAIN blocks : j # i => blocks'[j] = blocks[j]
  BY <1>1, <1>2
<1>7. ASSUME NEW j \in DOMAIN blocks', NEW x \in blocks'[j].used
      PROVE  x.from # h.ptr /\ x \in blocks[j].used
  <2>1. CASE j = i
    BY <1>5, <1>6, <1>7, <2>1
  <2>2. CASE j # i
    <3>1. x \in blocks[j].used /\ j \in DOMAIN blocks
      BY <1>6, <1>7, <2>2
    <3>2. BlockOK(blocks[j]) /\ Apart(blocks[i], blocks[j])
      BY <2>2, <3>1 DEF Tidy
    <3>3. x.from # h.ptr
      BY <1>2, <1>3, <1>4, <3>1, <3>2 DEF Apart, BlockOK, Block, Entries
    <3> QED BY <3>1, <3>3
  <2> QED BY <2>1, <2>2
<1> QED BY <1>2, <1>6, <1>7 DEF Kept

LEMMA FreeSucceeds == ASSUME Tidy, NEW h \in held PROVE ~FreeFails(h)
<1>1. /\ h.ptr \in Nat /\ h.size \in Nat \ {0}
      /\ \E i \in DOMAIN blocks :
           blocks[i].begin <= h.ptr /\ h.ptr + h.size <= blocks[i].end
  BY HeldInside
<1>2. PICK i \in DOMAIN blocks :
        blocks[i].begin <= h.ptr /\ h.ptr + h.size <= blocks[i].end
  BY <1>1
<1>3. BlockOK(blocks[i])
  BY DEF Tidy
<1>4. Accepts(blocks[i], h.ptr)
  BY <1>1, <1>2, <1>3 DEF Accepts, DeAllocates, BlockOK, Block
<1> QED BY <1>4 DEF FreeFails

LEMMA KeptStep == ASSUME ~Gpu, KeptInv, [Next]_vars PROVE KeptInv'
<1>1. PoolInv'
  BY NextOK DEF KeptInv
<1>2. ~padded' => ~padded
  <2>1. ASSUME NEW size \in Sizes, NEW e \in ElemSizes, Serve(size, e) PROVE ~padded' => ~padded
    BY <2>1 DEF Serve, Give
  <2>2. ASSUME NEW size \in Sizes, NEW e \in ElemSizes, Grow(size, e) PROVE ~padded' => ~padded
    BY <2>2 DEF Grow, Give
  <2>3. ASSUME NEW h \in held, Free(h) \/ FreeFails(h) PROVE ~padded' => ~padded
    BY <2>3 DEF Free, FreeFails
  <2>4. CASE UNCHANGED vars
    BY <2>4 DEF vars
  <2> QED BY <2>1, <2>2, <2>3, <2>4 DEF Next
<1>3. SUFFICES ASSUME ~padded' PROVE Kept'
  BY <1>1 DEF KeptInv
<1>4. Tidy /\ Kept
  BY <1>2, <1>3 DEF KeptInv, PoolInv
<1>5. ASSUME NEW size \in Sizes, NEW e \in ElemSizes, Serve(size, e) PROVE Kept'
  BY <1>3, <1>4, <1>5, ServeKeeps
<1>6. ASSUME NEW size \in Sizes, NEW e \in ElemSizes, Grow(size, e) PROVE Kept'
  BY <1>3, <1>4, <1>6, GrowKeeps
<1>7. ASSUME NEW h \in held, Free(h) PROVE Kept'
  BY <1>4, <1>7, FreeKeeps
<1>8. ASSUME NEW h \in held, FreeFails(h) PROVE Kept'
  BY <1>4, <1>8, FreeSucceeds
<1>9. CASE UNCHANGED vars
  BY <1>4, <1>9 DEF vars, Kept
<1> QED BY <1>5, <1>6, <1>7, <1>8, <1>9 DEF Next

(* On CPU, as long as no request needs padding, what the blocks record as  *)
(* allocated is what clients hold: each free reaches the block that served *)
(* it.  The GPU pool counts the end of a block as part of it, so where one *)
(* block ends and the next begins a free goes astray.                      *)
THEOREM FreesReachTheirBlock ==
  ASSUME ~Gpu
  PROVE  Spec => []NothingLeaks
<1>1. Init => KeptInv
  <2> SUFFICES ASSUME Init PROVE KeptInv
    OBVIOUS
  <2>1. PICK base \in Bases : blocks = <<NewBlock(base, InitialSize)>>
    BY DEF Init
  <2>2. DOMAIN blocks = {1} /\ blocks[1].used = {}
    BY <2>1 DEF NewBlock
  <2> QED BY <2>2, InitOK DEF Init, KeptInv, PoolInv, Kept
<1>2. KeptInv /\ [Next]_vars => KeptInv'
  BY KeptStep
<1>3. KeptInv => NothingLeaks
  <2> SUFFICES ASSUME Tidy, Kept
               PROVE  UNION {{x.from : x \in blocks[i].used} : i \in DOMAIN blocks}
                        = {h.ptr : h \in held}
    BY DEF KeptInv, PoolInv, NothingLeaks
  <2>1. \A h \in held : \E i \in DOMAIN blocks : \E x \in blocks[i].used : x.from = h.ptr
    <3> SUFFICES ASSUME NEW h \in held
                 PROVE  \E i \in DOMAIN blocks : \E x \in blocks[i].used : x.from = h.ptr
      OBVIOUS
    <3>1. PICK i \in DOMAIN blocks : Region(h) \in blocks[i].used
      BY DEF Tidy
    <3> QED BY <3>1 DEF Region
  <2> QED BY <2>1 DEF Kept
<1> QED BY <1>1, <1>2, <1>3, PTL DEF Spec

(* On CPU and GPU, as long as no request needs padding, no free throws:    *)
(* every region that a client holds lies in a block that takes it back.    *)
THEOREM FreeNeverThrows ==
  Spec => [][~padded => \A h \in held : ~FreeFails(h)]_vars
<1>1. Init => PoolInv
  BY InitOK DEF Init, PoolInv
<1>2. PoolInv /\ [Next]_vars => PoolInv'
  BY NextOK
<1>3. PoolInv => (~padded => \A h \in held : ~FreeFails(h))
  BY FreeSucceeds DEF PoolInv
<1> QED BY <1>1, <1>2, <1>3, PTL DEF Spec

----------------------------------------------------------------------------
(* Best fit: the holes that allocate looks at are the maximal runs of free *)
(* bytes                                                                   *)

(* A maximal run of free bytes, in one formula.                            *)
LEMMA RunsMean ==
  ASSUME NEW b, BlockOK(b)
  PROVE  FreeRuns(b) = {r \in (b.begin .. b.end) \X (b.begin .. b.end) :
                          /\ r[1] < r[2]
                          /\ \A a \in r[1] .. r[2] - 1 : FreeByte(b, a)
                          /\ ~FreeByte(b, r[1] - 1) /\ ~FreeByte(b, r[2])}
<1>1. b.begin \in Nat /\ b.end \in Nat
  BY DEF BlockOK, Block
<1>2. ASSUME NEW x \in b.begin .. b.end, NEW y \in b.begin .. b.end, x < y,
             \A a \in x .. y - 1 : FreeByte(b, a)
      PROVE  FreeByte(b, x) /\ FreeByte(b, y - 1)
  <2>1. x \in x .. y - 1 /\ y - 1 \in x .. y - 1
    BY <1>1, <1>2
  <2> QED BY <1>2, <2>1
<1> QED BY <1>2 DEF FreeRuns, Begins, Ends

LEMMA HoleIsRun ==
  ASSUME NEW b, BlockOK(b), NEW x \in b.used, NEW lo \in Before(b, x.from), lo < x.from
  PROVE  <<lo, x.from>> \in FreeRuns(b)
<1>1. lo \in Nat /\ b.begin <= lo /\ \A y \in b.used : y.to <= lo \/ x.from <= y.from
  BY HoleBefore
<1>2. /\ x \in Entries /\ b.begin \in Nat /\ b.end \in Nat
      /\ b.begin <= x.from /\ x.from < x.to /\ x.to <= b.end
  BY DEF BlockOK, Block
<1>3. lo \in b.begin .. b.end /\ x.from \in b.begin .. b.end
  BY <1>1, <1>2 DEF Entries
<1>4. \A a \in lo .. x.from - 1 : FreeByte(b, a)
  BY <1>1, <1>2, <1>3 DEF FreeByte, Entries, BlockOK, Block
<1>5. ~FreeByte(b, lo - 1)
  <2>1. CASE \A y \in b.used : y.from >= x.from
    <3>1. lo = b.begin
      BY <2>1 DEF Before
    <3> QED BY <1>2, <3>1 DEF FreeByte
  <2>2. CASE ~(\A y \in b.used : y.from >= x.from)
    <3>1. PICK y \in b.used : lo = y.to
      BY <2>2 DEF Before
    <3>2. y \in Entries /\ y.from < y.to
      BY DEF BlockOK, Block
    <3> QED BY <3>1, <3>2 DEF FreeByte, Entries
  <2> QED BY <2>1, <2>2
<1>6. ~FreeByte(b, x.from)
  BY <1>2 DEF FreeByte, Entries
<1> QED BY <1>3, <1>4, <1>5, <1>6, RunsMean

LEMMA LastIsRun ==
  ASSUME NEW b, BlockOK(b), NEW lo \in LastHole(b), lo < b.end
  PROVE  <<lo, b.end>> \in FreeRuns(b)
<1>1. lo \in Nat /\ b.begin <= lo /\ \A y \in b.used : y.to <= lo
  BY HoleAfter
<1>2. b.begin \in Nat /\ b.end \in Nat /\ lo \in b.begin .. b.end /\ b.end \in b.begin .. b.end
  BY <1>1 DEF BlockOK, Block
<1>4. \A a \in lo .. b.end - 1 : FreeByte(b, a)
  BY <1>1, <1>2 DEF FreeByte, Entries, BlockOK, Block
<1>5. ~FreeByte(b, lo - 1)
  <2>1. CASE b.used = {}
    <3>1. lo = b.begin
      BY <2>1 DEF LastHole
    <3> QED BY <1>2, <3>1 DEF FreeByte
  <2>2. CASE b.used # {}
    <3>1. PICK y \in b.used : lo = y.to
      BY <2>2 DEF LastHole
    <3>2. y \in Entries /\ y.from < y.to
      BY DEF BlockOK, Block
    <3> QED BY <3>1, <3>2 DEF FreeByte, Entries
  <2> QED BY <2>1, <2>2
<1>6. ~FreeByte(b, b.end)
  BY <1>2 DEF FreeByte
<1> QED BY <1>2, <1>4, <1>5, <1>6, RunsMean

(* The byte before a maximal run is the last of an entry, or outside.      *)
LEMMA RunBegins ==
  ASSUME NEW b, BlockOK(b), NEW r \in FreeRuns(b)
  PROVE  r[1] = b.begin \/ \E y \in b.used : y.to = r[1]
<1>1. /\ b.begin \in Nat /\ b.end \in Nat /\ r[1] \in b.begin .. b.end
      /\ r[2] \in b.begin .. b.end /\ r[1] < r[2]
      /\ FreeByte(b, r[1]) /\ ~FreeByte(b, r[1] - 1)
  BY RunsMean DEF BlockOK, Block
<1>2. ASSUME r[1] # b.begin
      PROVE  \E y \in b.used : y.to = r[1]
  <2>1. PICK y \in b.used : y.from <= r[1] - 1 /\ r[1] - 1 < y.to
    BY <1>1, <1>2 DEF FreeByte, BlockOK, Block, Entries
  <2>2. r[1] < y.from \/ y.to <= r[1]
    BY <1>1 DEF FreeByte
  <2> QED BY <1>1, <2>1, <2>2 DEF BlockOK, Block, Entries
<1> QED BY <1>2

(* An entry that begins before the end of a run ends where the run begins, *)
(* or earlier.                                                             *)
LEMMA BesideRun ==
  ASSUME NEW b, BlockOK(b), NEW r \in FreeRuns(b), NEW y \in b.used, y.from < r[2]
  PROVE  y.to <= r[1] /\ y.from < r[1]
<1>1. /\ r[1] \in Nat /\ r[2] \in Nat /\ r[1] < r[2]
      /\ \A a \in r[1] .. r[2] - 1 : a < y.from \/ y.to <= a
  BY RunsMean DEF FreeByte, BlockOK, Block
<1>2. y.from \in Nat /\ y.to \in Nat /\ y.from < y.to
  BY DEF BlockOK, Block, Entries
<1>3. CASE r[1] <= y.from
  <2>1. y.from \in r[1] .. r[2] - 1
    BY <1>1, <1>2, <1>3
  <2> QED BY <1>1, <1>2, <2>1
<1>4. CASE y.from < r[1]
  <2>1. r[1] \in r[1] .. r[2] - 1
    BY <1>1
  <2> QED BY <1>1, <1>2, <1>4, <2>1
<1> QED BY <1>1, <1>2, <1>3, <1>4

(* If r begins at y, then y is the last entry that begins before r ends.   *)
LEMMA EntryBeforeRun ==
  ASSUME NEW b, BlockOK(b), NEW r \in FreeRuns(b), NEW y \in b.used, y.to = r[1],
         NEW z \in b.used, z.from < r[2]
  PROVE  z.from <= y.from
<1>1. /\ z.from \in Nat /\ z.to \in Nat /\ z.from < z.to
      /\ y.from \in Nat /\ y.to \in Nat /\ y.from < y.to
  BY DEF BlockOK, Block, Entries
<1>2. z.to <= r[1]
  BY BesideRun
<1>3. z = y \/ z.to <= y.from \/ y.to <= z.from
  BY DEF BlockOK
<1> QED BY <1>1, <1>2, <1>3

(* Every maximal run is a hole that allocate looks at.                     *)
LEMMA RunIsHole ==
  ASSUME NEW b, BlockOK(b), NEW r \in FreeRuns(b)
  PROVE  \/ \E x \in b.used : r[1] \in Before(b, x.from) /\ r[2] = x.from
         \/ r[1] \in LastHole(b) /\ r[2] = b.end
<1>1. /\ b.begin \in Nat /\ b.end \in Nat /\ r[1] \in b.begin .. b.end
      /\ r[2] \in b.begin .. b.end /\ r[1] < r[2]
      /\ FreeByte(b, r[2] - 1) /\ ~FreeByte(b, r[2])
  BY RunsMean DEF BlockOK, Block
<1>2. r[1] = b.begin \/ \E y \in b.used : y.to = r[1]
  BY RunBegins
<1>3. CASE r[2] = b.end
  <2>1. \A y \in b.used : y.from < r[2]
    BY <1>3 DEF BlockOK, Block, Entries
  <2>2. CASE b.used = {}
    BY <1>2, <1>3, <2>2 DEF LastHole
  <2>3. CASE b.used # {}
    <3>1. PICK y \in b.used : y.to = r[1]
      <4>1. PICK z \in b.used : TRUE
        BY <2>3
      <4>2. z.from < r[1] /\ b.begin <= z.from
        BY <2>1, BesideRun DEF BlockOK
      <4>3. z.from \in Nat
        BY DEF BlockOK, Block, Entries
      <4> QED BY <1>1, <1>2, <4>2, <4>3
    <3>2. \A z \in b.used : z.from <= y.from
      BY <2>1, <3>1, EntryBeforeRun
    <3> QED BY <1>3, <2>3, <3>1, <3>2 DEF LastHole
  <2> QED BY <2>2, <2>3
<1>4. CASE r[2] # b.end
  <2>1. PICK x \in b.used : x.from <= r[2] /\ r[2] < x.to
    BY <1>1, <1>4 DEF FreeByte, BlockOK, Block, Entries
  <2>2. x.from = r[2]
    <3>1. r[2] - 1 < x.from \/ x.to <= r[2] - 1
      BY <1>1 DEF FreeByte
    <3> QED BY <1>1, <2>1, <3>1 DEF BlockOK, Block, Entries
  <2>3. CASE \A y \in b.used : y.from >= x.from
    <3>1. r[1] = b.begin
      <4> SUFFICES ASSUME NEW y \in b.used, y.to = r[1] PROVE FALSE
        BY <1>2
      <4>1. y.from \in Nat /\ y.to \in Nat /\ y.from < y.to
        BY DEF BlockOK, Block, Entries
      <4> QED BY <1>1, <2>2, <2>3, <4>1
    <3> QED BY <2>2, <2>3, <3>1 DEF Before
  <2>4. CASE ~(\A y \in b.used : y.from >= x.from)
    <3>1. PICK y \in b.used : y.to = r[1]
      <4>1. PICK z \in b.used : ~(z.from >= x.from)
        BY <2>4
      <4>2. z.from \in Nat /\ x.from \in Nat
        BY DEF BlockOK, Block, Entries
      <4>3. z.from < r[2]
        BY <2>2, <4>1, <4>2
      <4>4. z.from < r[1] /\ b.begin <= z.from
        BY <4>3, BesideRun DEF BlockOK
      <4> QED BY <1>1, <1>2, <4>2, <4>4
    <3>2. \A z \in b.used : z.from < x.from => z.from <= y.from
      BY <2>2, <3>1, EntryBeforeRun
    <3>3. y.from < x.from
      <4>1. y.from \in Nat /\ y.to \in Nat /\ y.from < y.to
        BY DEF BlockOK, Block, Entries
      <4> QED BY <1>1, <2>2, <3>1, <4>1
    <3>4. r[1] \in {v.to : v \in {w \in b.used : /\ w.from < x.from
                                                 /\ \A z \in b.used : z.from < x.from => z.from <= w.from}}
      BY <3>1, <3>2, <3>3
    <3> QED BY <2>2, <2>4, <3>4 DEF Before
  <2> QED BY <2>3, <2>4
<1> QED BY <1>3, <1>4

(* Without padding a candidate is its hole.                                *)
LEMMA PlainCandidate ==
  ASSUME NEW lo \in Nat, NEW hi \in Nat, lo <= hi
  PROVE  Candidate(lo, hi, 1).room = hi - lo /\ Candidate(lo, hi, 1).ptr = lo
<1>1. alignmentOffset(lo, 1) = 0
  BY DEF alignmentOffset
<1>2. Candidate(lo, hi, 1).room = Span(hi + 0, lo) /\ Candidate(lo, hi, 1).ptr = lo + 0
  BY <1>1 DEF Candidate
<1> QED BY <1>2 DEF Span

(* The hole before an entry is one, if perhaps an empty one.               *)
LEMMA HoleUpward ==
  ASSUME NEW b, BlockOK(b), NEW x \in b.used, NEW lo \in Before(b, x.from)
  PROVE  lo \in Nat /\ x.from \in Nat /\ lo <= x.from
<1>1. lo \in Nat /\ x.from \in Nat
  BY HoleBefore DEF BlockOK, Block, Entries
<1>2. CASE \A y \in b.used : y.from >= x.from
  BY <1>1, <1>2 DEF Before, BlockOK
<1>3. CASE ~(\A y \in b.used : y.from >= x.from)
  <2>1. PICK y \in b.used : lo = y.to /\ y.from < x.from
    BY <1>3 DEF Before
  <2>2. /\ y.to <= x.from \/ x.to <= y.from
        /\ y.from \in Nat /\ y.to \in Nat /\ x.to \in Nat /\ x.from < x.to
    BY <1>1, <2>1 DEF BlockOK, Block, Entries
  <2> QED BY <1>1, <2>1, <2>2
<1> QED BY <1>1, <1>2, <1>3

(* Every sufficient run is a candidate for a request for bytes, and every  *)
(* candidate that is larger than the request is such a run.                *)
LEMMA RunIsCandidate ==
  ASSUME NEW b, BlockOK(b), NEW size \in Nat \ {0}, NEW r \in FreeRuns(b), r[2] - r[1] > size
  PROVE  \E d \in Candidates(b, size, 1) : d.room = r[2] - r[1]
<1> DEFINE d == Candidate(r[1], r[2], 1)
<1>1. r[1] \in Nat /\ r[2] \in Nat /\ r[1] < r[2]
  BY RunsMean DEF BlockOK, Block
<1>2. d.room = r[2] - r[1] /\ Span(r[2], r[1]) = r[2] - r[1]
  BY <1>1, PlainCandidate DEF Span
<1> HIDE DEF d
<1>3. d \in Candidates(b, size, 1)
  <2>1. CASE \E x \in b.used : r[1] \in Before(b, x.from) /\ r[2] = x.from
    <3>1. PICK x \in b.used : r[1] \in Before(b, x.from) /\ r[2] = x.from
      BY <2>1
    <3>2. d \in HoleCandidates(b, x, size, 1)
      BY <1>1, <1>2, <3>1 DEF HoleCandidates, d
    <3> QED BY <3>2 DEF Candidates
  <2>2. CASE r[1] \in LastHole(b) /\ r[2] = b.end
    <3>1. d \in LastCandidates(b, size, 1)
      BY <1>1, <1>2, <2>2 DEF LastCandidates, d
    <3> QED BY <3>1 DEF Candidates
  <2> QED BY <2>1, <2>2, RunIsHole
<1> QED BY <1>2, <1>3

LEMMA CandidateIsRun ==
  ASSUME NEW b, BlockOK(b), NEW size \in Nat \ {0}, NEW c \in Candidates(b, size, 1), c.room > size
  PROVE  \E r \in FreeRuns(b) : r[1] = c.ptr /\ r[2] - r[1] = c.room
<1>1. ASSUME NEW x \in b.used, c \in HoleCandidates(b, x, size, 1)
      PROVE  \E r \in FreeRuns(b) : r[1] = c.ptr /\ r[2] - r[1] = c.room
  <2>1. PICK lo \in Before(b, x.from) : c = Candidate(lo, x.from, 1)
    BY <1>1 DEF HoleCandidates
  <2>2. lo \in Nat /\ x.from \in Nat /\ lo <= x.from
    BY HoleUpward
  <2>3. c.room = x.from - lo /\ c.ptr = lo
    BY <2>1, <2>2, PlainCandidate
  <2>4. <<lo, x.from>> \in FreeRuns(b)
    BY <2>2, <2>3, HoleIsRun
  <2> QED BY <2>3, <2>4
<1>2. ASSUME c \in LastCandidates(b, size, 1)
      PROVE  \E r \in FreeRuns(b) : r[1] = c.ptr /\ r[2] - r[1] = c.room
  <2>1. PICK lo \in LastHole(b) : c = Candidate(lo, b.end, 1)
    BY <1>2 DEF LastCandidates
  <2>2. lo \in Nat /\ b.end \in Nat /\ lo <= b.end
    BY HoleAfter DEF LastHole, BlockOK, Block, Entries
  <2>3. c.room = b.end - lo /\ c.ptr = lo
    BY <2>1, <2>2, PlainCandidate
  <2>4. <<lo, b.end>> \in FreeRuns(b)
    BY <2>2, <2>3, LastIsRun
  <2> QED BY <2>3, <2>4
<1> QED BY <1>1, <1>2 DEF Candidates

(* What a block serves begins a smallest run that is larger than the       *)
(* request.                                                                *)
LEMMA ServedFromSmallest ==
  ASSUME NEW b, BlockOK(b), NEW size \in Nat \ {0}, NEW c \in Allocate(b, size, 1)
  PROVE  \E r \in FreeRuns(b) :
           /\ r[1] = c.ptr /\ r[2] - r[1] > size
           /\ \A q \in FreeRuns(b) : q[2] - q[1] > size => r[2] - r[1] <= q[2] - q[1]
<1>1. /\ c \in Candidates(b, size, 1) /\ c.room > size
      /\ \A d \in Candidates(b, size, 1) : c.room < d.room \/ c.room = d.room
  BY DEF Allocate, IsFirstMin
<1>2. PICK r \in FreeRuns(b) : r[1] = c.ptr /\ r[2] - r[1] = c.room
  BY <1>1, CandidateIsRun
<1>3. r[1] \in Nat /\ r[2] \in Nat
  BY RunsMean DEF BlockOK, Block
<1>4. ASSUME NEW q \in FreeRuns(b), q[2] - q[1] > size
      PROVE  r[2] - r[1] <= q[2] - q[1]
  <2>1. PICK d \in Candidates(b, size, 1) : d.room = q[2] - q[1]
    BY <1>4, RunIsCandidate
  <2>2. q[1] \in Nat /\ q[2] \in Nat
    BY RunsMean DEF BlockOK, Block
  <2> QED BY <1>1, <1>2, <1>3, <2>1, <2>2
<1> QED BY <1>1, <1>2, <1>4

(* allocate serves from the smallest sufficient hole, and aligned: the     *)
(* search over the map of regions against its definition over bytes, until *)
(* a request needs padding.                                                *)
THEOREM MemoryFitsBest == Spec => []FitsBest
<1>1. Init => PoolInv
  BY InitOK DEF Init, PoolInv
<1>2. PoolInv /\ [Next]_vars => PoolInv'
  BY NextOK
<1>3. AlignedInv /\ PoolInv => FitsBest
  <2> SUFFICES ASSUME AlignedInv, PoolInv PROVE FitsBest
    OBVIOUS
  <2>1. ASSUME ~padded, NEW i \in DOMAIN blocks, NEW size \in Sizes,
               NEW c \in Allocate(blocks[i], size, 1)
        PROVE  \E r \in FreeRuns(blocks[i]) :
                 /\ r[1] = c.ptr /\ r[2] - r[1] > size
                 /\ \A q \in FreeRuns(blocks[i]) : q[2] - q[1] > size => r[2] - r[1] <= q[2] - q[1]
    <3>1. BlockOK(blocks[i]) /\ size \in Nat \ {0}
      BY <2>1, PoolAssumption DEF PoolInv, Tidy
    <3> QED BY <3>1, ServedFromSmallest
  <2>2. BestFit
    BY <2>1 DEF BestFit
  <2> QED BY <2>2 DEF FitsBest, AlignedInv
<1> QED BY <1>1, <1>2, <1>3, AlignedInvariant, PTL DEF Spec

================================================================================
