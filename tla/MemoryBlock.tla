------------------------------ MODULE MemoryBlock ------------------------------
(***************************************************************************)
(* MemoryBlock<XPU> (src/src/MemoryBlock.cpp): the memory from begin to    *)
(* end, and the map from the first to the past-the-end address of each     *)
(* region that is allocated in it.  allocate looks for the smallest hole   *)
(* that is large enough; deAllocate forgets a region.                      *)
(*                                                                         *)
(* A block is a record [begin, end, used]; an entry of the map is          *)
(* [from, to].  What allocate chooses is a set of candidates: empty for    *)
(* nullptr, and all with one address otherwise.                            *)
(***************************************************************************)
EXTENDS Integers

CONSTANT Word   (* 2^64 in the code: the number of values of size_t          *)

NewBlock(begin, size) == [begin |-> begin, end |-> begin + size, used |-> {}]

(* The cast of a pointer difference to size_t: a negative one wraps.       *)
Span(hi, lo) == IF lo <= hi THEN hi - lo ELSE Word + hi - lo

(* Mutant: the misalignment itself.                                        *)
misalignment(p, e) == p % e

(* The least i for which p + i is a multiple of e.                         *)
alignmentOffset(p, e) == (e - (p % e)) % e

(* Mutant: the hole begins where the entry before it begins.               *)
BeforeFromStart(b, p) ==
  IF \A x \in b.used : x.from >= p THEN {b.begin}
  ELSE {x.from : x \in {y \in b.used : /\ y.from < p
                                       /\ \A z \in b.used : z.from < p => z.from <= y.from}}

(* The hole before p: it begins where the entry before p in the map ends,  *)
(* or where the block begins.                                              *)
Before(b, p) ==
  IF \A x \in b.used : x.from >= p THEN {b.begin}
  ELSE {x.to : x \in {y \in b.used : /\ y.from < p
                                     /\ \A z \in b.used : z.from < p => z.from <= y.from}}

(* The hole after the last entry.                                          *)
LastHole(b) ==
  IF b.used = {} THEN {b.begin}
  ELSE {x.to : x \in {y \in b.used : \A z \in b.used : z.from <= y.from}}

(* Mutant: the address is moved down to the alignment.                     *)
CandidateDown(lo, hi, e) ==
  [room |-> Span(hi + alignmentOffset(lo, e), lo), ptr |-> lo - alignmentOffset(lo, e),
   padded |-> alignmentOffset(lo, e) # 0]

(* A candidate: its size as the code computes it, which counts the padding *)
(* for alignment as if it were part of the hole, its address, and whether  *)
(* there is padding.                                                       *)
Candidate(lo, hi, e) ==
  [room |-> Span(hi + alignmentOffset(lo, e), lo), ptr |-> lo + alignmentOffset(lo, e),
   padded |-> alignmentOffset(lo, e) # 0]

(* The hole before an entry must be larger than the request.               *)
HoleCandidates(b, x, size, e) ==
  {Candidate(lo, x.from, e) : lo \in {l \in Before(b, x.from) :
     Span(x.from, l) > size /\ Candidate(l, x.from, e).room >= size}}

(* The last hole must be at least as large.                                *)
LastCandidates(b, size, e) ==
  {Candidate(lo, b.end, e) : lo \in {l \in LastHole(b) :
     Span(b.end, l) >= size /\ Candidate(l, b.end, e).room >= size}}

Candidates(b, size, e) ==
  (UNION {HoleCandidates(b, x, size, e) : x \in b.used}) \cup LastCandidates(b, size, e)

(* Mutant: the largest.                                                    *)
IsFirstMax(c, S) ==
  \A d \in S : c.room > d.room \/ (c.room = d.room /\ c.ptr <= d.ptr)

(* std::min_element: the first of the smallest.  The holes are listed by   *)
(* address.                                                                *)
IsFirstMin(c, S) ==
  \A d \in S : c.room < d.room \/ (c.room = d.room /\ c.ptr <= d.ptr)

Allocate(b, size, e) ==
  IF size > b.end - b.begin THEN {}
  ELSE LET C == Candidates(b, size, e) IN
         {c \in C : IsFirstMin(c, C) /\ c.room > size}

(* allocatedBlocks[p] = p + size                                           *)
Take(b, p, size) ==
  [b EXCEPT !.used = {x \in @ : x.from # p} \cup {[from |-> p, to |-> p + size]}]

(* Whether deAllocate(p) returns true; end itself counts as inside.        *)
DeAllocates(b, p) == b.begin <= p /\ p <= b.end

(* Mutant: the region that ends at p is forgotten.                         *)
ReleaseTo(b, p) == [b EXCEPT !.used = {x \in @ : x.to # p}]

Release(b, p) == [b EXCEPT !.used = {x \in @ : x.from # p}]

================================================================================
