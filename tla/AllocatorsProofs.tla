---------------------------- MODULE AllocatorsProofs ---------------------------
(***************************************************************************)
(* Proofs that the allocators, of the host and of the device, never give   *)
(* memory to two clients and lose it in the known ways only, for any sets  *)
(* of threads, clients, blocks, sizes and shapes, any thresholds, delays   *)
(* and width of size_t: through any mix of policies, releases on other     *)
(* threads, threads that end and headers of parts of a matrix.             *)
(***************************************************************************)
EXTENDS
  HostAllocators, DeviceAllocators, FunctionTheorems, FiniteSetTheorems, SequenceTheorems,
  WellFoundedInduction, TLAPS

----------------------------------------------------------------------------
(* Numbers and lists of freed blocks                                       *)

(* A list of freed blocks has each block once.                             *)
Once(s) == \A j, k \in DOMAIN s : j # k => s[j].ptr # s[k].ptr

Ptrs(s) == {s[k].ptr : k \in DOMAIN s}

(* A set of natural numbers has a least one.                               *)
LEMMA LeastNumber ==
  ASSUME NEW S, S \subseteq Nat, S # {}
  PROVE  \E m \in S : \A n \in S : m <= n
<1> DEFINE R == StrictSubsetOrdering(Nat)
           T == {0..n : n \in S}
<1>1. IsWellFoundedOn(R, FiniteSubsetsOf(Nat))
  BY FS_StrictSubsetOrderingWellFounded
<1>2. T \subseteq FiniteSubsetsOf(Nat)
  <2>1. ASSUME NEW n \in S PROVE 0..n \in FiniteSubsetsOf(Nat)
    <3>1. n \in Int /\ 0 \in Int
      OBVIOUS
    <3>2. IsFiniteSet(0..n)
      BY <3>1, FS_Interval
    <3>3. 0..n \in SUBSET Nat
      BY <3>1
    <3> QED BY <3>2, <3>3 DEF FiniteSubsetsOf
  <2> QED BY <2>1
<1>3. T # {}
  OBVIOUS
<1>4. ASSUME NEW x \in Nat, NEW y \in Nat, x < y PROVE <<0..x, 0..y>> \in R
  <2>1. 0..x \subseteq 0..y /\ 0..x # 0..y
    BY <1>4
  <2> QED BY <2>1 DEF StrictSubsetOrdering
<1> HIDE DEF R, T
<1>5. PICK U \in T : \A V \in T : <<V, U>> \notin R
  BY <1>1, <1>2, <1>3, WFMin
<1>6. PICK m \in S : U = 0..m
  BY DEF T
<1>7. \A n \in S : <<0..n, 0..m>> \notin R
  BY <1>5, <1>6 DEF T
<1>8. ASSUME NEW n \in S PROVE ~(n < m)
  BY <1>4, <1>7
<1> QED BY <1>8

(* A list of different blocks is as long as it has blocks.                 *)
LEMMA OnceCounts ==
  ASSUME NEW E, NEW s \in Seq(E), Once(s)
  PROVE  Cardinality(Ptrs(s)) = Len(s)
<1> DEFINE f == [k \in DOMAIN s |-> s[k].ptr]
<1>1. DOMAIN s = 1 .. Len(s) /\ Len(s) \in Nat
  OBVIOUS
<1>2. f \in Bijection(1 .. Len(s), Ptrs(s))
  BY <1>1, Fun_IsBij DEF Once, Ptrs
<1>3. ExistsBijection(1 .. Len(s), Ptrs(s))
  BY <1>2 DEF ExistsBijection
<1>4. IsFiniteSet(1 .. Len(s)) /\ Cardinality(1 .. Len(s)) = Len(s)
  <2>1. 1 \in Int /\ Len(s) \in Int
    BY <1>1
  <2>2. IsFiniteSet(1 .. Len(s)) /\ Cardinality(1 .. Len(s)) = IF 1 > Len(s) THEN 0 ELSE Len(s) - 1 + 1
    BY <2>1, FS_Interval, Zenon
  <2> QED BY <1>1, <2>2, SMTT(30)
<1> QED BY <1>3, <1>4, FS_Bijection

(* One block is taken out of a list, and the others stay.                  *)
LEMMA Removed ==
  ASSUME NEW E, NEW s \in Seq(E), Once(s), NEW k \in DOMAIN s
  PROVE  LET q == RemoveAt(s, k) IN
         /\ q \in Seq(E) /\ Once(q)
         /\ \A j \in DOMAIN q : \E l \in DOMAIN s : q[j] = s[l]
         /\ Ptrs(q) = Ptrs(s) \ {s[k].ptr}
<1> DEFINE q == RemoveAt(s, k)
           l == Len(s)
<1>1. DOMAIN s = 1 .. l /\ l \in Nat
  OBVIOUS
<1>3. k \in 1 .. l
  BY <1>1
<1> DEFINE a == SubSeq(s, 1, k - 1)
           b == SubSeq(s, k + 1, l)
<1>4. q = a \o b
  BY DEF RemoveAt
<1>5. a \in Seq(E) /\ Len(a) = k - 1 /\ \A j \in 1 .. k - 1 : a[j] = s[j]
  BY <1>1, <1>3
<1>6. b \in Seq(E) /\ Len(b) = l - k /\ \A j \in 1 .. l - k : b[j] = s[j + k]
  <2>1. k + 1 \in Int /\ l \in Int /\ \A j \in k + 1 .. l : s[j] \in E
    BY <1>1, <1>3
  <2>2. /\ b \in Seq(E) /\ Len(b) = IF k + 1 <= l THEN l - (k + 1) + 1 ELSE 0
        /\ \A j \in 1 .. l - (k + 1) + 1 : b[j] = s[k + 1 + j - 1]
    BY <2>1, SubSeqProperties
  <2> HIDE DEF b, l
  <2>3. l - (k + 1) + 1 = l - k /\ (~(k + 1 <= l) => l - k = 0)
    BY <1>1, <1>3
  <2>4. Len(b) = l - k
    BY <2>2, <2>3
  <2>5. \A j \in 1 .. l - k : k + 1 + j - 1 = j + k
    BY <1>1, <1>3
  <2> QED BY <2>2, <2>3, <2>4, <2>5
<1> HIDE DEF q, l, a, b
<1>7. /\ q \in Seq(E) /\ DOMAIN q = 1 .. l - 1
      /\ \A j \in 1 .. l - 1 : q[j] = IF j < k THEN s[j] ELSE s[j + 1]
  <2>1. /\ q \in Seq(E) /\ Len(q) = Len(a) + Len(b)
        /\ \A j \in 1 .. Len(a) + Len(b) :
             q[j] = IF j <= Len(a) THEN a[j] ELSE b[j - Len(a)]
    BY <1>4, <1>5, <1>6, ConcatProperties
  <2>2. Len(a) + Len(b) = l - 1
    BY <1>1, <1>3, <1>5, <1>6
  <2>3. q \in Seq(E) /\ DOMAIN q = 1 .. l - 1
    BY <2>1, <2>2
  <2>4. ASSUME NEW j \in 1 .. l - 1 PROVE q[j] = IF j < k THEN s[j] ELSE s[j + 1]
    <3>1. CASE j < k
      <4>1. j <= Len(a) /\ j \in 1 .. k - 1 /\ j \in 1 .. Len(a) + Len(b)
        BY <1>1, <1>3, <1>5, <2>2, <3>1
      <4>2. q[j] = a[j]
        BY <2>1, <4>1
      <4> QED BY <1>5, <3>1, <4>1, <4>2
    <3>2. CASE ~(j < k)
      <4>1. j - (k - 1) \in 1 .. l - k /\ j - (k - 1) + k = j + 1
        BY <1>1, <1>3, <3>2
      <4>2. ~(j <= Len(a)) /\ j - Len(a) = j - (k - 1) /\ j \in 1 .. Len(a) + Len(b)
        BY <1>1, <1>3, <1>5, <2>2, <3>2
      <4>3. q[j] = b[j - (k - 1)]
        BY <2>1, <4>2
      <4> QED BY <1>6, <3>2, <4>1, <4>3
    <3> QED BY <3>1, <3>2
  <2> QED BY <2>3, <2>4
<1>8. \A j \in DOMAIN q :
        \E i \in DOMAIN s : i # k /\ q[j] = s[i] /\ i = (IF j < k THEN j ELSE j + 1)
  BY <1>1, <1>3, <1>7
<1>9. \A i \in DOMAIN s : i # k => \E j \in DOMAIN q : q[j] = s[i]
  <2> SUFFICES ASSUME NEW i \in DOMAIN s, i # k PROVE \E j \in DOMAIN q : q[j] = s[i]
    OBVIOUS
  <2>1. CASE i < k
    <3>1. i \in DOMAIN q
      BY <1>1, <1>3, <1>7, <2>1
    <3> QED BY <1>7, <2>1, <3>1
  <2>2. CASE ~(i < k)
    <3>1. i - 1 \in DOMAIN q /\ ~(i - 1 < k) /\ (i - 1) + 1 = i
      BY <1>1, <1>3, <1>7, <2>2
    <3> QED BY <1>7, <3>1
  <2> QED BY <2>1, <2>2
<1>10. Once(q)
  <2> SUFFICES ASSUME NEW c \in DOMAIN q, NEW d \in DOMAIN q, c # d PROVE q[c].ptr # q[d].ptr
    BY DEF Once
  <2>1. PICK i \in DOMAIN s : q[c] = s[i] /\ i = (IF c < k THEN c ELSE c + 1)
    BY <1>8
  <2>2. PICK j \in DOMAIN s : q[d] = s[j] /\ j = (IF d < k THEN d ELSE d + 1)
    BY <1>8
  <2>3. i # j
    BY <1>1, <1>3, <1>7, <2>1, <2>2
  <2> QED BY <2>1, <2>2, <2>3 DEF Once
<1>11. Ptrs(q) = Ptrs(s) \ {s[k].ptr}
  <2>1. \A j \in DOMAIN q : q[j].ptr \in Ptrs(s) \ {s[k].ptr}
    <3> SUFFICES ASSUME NEW j \in DOMAIN q PROVE q[j].ptr \in Ptrs(s) \ {s[k].ptr}
      OBVIOUS
    <3>1. PICK i \in DOMAIN s : i # k /\ q[j] = s[i]
      BY <1>8
    <3> QED BY <1>1, <1>3, <3>1 DEF Ptrs, Once
  <2>2. \A i \in DOMAIN s : i # k => s[i].ptr \in Ptrs(q)
    <3> SUFFICES ASSUME NEW i \in DOMAIN s, i # k PROVE s[i].ptr \in Ptrs(q)
      OBVIOUS
    <3>1. PICK j \in DOMAIN q : q[j] = s[i]
      BY <1>9
    <3> QED BY <3>1 DEF Ptrs
  <2> QED BY <2>1, <2>2 DEF Ptrs
<1>12. \A j \in DOMAIN q : \E i \in DOMAIN s : q[j] = s[i]
  BY <1>8
<1> QED BY <1>1, <1>3, <1>7, <1>10, <1>11, <1>12 DEF q

(* A freed block goes to the end of a list.                                *)
LEMMA AppendedOnce ==
  ASSUME NEW E, NEW s \in Seq(E), Once(s), NEW e \in E, e.ptr \notin Ptrs(s)
  PROVE  LET q == Append(s, e) IN
         /\ q \in Seq(E) /\ Once(q) /\ Ptrs(q) = Ptrs(s) \cup {e.ptr}
         /\ \A k \in DOMAIN q : q[k] = e \/ \E j \in DOMAIN s : q[k] = s[j]
<1> DEFINE q == Append(s, e)
<1>1. /\ q \in Seq(E) /\ DOMAIN s = 1 .. Len(s) /\ DOMAIN q = 1 .. Len(s) + 1
      /\ Len(s) \in Nat /\ q[Len(s) + 1] = e
      /\ \A k \in 1 .. Len(s) : q[k] = s[k]
  OBVIOUS
<1> HIDE DEF q
<1>2. \A k \in DOMAIN q : (k \in DOMAIN s /\ q[k] = s[k]) \/ (k = Len(s) + 1 /\ q[k] = e)
  BY <1>1
<1>3. \A k \in DOMAIN s : k \in DOMAIN q /\ q[k] = s[k]
  BY <1>1
<1>4. Len(s) + 1 \in DOMAIN q
  BY <1>1
<1>5. Once(q)
  BY <1>2 DEF Once, Ptrs
<1>6. Ptrs(q) = Ptrs(s) \cup {e.ptr}
  BY <1>1, <1>2, <1>3, <1>4 DEF Ptrs
<1>7. \A k \in DOMAIN q : q[k] = e \/ \E j \in DOMAIN s : q[k] = s[j]
  BY <1>2
<1> QED BY <1>1, <1>5, <1>6, <1>7 DEF q

----------------------------------------------------------------------------
(* The host: its inductive invariant                                       *)

Mat == [ptr : HostBlocks \cup {User, Garbage}, size : Nat, count : 0..2,
        form : {"none", "thread", "mt", "bytes", "stl", "pinned"}]
Entry == [ptr : HostBlocks, time : Nat, size : Nat]

(* It knows the sizes of blocks that are there.                            *)
Lists ==
  \A i \in Instances :
    /\ Once(stack[i])
    /\ \A k \in DOMAIN stack[i] :
         stack[i][k].ptr \in DOMAIN heap /\ heap[stack[i][k].ptr] = stack[i][k].size

ListsApart == \A i, j \in Instances : i # j => ListedIn(i) \cap ListedIn(j) = {}

(* Where the memory of a client is: HostSound only says that it is in one  *)
(* of the two places, but its release asks the one that its size and the   *)
(* policy name.  v is what the client holds, h the heap, p the pools.      *)
Placed(v, h, p) ==
  IF v.form # "pinned" /\ ToPool(v.size, v.form)
  THEN v.ptr \in p
  ELSE v.ptr \in DOMAIN h /\ h[v.ptr] = v.size

InUse ==
  /\ \A m, o \in Used : m # o => mat[m].ptr # mat[o].ptr
  /\ \A m \in Used : Placed(mat[m], heap, InPools) /\ mat[m].ptr \notin Listed

Held == {mat[m].ptr : m \in Used}

(* A region is of one pool, and no pool gives out memory of a stack.       *)
PoolsApart ==
  /\ \A i, j \in Instances : i # j => pool[i] \cap pool[j] = {}
  /\ \A i \in Instances : pool[i] \cap DOMAIN heap = {}

HostInv == HostTypeOK /\ Lists /\ ListsApart /\ PoolsApart /\ InUse /\ HostConserves

(* What the system gives is a block that nobody has.                       *)
LEMMA FreshIsUnused ==
  ASSUME Unused # {}
  PROVE  Fresh \in HostBlocks /\ Fresh \notin DOMAIN heap \cup InPools
<1>1. Unused \subseteq Nat
  BY HostAssumption DEF Unused
<1>2. \E b \in Unused : \A c \in Unused : b <= c
  BY <1>1, LeastNumber
<1>3. Fresh \in Unused
  BY <1>2 DEF Fresh
<1> QED BY <1>3 DEF Unused

(* kept up to element n of the loop of cleanup, and that it has a solution.*)
Loop(s, now, n, f) ==
  f = [k \in 0 .. n |->
         IF k = 0 THEN <<>>
         ELSE IF Stale(s[k], now) THEN f[k - 1] ELSE Append(f[k - 1], s[k])]

LEMMA LoopRuns ==
  ASSUME NEW s \in Seq(Entry), NEW now
  PROVE  \A n \in Nat : \E f : Loop(s, now, n, f)
<1> DEFINE Bad == {n \in Nat : ~\E f : Loop(s, now, n, f)}
<1>1. SUFFICES ASSUME Bad # {} PROVE FALSE
  OBVIOUS
<1>2. PICK n \in Bad : \A m \in Bad : n <= m
  BY <1>1, LeastNumber
<1>3. CASE n = 0
  <2> DEFINE f == [k \in 0 .. 0 |-> <<>>]
  <2>1. Loop(s, now, 0, f)
    BY DEF Loop
  <2> QED BY <1>2, <1>3, <2>1
<1>4. CASE n # 0
  <2>1. n - 1 \in Nat /\ n - 1 \notin Bad
    BY <1>2, <1>4
  <2>2. PICK f : Loop(s, now, n - 1, f)
    BY <2>1
  <2> DEFINE last == IF Stale(s[n], now) THEN f[n - 1] ELSE Append(f[n - 1], s[n])
             g == [k \in 0 .. n |-> IF k = n THEN last ELSE f[k]]
  <2>3. \A k \in 0 .. n - 1 : g[k] = f[k]
    BY <2>1
  <2>4. g[n] = last /\ g[n - 1] = f[n - 1]
    BY <1>4, <2>1
  <2>5. \A k \in 0 .. n - 1 :
          f[k] = IF k = 0 THEN <<>>
                 ELSE IF Stale(s[k], now) THEN f[k - 1] ELSE Append(f[k - 1], s[k])
    BY <2>2, <2>1 DEF Loop
  <2>6. \A k \in 0 .. n :
          g[k] = IF k = 0 THEN <<>>
                 ELSE IF Stale(s[k], now) THEN g[k - 1] ELSE Append(g[k - 1], s[k])
    <3> SUFFICES ASSUME NEW k \in 0 .. n
                 PROVE  g[k] = IF k = 0 THEN <<>>
                               ELSE IF Stale(s[k], now) THEN g[k - 1] ELSE Append(g[k - 1], s[k])
      OBVIOUS
    <3>1. CASE k = n
      BY <1>4, <2>4, <3>1
    <3>2. CASE k = 0
      <4>1. 0 \in 0 .. n - 1 /\ g[0] = f[0] /\ f[0] = <<>>
        BY <1>4, <2>1, <2>3, <2>5
      <4> QED BY <3>2, <4>1
    <3>3. CASE k # n /\ k # 0
      <4>1. k \in 0 .. n - 1 /\ k - 1 \in 0 .. n - 1
        BY <2>1, <3>3
      <4>2. g[k] = f[k] /\ g[k - 1] = f[k - 1]
        BY <2>3, <4>1
      <4> HIDE DEF g
      <4> QED BY <2>5, <3>3, <4>1, <4>2
    <3> QED BY <3>1, <3>2, <3>3
  <2>7. g = [k \in 0 .. n |-> g[k]]
    OBVIOUS
  <2> HIDE DEF g
  <2>8. Loop(s, now, n, g)
    BY <2>6, <2>7 DEF Loop
  <2> QED BY <1>2, <2>8
<1> QED BY <1>3, <1>4

(* What a list q keeps of the first n elements of s.                       *)
Keeps(s, now, n, q) ==
  /\ q \in Seq(Entry)
  /\ \A k \in DOMAIN q : \E j \in 1 .. n : q[k] = s[j] /\ ~Stale(s[j], now)
  /\ \A j \in 1 .. n : Stale(s[j], now) \/ \E k \in DOMAIN q : q[k] = s[j]
  /\ Once(s) => Once(q)

LEMMA KeepsNext ==
  ASSUME NEW s \in Seq(Entry), NEW now, NEW n \in 1 .. Len(s), NEW q, Keeps(s, now, n - 1, q)
  PROVE  Keeps(s, now, n, IF Stale(s[n], now) THEN q ELSE Append(q, s[n]))
<1>1. /\ s[n] \in Entry /\ n \in Nat /\ DOMAIN s = 1 .. Len(s)
      /\ \A j \in 1 .. n : j \in 1 .. n - 1 \/ j = n
  OBVIOUS
<1>2. CASE Stale(s[n], now)
  BY <1>1, <1>2 DEF Keeps
<1>3. CASE ~Stale(s[n], now)
  <2> DEFINE r == Append(q, s[n])
  <2>1. q \in Seq(Entry) /\ Len(q) \in Nat /\ DOMAIN q = 1 .. Len(q)
    BY DEF Keeps
  <2>2. /\ r \in Seq(Entry) /\ Len(r) = Len(q) + 1 /\ r[Len(q) + 1] = s[n]
        /\ \A k \in 1 .. Len(q) : r[k] = q[k]
    BY <1>1, <2>1
  <2> HIDE DEF r
  <2>3. DOMAIN r = 1 .. Len(q) + 1
    BY <2>2
  <2>4. \A k \in DOMAIN r : (k \in DOMAIN q /\ r[k] = q[k]) \/ (k = Len(q) + 1 /\ r[k] = s[n])
    BY <2>1, <2>2, <2>3
  <2>5. \A k \in DOMAIN r : \E j \in 1 .. n : r[k] = s[j] /\ ~Stale(s[j], now)
    BY <1>1, <1>3, <2>4 DEF Keeps
  <2>6. ASSUME NEW j \in 1 .. n
        PROVE  Stale(s[j], now) \/ \E k \in DOMAIN r : r[k] = s[j]
    <3>1. CASE j = n
      BY <2>1, <2>2, <2>3, <3>1
    <3>2. CASE j # n
      <4>1. Stale(s[j], now) \/ \E k \in DOMAIN q : q[k] = s[j]
        BY <1>1, <3>2 DEF Keeps
      <4>2. \A k \in DOMAIN q : k \in DOMAIN r /\ r[k] = q[k]
        BY <2>1, <2>2, <2>3
      <4> QED BY <4>1, <4>2
    <3> QED BY <3>1, <3>2
  <2>7. ASSUME Once(s) PROVE Once(r)
    <3>1. Once(q)
      BY <2>7 DEF Keeps
    <3>2. \A k \in DOMAIN q : q[k].ptr # s[n].ptr
      <4> SUFFICES ASSUME NEW k \in DOMAIN q PROVE q[k].ptr # s[n].ptr
        OBVIOUS
      <4>1. PICK j \in 1 .. n - 1 : q[k] = s[j]
        BY DEF Keeps
      <4>2. j \in DOMAIN s /\ n \in DOMAIN s /\ j # n
        BY <1>1
      <4> QED BY <2>7, <4>1, <4>2 DEF Once
    <3> QED BY <2>1, <2>4, <3>1, <3>2 DEF Once
  <2> QED BY <1>3, <2>2, <2>5, <2>6, <2>7 DEF Keeps, r
<1> QED BY <1>2, <1>3

(* cleanup leaves what is not stale, and has it once if it was there once. *)
LEMMA KeptRight ==
  ASSUME NEW s \in Seq(Entry), NEW now
  PROVE  Keeps(s, now, Len(s), Kept(s, now))
<1> DEFINE kept == CHOOSE f : Loop(s, now, Len(s), f)
<1>1. Kept(s, now) = kept[Len(s)]
  BY DEF Kept, Loop
<1>2. Loop(s, now, Len(s), kept)
  <2>1. Len(s) \in Nat
    OBVIOUS
  <2>2. \E f : Loop(s, now, Len(s), f)
    BY <2>1, LoopRuns
  <2> QED BY <2>2
<1> HIDE DEF kept
<1>3. \A k \in 0 .. Len(s) :
        kept[k] = IF k = 0 THEN <<>>
                  ELSE IF Stale(s[k], now) THEN kept[k - 1] ELSE Append(kept[k - 1], s[k])
  BY <1>2 DEF Loop
<1> DEFINE Bad == {n \in 0 .. Len(s) : ~Keeps(s, now, n, kept[n])}
<1>4. Bad = {}
  <2> SUFFICES ASSUME Bad # {} PROVE FALSE
    OBVIOUS
  <2>0. Bad \subseteq Nat
    OBVIOUS
  <2>1. PICK n \in Bad : \A m \in Bad : n <= m
    BY <2>0, LeastNumber
  <2>2. CASE n = 0
    <3>1. kept[0] = <<>>
      BY <1>3
    <3>2. Keeps(s, now, 0, <<>>)
      BY DEF Keeps, Once
    <3> QED BY <2>1, <2>2, <3>1, <3>2
  <2>3. CASE n # 0
    <3>1. n \in 1 .. Len(s) /\ n - 1 \in 0 .. Len(s) /\ n - 1 \notin Bad
      BY <2>1, <2>3
    <3>2. Keeps(s, now, n - 1, kept[n - 1])
      BY <3>1
    <3>3. kept[n] = IF Stale(s[n], now) THEN kept[n - 1] ELSE Append(kept[n - 1], s[n])
      BY <1>3, <2>3
    <3>4. Keeps(s, now, n, kept[n])
      BY <3>1, <3>2, <3>3, KeepsNext
    <3> QED BY <2>1, <3>4
  <2> QED BY <2>2, <2>3
<1>5. Keeps(s, now, Len(s), kept[Len(s)])
  BY <1>4
<1> QED BY <1>1, <1>5

----------------------------------------------------------------------------
(* What clients, lists and pools have after a step                         *)

LEMMA ListedPtrs ==
  /\ \A i : ListedIn(i) = Ptrs(stack[i])
  /\ \A x : x \in Listed <=> \E i \in Instances : x \in Ptrs(stack[i])
BY DEF ListedIn, Listed, Ptrs

LEMMA ListedPtrsNext ==
  /\ \A i : ListedIn(i)' = Ptrs(stack'[i])
  /\ \A x : x \in Listed' <=> \E i \in Instances : x \in Ptrs(stack'[i])
BY DEF ListedIn, Listed, Ptrs

LEMMA InSomePool ==
  \A x : x \in InPools <=> x \in orphans \/ \E i \in Instances : x \in pool[i]
BY DEF InPools

LEMMA InSomePoolNext ==
  \A x : x \in InPools' <=> x \in orphans' \/ \E i \in Instances : x \in pool'[i]
BY DEF InPools

LEMMA TypesOf ==
  ASSUME HostTypeOK
  PROVE  /\ mat \in [Mats -> Mat] /\ stack \in [Instances -> Seq(Entry)]
         /\ \A i \in Instances : DOMAIN stack[i] = 1 .. Len(stack[i]) /\ Len(stack[i]) \in Nat
         /\ pool \in [Instances -> SUBSET HostBlocks] /\ DOMAIN heap \subseteq HostBlocks
         /\ User \notin HostBlocks /\ Garbage \notin HostBlocks
<1>1. 0 \notin HostBlocks /\ -1 \notin HostBlocks
  BY HostAssumption
<1>2. mat \in [Mats -> Mat] /\ stack \in [Instances -> Seq(Entry)]
  BY DEF HostTypeOK, Mat, Entry
<1>3. \A i \in Instances : DOMAIN stack[i] = 1 .. Len(stack[i]) /\ Len(stack[i]) \in Nat
  BY <1>2
<1> QED BY <1>1, <1>2, <1>3 DEF HostTypeOK, User, Garbage

(* A client that had nothing gets r.                                       *)
LEMMA UseNew ==
  ASSUME HostTypeOK, InUse, NEW m \in Mats, mat[m] = Nothing, NEW r \in Mat,
         mat' = [mat EXCEPT ![m] = r],
         r.ptr \in HostBlocks =>
           Placed(r, heap', InPools') /\ r.ptr \notin Listed' /\ r.ptr \notin Held,
         \A o \in Used : Placed(mat[o], heap', InPools') /\ mat[o].ptr \notin Listed'
  PROVE  InUse' /\ Held \subseteq Held' /\ (r.ptr \in HostBlocks => r.ptr \in Held')
<1>1. mat \in [Mats -> Mat] /\ 0 \notin HostBlocks
  BY TypesOf DEF User
<1>2. m \notin Used
  BY <1>1 DEF Used, Nothing
<1>3. mat'[m] = r /\ \A o \in Mats \ {m} : mat'[o] = mat[o]
  BY <1>1
<1>4. /\ Used' \subseteq Used \cup {m} /\ Used \subseteq Used'
      /\ m \in Used' <=> r.ptr \in HostBlocks
  BY <1>2, <1>3 DEF Used
<1>5. ASSUME NEW o \in Used
      PROVE  o \in Mats \ {m} /\ mat'[o] = mat[o] /\ mat[o].ptr \in Held
  BY <1>2, <1>3 DEF Used, Held
<1>6. \A o, p \in Used' : o # p => mat'[o].ptr # mat'[p].ptr
  BY <1>3, <1>4, <1>5 DEF InUse
<1>7. \A o \in Used' : Placed(mat'[o], heap', InPools') /\ mat'[o].ptr \notin Listed'
  BY <1>3, <1>4, <1>5
<1>8. InUse'
  BY <1>6, <1>7 DEF InUse
<1>9. Held \subseteq Held' /\ (r.ptr \in HostBlocks => r.ptr \in Held')
  BY <1>3, <1>4, <1>5 DEF Held
<1> QED BY <1>8, <1>9

(* A client gives up what it has.                                          *)
LEMMA UseGone ==
  ASSUME HostTypeOK, InUse, NEW m \in Mats, mat' = [mat EXCEPT ![m] = Nothing],
         \A o \in Used \ {m} : Placed(mat[o], heap', InPools') /\ mat[o].ptr \notin Listed'
  PROVE  /\ InUse'
         /\ Held \subseteq Held' \cup {mat[m].ptr}
<1>1. mat \in [Mats -> Mat] /\ 0 \notin HostBlocks
  BY TypesOf DEF User
<1>3. mat'[m].ptr = 0 /\ \A o \in Mats \ {m} : mat'[o] = mat[o]
  BY <1>1 DEF Nothing
<1>4. Used' = Used \ {m}
  BY <1>1, <1>3 DEF Used
<1>5. \A o \in Used \ {m} : mat'[o] = mat[o]
  BY <1>3 DEF Used
<1>6. InUse'
  BY <1>4, <1>5 DEF InUse
<1>7. Held \subseteq Held' \cup {mat[m].ptr}
  BY <1>4, <1>5 DEF Held
<1> QED BY <1>6, <1>7

(* A header comes or goes; the memory stays.                               *)
LEMMA UseSame ==
  ASSUME HostTypeOK, InUse, NEW m \in Mats, NEW c \in 0..2, mat' = [mat EXCEPT ![m].count = c],
         UNCHANGED <<stack, pool, heap, orphans>>
  PROVE  InUse' /\ Held' = Held /\ mat' \in [Mats -> Mat]
<1>1. mat \in [Mats -> Mat]
  BY TypesOf
<1>2. ASSUME NEW o \in Mats
      PROVE  /\ mat'[o] \in Mat /\ mat'[o].ptr = mat[o].ptr /\ mat'[o].size = mat[o].size
             /\ mat'[o].form = mat[o].form
  BY <1>1 DEF Mat
<1>3. Used' = Used /\ \A o \in Used : o \in Mats
  BY <1>2 DEF Used
<1>4. Listed' = Listed /\ InPools' = InPools
  BY DEF Listed, ListedIn, InPools
<1>5. \A o \in Used : Placed(mat'[o], heap', InPools') <=> Placed(mat[o], heap, InPools)
  BY <1>2, <1>3, <1>4 DEF Placed
<1>6. InUse'
  BY <1>2, <1>3, <1>4, <1>5 DEF InUse
<1>7. Held' = Held
  BY <1>2, <1>3 DEF Held
<1>8. mat' \in [Mats -> Mat]
  BY <1>1, <1>2
<1> QED BY <1>6, <1>7, <1>8

(* What cleanup does to a list and to the heap.                            *)
LEMMA Cleaned ==
  ASSUME NEW s \in Seq(Entry), Once(s), NEW now,
         \A k \in DOMAIN s : s[k].ptr \in DOMAIN heap /\ heap[s[k].ptr] = s[k].size
  PROVE  LET q == Kept(s, now)  h == AfterFree(s, now) IN
         /\ q \in Seq(Entry) /\ Once(q)
         /\ \A k \in DOMAIN q : q[k].ptr \in DOMAIN h /\ h[q[k].ptr] = q[k].size
         /\ Ptrs(q) \subseteq Ptrs(s)
         /\ Ptrs(s) \cap DOMAIN h \subseteq Ptrs(q)
         /\ DOMAIN h \subseteq DOMAIN heap /\ \A x \in DOMAIN h : h[x] = heap[x]
         /\ DOMAIN heap \subseteq DOMAIN h \cup Ptrs(s)
<1> DEFINE q == Kept(s, now)
           h == AfterFree(s, now)
<1>1. Keeps(s, now, Len(s), q)
  BY KeptRight
<1>2. DOMAIN s = 1 .. Len(s)
  OBVIOUS
<1>3. DOMAIN h = DOMAIN heap \ FreedAt(s, now) /\ \A x \in DOMAIN h : h[x] = heap[x]
  BY DEF AfterFree
<1>4. \A x : x \in FreedAt(s, now) <=> \E k \in DOMAIN s : Stale(s[k], now) /\ x = s[k].ptr
  BY DEF FreedAt
<1> HIDE DEF q, h
<1>5. q \in Seq(Entry) /\ Once(q)
  BY <1>1 DEF Keeps
<1>6. ASSUME NEW k \in DOMAIN q
      PROVE  q[k].ptr \in DOMAIN h /\ h[q[k].ptr] = q[k].size /\ q[k].ptr \in Ptrs(s)
  <2>1. PICK j \in DOMAIN s : q[k] = s[j] /\ ~Stale(s[j], now)
    BY <1>1, <1>2 DEF Keeps
  <2>2. s[j].ptr \notin FreedAt(s, now)
    BY <1>4, <2>1 DEF Once
  <2> QED BY <1>3, <2>1, <2>2 DEF Ptrs
<1>7. ASSUME NEW j \in DOMAIN s, s[j].ptr \in DOMAIN h
      PROVE  s[j].ptr \in Ptrs(q)
  <2>1. ~Stale(s[j], now)
    BY <1>3, <1>4, <1>7
  <2>2. PICK k \in DOMAIN q : q[k] = s[j]
    BY <1>1, <1>2, <2>1 DEF Keeps
  <2> QED BY <2>2 DEF Ptrs
<1>8. Ptrs(q) \subseteq Ptrs(s) /\ Ptrs(s) \cap DOMAIN h \subseteq Ptrs(q)
  BY <1>6, <1>7 DEF Ptrs
<1>9. DOMAIN heap \subseteq DOMAIN h \cup Ptrs(s)
  BY <1>3, <1>4 DEF Ptrs
<1> QED BY <1>3, <1>5, <1>6, <1>8, <1>9 DEF q, h

(* The search takes the first block of the size, and the others stay.      *)
LEMMA TakenRight ==
  ASSUME NEW s \in Seq(Entry), Once(s), NEW n, Fits(s, n) # {}
  PROVE  LET k == FirstFit(s, n)  q == Taken(s, k) IN
         /\ k \in DOMAIN s /\ s[k].size = n
         /\ q \in Seq(Entry) /\ Once(q)
         /\ \A j \in DOMAIN q : \E l \in DOMAIN s : q[j] = s[l]
         /\ Ptrs(q) = Ptrs(s) \ {s[k].ptr}
<1> DEFINE k == FirstFit(s, n)
<1>1. Fits(s, n) \subseteq Nat
  BY DEF Fits
<1>2. \E b \in Fits(s, n) : \A j \in Fits(s, n) : b <= j
  BY <1>1, LeastNumber
<1>3. k \in Fits(s, n)
  BY <1>2 DEF FirstFit
<1>4. k \in DOMAIN s /\ s[k].size = n
  BY <1>3 DEF Fits
<1> HIDE DEF k
<1>5. Taken(s, k) = RemoveAt(s, k)
  BY DEF Taken
<1> QED BY <1>4, <1>5, Removed DEF k

(* A released block goes to the end of the list.                           *)
LEMMA Appended ==
  ASSUME NEW s \in Seq(Entry), Once(s), NEW e \in Entry, e.ptr \notin Ptrs(s),
         e.ptr \in DOMAIN heap, heap[e.ptr] = e.size,
         \A k \in DOMAIN s : s[k].ptr \in DOMAIN heap /\ heap[s[k].ptr] = s[k].size
  PROVE  LET q == Append(s, e) IN
         /\ q \in Seq(Entry) /\ Once(q)
         /\ \A k \in DOMAIN q : q[k].ptr \in DOMAIN heap /\ heap[q[k].ptr] = q[k].size
         /\ Ptrs(q) = Ptrs(s) \cup {e.ptr}
BY AppendedOnce

(* One list becomes q; the others, and what the heap knows of them, stay.  *)
LEMMA ListChanges ==
  ASSUME HostTypeOK, Lists, ListsApart, NEW i \in Instances, NEW q \in Seq(Entry), Once(q),
         stack' = [stack EXCEPT ![i] = q],
         \A k \in DOMAIN q : q[k].ptr \in DOMAIN heap' /\ heap'[q[k].ptr] = q[k].size,
         \A j \in Instances \ {i} :
           /\ Ptrs(q) \cap Ptrs(stack[j]) = {}
           /\ \A x \in Ptrs(stack[j]) : x \in DOMAIN heap' /\ heap'[x] = heap[x]
  PROVE  /\ stack' \in [Instances -> Seq(Entry)] /\ Lists' /\ ListsApart'
         /\ \A x : x \in Listed' <=>
                     x \in Ptrs(q) \/ \E j \in Instances \ {i} : x \in Ptrs(stack[j])
<1>1. stack \in [Instances -> Seq(Entry)]
  BY TypesOf
<1>2. stack'[i] = q /\ \A j \in Instances \ {i} : stack'[j] = stack[j]
  BY <1>1
<1>3. stack' \in [Instances -> Seq(Entry)]
  BY <1>1
<1>4. ASSUME NEW j \in Instances \ {i}
      PROVE  /\ Once(stack[j])
             /\ \A k \in DOMAIN stack[j] :
                  /\ stack[j][k].ptr \in DOMAIN heap'
                  /\ heap'[stack[j][k].ptr] = stack[j][k].size
  BY DEF Lists, Ptrs
<1>5. Lists'
  <2> SUFFICES ASSUME NEW j \in Instances
               PROVE  /\ Once(stack'[j])
                      /\ \A k \in DOMAIN stack'[j] :
                           /\ stack'[j][k].ptr \in DOMAIN heap'
                           /\ heap'[stack'[j][k].ptr] = stack'[j][k].size
    BY DEF Lists, Once
  <2>1. CASE j = i
    BY <1>2, <2>1
  <2>2. CASE j # i
    BY <1>2, <1>4, <2>2
  <2> QED BY <2>1, <2>2
<1>6. \A j, k \in Instances : j # k => Ptrs(stack'[j]) \cap Ptrs(stack'[k]) = {}
  BY <1>2, ListedPtrs DEF ListsApart
<1>7. ListsApart'
  BY <1>6, ListedPtrsNext DEF ListsApart
<1>8. \A x : x \in Listed' <=>
               x \in Ptrs(q) \/ \E j \in Instances \ {i} : x \in Ptrs(stack[j])
  BY <1>2, ListedPtrsNext
<1> QED BY <1>3, <1>5, <1>7, <1>8

(* The lists stay, and so does what the heap knows of them.                *)
LEMMA ListsSame ==
  ASSUME Lists, ListsApart, stack' = stack,
         \A x \in Listed : x \in DOMAIN heap' /\ heap'[x] = heap[x]
  PROVE  Lists' /\ ListsApart' /\ Listed' = Listed
<1>1. Listed' = Listed /\ \A i : ListedIn(i)' = ListedIn(i)
  BY DEF Listed, ListedIn
<1>2. \A i \in Instances : \A k \in DOMAIN stack[i] : stack[i][k].ptr \in Listed
  BY DEF Listed, ListedIn
<1>3. Lists'
  BY <1>2 DEF Lists, Once
<1>4. ListsApart'
  BY <1>1 DEF ListsApart
<1> QED BY <1>1, <1>3, <1>4

(* Where memory is.                                                        *)
LEMMA Whereabouts ==
  ASSUME HostInv
  PROVE  /\ Listed \subseteq DOMAIN heap
         /\ Held \subseteq DOMAIN heap \cup InPools
         /\ \A m \in Mats : mat[m].ptr \in HostBlocks =>
              /\ m \in Used /\ mat[m].ptr \in Held /\ mat[m].ptr \notin Listed
              /\ Placed(mat[m], heap, InPools)
              /\ \A o \in Used \ {m} : mat[o].ptr # mat[m].ptr
         /\ \A o \in Used : o \in Mats /\ mat[o].ptr \in Held
<1>1. Listed \subseteq DOMAIN heap
  BY DEF HostInv, Lists, Listed, ListedIn
<1>2. Held \subseteq DOMAIN heap \cup InPools
  BY DEF HostInv, InUse, Placed, Held
<1>3. \A o \in Used : o \in Mats /\ mat[o].ptr \in Held
  BY DEF Used, Held
<1>4. \A m \in Mats : mat[m].ptr \in HostBlocks => m \in Used
  BY DEF Used
<1> QED BY <1>1, <1>2, <1>3, <1>4 DEF HostInv, InUse

LEMMA ConservesUnfolded ==
  /\ HostConserves <=> DOMAIN heap \cup InPools \subseteq Held \cup Listed \cup lost \cup orphans
  /\ HostConserves' <=>
       DOMAIN heap' \cup InPools' \subseteq Held' \cup Listed' \cup lost' \cup orphans'
BY DEF HostConserves, Held

----------------------------------------------------------------------------
(* The steps                                                               *)

NewMat(ptr, n, form) == [ptr |-> ptr, size |-> n, count |-> 1, form |-> form]

LEMMA HoldsNew ==
  ASSUME HostTypeOK, NEW m \in Mats, NEW ptr \in HostBlocks \cup {User, Garbage},
         NEW n \in HostSizes, NEW form \in {"thread", "mt", "bytes", "stl", "pinned"},
         Hold(m, ptr, n, form)
  PROVE  /\ NewMat(ptr, n, form) \in Mat /\ mat' = [mat EXCEPT ![m] = NewMat(ptr, n, form)]
         /\ mat' \in [Mats -> Mat]
<1>1. NewMat(ptr, n, form) \in Mat
  BY HostAssumption DEF NewMat, Mat
<1>2. mat' = [mat EXCEPT ![m] = NewMat(ptr, n, form)]
  BY DEF Hold, NewMat
<1> QED BY <1>1, <1>2, TypesOf

LEMMA InstanceOfIs ==
  ASSUME NEW t \in Threads, NEW form
  PROVE  InstanceOf(t, form) \in Instances /\ t \in Instances
BY DEF InstanceOf, Instances

(* What no step of a client touches.                                       *)
Aside == UNCHANGED <<alive, clock, orphans, aborted>>

(* The client holds a matrix, but no memory of a policy.                   *)
LEMMA NoMemoryStep ==
  ASSUME HostInv, NEW m \in Mats, NEW n \in HostSizes, mat[m] = Nothing,
         NEW form \in Forms, Hold(m, User, n, form),
         UNCHANGED <<stack, pool, heap, refs, lost>>, Aside
  PROVE  HostInv'
<1> USE DEF Aside
<1>1. HostTypeOK /\ InUse
  BY DEF HostInv
<1> DEFINE r == NewMat(User, n, form)
<1>2. r \in Mat /\ mat' = [mat EXCEPT ![m] = r] /\ mat' \in [Mats -> Mat]
  BY <1>1, HoldsNew DEF Forms
<1>3. r.ptr \notin HostBlocks
  BY <1>1, TypesOf DEF NewMat
<1> HIDE DEF r
<1>4. Lists' /\ ListsApart' /\ Listed' = Listed
  BY Whereabouts, ListsSame DEF HostInv
<1>5. InPools' = InPools
  BY DEF InPools
<1>6. InUse' /\ Held \subseteq Held'
  BY <1>1, <1>2, <1>3, <1>4, <1>5, UseNew DEF InUse
<1>7. HostTypeOK'
  BY <1>1, <1>2 DEF HostTypeOK, Mat
<1>8. PoolsApart'
  BY DEF HostInv, PoolsApart
<1>9. HostConserves'
  BY <1>4, <1>5, <1>6, ConservesUnfolded DEF HostInv
<1> QED BY <1>4, <1>6, <1>7, <1>8, <1>9 DEF HostInv

LEMMA AllocateUserStep ==
  ASSUME HostInv, NEW m \in Mats, NEW n \in HostSizes, mat[m] = Nothing,
         AllocateUser(m, n), Aside
  PROVE  HostInv'
BY NoMemoryStep DEF AllocateUser, Forms

(* A region of a pool for this client.                                     *)
LEMMA PoolServes ==
  ASSUME HostInv, NEW t \in Threads, NEW m \in Mats, NEW n \in HostSizes, NEW form \in Forms,
         mat[m] = Nothing, ToPool(n, form), Unused # {}, Hold(m, Fresh, n, form),
         pool' = [pool EXCEPT ![InstanceOf(t, form)] = @ \cup {Fresh}],
         UNCHANGED <<stack, heap, refs, lost>>, Aside
  PROVE  HostInv'
<1> USE DEF Aside
<1> DEFINE i == InstanceOf(t, form)
           b == Fresh
           r == NewMat(b, n, form)
<1>1. HostTypeOK /\ InUse /\ i \in Instances
  BY InstanceOfIs DEF HostInv
<1>2. b \in HostBlocks /\ b \notin DOMAIN heap /\ b \notin InPools
  BY FreshIsUnused
<1>3. r \in Mat /\ mat' = [mat EXCEPT ![m] = r] /\ mat' \in [Mats -> Mat]
  BY <1>1, <1>2, HoldsNew DEF Forms
<1>4. r.ptr = b /\ r.size = n /\ r.form = form
  BY DEF NewMat
<1>5. pool' = [pool EXCEPT ![i] = @ \cup {b}]
  OBVIOUS
<1> HIDE DEF i, b, r
<1>6. /\ pool \in [Instances -> SUBSET HostBlocks] /\ pool' \in [Instances -> SUBSET HostBlocks]
      /\ pool'[i] = pool[i] \cup {b} /\ \A j \in Instances \ {i} : pool'[j] = pool[j]
  <2>1. pool \in [Instances -> SUBSET HostBlocks]
    BY <1>1, TypesOf
  <2>2. pool[i] \cup {b} \in SUBSET HostBlocks
    BY <1>1, <1>2, <2>1
  <2> QED BY <1>1, <1>5, <2>1, <2>2
<1>7. \A x : x \in InPools' <=> x \in InPools \/ x = b
  BY <1>1, <1>6, InSomePool, InSomePoolNext
<1>8. Lists' /\ ListsApart' /\ Listed' = Listed
  BY Whereabouts, ListsSame DEF HostInv
<1>9. b \notin Listed /\ b \notin Held
  BY <1>2, Whereabouts
<1>10. Placed(r, heap', InPools')
  BY <1>4, <1>7 DEF Placed, Forms
<1>11. \A o \in Used : Placed(mat[o], heap', InPools') /\ mat[o].ptr \notin Listed'
  BY <1>7, <1>8 DEF HostInv, InUse, Placed
<1>12. InUse' /\ Held \subseteq Held' /\ b \in Held'
  BY <1>1, <1>2, <1>3, <1>4, <1>8, <1>9, <1>10, <1>11, UseNew
<1>13. HostTypeOK'
  BY <1>1, <1>3, <1>6 DEF HostTypeOK, Mat
<1>14. PoolsApart'
  <2>1. \A j \in Instances : b \notin pool[j]
    BY <1>2, InSomePool
  <2> QED BY <1>2, <1>6, <2>1 DEF HostInv, PoolsApart
<1>15. HostConserves'
  BY <1>7, <1>8, <1>12, ConservesUnfolded DEF HostInv
<1> QED BY <1>8, <1>12, <1>13, <1>14, <1>15 DEF HostInv

LEMMA AllocatePoolStep ==
  ASSUME HostInv, NEW t \in Threads, NEW m \in Mats, NEW n \in HostSizes, NEW form \in Forms,
         mat[m] = Nothing, AllocatePool(t, m, n, form), Aside
  PROVE  HostInv'
<1>1. CASE Unused # {} /\ Hold(m, Fresh, n, form)
           /\ pool' = [pool EXCEPT ![InstanceOf(t, form)] = @ \cup {Fresh}]
  BY <1>1, PoolServes DEF AllocatePool
<1>2. CASE Hold(m, User, n, form) /\ pool' = pool
  BY <1>2, NoMemoryStep DEF AllocatePool
<1> QED BY <1>1, <1>2 DEF AllocatePool

(* The heap has grown by a block for this client.                          *)
LEMMA HeapGrows ==
  ASSUME HostInv, NEW m \in Mats, NEW n \in HostSizes,
         NEW form \in {"thread", "mt", "bytes", "stl", "pinned"},
         mat[m] = Nothing, Unused # {}, Hold(m, Fresh, n, form),
         form = "pinned" \/ ~ToPool(n, form),
         heap' = [b \in DOMAIN heap \cup {Fresh} |-> IF b = Fresh THEN n ELSE heap[b]],
         UNCHANGED <<stack, pool, lost>>, refs' \in [Instances -> Nat], Aside
  PROVE  HostInv'
<1> USE DEF Aside
<1> DEFINE b == Fresh
           r == NewMat(b, n, form)
<1>1. HostTypeOK /\ InUse
  BY DEF HostInv
<1>2. b \in HostBlocks /\ b \notin DOMAIN heap /\ b \notin InPools
  BY FreshIsUnused
<1>3. r \in Mat /\ mat' = [mat EXCEPT ![m] = r] /\ mat' \in [Mats -> Mat]
  BY <1>1, <1>2, HoldsNew
<1>4. r.ptr = b /\ r.size = n /\ r.form = form
  BY DEF NewMat
<1>5. /\ DOMAIN heap' = DOMAIN heap \cup {b} /\ heap'[b] = n
      /\ \A x \in DOMAIN heap : heap'[x] = heap[x]
  BY <1>2
<1> HIDE DEF b, r
<1>6. InPools' = InPools
  BY DEF InPools
<1>7. Lists' /\ ListsApart' /\ Listed' = Listed
  BY <1>5, Whereabouts, ListsSame DEF HostInv
<1>8. b \notin Listed /\ b \notin Held
  BY <1>2, Whereabouts
<1>9. Placed(r, heap', InPools')
  BY <1>4, <1>5 DEF Placed
<1>10. \A o \in Used : Placed(mat[o], heap', InPools') /\ mat[o].ptr \notin Listed'
  BY <1>5, <1>6, <1>7 DEF HostInv, InUse, Placed
<1>11. InUse' /\ Held \subseteq Held' /\ b \in Held'
  BY <1>1, <1>2, <1>3, <1>4, <1>7, <1>8, <1>9, <1>10, UseNew
<1>12. HostTypeOK'
  BY <1>1, <1>2, <1>3, <1>5 DEF HostTypeOK, Mat
<1>13. PoolsApart'
  <2>1. \A j \in Instances : b \notin pool[j]
    BY <1>2, InSomePool
  <2> QED BY <1>5, <2>1 DEF HostInv, PoolsApart
<1>14. HostConserves'
  BY <1>5, <1>6, <1>7, <1>11, ConservesUnfolded DEF HostInv
<1> QED BY <1>7, <1>11, <1>12, <1>13, <1>14 DEF HostInv

LEMMA AllocatePinnedStep ==
  ASSUME HostInv, NEW m \in Mats, NEW n \in HostSizes, mat[m] = Nothing,
         AllocatePinned(m, n), Aside
  PROVE  HostInv'
<1>1. refs' \in [Instances -> Nat]
  BY DEF AllocatePinned, HostInv, HostTypeOK
<1> QED BY <1>1, HeapGrows DEF AllocatePinned

(* A free block of the size changes hands.                                 *)
LEMMA ReuseStep ==
  ASSUME HostInv, NEW i \in Instances, NEW m \in Mats, NEW n \in HostSizes, NEW form \in Forms,
         mat[m] = Nothing, ~ToPool(n, form), Fits(stack[i], n) # {},
         stack' = [stack EXCEPT ![i] = Taken(stack[i], FirstFit(stack[i], n))],
         LET b == stack[i][FirstFit(stack[i], n)].ptr IN
           \/ Hold(m, b, n, form) /\ UNCHANGED lost
           \/ Hold(m, Garbage, n, form) /\ lost' = lost \cup {b},
         UNCHANGED <<pool, heap>>, refs' \in [Instances -> Nat], Aside
  PROVE  HostInv'
<1> USE DEF Aside
<1> DEFINE k == FirstFit(stack[i], n)
           q == Taken(stack[i], k)
           b == stack[i][k].ptr
<1>1. HostTypeOK /\ InUse /\ Lists /\ ListsApart
  BY DEF HostInv
<1>2. stack[i] \in Seq(Entry) /\ Once(stack[i])
  BY <1>1, TypesOf DEF Lists
<1>3. /\ k \in DOMAIN stack[i] /\ stack[i][k].size = n /\ q \in Seq(Entry) /\ Once(q)
      /\ \A j \in DOMAIN q : \E l \in DOMAIN stack[i] : q[j] = stack[i][l]
      /\ Ptrs(q) = Ptrs(stack[i]) \ {b}
  BY <1>2, TakenRight
<1>4. \/ Hold(m, b, n, form) /\ lost' = lost
      \/ Hold(m, Garbage, n, form) /\ lost' = lost \cup {b}
  OBVIOUS
<1>5. stack' = [stack EXCEPT ![i] = q]
  OBVIOUS
<1> HIDE DEF k, q, b
<1>6. b \in DOMAIN heap /\ heap[b] = n /\ b \in Ptrs(stack[i])
  BY <1>1, <1>3 DEF Lists, Ptrs, b
<1>7. b \in HostBlocks /\ b \in Listed /\ b \notin Held
  <2>1. b \in HostBlocks /\ b \in Listed
    BY <1>1, <1>6, TypesOf, ListedPtrs
  <2> QED BY <1>1, <2>1 DEF InUse, Held
<1>8. \A j \in Instances \ {i} : Ptrs(stack[i]) \cap Ptrs(stack[j]) = {}
  BY <1>1, ListedPtrs DEF ListsApart
<1>9. \A j \in Instances \ {i} :
        \A x \in Ptrs(stack[j]) : x \in DOMAIN heap' /\ heap'[x] = heap[x]
  BY <1>1 DEF Lists, Ptrs
<1>10. \A j \in DOMAIN q : q[j].ptr \in DOMAIN heap' /\ heap'[q[j].ptr] = q[j].size
  BY <1>1, <1>3 DEF Lists
<1>11. \A j \in Instances \ {i} : Ptrs(q) \cap Ptrs(stack[j]) = {}
  BY <1>3, <1>8
<1>12. /\ stack' \in [Instances -> Seq(Entry)] /\ Lists' /\ ListsApart'
       /\ \A x : x \in Listed' <=>
                   x \in Ptrs(q) \/ \E j \in Instances \ {i} : x \in Ptrs(stack[j])
  BY <1>1, <1>3, <1>5, <1>9, <1>10, <1>11, ListChanges
<1>13. Listed' = Listed \ {b}
  BY <1>3, <1>6, <1>8, <1>12, ListedPtrs
<1>14. InPools' = InPools
  BY DEF InPools
<1>15. \A o \in Used : Placed(mat[o], heap', InPools') /\ mat[o].ptr \notin Listed'
  BY <1>13, <1>14 DEF HostInv, InUse, Placed
<1>16. PoolsApart'
  BY DEF HostInv, PoolsApart
<1>17. CASE Hold(m, b, n, form) /\ lost' = lost
  <2> DEFINE r == NewMat(b, n, form)
  <2>1. r \in Mat /\ mat' = [mat EXCEPT ![m] = r] /\ mat' \in [Mats -> Mat]
    BY <1>1, <1>7, <1>17, HoldsNew DEF Forms
  <2>2. r.ptr = b /\ r.size = n /\ r.form = form
    BY DEF NewMat
  <2> HIDE DEF r
  <2>3. Placed(r, heap', InPools')
    BY <1>6, <2>2 DEF Placed
  <2>4. InUse' /\ Held \subseteq Held' /\ b \in Held'
    BY <1>1, <1>7, <1>13, <1>15, <2>1, <2>2, <2>3, UseNew
  <2>5. HostTypeOK'
    BY <1>1, <1>12, <1>17, <2>1 DEF HostTypeOK, Mat, Entry
  <2>6. HostConserves'
    BY <1>13, <1>14, <1>17, <2>4, ConservesUnfolded DEF HostInv
  <2> QED BY <1>12, <1>16, <2>4, <2>5, <2>6 DEF HostInv
<1>18. CASE Hold(m, Garbage, n, form) /\ lost' = lost \cup {b}
  <2> DEFINE r == NewMat(Garbage, n, form)
  <2>1. r \in Mat /\ mat' = [mat EXCEPT ![m] = r] /\ mat' \in [Mats -> Mat]
    BY <1>1, <1>18, HoldsNew DEF Forms
  <2>2. r.ptr \notin HostBlocks
    BY <1>1, TypesOf DEF NewMat
  <2> HIDE DEF r
  <2>3. InUse' /\ Held \subseteq Held'
    BY <1>1, <1>15, <2>1, <2>2, UseNew
  <2>4. HostTypeOK'
    BY <1>1, <1>7, <1>12, <1>18, <2>1 DEF HostTypeOK, Mat, Entry
  <2>5. HostConserves'
    BY <1>13, <1>14, <1>18, <2>3, ConservesUnfolded DEF HostInv
  <2> QED BY <1>12, <1>16, <2>3, <2>4, <2>5 DEF HostInv
<1> QED BY <1>4, <1>17, <1>18

LEMMA AllocateStackStep ==
  ASSUME HostInv, NEW t \in Threads, NEW m \in Mats, NEW n \in HostSizes, NEW form \in Forms,
         mat[m] = Nothing, AllocateStack(t, m, n, form), Aside
  PROVE  HostInv'
<1> DEFINE i == InstanceOf(t, form)
<1>1. i \in Instances
  BY InstanceOfIs
<1>2. refs' \in [Instances -> Nat]
  <2>1. refs \in [Instances -> Nat] /\ refs' = Counted(i, form)
    BY DEF AllocateStack, HostInv, HostTypeOK
  <2> HIDE DEF i
  <2> QED BY <1>1, <2>1 DEF Counted
<1>3. CASE Fits(stack[i], n) # {}
  <2>1. /\ ~ToPool(n, form) /\ UNCHANGED <<pool, heap>>
        /\ stack' = [stack EXCEPT ![i] = Taken(stack[i], FirstFit(stack[i], n))]
        /\ LET b == stack[i][FirstFit(stack[i], n)].ptr IN
             \/ Hold(m, b, n, form) /\ UNCHANGED lost
             \/ Hold(m, Garbage, n, form) /\ lost' = lost \cup {b}
    BY <1>3 DEF AllocateStack
  <2> HIDE DEF i
  <2> QED BY <1>1, <1>2, <1>3, <2>1, ReuseStep
<1>4. CASE Fits(stack[i], n) = {}
  <2>1. /\ ~ToPool(n, form) /\ Unused # {} /\ Hold(m, Fresh, n, form)
        /\ heap' = [b \in DOMAIN heap \cup {Fresh} |-> IF b = Fresh THEN n ELSE heap[b]]
        /\ UNCHANGED <<stack, pool, lost>>
    BY <1>4 DEF AllocateStack
  <2> QED BY <1>2, <2>1, HeapGrows DEF Forms
<1> QED BY <1>3, <1>4

(* A header comes or goes, the memory stays.                               *)
LEMMA CountStep ==
  ASSUME HostInv, NEW m \in Mats, NEW c \in 0..2, mat' = [mat EXCEPT ![m].count = c],
         UNCHANGED <<stack, pool, heap, refs, lost>>, Aside
  PROVE  HostInv'
<1> USE DEF Aside
<1>1. HostTypeOK /\ InUse
  BY DEF HostInv
<1>2. InUse' /\ Held' = Held /\ mat' \in [Mats -> Mat]
  BY <1>1, UseSame
<1>3. Lists' /\ ListsApart' /\ Listed' = Listed
  BY Whereabouts, ListsSame DEF HostInv
<1>4. InPools' = InPools
  BY DEF InPools
<1>5. HostTypeOK'
  BY <1>1, <1>2 DEF HostTypeOK, Mat
<1>6. PoolsApart'
  BY DEF HostInv, PoolsApart
<1>7. HostConserves'
  BY <1>2, <1>3, <1>4, ConservesUnfolded DEF HostInv
<1> QED BY <1>2, <1>3, <1>5, <1>6, <1>7 DEF HostInv

(* The last header of memory of the user, and a block that cudaFreeHost    *)
(* takes back at once.                                                     *)
LEMMA GoneStep ==
  ASSUME HostInv, NEW m \in Mats, mat' = [mat EXCEPT ![m] = Nothing],
         \/ mat[m].ptr = User /\ heap' = heap
         \/ /\ mat[m].ptr \in HostBlocks /\ mat[m].form = "pinned"
            /\ heap' = Without(heap, mat[m].ptr),
         UNCHANGED <<stack, pool, refs, lost>>, Aside
  PROVE  HostInv'
<1> USE DEF Aside
<1> DEFINE b == mat[m].ptr
<1>1. HostTypeOK /\ InUse /\ User \notin HostBlocks
  BY TypesOf DEF HostInv
<1>2. mat' \in [Mats -> Mat]
  <2>1. Nothing \in Mat
    BY DEF Nothing, Mat, User
  <2> QED BY <1>1, <2>1, TypesOf
<1>3. b \in HostBlocks => b \in DOMAIN heap /\ b \notin DOMAIN heap'
  <2>1. b \in HostBlocks => b \in DOMAIN heap
    BY <1>1, Whereabouts DEF Placed
  <2> QED BY <1>1, <2>1 DEF Without
<1>4. /\ DOMAIN heap' \subseteq DOMAIN heap
      /\ \A x \in DOMAIN heap : x # b => x \in DOMAIN heap'
      /\ \A x \in DOMAIN heap' : heap'[x] = heap[x]
  BY DEF Without
<1>5. b \notin Listed /\ \A o \in Used \ {m} : mat[o].ptr # b
  <2>1. Listed \subseteq HostBlocks
    BY <1>1, Whereabouts, TypesOf
  <2>2. \A o \in Used : mat[o].ptr \in HostBlocks
    BY DEF Used
  <2> QED BY <1>1, <2>1, <2>2, Whereabouts
<1>6. InPools' = InPools
  BY DEF InPools
<1>7. Lists' /\ ListsApart' /\ Listed' = Listed
  BY <1>4, <1>5, Whereabouts, ListsSame DEF HostInv
<1>8. \A o \in Used \ {m} : Placed(mat[o], heap', InPools') /\ mat[o].ptr \notin Listed'
  BY <1>4, <1>5, <1>6, <1>7 DEF HostInv, InUse, Placed
<1> HIDE DEF b
<1>9. InUse' /\ Held \subseteq Held' \cup {b}
  BY <1>1, <1>8, UseGone DEF b
<1>10. HostTypeOK'
  BY <1>1, <1>2, <1>4 DEF HostTypeOK, Mat
<1>11. PoolsApart'
  BY <1>4 DEF HostInv, PoolsApart
<1>12. HostConserves'
  <2>1. DOMAIN heap \cup InPools \subseteq HostBlocks
    BY <1>1, TypesOf, InSomePool DEF HostTypeOK
  <2>2. b \in HostBlocks => b \notin DOMAIN heap' /\ \A i \in Instances : b \notin pool[i]
    BY <1>3 DEF HostInv, PoolsApart
  <2>3. b \in InPools' => b \notin HostBlocks \/ b \in orphans'
    BY <1>6, <2>2, InSomePool
  <2> QED BY <1>4, <1>6, <1>7, <1>9, <2>1, <2>2, <2>3, ConservesUnfolded DEF HostInv
<1> QED BY <1>7, <1>9, <1>10, <1>11, <1>12 DEF HostInv

LEMMA ReleasePoolStep ==
  ASSUME HostInv, NEW t \in Threads, NEW m \in Mats, mat[m].ptr \in HostBlocks,
         mat[m].form # "pinned", ToPool(mat[m].size, mat[m].form),
         mat' = [mat EXCEPT ![m] = Nothing], ReleasePool(t, m), UNCHANGED refs, Aside
  PROVE  HostInv'
<1> USE DEF Aside
<1> DEFINE i == InstanceOf(t, mat[m].form)
           b == mat[m].ptr
<1>1. HostTypeOK /\ InUse /\ i \in Instances
  BY InstanceOfIs DEF HostInv
<1>2. mat' \in [Mats -> Mat]
  <2>1. Nothing \in Mat
    BY DEF Nothing, Mat, User
  <2> QED BY <1>1, <2>1, TypesOf
<1>3. stack' = stack /\ heap' = heap
  BY DEF ReleasePool
<1>4. b \in HostBlocks /\ b \in InPools /\ \A o \in Used \ {m} : mat[o].ptr # b
  BY Whereabouts DEF Placed
<1>5. \/ b \in pool[i] /\ pool' = [pool EXCEPT ![i] = @ \ {b}] /\ lost' = lost
      \/ pool' = pool /\ lost' = lost \cup {b}
  BY DEF ReleasePool
<1> HIDE DEF i, b
<1>6. Lists' /\ ListsApart' /\ Listed' = Listed
  BY <1>3, Whereabouts, ListsSame DEF HostInv
<1>7. /\ pool' \in [Instances -> SUBSET HostBlocks]
      /\ \A j \in Instances : pool'[j] \subseteq pool[j] /\ pool[j] \subseteq pool'[j] \cup {b}
  BY <1>1, <1>5, TypesOf
<1>8. InPools' \subseteq InPools /\ \A x \in InPools : x # b => x \in InPools'
  BY <1>7, InSomePool, InSomePoolNext
<1>9. \A o \in Used \ {m} : Placed(mat[o], heap', InPools') /\ mat[o].ptr \notin Listed'
  BY <1>3, <1>4, <1>6, <1>8 DEF HostInv, InUse, Placed
<1>10. InUse' /\ Held \subseteq Held' \cup {b}
  BY <1>1, <1>9, UseGone DEF b
<1>11. HostTypeOK'
  BY <1>1, <1>2, <1>3, <1>4, <1>5, <1>7 DEF HostTypeOK, Mat
<1>12. PoolsApart'
  BY <1>3, <1>7 DEF HostInv, PoolsApart
<1>13. b \notin DOMAIN heap \/ b \in orphans
  BY <1>4, InSomePool DEF HostInv, PoolsApart
<1>14. b \in InPools' => b \in lost' \cup orphans
  <2>1. CASE pool' = pool /\ lost' = lost \cup {b}
    BY <2>1
  <2>2. CASE b \in pool[i] /\ pool' = [pool EXCEPT ![i] = @ \ {b}]
    <3>1. \A j \in Instances : b \notin pool'[j]
      <4>1. pool'[i] = pool[i] \ {b} /\ \A j \in Instances \ {i} : pool'[j] = pool[j]
        BY <1>1, <2>2, TypesOf
      <4> QED BY <1>1, <2>2, <4>1 DEF HostInv, PoolsApart
    <3> QED BY <3>1, InSomePoolNext
  <2> QED BY <1>5, <2>1, <2>2
<1>15. HostConserves'
  BY <1>3, <1>5, <1>6, <1>8, <1>10, <1>13, <1>14, ConservesUnfolded DEF HostInv
<1> QED BY <1>6, <1>10, <1>11, <1>12, <1>15 DEF HostInv

LEMMA ReleaseStackStep ==
  ASSUME HostInv, NEW t \in Threads, NEW m \in Mats, mat[m].ptr \in HostBlocks,
         mat[m].form = "pinned" \/ ~ToPool(mat[m].size, mat[m].form),
         mat' = [mat EXCEPT ![m] = Nothing], ReleaseStack(t, m), UNCHANGED refs, Aside
  PROVE  HostInv'
<1> USE DEF Aside
<1> DEFINE i == InstanceOf(t, mat[m].form)
           b == mat[m].ptr
           e == [ptr |-> b, time |-> clock, size |-> mat[m].size]
           s == Append(stack[i], e)
           q == Kept(s, clock)
           h == AfterFree(s, clock)
<1>1. HostTypeOK /\ InUse /\ Lists /\ ListsApart /\ i \in Instances
  BY InstanceOfIs DEF HostInv
<1>2. mat' \in [Mats -> Mat]
  <2>1. Nothing \in Mat
    BY DEF Nothing, Mat, User
  <2> QED BY <1>1, <2>1, TypesOf
<1>3. stack' = [stack EXCEPT ![i] = q] /\ heap' = h /\ pool' = pool /\ lost' = lost
  BY DEF ReleaseStack
<1>4. /\ b \in HostBlocks /\ b \in DOMAIN heap /\ heap[b] = mat[m].size /\ b \notin Listed
      /\ \A o \in Used \ {m} : mat[o].ptr # b
  BY Whereabouts DEF Placed
<1>5. stack[i] \in Seq(Entry) /\ Once(stack[i]) /\ b \notin Ptrs(stack[i])
  BY <1>1, <1>4, TypesOf, ListedPtrs DEF Lists
<1>6. e \in Entry /\ e.ptr = b /\ e.size = mat[m].size
  <2>1. mat[m].size \in Nat /\ clock \in Nat
    BY <1>1, TypesOf DEF HostTypeOK, Mat
  <2> QED BY <1>4, <2>1 DEF Entry
<1>7. \A k \in DOMAIN stack[i] :
        stack[i][k].ptr \in DOMAIN heap /\ heap[stack[i][k].ptr] = stack[i][k].size
  BY <1>1 DEF Lists
<1> HIDE DEF i, b, e
<1>8. /\ s \in Seq(Entry) /\ Once(s)
      /\ \A k \in DOMAIN s : s[k].ptr \in DOMAIN heap /\ heap[s[k].ptr] = s[k].size
      /\ Ptrs(s) = Ptrs(stack[i]) \cup {b}
  BY <1>4, <1>5, <1>6, <1>7, Appended
<1> HIDE DEF s
<1>9. /\ q \in Seq(Entry) /\ Once(q)
      /\ \A k \in DOMAIN q : q[k].ptr \in DOMAIN h /\ h[q[k].ptr] = q[k].size
      /\ Ptrs(q) \subseteq Ptrs(s) /\ Ptrs(s) \cap DOMAIN h \subseteq Ptrs(q)
      /\ DOMAIN h \subseteq DOMAIN heap /\ \A x \in DOMAIN h : h[x] = heap[x]
      /\ DOMAIN heap \subseteq DOMAIN h \cup Ptrs(s)
  BY <1>8, Cleaned
<1> HIDE DEF q, h
<1>10. \A j \in Instances \ {i} : Ptrs(s) \cap Ptrs(stack[j]) = {}
  <2>1. \A j \in Instances \ {i} : Ptrs(stack[i]) \cap Ptrs(stack[j]) = {}
    BY <1>1, ListedPtrs DEF ListsApart
  <2>2. \A j \in Instances : b \notin Ptrs(stack[j])
    BY <1>4, ListedPtrs
  <2> QED BY <1>8, <2>1, <2>2
<1>11. \A j \in Instances \ {i} :
         /\ Ptrs(q) \cap Ptrs(stack[j]) = {}
         /\ \A x \in Ptrs(stack[j]) : x \in DOMAIN heap' /\ heap'[x] = heap[x]
  <2>1. \A j \in Instances \ {i} : \A x \in Ptrs(stack[j]) : x \in DOMAIN heap
    BY ListedPtrs, Whereabouts
  <2> QED BY <1>3, <1>9, <1>10, <2>1
<1>12. /\ stack' \in [Instances -> Seq(Entry)] /\ Lists' /\ ListsApart'
       /\ \A x : x \in Listed' <=>
                   x \in Ptrs(q) \/ \E j \in Instances \ {i} : x \in Ptrs(stack[j])
  BY <1>1, <1>3, <1>9, <1>11, ListChanges
<1>13. InPools' = InPools
  BY <1>3 DEF InPools
<1>14. /\ Listed' \subseteq Listed \cup {b}
       /\ \A x \in Listed \cup {b} : x \in DOMAIN h => x \in Listed'
  <2>1. Listed' \subseteq Listed \cup {b}
    BY <1>1, <1>8, <1>9, <1>12, ListedPtrs
  <2>2. \A x \in Listed \cup {b} :
          x \in Ptrs(s) \/ \E j \in Instances \ {i} : x \in Ptrs(stack[j])
    BY <1>8, ListedPtrs
  <2> QED BY <1>9, <1>12, <2>1, <2>2
<1>15. ASSUME NEW o \in Used \ {m}
       PROVE  Placed(mat[o], heap', InPools') /\ mat[o].ptr \notin Listed'
  <2>1. Placed(mat[o], heap, InPools) /\ mat[o].ptr \notin Listed /\ mat[o].ptr # b
    BY <1>1, <1>4 DEF InUse
  <2>2. mat[o].ptr \notin Ptrs(s)
    BY <1>1, <1>8, <2>1, ListedPtrs
  <2>3. mat[o].ptr \in DOMAIN heap =>
          mat[o].ptr \in DOMAIN heap' /\ heap'[mat[o].ptr] = heap[mat[o].ptr]
    BY <1>3, <1>9, <2>2
  <2> QED BY <1>13, <1>14, <2>1, <2>3 DEF Placed
<1>16. InUse' /\ Held \subseteq Held' \cup {b}
  BY <1>1, <1>15, UseGone DEF b
<1>17. HostTypeOK'
  BY <1>1, <1>2, <1>3, <1>9, <1>12 DEF HostTypeOK, Mat, Entry
<1>18. PoolsApart'
  BY <1>3, <1>9 DEF HostInv, PoolsApart
<1>19. HostConserves'
  <2>1. \A x \in DOMAIN heap : x \in InPools => x \in orphans
    BY InSomePool DEF HostInv, PoolsApart
  <2>2. \A x \in InPools : x \in Held \cup lost \cup orphans
    BY <2>1, Whereabouts, ConservesUnfolded DEF HostInv
  <2>3. \A x \in InPools : x \in Held' \cup lost \cup orphans
    BY <1>4, <1>16, <2>1, <2>2
  <2>4. \A x \in DOMAIN heap' : x \in Held' \cup Listed' \cup lost \cup orphans
    BY <1>3, <1>9, <1>14, <1>16, ConservesUnfolded DEF HostInv
  <2> QED BY <1>3, <1>13, <2>3, <2>4, ConservesUnfolded
<1> QED BY <1>12, <1>16, <1>17, <1>18, <1>19 DEF HostInv

LEMMA ReleaseStep ==
  ASSUME HostInv, NEW t \in Threads, NEW m \in Mats, HostRelease(t, m)
  PROVE  HostInv'
<1> DEFINE b == mat[m].ptr
<1>1. mat[m] \in Mat /\ b # Garbage /\ Aside /\ UNCHANGED refs
  BY TypesOf DEF HostInv, HostRelease, Aside
<1>2. b \in HostBlocks \/ b = User
  BY <1>1 DEF Mat
<1>3. CASE mat[m].count > 1
  <2>1. mat' = [mat EXCEPT ![m].count = mat[m].count - 1] /\ UNCHANGED <<stack, pool, heap, lost>>
    BY <1>3 DEF HostRelease
  <2>2. mat[m].count - 1 \in 0..2
    BY <1>1, <1>3 DEF Mat
  <2> QED BY <1>1, <2>1, <2>2, CountStep
<1>4. CASE ~(mat[m].count > 1)
  <2>1. /\ mat' = [mat EXCEPT ![m] = Nothing]
        /\ \/ b = User /\ UNCHANGED <<stack, pool, heap, lost>>
           \/ b # User /\ mat[m].form = "pinned" /\ ReleasePinned(m)
           \/ /\ b # User /\ mat[m].form # "pinned"
              /\ ToPool(mat[m].size, mat[m].form) /\ ReleasePool(t, m)
           \/ /\ b # User /\ mat[m].form # "pinned"
              /\ ~ToPool(mat[m].size, mat[m].form) /\ ReleaseStack(t, m)
    BY <1>4 DEF HostRelease
  <2>2. CASE b = User /\ UNCHANGED <<stack, pool, heap, lost>>
    BY <1>1, <2>1, <2>2, GoneStep
  <2>3. CASE b # User /\ mat[m].form = "pinned" /\ ReleasePinned(m)
    BY <1>1, <1>2, <2>1, <2>3, GoneStep DEF ReleasePinned
  <2>4. CASE /\ b # User /\ mat[m].form # "pinned"
             /\ ToPool(mat[m].size, mat[m].form) /\ ReleasePool(t, m)
    BY <1>1, <1>2, <2>1, <2>4, ReleasePoolStep
  <2>5. CASE b # User /\ ~ToPool(mat[m].size, mat[m].form) /\ ReleaseStack(t, m)
    BY <1>1, <1>2, <2>1, <2>5, ReleaseStackStep
  <2> QED BY <2>1, <2>2, <2>3, <2>4, <2>5
<1> QED BY <1>3, <1>4

(* A thread ends: its list is freed as far as the clock wraps, and what    *)
(* its pool gave out is nobody's.                                          *)
LEMMA ThreadExitStep ==
  ASSUME HostInv, NEW t \in Threads, ThreadExit(t)
  PROVE  HostInv'
<1>1. HostTypeOK /\ InUse /\ Lists /\ ListsApart /\ t \in Instances
  BY DEF HostInv, Instances
<1>2. mat' = mat /\ refs' = refs /\ clock' = clock /\ alive' \subseteq Threads
  BY <1>1 DEF ThreadExit, HostTypeOK
<1>3. Used' = Used /\ Held' = Held
  BY <1>2 DEF Used, Held
<1>4. CASE UNCHANGED <<stack, heap, lost, pool, orphans>>
  <2>1. Listed' = Listed /\ InPools' = InPools
    BY <1>4 DEF Listed, ListedIn, InPools
  <2>2. HostTypeOK'
    BY <1>1, <1>2, <1>4 DEF HostTypeOK
  <2>3. Lists' /\ ListsApart'
    BY <1>4, Whereabouts, ListsSame DEF HostInv
  <2>4. InUse'
    BY <1>1, <1>2, <1>3, <1>4, <2>1 DEF InUse
  <2>5. PoolsApart' /\ HostConserves'
    BY <1>3, <1>4, <2>1, ConservesUnfolded DEF HostInv, PoolsApart
  <2> QED BY <2>2, <2>3, <2>4, <2>5 DEF HostInv
<1>5. CASE refs[t] = 0
  <2> DEFINE s == stack[t]
             q == Kept(s, 0)
             h == AfterFree(s, 0)
             none == <<>>
  <2>1. /\ heap' = h /\ lost' = lost \cup Ptrs(q) /\ stack' = [stack EXCEPT ![t] = none]
        /\ pool' = [pool EXCEPT ![t] = {}] /\ orphans' = orphans \cup pool[t]
    BY <1>5 DEF ThreadExit, Ptrs
  <2>2. s \in Seq(Entry) /\ Once(s) /\ none \in Seq(Entry) /\ DOMAIN none = {} /\ Ptrs(none) = {}
    <3>1. none \in Seq(Entry) /\ DOMAIN none = {}
      OBVIOUS
    <3> QED BY <1>1, <3>1, TypesOf DEF Lists, Ptrs
  <2>3. \A k \in DOMAIN s : s[k].ptr \in DOMAIN heap /\ heap[s[k].ptr] = s[k].size
    BY <1>1 DEF Lists
  <2>4. /\ q \in Seq(Entry) /\ Ptrs(q) \subseteq Ptrs(s) /\ Ptrs(s) \cap DOMAIN h \subseteq Ptrs(q)
        /\ DOMAIN h \subseteq DOMAIN heap /\ \A x \in DOMAIN h : h[x] = heap[x]
        /\ DOMAIN heap \subseteq DOMAIN h \cup Ptrs(s)
    BY <2>2, <2>3, Cleaned
  <2> HIDE DEF q, h, s, none
  <2>5. Ptrs(s) \subseteq Listed /\ Listed \subseteq DOMAIN heap
    BY <1>1, ListedPtrs, Whereabouts DEF s
  <2>6. \A j \in Instances \ {t} :
          /\ Ptrs(none) \cap Ptrs(stack[j]) = {} /\ Ptrs(s) \cap Ptrs(stack[j]) = {}
          /\ \A x \in Ptrs(stack[j]) : x \in DOMAIN heap' /\ heap'[x] = heap[x]
    <3>1. \A j \in Instances \ {t} : Ptrs(s) \cap Ptrs(stack[j]) = {}
      BY <1>1, ListedPtrs DEF ListsApart, s
    <3>2. \A j \in Instances : Ptrs(stack[j]) \subseteq DOMAIN heap
      BY <2>5, ListedPtrs
    <3> QED BY <2>1, <2>2, <2>4, <3>1, <3>2
  <2>7. /\ stack' \in [Instances -> Seq(Entry)] /\ Lists' /\ ListsApart'
        /\ \A x : x \in Listed' <=>
                    x \in Ptrs(none) \/ \E j \in Instances \ {t} : x \in Ptrs(stack[j])
    <3>1. Once(none)
      BY <2>2 DEF Once
    <3> QED BY <1>1, <2>1, <2>2, <2>6, <3>1, ListChanges
  <2>8. Listed' \subseteq Listed /\ Listed \subseteq Listed' \cup Ptrs(s)
    BY <1>1, <2>2, <2>7, ListedPtrs DEF s
  <2>9. /\ pool' \in [Instances -> SUBSET HostBlocks] /\ pool'[t] = {}
        /\ \A j \in Instances \ {t} : pool'[j] = pool[j]
    BY <1>1, <2>1, TypesOf
  <2>10. InPools' = InPools
    <3>1. \A x : x \in InPools' <=> x \in InPools
      BY <1>1, <2>1, <2>9, InSomePool, InSomePoolNext
    <3> QED BY <3>1
  <2>11. ASSUME NEW o \in Used
         PROVE  Placed(mat[o], heap', InPools') /\ mat[o].ptr \notin Listed'
    <3>1. Placed(mat[o], heap, InPools) /\ mat[o].ptr \notin Listed
      BY <1>1 DEF InUse
    <3>2. mat[o].ptr \in DOMAIN heap =>
            mat[o].ptr \in DOMAIN heap' /\ heap'[mat[o].ptr] = heap[mat[o].ptr]
      BY <2>1, <2>4, <2>5, <3>1
    <3> QED BY <2>8, <2>10, <3>1, <3>2 DEF Placed
  <2>12. InUse'
    BY <1>1, <1>2, <1>3, <2>11 DEF InUse
  <2>13. HostTypeOK'
    <3>1. /\ Ptrs(q) \subseteq HostBlocks /\ DOMAIN h \subseteq HostBlocks
          /\ pool[t] \subseteq HostBlocks
      BY <1>1, <2>4, <2>5, TypesOf
    <3> QED BY <1>1, <1>2, <2>1, <2>7, <2>9, <3>1 DEF HostTypeOK, Entry
  <2>14. PoolsApart'
    BY <2>1, <2>4, <2>9 DEF HostInv, PoolsApart
  <2>15. HostConserves'
    <3>1. \A x \in DOMAIN heap' : x \in Held' \cup Listed' \cup lost' \cup orphans'
      BY <1>3, <2>1, <2>4, <2>8, ConservesUnfolded DEF HostInv
    <3>2. \A x \in InPools : x \in Held \cup lost \cup orphans
      <4>1. \A x \in DOMAIN heap : x \in InPools => x \in orphans
        BY InSomePool DEF HostInv, PoolsApart
      <4> QED BY <4>1, Whereabouts, ConservesUnfolded DEF HostInv
    <3>3. \A x \in InPools' : x \in Held' \cup Listed' \cup lost' \cup orphans'
      BY <1>3, <2>1, <2>10, <3>2
    <3> QED BY <3>1, <3>3, ConservesUnfolded
  <2> QED BY <2>7, <2>12, <2>13, <2>14, <2>15 DEF HostInv
<1> QED BY <1>4, <1>5 DEF ThreadExit

(* The clock, and a step that changes nothing.                             *)
LEMMA IdleStep ==
  ASSUME HostInv, UNCHANGED <<mat, stack, pool, heap, refs, alive, lost, orphans>>,
         clock' \in Nat
  PROVE  HostInv'
<1>1. Lists' /\ ListsApart' /\ Listed' = Listed
  BY Whereabouts, ListsSame DEF HostInv
<1>2. InPools' = InPools /\ Used' = Used /\ Held' = Held
  BY DEF InPools, Used, Held
<1>3. HostTypeOK'
  BY DEF HostInv, HostTypeOK
<1>4. InUse'
  BY <1>1, <1>2 DEF HostInv, InUse
<1>5. PoolsApart' /\ HostConserves'
  BY <1>1, <1>2, ConservesUnfolded DEF HostInv, PoolsApart
<1> QED BY <1>1, <1>3, <1>4, <1>5 DEF HostInv

LEMMA HostInvInit == HostInit => HostInv
<1> SUFFICES ASSUME HostInit PROVE HostInv
  OBVIOUS
<1> USE DEF HostInit
<1>1. DOMAIN heap = {} /\ \A m \in Mats : mat[m].ptr = 0
  BY DEF Nothing
<1>2. Used = {}
  BY <1>1, HostAssumption DEF Used
<1>3. \A i \in Instances : stack[i] = <<>> /\ pool[i] = {} /\ DOMAIN stack[i] = {}
  OBVIOUS
<1>4. HostTypeOK
  <2>1. Nothing \in Mat
    BY DEF Nothing, Mat, User
  <2>2. mat \in [Mats -> Mat] /\ refs \in [Instances -> Nat]
    BY <2>1
  <2>3. stack \in [Instances -> Seq(Entry)] /\ pool \in [Instances -> SUBSET HostBlocks]
    OBVIOUS
  <2> QED BY <1>1, <2>2, <2>3 DEF HostTypeOK, Mat, Entry
<1>5. Lists /\ ListsApart /\ PoolsApart
  BY <1>3 DEF Lists, ListsApart, ListedIn, PoolsApart, Once
<1>6. InPools = {}
  BY <1>3 DEF InPools
<1>7. InUse /\ HostConserves
  BY <1>1, <1>2, <1>6 DEF InUse, HostConserves
<1> QED BY <1>4, <1>5, <1>7 DEF HostInv

LEMMA HostInvNext == HostInv /\ [HostNext]_hostVars => HostInv'
<1> SUFFICES ASSUME HostInv, [HostNext]_hostVars PROVE HostInv'
  OBVIOUS
<1>1. ASSUME NEW t \in Threads, NEW m \in Mats, HostRelease(t, m) PROVE HostInv'
  BY <1>1, ReleaseStep
<1>2. ASSUME NEW t \in Threads, NEW m \in Mats, NEW n \in HostSizes, HostAllocate(t, m, n)
      PROVE  HostInv'
  <2>1. mat[m] = Nothing /\ Aside
    BY <1>2 DEF HostAllocate, Aside
  <2>2. CASE AllocateUser(m, n)
    BY <2>1, <2>2, AllocateUserStep
  <2>3. CASE AllocatePinned(m, n)
    BY <2>1, <2>3, AllocatePinnedStep
  <2>4. ASSUME NEW form \in Forms, AllocatePool(t, m, n, form) PROVE HostInv'
    BY <2>1, <2>4, AllocatePoolStep
  <2>5. ASSUME NEW form \in Forms, AllocateStack(t, m, n, form) PROVE HostInv'
    BY <2>1, <2>5, AllocateStackStep
  <2> QED BY <1>2, <2>2, <2>3, <2>4, <2>5 DEF HostAllocate
<1>3. ASSUME NEW m \in Mats, Copy(m) PROVE HostInv'
  <2>1. mat' = [mat EXCEPT ![m].count = 2] /\ 2 \in 0..2
    BY <1>3 DEF Copy
  <2>2. UNCHANGED <<stack, pool, heap, refs, lost>> /\ Aside
    BY <1>3 DEF Copy, Aside
  <2> QED BY <2>1, <2>2, CountStep
<1>4. ASSUME NEW t \in Threads, ThreadExit(t) PROVE HostInv'
  BY <1>4, ThreadExitStep
<1>5. CASE Tick
  <2>1. clock' \in Nat
    BY <1>5 DEF Tick, HostInv, HostTypeOK
  <2> QED BY <1>5, <2>1, IdleStep DEF Tick
<1>6. CASE UNCHANGED hostVars
  <2>1. clock' \in Nat
    BY <1>6 DEF hostVars, HostInv, HostTypeOK
  <2> QED BY <1>6, <2>1, IdleStep DEF hostVars
<1> QED BY <1>1, <1>2, <1>3, <1>4, <1>5, <1>6 DEF HostNext

LEMMA HostInvImplies == HostInv => HostSound
<1> SUFFICES ASSUME HostInv PROVE HostSound
  OBVIOUS
<1>1. NeverShared
  <2>1. \A m, o \in Used : m # o => mat[m].ptr # mat[o].ptr
    BY DEF HostInv, InUse
  <2>2. ASSUME NEW m \in Used
        PROVE  /\ mat[m].ptr \notin Listed
               /\ \/ mat[m].ptr \in DOMAIN heap /\ heap[mat[m].ptr] = mat[m].size
                  \/ mat[m].ptr \in InPools
    BY DEF HostInv, InUse, Placed
  <2>3. \A i, j \in Instances : i # j => ListedIn(i) \cap ListedIn(j) = {}
    BY DEF HostInv, ListsApart
  <2>4. ASSUME NEW i \in Instances PROVE Cardinality(ListedIn(i)) = Len(stack[i])
    <3>1. stack[i] \in Seq(Entry) /\ Once(stack[i])
      BY TypesOf DEF HostInv, Lists
    <3>2. ListedIn(i) = Ptrs(stack[i])
      BY ListedPtrs
    <3> QED BY <3>1, <3>2, OnceCounts
  <2>5. Listed \subseteq DOMAIN heap
    BY Whereabouts
  <2> QED BY <2>1, <2>2, <2>3, <2>4, <2>5 DEF NeverShared
<1> QED BY <1>1 DEF HostInv, HostSound

(* Whatever policies the clients mix, and whichever threads end while      *)
(* matrices live on: two clients never share memory, no free list holds    *)
(* memory in use or holds it twice, what is in use is there with its size, *)
(* and memory is lost in the ways HostConserves names and in no other.     *)
THEOREM HostMemorySound == HostSpec => []HostSound
<1>1. HostSpec => []HostInv
  BY HostInvInit, HostInvNext, PTL DEF HostSpec
<1> QED BY <1>1, HostInvImplies, PTL

----------------------------------------------------------------------------
(* The device: its inductive invariant                                     *)

Freed == [ptr : GpuBlocks, off : BOOLEAN, time : Nat, size : Nat]
Header == [ptr : GpuBlocks \cup {0}, off : BOOLEAN, size : Nat, area : Nat, bytes : BOOLEAN]

(* Where the memory of a client is: NoneShared only says that it is in one *)
(* of the two places, but its release asks the one that the policy and the *)
(* bytes of the matrix name.  p is the policy, v what the client holds, g  *)
(* the heap of the device, r the regions of the pool.                      *)
Lies(p, v, g, r) ==
  IF p = "universal" /\ (v.bytes \/ v.area < Small)
  THEN v.ptr \in r
  ELSE v.ptr \in DOMAIN g /\ (v.off \/ g[v.ptr] >= v.size)

(* The list has each block once, and knows no more of it than there is.    *)
FreeList ==
  /\ Once(free)
  /\ \A k \in DOMAIN free :
       /\ free[k].ptr \in DOMAIN gheap
       /\ free[k].off \/ gheap[free[k].ptr] >= free[k].size

Clients ==
  /\ \A m, o \in Live : m # o => gmat[m].ptr # gmat[o].ptr
  /\ \A m \in Live :
       /\ gmat[m].ptr \in GpuBlocks /\ gmat[m].ptr \notin Ptrs(free)
       /\ Lies(policy, gmat[m], gheap, region)

HeldThere == {gmat[m].ptr : m \in Live}

Accounted ==
  /\ DOMAIN gheap \cup region \subseteq HeldThere \cup Ptrs(free) \cup leaked
  /\ leaked \cap (HeldThere \cup Ptrs(free)) = {}
  /\ leaked \subseteq DOMAIN gheap \cup region
  /\ policy # "universal" => leaked = {}
  /\ policy = "universal" => gcount = Cardinality(Live)

HeapSizes == \A b \in DOMAIN gheap : gheap[b] \in Nat

DeviceOrder == FreeList /\ Clients /\ region \cap DOMAIN gheap = {} /\ Accounted

DeviceInv == DeviceTypeOK /\ HeapSizes /\ (~thrown => DeviceOrder)

----------------------------------------------------------------------------
(* The loop of clear                                                       *)

Sweep(s, n, f) ==
  f = [k \in 0 .. n |-> IF k = 0 THEN [list |-> s, at |-> 1] ELSE ClearStep(f[k - 1])]

(* It has a solution.                                                      *)
LEMMA SweepRuns ==
  ASSUME NEW s
  PROVE  \A n \in Nat : \E f : Sweep(s, n, f)
<1> DEFINE Bad == {n \in Nat : ~\E f : Sweep(s, n, f)}
<1>1. SUFFICES ASSUME Bad # {} PROVE FALSE
  OBVIOUS
<1>2. PICK n \in Bad : \A m \in Bad : n <= m
  BY <1>1, LeastNumber
<1>3. CASE n = 0
  <2> DEFINE f == [k \in 0 .. 0 |-> [list |-> s, at |-> 1]]
  <2>1. Sweep(s, 0, f)
    BY DEF Sweep
  <2> QED BY <1>2, <1>3, <2>1
<1>4. CASE n # 0
  <2>1. n - 1 \in Nat /\ n - 1 \notin Bad
    BY <1>2, <1>4
  <2>2. PICK f : Sweep(s, n - 1, f)
    BY <2>1
  <2> DEFINE g == [k \in 0 .. n |-> IF k = n THEN ClearStep(f[n - 1]) ELSE f[k]]
  <2>3. \A k \in 0 .. n - 1 : g[k] = f[k]
    BY <2>1
  <2>4. g[n] = ClearStep(f[n - 1]) /\ g[n - 1] = f[n - 1]
    BY <1>4, <2>1
  <2>5. \A k \in 0 .. n - 1 :
          f[k] = IF k = 0 THEN [list |-> s, at |-> 1] ELSE ClearStep(f[k - 1])
    BY <2>2, <2>1 DEF Sweep
  <2>6. ASSUME NEW k \in 0 .. n
        PROVE  g[k] = IF k = 0 THEN [list |-> s, at |-> 1] ELSE ClearStep(g[k - 1])
    <3>1. CASE k = n
      BY <1>4, <2>4, <3>1
    <3>2. CASE k = 0
      <4>1. 0 \in 0 .. n - 1 /\ g[0] = f[0] /\ f[0] = [list |-> s, at |-> 1]
        BY <1>4, <2>1, <2>3, <2>5
      <4> QED BY <3>2, <4>1
    <3>3. CASE k # n /\ k # 0
      <4>1. k \in 0 .. n - 1 /\ k - 1 \in 0 .. n - 1
        BY <2>1, <3>3
      <4>2. g[k] = f[k] /\ g[k - 1] = f[k - 1]
        BY <2>3, <4>1
      <4> HIDE DEF g
      <4> QED BY <2>5, <3>3, <4>1, <4>2
    <3> QED BY <3>1, <3>2, <3>3
  <2>7. g = [k \in 0 .. n |-> g[k]]
    OBVIOUS
  <2> HIDE DEF g
  <2>8. Sweep(s, n, g)
    BY <2>6, <2>7 DEF Sweep
  <2> QED BY <1>2, <2>8
<1> QED BY <1>3, <1>4

(* What the loop has of the list s: blocks of s, each once.                *)
Among(s, q) == \A k \in DOMAIN q : \E j \in DOMAIN s : q[k] = s[j]

Partly(s, c) ==
  c.list \in Seq(Freed) /\ c.at \in Nat \ {0} /\ Once(c.list) /\ Among(s, c.list)

LEMMA ClearStepKeeps ==
  ASSUME NEW s, NEW c, Partly(s, c)
  PROVE  Partly(s, ClearStep(c))
<1>1. /\ c.list \in Seq(Freed) /\ Once(c.list) /\ c.at \in Nat \ {0}
      /\ DOMAIN c.list = 1 .. Len(c.list) /\ Len(c.list) \in Nat
  BY DEF Partly
<1>2. CASE c.at > Len(c.list)
  BY <1>2 DEF ClearStep
<1>3. CASE ~(c.at > Len(c.list)) /\ ~TooOld(c.list[c.at])
  <2>1. ClearStep(c) = [list |-> c.list, at |-> c.at + 1]
    BY <1>3 DEF ClearStep
  <2> QED BY <1>1, <2>1 DEF Partly
<1>4. CASE ~(c.at > Len(c.list)) /\ TooOld(c.list[c.at])
  <2> DEFINE r == RemoveAt(c.list, c.at)
             at == IF c.at <= Len(r) THEN c.at + 1 ELSE 1
  <2>1. ClearStep(c) = [list |-> r, at |-> at]
    BY <1>4 DEF ClearStep
  <2>2. c.at \in DOMAIN c.list
    BY <1>1, <1>4
  <2>3. /\ r \in Seq(Freed) /\ Once(r)
        /\ \A j \in DOMAIN r : \E l \in DOMAIN c.list : r[j] = c.list[l]
    <3>1. ASSUME NEW q \in Seq(Freed), Once(q), NEW k \in DOMAIN q
          PROVE  /\ RemoveAt(q, k) \in Seq(Freed) /\ Once(RemoveAt(q, k))
                 /\ \A j \in DOMAIN RemoveAt(q, k) : \E l \in DOMAIN q : RemoveAt(q, k)[j] = q[l]
      BY <3>1, Removed
    <3> QED BY <1>1, <2>2, <3>1
  <2> HIDE DEF r
  <2>4. at \in Nat \ {0}
    BY <1>1
  <2> HIDE DEF at
  <2>5. Among(s, r)
    BY <2>3 DEF Partly, Among
  <2> QED BY <2>1, <2>3, <2>4, <2>5 DEF Partly
<1> QED BY <1>2, <1>3, <1>4

(* What clear leaves of a list.                                            *)
LEMMA ClearedRight ==
  ASSUME NEW s \in Seq(Freed), Once(s)
  PROVE  Cleared(s) \in Seq(Freed) /\ Once(Cleared(s)) /\ Among(s, Cleared(s))
<1> DEFINE steps == (Len(s) + 1) * (Len(s) + 1)
           cleared == CHOOSE f : Sweep(s, steps, f)
<1>1. Cleared(s) = cleared[steps].list
  BY DEF Cleared, Sweep
<1>2. steps \in Nat
  <2>1. Len(s) + 1 \in Nat
    OBVIOUS
  <2>2. \A x \in Nat : x * x \in Nat
    OBVIOUS
  <2> QED BY <2>1, <2>2
<1>3. Sweep(s, steps, cleared)
  <2>1. \E f : Sweep(s, steps, f)
    BY <1>2, SweepRuns
  <2> QED BY <2>1
<1> HIDE DEF steps, cleared
<1>4. \A k \in 0 .. steps :
        cleared[k] = IF k = 0 THEN [list |-> s, at |-> 1] ELSE ClearStep(cleared[k - 1])
  BY <1>3 DEF Sweep
<1> DEFINE Bad == {n \in 0 .. steps : ~Partly(s, cleared[n])}
<1>5. Bad = {}
  <2> SUFFICES ASSUME Bad # {} PROVE FALSE
    OBVIOUS
  <2>0. Bad \subseteq Nat
    OBVIOUS
  <2>1. PICK n \in Bad : \A m \in Bad : n <= m
    BY <2>0, LeastNumber
  <2>2. CASE n = 0
    <3>1. cleared[0] = [list |-> s, at |-> 1]
      BY <1>2, <1>4
    <3>2. Partly(s, [list |-> s, at |-> 1])
      BY DEF Partly, Among
    <3> QED BY <2>1, <2>2, <3>1, <3>2
  <2>3. CASE n # 0
    <3>1. n - 1 \in 0 .. steps /\ n - 1 \notin Bad
      BY <1>2, <2>1, <2>3
    <3>2. Partly(s, cleared[n - 1])
      BY <3>1
    <3>3. cleared[n] = ClearStep(cleared[n - 1])
      BY <1>4, <2>1, <2>3
    <3> QED BY <2>1, <3>2, <3>3, ClearStepKeeps
  <2> QED BY <2>2, <2>3
<1>6. Partly(s, cleared[steps])
  BY <1>2, <1>5
<1> QED BY <1>1, <1>6 DEF Partly

(* What giving back the blocks that left a list does to the heap.          *)
LEMMA GivenBack ==
  ASSUME NEW s \in Seq(Freed), Once(s), NEW q \in Seq(Freed), Among(s, q),
         \A k \in DOMAIN s :
           s[k].ptr \in DOMAIN gheap /\ (s[k].off \/ gheap[s[k].ptr] >= s[k].size),
         GiveBack(s, q)
  PROVE  /\ \A k \in DOMAIN q :
              q[k].ptr \in DOMAIN gheap' /\ (q[k].off \/ gheap'[q[k].ptr] >= q[k].size)
         /\ Ptrs(q) \subseteq Ptrs(s) /\ Ptrs(s) \cap DOMAIN gheap' \subseteq Ptrs(q)
         /\ DOMAIN gheap' \subseteq DOMAIN gheap /\ \A x \in DOMAIN gheap' : gheap'[x] = gheap[x]
         /\ DOMAIN gheap \subseteq DOMAIN gheap' \cup Ptrs(s)
         /\ thrown' \in BOOLEAN
<1> DEFINE gone == ToSet(s) \ ToSet(q)
           out == {e.ptr : e \in gone}
<1>1. gheap' = Less(gheap, out) /\ thrown' \in BOOLEAN
  BY DEF GiveBack
<1>2. /\ \A e : e \in gone <=> (\E k \in DOMAIN s : e = s[k]) /\ ~(\E k \in DOMAIN q : e = q[k])
      /\ \A x : x \in out <=> \E e \in gone : x = e.ptr
  BY DEF ToSet
<1> HIDE DEF gone, out
<1>3. DOMAIN gheap' = DOMAIN gheap \ out /\ \A x \in DOMAIN gheap' : gheap'[x] = gheap[x]
  BY <1>1 DEF Less
<1>4. ASSUME NEW k \in DOMAIN q
      PROVE  /\ q[k].ptr \in DOMAIN gheap' /\ q[k].ptr \in Ptrs(s)
             /\ q[k].off \/ gheap'[q[k].ptr] >= q[k].size
  <2>1. PICK j \in DOMAIN s : q[k] = s[j]
    BY DEF Among
  <2>2. s[j].ptr \notin out
    <3> SUFFICES ASSUME NEW e \in gone, s[j].ptr = e.ptr PROVE FALSE
      BY <1>2
    <3>1. PICK l \in DOMAIN s : e = s[l]
      BY <1>2
    <3>2. l = j
      BY <3>1 DEF Once
    <3> QED BY <1>2, <2>1, <3>1, <3>2
  <2> QED BY <1>3, <2>1, <2>2 DEF Ptrs
<1>5. ASSUME NEW j \in DOMAIN s, s[j].ptr \in DOMAIN gheap'
      PROVE  s[j].ptr \in Ptrs(q)
  <2>1. s[j] \notin gone
    BY <1>2, <1>3, <1>5
  <2>2. \E k \in DOMAIN q : s[j] = q[k]
    BY <1>2, <2>1
  <2> QED BY <2>2 DEF Ptrs
<1>6. Ptrs(q) \subseteq Ptrs(s) /\ Ptrs(s) \cap DOMAIN gheap' \subseteq Ptrs(q)
  BY <1>4, <1>5 DEF Ptrs
<1>7. DOMAIN gheap \subseteq DOMAIN gheap' \cup Ptrs(s)
  BY <1>2, <1>3 DEF Ptrs
<1> QED BY <1>1, <1>3, <1>4, <1>6, <1>7

----------------------------------------------------------------------------
(* The steps of the device                                                 *)

LEMMA DeviceTypes ==
  ASSUME DeviceTypeOK
  PROVE  /\ gmat \in [GpuMats -> Header] /\ free \in Seq(Freed)
         /\ NoMat \in Header /\ NoMat.ptr = 0 /\ 0 \notin GpuBlocks
         /\ IsFiniteSet(Live) /\ Live \subseteq GpuMats
<1>1. gmat \in [GpuMats -> Header] /\ free \in Seq(Freed)
  BY DEF DeviceTypeOK, Header, Freed
<1>2. NoMat \in Header /\ NoMat.ptr = 0 /\ 0 \notin GpuBlocks
  BY DeviceAssumption DEF NoMat, Header
<1>3. Live \subseteq GpuMats
  BY DEF Live
<1>4. IsFiniteSet(Live)
  BY <1>3, FS_Subset, DeviceAssumption
<1> QED BY <1>1, <1>2, <1>3, <1>4

(* What CUDA or the pool gives is an address that nobody has.              *)
LEMMA FreshAddress ==
  ASSUME NewAddress # {}
  PROVE  Lowest(NewAddress) \in GpuBlocks /\ Lowest(NewAddress) \notin DOMAIN gheap \cup region
<1>1. NewAddress \subseteq Nat
  BY DeviceAssumption DEF NewAddress
<1>2. \E b \in NewAddress : \A c \in NewAddress : b <= c
  BY <1>1, LeastNumber
<1>3. Lowest(NewAddress) \in NewAddress
  BY <1>2 DEF Lowest
<1> QED BY <1>3 DEF NewAddress

(* What the policies, the heap and the lists have of each other.           *)
Kinds ==
  /\ free \in Seq(Freed) /\ HeapSizes
  /\ DOMAIN gheap \subseteq GpuBlocks /\ DOMAIN sizes \subseteq GpuBlocks
  /\ region \subseteq GpuBlocks /\ leaked \subseteq GpuBlocks

LEMMA KindsOf == DeviceInv => Kinds
BY DeviceTypes DEF DeviceInv, Kinds, DeviceTypeOK

(* A client that had nothing gets r.                                       *)
LEMMA NewClient ==
  ASSUME DeviceInv, ~thrown, NEW m \in GpuMats, gmat[m] = NoMat, NEW r \in Header,
         r.ptr \in GpuBlocks, r.ptr \notin HeldThere, r.ptr \notin Ptrs(free'),
         Lies(policy, r, gheap', region'), gmat' = [gmat EXCEPT ![m] = r],
         \A o \in Live : /\ Lies(policy, gmat[o], gheap', region')
                         /\ gmat[o].ptr \notin Ptrs(free'),
         gcount' = CountMore, UNCHANGED <<policy, time, leaked, thrown>>,
         Kinds', FreeList', region' \cap DOMAIN gheap' = {},
         DOMAIN gheap' \cup region' \subseteq HeldThere \cup {r.ptr} \cup Ptrs(free') \cup leaked,
         r.ptr \notin leaked, Ptrs(free') \subseteq Ptrs(free),
         DOMAIN gheap \cup region \subseteq DOMAIN gheap' \cup region'
  PROVE  DeviceInv'
<1>1. /\ DeviceTypeOK /\ DeviceOrder
  BY DEF DeviceInv
<1>2. /\ gmat \in [GpuMats -> Header] /\ NoMat.ptr = 0 /\ 0 \notin GpuBlocks
      /\ IsFiniteSet(Live) /\ Live \subseteq GpuMats
  BY <1>1, DeviceTypes
<1>3. /\ gmat' \in [GpuMats -> Header] /\ gmat'[m] = r
      /\ \A o \in GpuMats \ {m} : gmat'[o] = gmat[o]
  BY <1>2
<1>4. m \notin Live /\ Live' = Live \cup {m}
  BY <1>2, <1>3 DEF Live
<1>5. \A o \in Live : gmat'[o] = gmat[o]
  BY <1>2, <1>3, <1>4
<1>6. Cardinality(Live') = Cardinality(Live) + 1 /\ Cardinality(Live) \in Nat
  BY <1>2, <1>4, FS_AddElement, FS_CardinalityType
<1>7. HeldThere' = HeldThere \cup {r.ptr}
  BY <1>3, <1>4, <1>5 DEF HeldThere
<1>8. Clients'
  <2>1. \A o, p \in Live' : o # p => gmat'[o].ptr # gmat'[p].ptr
    BY <1>1, <1>3, <1>4, <1>5 DEF DeviceOrder, Clients, HeldThere
  <2>2. \A o \in Live' :
          /\ gmat'[o].ptr \in GpuBlocks /\ gmat'[o].ptr \notin Ptrs(free')
          /\ Lies(policy', gmat'[o], gheap', region')
    BY <1>1, <1>3, <1>4, <1>5 DEF DeviceOrder, Clients
  <2> QED BY <2>1, <2>2 DEF Clients, Ptrs
<1>9. gcount' \in Nat /\ (policy' = "universal" => gcount' = Cardinality(Live'))
  <2>1. gmat' # gmat
    BY <1>2, <1>3
  <2> QED BY <1>1, <1>6, <2>1 DEF CountMore, DeviceTypeOK, DeviceOrder, Accounted
<1>10. Accounted'
  <2>1. /\ leaked \cap (HeldThere \cup {r.ptr} \cup Ptrs(free')) = {}
        /\ leaked \subseteq DOMAIN gheap' \cup region'
        /\ policy # "universal" => leaked = {}
    BY <1>1 DEF DeviceOrder, Accounted
  <2> QED BY <1>7, <1>9, <2>1 DEF Accounted, Ptrs
<1>11. DeviceTypeOK'
  BY <1>1, <1>3, <1>9 DEF DeviceTypeOK, Kinds, Header, Freed
<1> QED BY <1>8, <1>10, <1>11 DEF DeviceInv, DeviceOrder, Kinds

(* What is left is accounted for when the client m gives up what it has.   *)
StillThere(m) ==
  /\ DOMAIN gheap' \cup region' \subseteq (HeldThere \ {gmat[m].ptr}) \cup Ptrs(free') \cup leaked'
  /\ leaked' \cap ((HeldThere \ {gmat[m].ptr}) \cup Ptrs(free')) = {}
  /\ leaked' \subseteq DOMAIN gheap' \cup region'
  /\ policy # "universal" => leaked' = {}

(* A client gives up what it has.                                          *)
LEMMA ClientGone ==
  ASSUME DeviceInv, ~thrown, NEW m \in Live, gmat' = [gmat EXCEPT ![m] = NoMat],
         UNCHANGED <<policy, time>>, Kinds', thrown' \in BOOLEAN, gcount' = CountAfter(m),
         ~thrown' =>
           /\ FreeList' /\ region' \cap DOMAIN gheap' = {}
           /\ \A o \in Live \ {m} : /\ Lies(policy, gmat[o], gheap', region')
                                    /\ gmat[o].ptr \notin Ptrs(free')
           /\ StillThere(m)
  PROVE  DeviceInv'
<1>1. /\ DeviceTypeOK /\ DeviceOrder
  BY DEF DeviceInv
<1>2. /\ gmat \in [GpuMats -> Header] /\ NoMat \in Header
      /\ IsFiniteSet(Live) /\ Live \subseteq GpuMats
  BY <1>1, DeviceTypes
<1>3. /\ gmat' \in [GpuMats -> Header] /\ gmat'[m] = NoMat
      /\ \A o \in GpuMats \ {m} : gmat'[o] = gmat[o]
  BY <1>2
<1>4. Live' = Live \ {m} /\ \A o \in Live \ {m} : gmat'[o] = gmat[o]
  BY <1>2, <1>3 DEF Live
<1>5. Cardinality(Live') = Cardinality(Live) - 1 /\ Cardinality(Live) \in Nat \ {0}
  <2>1. Cardinality(Live') = Cardinality(Live) - 1
    BY <1>2, <1>4, FS_RemoveElement
  <2>2. Cardinality(Live) \in Nat /\ Cardinality(Live) # 0
    BY <1>2, FS_CardinalityType, FS_EmptySet
  <2> QED BY <2>1, <2>2
<1>6. gcount' \in Nat /\ (~thrown' /\ policy' = "universal" => gcount' = Cardinality(Live'))
  BY <1>1, <1>5 DEF CountAfter, DeviceTypeOK, DeviceOrder, Accounted
<1>7. DeviceTypeOK'
  BY <1>1, <1>3, <1>6 DEF DeviceTypeOK, Kinds, Header, Freed
<1>8. ASSUME ~thrown' PROVE DeviceOrder'
  <2>1. HeldThere \ {gmat[m].ptr} = HeldThere'
    BY <1>1, <1>4 DEF HeldThere, DeviceOrder, Clients
  <2>2. Clients'
    <3>1. \A o, p \in Live' : o # p => gmat'[o].ptr # gmat'[p].ptr
      BY <1>1, <1>4 DEF DeviceOrder, Clients
    <3>2. \A o \in Live' :
            /\ gmat'[o].ptr \in GpuBlocks /\ gmat'[o].ptr \notin Ptrs(free')
            /\ Lies(policy', gmat'[o], gheap', region')
      BY <1>1, <1>4, <1>8 DEF DeviceOrder, Clients
    <3> QED BY <3>1, <3>2 DEF Clients, Ptrs
  <2>3. Accounted'
    BY <1>6, <1>8, <2>1 DEF StillThere, Accounted, Ptrs
  <2> QED BY <1>8, <2>2, <2>3 DEF DeviceOrder
<1> QED BY <1>7, <1>8 DEF DeviceInv, Kinds

(* What is waiting or in use is memory there is.                           *)
LEMMA DeviceWhere ==
  ASSUME DeviceInv, ~thrown
  PROVE  /\ Ptrs(free) \subseteq DOMAIN gheap /\ HeldThere \subseteq DOMAIN gheap \cup region
         /\ HeldThere \cap Ptrs(free) = {} /\ leaked \cap (HeldThere \cup Ptrs(free)) = {}
         /\ leaked \subseteq DOMAIN gheap \cup region
         /\ \A o \in Live : /\ Lies(policy, gmat[o], gheap, region) /\ gmat[o].ptr \in HeldThere
                            /\ gmat[o].ptr \notin Ptrs(free)
<1>1. Ptrs(free) \subseteq DOMAIN gheap
  BY DEF DeviceInv, DeviceOrder, FreeList, Ptrs
<1>2. \A o \in Live : /\ Lies(policy, gmat[o], gheap, region) /\ gmat[o].ptr \in HeldThere
                      /\ gmat[o].ptr \notin Ptrs(free)
  BY DEF DeviceInv, DeviceOrder, Clients, HeldThere
<1>3. HeldThere \subseteq DOMAIN gheap \cup region /\ HeldThere \cap Ptrs(free) = {}
  BY <1>2 DEF HeldThere, Lies
<1>4. /\ leaked \cap (HeldThere \cup Ptrs(free)) = {}
      /\ leaked \subseteq DOMAIN gheap \cup region
  BY DEF DeviceInv, DeviceOrder, Accounted
<1> QED BY <1>1, <1>2, <1>3, <1>4

NewHeader(b, off, n, area) ==
  [ptr |-> b, off |-> off, size |-> n, area |-> area, bytes |-> area = 0]

LEMMA NewHeaderIs ==
  ASSUME NEW b \in GpuBlocks, NEW off \in BOOLEAN, NEW n \in Nat, NEW area \in Nat
  PROVE  /\ NewHeader(b, off, n, area) \in Header
         /\ NewHeader(b, off, n, area).ptr = b /\ (NewHeader(b, off, n, area).off <=> off)
         /\ NewHeader(b, off, n, area).size = n /\ NewHeader(b, off, n, area).area = area
         /\ NewHeader(b, off, n, area).bytes <=> area = 0
<1>1. (area = 0) \in BOOLEAN
  OBVIOUS
<1> QED BY <1>1 DEF NewHeader, Header

(* What no allocation changes, and the count.                              *)
OneMore == gcount' = CountMore /\ UNCHANGED <<policy, time, leaked, thrown>>

(* New memory of the device; size and place agree with the policy.         *)
LEMMA HeapStep ==
  ASSUME DeviceInv, ~thrown, NEW m \in GpuMats, gmat[m] = NoMat, OneMore, NEW n \in Nat,
         NEW area \in Nat, ~(policy = "universal" /\ (area = 0 \/ area < Small)),
         NewAddress # {}, GiveMat(m, Lowest(NewAddress), FALSE, n, area),
         gheap' = With(gheap, Lowest(NewAddress), n), UNCHANGED <<free, region>>,
         DOMAIN sizes' \subseteq DOMAIN sizes \cup {Lowest(NewAddress)}
  PROVE  DeviceInv'
<1> DEFINE b == Lowest(NewAddress)
           r == NewHeader(b, FALSE, n, area)
<1>1. b \in GpuBlocks /\ b \notin DOMAIN gheap \cup region
  BY FreshAddress
<1>2. /\ gmat' = [gmat EXCEPT ![m] = r] /\ gheap' = With(gheap, b, n)
      /\ DOMAIN sizes' \subseteq DOMAIN sizes \cup {b}
  BY DEF GiveMat, NewHeader
<1> HIDE DEF b
<1>3. /\ r \in Header /\ r.ptr = b /\ r.size = n /\ r.area = area
      /\ r.bytes <=> area = 0
  <2>1. FALSE \in BOOLEAN /\ (area = 0) \in BOOLEAN
    OBVIOUS
  <2>2. r \in Header
    BY <1>1, <2>1 DEF NewHeader, Header
  <2> QED BY <2>2 DEF NewHeader
<1> HIDE DEF r
<1>4. /\ DOMAIN gheap' = DOMAIN gheap \cup {b} /\ gheap'[b] = n
      /\ \A x \in DOMAIN gheap : gheap'[x] = gheap[x]
  BY <1>1, <1>2 DEF With
<1>5. Kinds'
  <2>1. HeapSizes'
    BY <1>4, KindsOf DEF HeapSizes, Kinds
  <2> QED BY <1>1, <1>2, <1>4, <2>1, KindsOf DEF Kinds, OneMore
<1>6. FreeList'
  BY <1>4 DEF DeviceInv, DeviceOrder, FreeList, Once
<1>7. r.ptr \notin HeldThere /\ r.ptr \notin Ptrs(free')
  BY <1>1, <1>3, DeviceWhere
<1>8. \A o \in Live : Lies(policy, gmat[o], gheap', region') /\ gmat[o].ptr \notin Ptrs(free')
  BY <1>4, DeviceWhere DEF Lies
<1>9. Lies(policy, r, gheap', region')
  BY <1>3, <1>4 DEF Lies
<1>10. /\ region' \cap DOMAIN gheap' = {}
       /\ DOMAIN gheap' \cup region' \subseteq HeldThere \cup {r.ptr} \cup Ptrs(free') \cup leaked
  BY <1>1, <1>3, <1>4 DEF DeviceInv, DeviceOrder, Accounted
<1>11. /\ r.ptr \notin leaked /\ Ptrs(free') \subseteq Ptrs(free)
       /\ DOMAIN gheap \cup region \subseteq DOMAIN gheap' \cup region'
  BY <1>1, <1>3, <1>4, DeviceWhere
<1> QED BY <1>1, <1>2, <1>3, <1>5, <1>6, <1>7, <1>8, <1>9, <1>10, <1>11, NewClient DEF OneMore

(* Only the clock has moved.                                               *)
LEMMA DeviceIdle ==
  ASSUME DeviceInv, UNCHANGED <<policy, gmat, free, sizes, gheap, region, gcount, leaked, thrown>>,
         time' \in Nat
  PROVE  DeviceInv'
<1>1. DeviceTypeOK' /\ HeapSizes'
  BY DEF DeviceInv, DeviceTypeOK, HeapSizes
<1>2. DeviceOrder' <=> DeviceOrder
  BY DEF DeviceOrder, FreeList, Once, Clients, Live, Ptrs, Lies, Accounted, HeldThere
<1> QED BY <1>1, <1>2 DEF DeviceInv

(* A region of the pool.                                                   *)
LEMMA RegionGiven ==
  ASSUME DeviceInv, ~thrown, NEW m \in GpuMats, gmat[m] = NoMat, OneMore, NEW n \in Nat,
         NEW area \in Nat, policy = "universal", area = 0 \/ area < Small,
         NewAddress # {}, GiveMat(m, Lowest(NewAddress), FALSE, n, area),
         region' = region \cup {Lowest(NewAddress)}, UNCHANGED <<free, sizes, gheap>>
  PROVE  DeviceInv'
<1> DEFINE b == Lowest(NewAddress)
           r == NewHeader(b, FALSE, n, area)
<1>1. b \in GpuBlocks /\ b \notin DOMAIN gheap \cup region
  BY FreshAddress
<1>2. /\ gmat' = [gmat EXCEPT ![m] = r] /\ region' = region \cup {b}
      /\ free' = free /\ sizes' = sizes /\ gheap' = gheap
  BY DEF GiveMat, NewHeader
<1> HIDE DEF b
<1>3. /\ r \in Header /\ r.ptr = b /\ r.size = n /\ r.area = area
      /\ r.bytes <=> area = 0
  <2>1. FALSE \in BOOLEAN /\ (area = 0) \in BOOLEAN
    OBVIOUS
  <2>2. r \in Header
    BY <1>1, <2>1 DEF NewHeader, Header
  <2> QED BY <2>2 DEF NewHeader
<1> HIDE DEF r
<1>5. Kinds'
  BY <1>1, <1>2, KindsOf DEF Kinds, HeapSizes, OneMore
<1>6. FreeList'
  BY <1>2 DEF DeviceInv, DeviceOrder, FreeList, Once
<1>7. r.ptr \notin HeldThere /\ r.ptr \notin Ptrs(free')
  BY <1>1, <1>2, <1>3, DeviceWhere
<1>8. \A o \in Live : Lies(policy, gmat[o], gheap', region') /\ gmat[o].ptr \notin Ptrs(free')
  BY <1>2, DeviceWhere DEF Lies
<1>9. Lies(policy, r, gheap', region')
  BY <1>2, <1>3 DEF Lies
<1>10. /\ region' \cap DOMAIN gheap' = {}
       /\ DOMAIN gheap' \cup region' \subseteq HeldThere \cup {r.ptr} \cup Ptrs(free') \cup leaked
  BY <1>1, <1>2, <1>3 DEF DeviceInv, DeviceOrder, Accounted
<1>11. /\ r.ptr \notin leaked /\ Ptrs(free') \subseteq Ptrs(free)
       /\ DOMAIN gheap \cup region \subseteq DOMAIN gheap' \cup region'
  BY <1>1, <1>2, <1>3, DeviceWhere
<1> QED BY <1>1, <1>2, <1>3, <1>5, <1>6, <1>7, <1>8, <1>9, <1>10, <1>11, NewClient DEF OneMore

LEMMA RegionStep ==
  ASSUME DeviceInv, ~thrown, NEW m \in GpuMats, gmat[m] = NoMat, OneMore, NEW n \in Nat,
         NEW area \in Nat, policy = "universal", area = 0 \/ area < Small, FromPool(m, n, area)
  PROVE  DeviceInv'
<1>1. CASE /\ NewAddress # {} /\ GiveMat(m, Lowest(NewAddress), FALSE, n, area)
           /\ region' = region \cup {Lowest(NewAddress)}
  BY <1>1, RegionGiven DEF FromPool
<1>2. CASE UNCHANGED <<gmat, region>>
  <2>1. gcount' = gcount /\ time' = time
    BY <1>2 DEF OneMore, CountMore
  <2>2. time' \in Nat
    BY <2>1 DEF DeviceInv, DeviceTypeOK
  <2> QED BY <1>2, <2>1, <2>2, DeviceIdle DEF OneMore, FromPool
<1> QED BY <1>1, <1>2 DEF FromPool

(* A block of the list, of exactly the size needed.                        *)
LEMMA ListStep ==
  ASSUME DeviceInv, ~thrown, NEW m \in GpuMats, gmat[m] = NoMat, OneMore, NEW n \in Nat,
         NEW area \in Nat, ~(policy = "universal" /\ (area = 0 \/ area < Small)),
         NEW k \in FitsAt(n), GiveMat(m, free[k].ptr, free[k].off, n, area),
         free' = RemoveAt(free, k), UNCHANGED <<gheap, region>>,
         DOMAIN sizes' \subseteq DOMAIN sizes \cup {free[k].ptr}
  PROVE  DeviceInv'
<1> DEFINE b == free[k].ptr
           off == free[k].off
           r == NewHeader(b, off, n, area)
<1>0. /\ free \in Seq(Freed) /\ Once(free) /\ k \in DOMAIN free /\ free[k].size = n
      /\ free[k] \in Freed
  BY KindsOf DEF DeviceInv, DeviceOrder, FreeList, Kinds, FitsAt
<1>1. /\ b \in GpuBlocks /\ off \in BOOLEAN /\ b \in DOMAIN gheap /\ (off \/ gheap[b] >= n)
      /\ b \in Ptrs(free)
  BY <1>0 DEF DeviceInv, DeviceOrder, FreeList, Freed, Ptrs
<1>2. /\ gmat' = [gmat EXCEPT ![m] = r] /\ gheap' = gheap /\ region' = region
      /\ DOMAIN sizes' \subseteq DOMAIN sizes \cup {b}
  BY DEF GiveMat, NewHeader
<1>3. /\ r \in Header /\ r.ptr = b /\ (r.off <=> off) /\ r.size = n /\ r.area = area
      /\ r.bytes <=> area = 0
  BY <1>1, NewHeaderIs
<1> HIDE DEF r
<1>4. /\ free' \in Seq(Freed) /\ Once(free') /\ Ptrs(free') = Ptrs(free) \ {b}
      /\ \A j \in DOMAIN free' : \E l \in DOMAIN free : free'[j] = free[l]
  <2>1. ASSUME NEW q \in Seq(Freed), Once(q), NEW j \in DOMAIN q
        PROVE  /\ RemoveAt(q, j) \in Seq(Freed) /\ Once(RemoveAt(q, j))
               /\ Ptrs(RemoveAt(q, j)) = Ptrs(q) \ {q[j].ptr}
               /\ \A i \in DOMAIN RemoveAt(q, j) : \E l \in DOMAIN q : RemoveAt(q, j)[i] = q[l]
    BY <2>1, Removed
  <2> QED BY <1>0, <2>1
<1> HIDE DEF b, off
<1>5. Kinds'
  BY <1>1, <1>2, <1>4, KindsOf DEF Kinds, HeapSizes, OneMore
<1>6. FreeList'
  BY <1>2, <1>4 DEF DeviceInv, DeviceOrder, FreeList, Once
<1>7. r.ptr \notin HeldThere /\ r.ptr \notin Ptrs(free')
  BY <1>1, <1>3, <1>4, DeviceWhere
<1>8. \A o \in Live : Lies(policy, gmat[o], gheap', region') /\ gmat[o].ptr \notin Ptrs(free')
  BY <1>2, <1>4, DeviceWhere DEF Lies
<1>9. Lies(policy, r, gheap', region')
  BY <1>1, <1>2, <1>3 DEF Lies
<1>10. /\ region' \cap DOMAIN gheap' = {}
       /\ DOMAIN gheap' \cup region' \subseteq HeldThere \cup {r.ptr} \cup Ptrs(free') \cup leaked
  BY <1>2, <1>3, <1>4 DEF DeviceInv, DeviceOrder, Accounted
<1>11. /\ r.ptr \notin leaked /\ Ptrs(free') \subseteq Ptrs(free)
       /\ DOMAIN gheap \cup region \subseteq DOMAIN gheap' \cup region'
  BY <1>1, <1>2, <1>3, <1>4, DeviceWhere
<1> QED BY <1>1, <1>2, <1>3, <1>5, <1>6, <1>7, <1>8, <1>9, <1>10, <1>11, NewClient DEF OneMore

LEMMA ShapeSizes ==
  ASSUME NEW shape \in Shapes
  PROVE  /\ SizeNeeded(shape) \in Nat /\ NewSize(shape) \in Nat
         /\ shape[1] * shape[2] \in Nat \ {0}
<1>1. /\ shape[1] \in Nat \ {0} /\ shape[2] \in Nat \ {0}
      /\ Alignment \in Nat \ {0} /\ Pitch \in Nat \ {0}
  BY DeviceAssumption
<1>2. \A x, y \in Nat : x * y \in Nat
  OBVIOUS
<1>3. \A x, y \in Nat \ {0} : x * y # 0
  OBVIOUS
<1>4. \A n \in Nat, u \in Nat \ {0} : RoundUp(n, u) \in Nat
  BY DEF RoundUp
<1> QED BY <1>1, <1>2, <1>3, <1>4 DEF SizeNeeded, NewSize

LEMMA StackStep ==
  ASSUME DeviceInv, ~thrown, NEW m \in GpuMats, gmat[m] = NoMat, OneMore, NEW n \in Nat,
         NEW fresh \in Nat, NEW area \in Nat,
         ~(policy = "universal" /\ (area = 0 \/ area < Small)), FromStack(m, n, fresh, area)
  PROVE  DeviceInv'
<1>1. m \in DOMAIN gmat
  BY DeviceTypes DEF DeviceInv
<1>2. \A b : DOMAIN With(sizes, b, n) = DOMAIN sizes \cup {b}
  BY DEF With
<1>3. sizes' = IF area = 0 THEN With(sizes, gmat'[m].ptr, n) ELSE sizes
  BY DEF FromStack
<1>4. CASE FitsAt(n) # {} /\ region' = region /\ gheap' = gheap
           /\ GiveMat(m, free[Lowest(FitsAt(n))].ptr, free[Lowest(FitsAt(n))].off, n, area)
           /\ free' = RemoveAt(free, Lowest(FitsAt(n)))
  <2> DEFINE k == Lowest(FitsAt(n))
  <2>1. k \in FitsAt(n)
    <3>1. FitsAt(n) \subseteq Nat
      BY KindsOf DEF FitsAt, Kinds
    <3>2. \E b \in FitsAt(n) : \A c \in FitsAt(n) : b <= c
      BY <1>4, <3>1, LeastNumber
    <3> QED BY <3>2 DEF Lowest
  <2>2. /\ GiveMat(m, free[k].ptr, free[k].off, n, area) /\ free' = RemoveAt(free, k)
        /\ gheap' = gheap /\ region' = region
    BY <1>4
  <2> HIDE DEF k
  <2>3. gmat'[m].ptr = free[k].ptr
    BY <1>1, <2>2 DEF GiveMat
  <2>4. DOMAIN sizes' \subseteq DOMAIN sizes \cup {free[k].ptr}
    BY <1>2, <1>3, <2>3
  <2> QED BY <2>1, <2>2, <2>4, ListStep
<1>5. CASE FitsAt(n) = {} /\ NewAddress # {} /\ free' = free /\ region' = region
           /\ GiveMat(m, Lowest(NewAddress), FALSE, fresh, area)
           /\ gheap' = With(gheap, Lowest(NewAddress), fresh)
  <2>1. gmat'[m].ptr = Lowest(NewAddress)
    BY <1>1, <1>5 DEF GiveMat
  <2>2. DOMAIN sizes' \subseteq DOMAIN sizes \cup {Lowest(NewAddress)}
    BY <1>2, <1>3, <2>1
  <2> QED BY <1>5, <2>2, HeapStep
<1> QED BY <1>4, <1>5 DEF FromStack

LEMMA DeviceAllocateStep ==
  ASSUME DeviceInv, NEW m \in GpuMats, DeviceAllocate(m)
  PROVE  DeviceInv'
<1>1. ~thrown /\ gmat[m] = NoMat /\ OneMore
  BY DEF DeviceAllocate, OneMore
<1>2. ASSUME NEW n \in Nat, NEW area \in Nat, FromCuda(m, n, area), policy = "plain"
      PROVE  DeviceInv'
  <2>1. /\ NewAddress # {} /\ GiveMat(m, Lowest(NewAddress), FALSE, n, area)
        /\ gheap' = With(gheap, Lowest(NewAddress), n) /\ UNCHANGED <<free, region>>
        /\ DOMAIN sizes' \subseteq DOMAIN sizes \cup {Lowest(NewAddress)}
    BY <1>2 DEF FromCuda
  <2> QED BY <1>1, <1>2, <2>1, HeapStep
<1>3. ASSUME NEW shape \in Shapes, AllocateMat(m, shape) PROVE DeviceInv'
  <2> DEFINE area == shape[1] * shape[2]
             need == SizeNeeded(shape)
             new == NewSize(shape)
  <2>1. need \in Nat /\ new \in Nat /\ area \in Nat /\ area # 0 /\ Small \in Nat
    BY ShapeSizes, DeviceAssumption
  <2>2. \/ policy = "stack" /\ FromStack(m, need, new, area)
        \/ policy = "universal" /\ area < Small /\ FromPool(m, need, area)
        \/ policy = "universal" /\ area >= Small /\ FromStack(m, need, new, area)
        \/ policy = "plain" /\ FromCuda(m, new, area)
    BY <1>3 DEF AllocateMat
  <2> HIDE DEF area, need, new
  <2>3. CASE policy = "stack" /\ FromStack(m, need, new, area)
    BY <1>1, <2>1, <2>3, StackStep
  <2>4. CASE policy = "universal" /\ area < Small /\ FromPool(m, need, area)
    BY <1>1, <2>1, <2>4, RegionStep
  <2>5. CASE policy = "universal" /\ area >= Small /\ FromStack(m, need, new, area)
    <3>1. ~(area = 0 \/ area < Small)
      BY <2>1, <2>5
    <3> QED BY <1>1, <2>1, <2>5, <3>1, StackStep
  <2>6. CASE policy = "plain" /\ FromCuda(m, new, area)
    BY <1>2, <2>1, <2>6
  <2> QED BY <2>2, <2>3, <2>4, <2>5, <2>6
<1>4. ASSUME NEW n \in ByteSizes, AllocateBytes(m, n) PROVE DeviceInv'
  <2>1. n \in Nat /\ 0 \in Nat
    BY DeviceAssumption
  <2>2. CASE policy = "stack" /\ FromStack(m, n, n, 0)
    BY <1>1, <2>1, <2>2, StackStep
  <2>3. CASE policy = "universal" /\ FromPool(m, n, 0)
    BY <1>1, <2>1, <2>3, RegionStep
  <2>4. CASE policy = "plain" /\ FromCuda(m, n, 0)
    BY <1>2, <2>1, <2>4
  <2> QED BY <1>4, <2>2, <2>3, <2>4 DEF AllocateBytes
<1> QED BY <1>3, <1>4 DEF DeviceAllocate

(* What no release changes, and the count.                                 *)
OneLess(m) ==
  /\ gmat' = [gmat EXCEPT ![m] = NoMat] /\ gcount' = CountAfter(m)
  /\ UNCHANGED <<policy, time>>

(* Memory goes back to CUDA at once.                                       *)
LEMMA HeapBackStep ==
  ASSUME DeviceInv, ~thrown, NEW m \in Live, OneLess(m),
         gheap' = Less(gheap, {gmat[m].ptr}), UNCHANGED <<free, region, sizes, leaked>>,
         thrown' \in BOOLEAN, gmat[m].ptr \in DOMAIN gheap
  PROVE  DeviceInv'
<1> DEFINE b == gmat[m].ptr
<1>1. /\ DOMAIN gheap' = DOMAIN gheap \ {b} /\ \A x \in DOMAIN gheap' : gheap'[x] = gheap[x]
      /\ b \in DOMAIN gheap
  BY DEF Less
<1>2. b \notin Ptrs(free) /\ \A o \in Live \ {m} : gmat[o].ptr # b
  BY DEF DeviceInv, DeviceOrder, Clients
<1> HIDE DEF b
<1>3. Kinds'
  <2>1. HeapSizes'
    BY <1>1, KindsOf DEF Kinds, HeapSizes
  <2> QED BY <1>1, <2>1, KindsOf DEF Kinds
<1>4. FreeList'
  BY <1>1, <1>2 DEF DeviceInv, DeviceOrder, FreeList, Once, Ptrs
<1>5. \A o \in Live \ {m} : /\ Lies(policy, gmat[o], gheap', region')
                            /\ gmat[o].ptr \notin Ptrs(free')
  BY <1>1, <1>2, DeviceWhere DEF Lies
<1>6. region' \cap DOMAIN gheap' = {} /\ StillThere(m)
  <2>1. gmat[m].ptr = b /\ b \in HeldThere
    BY DEF b, HeldThere
  <2> QED BY <1>1, <2>1 DEF DeviceInv, DeviceOrder, Accounted, StillThere
<1> QED BY <1>3, <1>4, <1>5, <1>6, ClientGone DEF OneLess

(* An exception: nothing more is said of the memory.                       *)
LEMMA ThrownStep ==
  ASSUME DeviceInv, ~thrown, NEW m \in Live, OneLess(m), thrown' = TRUE,
         UNCHANGED <<free, sizes, gheap, region, leaked>>
  PROVE  DeviceInv'
<1>1. Kinds'
  BY KindsOf DEF Kinds, HeapSizes
<1> QED BY <1>1, ClientGone DEF OneLess

(* A region goes back to the pool.                                         *)
LEMMA RegionBackStep ==
  ASSUME DeviceInv, ~thrown, NEW m \in Live, OneLess(m), gmat[m].ptr \in region,
         region' = region \ {gmat[m].ptr}, UNCHANGED <<free, gheap, sizes, leaked, thrown>>
  PROVE  DeviceInv'
<1> DEFINE b == gmat[m].ptr
<1>2. b \notin Ptrs(free) /\ \A o \in Live \ {m} : gmat[o].ptr # b
  BY DEF DeviceInv, DeviceOrder, Clients
<1>1. region' = region \ {b} /\ b \in region
  OBVIOUS
<1> HIDE DEF b
<1>3. Kinds'
  BY <1>1, KindsOf DEF Kinds, HeapSizes
<1>4. FreeList'
  BY DEF DeviceInv, DeviceOrder, FreeList, Once
<1>5. \A o \in Live \ {m} : /\ Lies(policy, gmat[o], gheap', region')
                            /\ gmat[o].ptr \notin Ptrs(free')
  BY <1>1, <1>2, DeviceWhere DEF Lies
<1>6. region' \cap DOMAIN gheap' = {} /\ StillThere(m)
  <2>1. gmat[m].ptr = b /\ b \in HeldThere
    BY DEF b, HeldThere
  <2> QED BY <1>1, <2>1 DEF DeviceInv, DeviceOrder, Accounted, StillThere
<1>7. thrown' \in BOOLEAN
  BY DEF DeviceInv, DeviceTypeOK
<1> QED BY <1>3, <1>4, <1>5, <1>6, <1>7, ClientGone DEF OneLess

(* The pool says yes and takes nothing back.                               *)
LEMMA LeakStep ==
  ASSUME DeviceInv, ~thrown, NEW m \in Live, OneLess(m), policy = "universal",
         leaked' = leaked \cup {gmat[m].ptr}, UNCHANGED <<free, gheap, sizes, region, thrown>>
  PROVE  DeviceInv'
<1> DEFINE b == gmat[m].ptr
<1>1. /\ b \notin Ptrs(free) /\ b \in GpuBlocks
      /\ \A o \in Live \ {m} : gmat[o].ptr # b
  BY DEF DeviceInv, DeviceOrder, Clients
<1>2. leaked' = leaked \cup {b} /\ b \in HeldThere
  BY DEF HeldThere
<1>3. Kinds'
  BY <1>1, <1>2, KindsOf DEF Kinds, HeapSizes
<1>4. FreeList'
  BY DEF DeviceInv, DeviceOrder, FreeList, Once
<1>5. \A o \in Live \ {m} : /\ Lies(policy, gmat[o], gheap', region')
                            /\ gmat[o].ptr \notin Ptrs(free')
  BY DeviceWhere
<1>6. region' \cap DOMAIN gheap' = {} /\ StillThere(m)
  <2>1. region' \cap DOMAIN gheap' = {}
    BY DEF DeviceInv, DeviceOrder
  <2>2. DOMAIN gheap' \cup region' \subseteq (HeldThere \ {b}) \cup Ptrs(free') \cup leaked'
    BY <1>2 DEF DeviceInv, DeviceOrder, Accounted
  <2>3. leaked' \cap ((HeldThere \ {b}) \cup Ptrs(free')) = {}
    BY <1>1, <1>2, DeviceWhere
  <2>4. leaked' \subseteq DOMAIN gheap' \cup region'
    BY <1>2, DeviceWhere
  <2> QED BY <2>1, <2>2, <2>3, <2>4 DEF StillThere
<1>7. thrown' \in BOOLEAN
  BY DEF DeviceInv, DeviceTypeOK
<1> QED BY <1>3, <1>4, <1>5, <1>6, <1>7, ClientGone DEF OneLess

LEMMA TakeBackStep ==
  ASSUME DeviceInv, ~thrown, NEW m \in Live, OneLess(m), policy = "universal",
         gmat[m].ptr \in region, NEW inside \in BOOLEAN, TakeBack(gmat[m].ptr, inside),
         UNCHANGED <<free, gheap, sizes, thrown>>
  PROVE  DeviceInv'
BY RegionBackStep, LeakStep DEF TakeBack

(* Memory waits in the list, which is cleared.                             *)
LEMMA ListBackStep ==
  ASSUME DeviceInv, ~thrown, NEW m \in Live, OneLess(m), NEW off \in BOOLEAN, NEW n \in Nat,
         gmat[m].ptr \in DOMAIN gheap, off \/ gheap[gmat[m].ptr] >= n,
         ToList(gmat[m].ptr, off, n), UNCHANGED <<region, leaked>>,
         DOMAIN sizes' \subseteq DOMAIN sizes \cup {gmat[m].ptr}
  PROVE  DeviceInv'
<1> DEFINE b == gmat[m].ptr
           e == [ptr |-> b, off |-> off, time |-> time, size |-> n]
           s == Append(free, e)
           q == Cleared(s)
<1>1. free' = q /\ GiveBack(s, q)
  BY DEF ToList, Swept
<1>2. b \notin Ptrs(free) /\ (\A o \in Live \ {m} : gmat[o].ptr # b) /\ b \in GpuBlocks
  BY DEF DeviceInv, DeviceOrder, Clients
<1>3. e \in Freed /\ e.ptr = b /\ e.size = n /\ (e.off <=> off)
  BY <1>2 DEF DeviceInv, DeviceTypeOK, Freed
<1>4. free \in Seq(Freed) /\ Once(free) /\ b \in DOMAIN gheap /\ (off \/ gheap[b] >= n)
  BY KindsOf DEF DeviceInv, DeviceOrder, FreeList, Kinds
<1>5. DOMAIN sizes' \subseteq DOMAIN sizes \cup {b}
  OBVIOUS
<1> HIDE DEF b, e
<1>6. /\ s \in Seq(Freed) /\ Once(s) /\ Ptrs(s) = Ptrs(free) \cup {b}
      /\ \A k \in DOMAIN s : s[k] = e \/ \E j \in DOMAIN free : s[k] = free[j]
  BY <1>2, <1>3, <1>4, AppendedOnce
<1> HIDE DEF s
<1>7. \A k \in DOMAIN s :
        s[k].ptr \in DOMAIN gheap /\ (s[k].off \/ gheap[s[k].ptr] >= s[k].size)
  <2> SUFFICES ASSUME NEW k \in DOMAIN s
               PROVE  s[k].ptr \in DOMAIN gheap /\ (s[k].off \/ gheap[s[k].ptr] >= s[k].size)
    OBVIOUS
  <2>1. CASE s[k] = e
    BY <1>3, <1>4, <2>1
  <2>2. CASE \E j \in DOMAIN free : s[k] = free[j]
    BY <2>2 DEF DeviceInv, DeviceOrder, FreeList
  <2> QED BY <1>6, <2>1, <2>2
<1>8. q \in Seq(Freed) /\ Once(q) /\ Among(s, q)
  BY <1>6, ClearedRight
<1> HIDE DEF q
<1>9. /\ \A k \in DOMAIN q :
           q[k].ptr \in DOMAIN gheap' /\ (q[k].off \/ gheap'[q[k].ptr] >= q[k].size)
      /\ Ptrs(q) \subseteq Ptrs(s) /\ Ptrs(s) \cap DOMAIN gheap' \subseteq Ptrs(q)
      /\ DOMAIN gheap' \subseteq DOMAIN gheap /\ \A x \in DOMAIN gheap' : gheap'[x] = gheap[x]
      /\ DOMAIN gheap \subseteq DOMAIN gheap' \cup Ptrs(s)
      /\ thrown' \in BOOLEAN
  BY <1>1, <1>6, <1>7, <1>8, GivenBack
<1>10. Kinds'
  <2>1. HeapSizes'
    BY <1>9, KindsOf DEF Kinds, HeapSizes
  <2> QED BY <1>1, <1>2, <1>5, <1>8, <1>9, <2>1, KindsOf DEF Kinds
<1>11. FreeList'
  BY <1>1, <1>8, <1>9 DEF FreeList, Once
<1>12. ASSUME NEW o \in Live \ {m}
       PROVE  Lies(policy, gmat[o], gheap', region') /\ gmat[o].ptr \notin Ptrs(free')
  <2>1. Lies(policy, gmat[o], gheap, region) /\ gmat[o].ptr \notin Ptrs(s)
    BY <1>2, <1>6, DeviceWhere
  <2>2. gmat[o].ptr \in DOMAIN gheap =>
          gmat[o].ptr \in DOMAIN gheap' /\ gheap'[gmat[o].ptr] = gheap[gmat[o].ptr]
    BY <1>9, <2>1
  <2> QED BY <1>1, <1>9, <2>1, <2>2 DEF Lies
<1>13. region' \cap DOMAIN gheap' = {} /\ StillThere(m)
  <2>0. gmat[m].ptr = b /\ b \in HeldThere
    BY DEF b, HeldThere
  <2>1. b \notin region
    BY <1>4 DEF DeviceInv, DeviceOrder
  <2>2. DOMAIN gheap \cup region \subseteq HeldThere \cup Ptrs(free) \cup leaked
    BY DEF DeviceInv, DeviceOrder, Accounted
  <2>3. region' \cap DOMAIN gheap' = {}
    BY <1>9 DEF DeviceInv, DeviceOrder
  <2>4. \A x \in DOMAIN gheap' : x \in (HeldThere \ {b}) \cup Ptrs(free') \cup leaked
    BY <1>1, <1>6, <1>9, <2>2
  <2>5. region \cap Ptrs(free) = {}
    BY DeviceWhere DEF DeviceInv, DeviceOrder
  <2>6. DOMAIN gheap' \cup region' \subseteq (HeldThere \ {b}) \cup Ptrs(free') \cup leaked
    BY <2>1, <2>2, <2>4, <2>5
  <2>7. leaked \cap (HeldThere \cup Ptrs(free')) = {}
    BY <1>1, <1>6, <1>9, <2>0, DeviceWhere
  <2>8. leaked \subseteq DOMAIN gheap' \cup region
    BY <1>6, <1>9, <2>0, DeviceWhere
  <2>9. policy # "universal" => leaked = {}
    BY DEF DeviceInv, DeviceOrder, Accounted
  <2> QED BY <2>0, <2>3, <2>6, <2>7, <2>8, <2>9 DEF StillThere
<1> QED BY <1>9, <1>10, <1>11, <1>12, <1>13, ClientGone DEF OneLess, b

LEMMA FreeMatStep ==
  ASSUME DeviceInv, ~thrown, NEW m \in Live, OneLess(m), ~gmat[m].bytes, sizes' = sizes,
         NEW inside \in BOOLEAN, NEW tiny \in BOOLEAN, gmat[m].area < Small => tiny,
         FreeMat(m, inside, tiny)
  PROVE  DeviceInv'
<1> DEFINE b == gmat[m].ptr
<1>1. gmat[m] \in Header /\ Lies(policy, gmat[m], gheap, region)
  BY DeviceTypes, DeviceWhere DEF DeviceInv
<1>2. gmat[m].off \in BOOLEAN /\ gmat[m].size \in Nat /\ (gmat[m].off \/ inside) \in BOOLEAN
  BY <1>1 DEF Header
<1>3. CASE policy = "plain"
  <2>1. b \in DOMAIN gheap
    BY <1>1, <1>3 DEF Lies
  <2>2. gheap' = Less(gheap, {b}) /\ thrown' \in BOOLEAN /\ UNCHANGED <<free, region, leaked>>
    BY <1>3 DEF FreeMat
  <2> QED BY <2>1, <2>2, HeapBackStep
<1>4. CASE policy = "stack" \/ (policy = "universal" /\ ~tiny)
  <2>1. b \in DOMAIN gheap /\ (gmat[m].off \/ gheap[b] >= gmat[m].size)
    BY <1>1, <1>4 DEF Lies
  <2>2. ToList(b, gmat[m].off \/ inside, gmat[m].size) /\ UNCHANGED <<region, leaked>>
    BY <1>4 DEF FreeMat
  <2> QED BY <1>2, <2>1, <2>2, ListBackStep
<1>5. CASE policy = "universal" /\ tiny
  <2>1. UNCHANGED <<free, gheap>>
    BY <1>5 DEF FreeMat
  <2>2. CASE b \in region /\ TakeBack(b, inside) /\ thrown' = thrown
    BY <1>5, <2>1, <2>2, TakeBackStep
  <2>3. CASE thrown' = TRUE /\ UNCHANGED <<region, leaked>>
    BY <2>1, <2>3, ThrownStep
  <2>4. CASE leaked' = leaked \cup {b} /\ UNCHANGED <<region, thrown>>
    BY <1>5, <2>1, <2>4, LeakStep
  <2> QED BY <1>5, <2>2, <2>3, <2>4 DEF FreeMat
<1> QED BY <1>3, <1>4, <1>5 DEF FreeMat

LEMMA FreeBytesStep ==
  ASSUME DeviceInv, ~thrown, NEW m \in Live, OneLess(m), gmat[m].bytes, FreeBytes(m)
  PROVE  DeviceInv'
<1> DEFINE b == gmat[m].ptr
<1>1. gmat[m] \in Header /\ Lies(policy, gmat[m], gheap, region)
  BY DeviceTypes, DeviceWhere DEF DeviceInv
<1>2. CASE /\ policy = "stack" /\ sizes' = With(sizes, b, 0)
           /\ ToList(b, gmat[m].off, 0) /\ UNCHANGED <<region, leaked>>
  <2>1. b \in DOMAIN gheap /\ gmat[m].off \in BOOLEAN /\ 0 \in Nat
    BY <1>1, <1>2 DEF Lies, Header
  <2>2. gheap[b] >= 0
    BY <2>1 DEF DeviceInv, HeapSizes
  <2>3. DOMAIN sizes' \subseteq DOMAIN sizes \cup {b}
    BY <1>2 DEF With
  <2> QED BY <1>2, <2>1, <2>2, <2>3, ListBackStep
<1>3. CASE /\ policy = "universal" /\ TakeBack(b, FALSE)
           /\ UNCHANGED <<free, sizes, gheap, thrown>>
  <2>1. b \in region
    BY <1>1, <1>3 DEF Lies
  <2>2. FALSE \in BOOLEAN
    OBVIOUS
  <2> QED BY <1>3, <2>1, <2>2, TakeBackStep
<1>4. CASE /\ policy = "plain" /\ gheap' = Less(gheap, {b})
           /\ UNCHANGED <<free, sizes, region, leaked, thrown>>
  <2>1. b \in DOMAIN gheap
    BY <1>1, <1>4 DEF Lies
  <2>2. thrown' \in BOOLEAN
    BY <1>4 DEF DeviceInv, DeviceTypeOK
  <2> QED BY <1>4, <2>1, <2>2, HeapBackStep
<1> QED BY <1>2, <1>3, <1>4 DEF FreeBytes

LEMMA DeviceFreeStep ==
  ASSUME DeviceInv, NEW m \in GpuMats, DeviceFree(m)
  PROVE  DeviceInv'
<1>1. ~thrown /\ m \in Live /\ OneLess(m)
  BY DEF DeviceFree, Live, OneLess
<1>2. CASE gmat[m].bytes /\ FreeBytes(m)
  BY <1>1, <1>2, FreeBytesStep
<1>3. ASSUME ~gmat[m].bytes, sizes' = sizes, NEW inside \in BOOLEAN, NEW tiny \in BOOLEAN,
             gmat[m].area < Small => tiny, FreeMat(m, inside, tiny)
      PROVE  DeviceInv'
  BY <1>1, <1>3, FreeMatStep
<1> QED BY <1>2, <1>3 DEF DeviceFree

LEMMA ReleaseAllStep ==
  ASSUME DeviceInv, ReleaseAll
  PROVE  DeviceInv'
<1> DEFINE none == <<>>
<1>1. /\ ~thrown /\ region \subseteq leaked /\ free' = none /\ GiveBack(free, none)
      /\ region' = {} /\ leaked' = leaked \ region
      /\ UNCHANGED <<policy, gmat, sizes, gcount, time>>
  BY DEF ReleaseAll
<1>2. none \in Seq(Freed) /\ DOMAIN none = {}
  OBVIOUS
<1> HIDE DEF none
<1>3. free \in Seq(Freed) /\ FreeList /\ Among(free, none) /\ Once(none) /\ Ptrs(none) = {}
  BY <1>1, <1>2, KindsOf DEF DeviceInv, DeviceOrder, Kinds, Among, Once, Ptrs
<1>4. /\ Ptrs(free) \cap DOMAIN gheap' \subseteq Ptrs(none)
      /\ DOMAIN gheap' \subseteq DOMAIN gheap /\ \A x \in DOMAIN gheap' : gheap'[x] = gheap[x]
      /\ DOMAIN gheap \subseteq DOMAIN gheap' \cup Ptrs(free)
      /\ thrown' \in BOOLEAN
  BY <1>1, <1>2, <1>3, GivenBack DEF FreeList
<1>5. Live' = Live /\ HeldThere' = HeldThere
  BY <1>1 DEF Live, HeldThere
<1>6. DeviceTypeOK'
  BY <1>1, <1>2, <1>4 DEF DeviceInv, DeviceTypeOK, Freed
<1>7. HeapSizes'
  BY <1>4 DEF DeviceInv, HeapSizes
<1>8. FreeList'
  BY <1>1, <1>2, <1>3 DEF FreeList, Once
<1>9. Clients'
  <2>1. \A m \in Live : Lies(policy, gmat[m], gheap', region')
    <3>1. \A m \in Live : gmat[m].ptr \notin region
      BY <1>1, DeviceWhere
    <3> QED BY <1>1, <1>4, <3>1, DeviceWhere DEF Lies
  <2>2. \A m \in Live : gmat[m].ptr \notin Ptrs(none)
    BY <1>3
  <2> QED BY <1>1, <1>5, <2>1, <2>2 DEF DeviceInv, DeviceOrder, Clients, Ptrs
<1>10. region' \cap DOMAIN gheap' = {} /\ Accounted'
  <2>1. DOMAIN gheap' \cup region' \subseteq HeldThere \cup Ptrs(none) \cup leaked'
    BY <1>1, <1>4 DEF DeviceInv, DeviceOrder, Accounted
  <2>2. leaked' \cap (HeldThere \cup Ptrs(none)) = {}
    BY <1>1, <1>3, DeviceWhere
  <2>3. leaked' \subseteq DOMAIN gheap' \cup region'
    BY <1>1, <1>4, DeviceWhere
  <2> QED BY <1>1, <1>5, <2>1, <2>2, <2>3 DEF DeviceInv, DeviceOrder, Accounted, Ptrs
<1> QED BY <1>6, <1>7, <1>8, <1>9, <1>10 DEF DeviceInv, DeviceOrder

LEMMA DeviceInvInit == DeviceInit => DeviceInv
<1> SUFFICES ASSUME DeviceInit PROVE DeviceInv
  OBVIOUS
<1> USE DEF DeviceInit
<1>1. DOMAIN gheap = {} /\ DOMAIN free = {} /\ DOMAIN sizes = {}
  OBVIOUS
<1>2. Live = {}
  BY DEF Live
<1>3. DeviceTypeOK
  <2>1. gmat \in [GpuMats -> Header]
    <3>1. NoMat \in Header
      BY DEF NoMat, Header
    <3> QED BY <3>1
  <2>2. free \in Seq(Freed)
    <3>1. <<>> \in Seq(Freed)
      OBVIOUS
    <3>2. free = <<>>
      OBVIOUS
    <3> HIDE DEF DeviceInit
    <3> QED BY <3>1, <3>2
  <2>3. DOMAIN gheap \subseteq GpuBlocks /\ DOMAIN sizes \subseteq GpuBlocks
    BY <1>1
  <2>4. region \subseteq GpuBlocks /\ leaked \subseteq GpuBlocks /\ gcount \in Nat /\ time \in Nat
    OBVIOUS
  <2>5. thrown \in BOOLEAN
    OBVIOUS
  <2> HIDE DEF DeviceInit
  <2> QED BY <2>1, <2>2, <2>3, <2>4, <2>5 DEF DeviceTypeOK, Header, Freed
<1>4. FreeList /\ Clients /\ Accounted
  BY <1>1, <1>2, FS_EmptySet DEF FreeList, Once, Clients, Accounted, HeldThere, Ptrs
<1> QED BY <1>1, <1>3, <1>4 DEF DeviceInv, DeviceOrder, HeapSizes

LEMMA DeviceInvNext == DeviceInv /\ [DeviceNext]_devVars => DeviceInv'
<1> SUFFICES ASSUME DeviceInv, [DeviceNext]_devVars PROVE DeviceInv'
  OBVIOUS
<1>1. ASSUME NEW m \in GpuMats, DeviceAllocate(m) PROVE DeviceInv'
  BY <1>1, DeviceAllocateStep
<1>2. ASSUME NEW m \in GpuMats, DeviceFree(m) PROVE DeviceInv'
  BY <1>2, DeviceFreeStep
<1>3. CASE ReleaseAll
  BY <1>3, ReleaseAllStep
<1>4. CASE DeviceTick
  <2>1. time' \in Nat
    BY <1>4 DEF DeviceTick, DeviceInv, DeviceTypeOK
  <2> QED BY <1>4, <2>1, DeviceIdle DEF DeviceTick
<1>5. CASE UNCHANGED devVars
  <2>1. time' \in Nat
    BY <1>5 DEF devVars, DeviceInv, DeviceTypeOK
  <2> QED BY <1>5, <2>1, DeviceIdle DEF devVars
<1> QED BY <1>1, <1>2, <1>3, <1>4, <1>5 DEF DeviceNext

LEMMA DeviceInvImplies == DeviceInv => DeviceSound
<1> SUFFICES ASSUME DeviceInv PROVE DeviceSound
  OBVIOUS
<1>1. Waiting = Ptrs(free)
  BY DEF Waiting, Ptrs
<1>2. ASSUME ~thrown PROVE Cardinality(Waiting) = Len(free)
  <2>1. free \in Seq(Freed) /\ Once(free)
    BY <1>2, KindsOf DEF Kinds, DeviceInv, DeviceOrder, FreeList
  <2> QED BY <1>1, <2>1, OnceCounts
<1>3. NoneShared
  <2> SUFFICES ASSUME ~thrown
               PROVE  /\ \A m, o \in Live : m # o => gmat[m].ptr # gmat[o].ptr
                      /\ \A m \in Live :
                           /\ gmat[m].ptr \notin Waiting
                           /\ \/ gmat[m].ptr \in region
                              \/ /\ gmat[m].ptr \in DOMAIN gheap
                                 /\ gmat[m].off \/ gheap[gmat[m].ptr] >= gmat[m].size
                      /\ Waiting \subseteq DOMAIN gheap /\ Cardinality(Waiting) = Len(free)
    BY DEF NoneShared
  <2>1. \A m, o \in Live : m # o => gmat[m].ptr # gmat[o].ptr
    BY DEF DeviceInv, DeviceOrder, Clients
  <2> QED BY <1>1, <1>2, <2>1, DeviceWhere DEF Lies
<1>4. DeviceCounts
  BY <1>1 DEF DeviceInv, DeviceOrder, Accounted, HeldThere, DeviceCounts
<1> QED BY <1>3, <1>4 DEF DeviceInv, DeviceSound

(* Until an exception ends the program, memory of the device goes to one   *)
(* client at a time with all its bytes, whatever shapes, padding, headers  *)
(* of parts and clears of the list.  Only the answers of the pool leak it, *)
(* and nothing leaked waits or is used again.  The count of the combined   *)
(* allocator is the number of its clients, whatever the pool refused.      *)
THEOREM DeviceMemorySound == DeviceSpec => []DeviceSound
<1>1. DeviceSpec => []DeviceInv
  BY DeviceInvInit, DeviceInvNext, PTL DEF DeviceSpec
<1> QED BY <1>1, DeviceInvImplies, PTL
===============================================================================
