------------------------------ MODULE BuffersProofs -----------------------------
(***************************************************************************)
(* Proofs about the buffers, for any kinds, capacities, paddings, sizes,   *)
(* stamps and numbers of updates: the keys of a map are ordered, its mutex *)
(* is held in emissions only, a pointer that a reader has got stays valid  *)
(* until it asks again, and nothing leaves a buffer that may still be      *)
(* asked for.                                                              *)
(***************************************************************************)
EXTENDS Buffers, FiniteSetTheorems, SequenceTheorems, WellFoundedInduction, TLAPS

Increasing(s) == \A k, l \in DOMAIN s : k < l => s[k] < s[l]

(* What a reader was given: nothing in a map is pruned behind its pointer, *)
(* since the pruning that follows goes by the stamp it has asked for.      *)
Reading ==
  /\ want \in Int /\ held \in Int \cup {None} /\ resized \in Nat
  /\ rpc = "prune" => kind \in StreamKinds /\ (held # None => held = current)

(* A ring is never longer than its capacity, which is positive.            *)
Ring == kind = "circular" => limit >= 1 /\ Len(buf) <= limit

BufInv == TypeOK /\ PointerValid /\ Reading /\ Ring

----------------------------------------------------------------------------
(* Walks over a buffer                                                     *)

(* A set of natural numbers has a least one.                               *)
LEMMA LeastNumber ==
  ASSUME NEW S, S \subseteq Nat, S # {}
  PROVE  \E m \in S : \A n \in S : m <= n
<1> DEFINE R == StrictSubsetOrdering(Nat)
           T == {0..n : n \in S}
<1>1. IsWellFoundedOn(R, FiniteSubsetsOf(Nat))
  BY FS_StrictSubsetOrderingWellFounded
<1>2. T \subseteq FiniteSubsetsOf(Nat)
  <2>1. ASSUME NEW n \in S PROVE 0..n \in FiniteSubsetsOf(Nat)
    <3>1. n \in Int /\ 0 \in Int
      OBVIOUS
    <3>2. IsFiniteSet(0..n)
      BY <3>1, FS_Interval
    <3>3. 0..n \in SUBSET Nat
      BY <3>1
    <3> QED BY <3>2, <3>3 DEF FiniteSubsetsOf
  <2> QED BY <2>1
<1>3. T # {}
  OBVIOUS
<1>4. ASSUME NEW x \in Nat, NEW y \in Nat, x < y PROVE <<0..x, 0..y>> \in R
  <2>1. 0..x \subseteq 0..y /\ 0..x # 0..y
    BY <1>4
  <2> QED BY <2>1 DEF StrictSubsetOrdering
<1> HIDE DEF R, T
<1>5. PICK U \in T : \A V \in T : <<V, U>> \notin R
  BY <1>1, <1>2, <1>3, WFMin
<1>6. PICK m \in S : U = 0..m
  BY DEF T
<1>7. \A n \in S : <<0..n, 0..m>> \notin R
  BY <1>5, <1>6 DEF T
<1>8. ASSUME NEW n \in S PROVE ~(n < m)
  BY <1>4, <1>7
<1> QED BY <1>8

(* those up to element n, and that there is such a function.               *)
Walk(b, S, n, f) ==
  f = [k \in 0..n |->
         IF k = 0 THEN <<>>
         ELSE IF b[k] \in S THEN Append(f[k - 1], b[k]) ELSE f[k - 1]]

LEMMA WalkEnds ==
  ASSUME NEW b, NEW S
  PROVE  \A n \in Nat : \E f : Walk(b, S, n, f)
<1> DEFINE Bad == {n \in Nat : ~\E f : Walk(b, S, n, f)}
<1>1. SUFFICES ASSUME Bad # {} PROVE FALSE
  OBVIOUS
<1>2. PICK n \in Bad : \A m \in Bad : n <= m
  BY <1>1, LeastNumber
<1>3. CASE n = 0
  <2> DEFINE f == [k \in 0..0 |-> <<>>]
  <2>1. Walk(b, S, 0, f)
    BY DEF Walk
  <2> QED BY <1>2, <1>3, <2>1
<1>4. CASE n # 0
  <2>1. n - 1 \in Nat /\ n - 1 \notin Bad
    BY <1>2, <1>4
  <2>2. PICK f : Walk(b, S, n - 1, f)
    BY <2>1
  <2> DEFINE last == IF b[n] \in S THEN Append(f[n - 1], b[n]) ELSE f[n - 1]
             g == [k \in 0..n |-> IF k = n THEN last ELSE f[k]]
  <2>3. \A k \in 0..n - 1 : g[k] = f[k]
    BY <2>1
  <2>4. g[n] = last /\ g[n - 1] = f[n - 1]
    BY <1>4, <2>1
  <2>5. \A k \in 0..n - 1 :
          f[k] = IF k = 0 THEN <<>>
                 ELSE IF b[k] \in S THEN Append(f[k - 1], b[k]) ELSE f[k - 1]
    BY <2>2, <2>1 DEF Walk
  <2>6. \A k \in 0..n :
          g[k] = IF k = 0 THEN <<>>
                 ELSE IF b[k] \in S THEN Append(g[k - 1], b[k]) ELSE g[k - 1]
    <3> SUFFICES ASSUME NEW k \in 0..n
                 PROVE  g[k] = IF k = 0 THEN <<>>
                               ELSE IF b[k] \in S THEN Append(g[k - 1], b[k]) ELSE g[k - 1]
      OBVIOUS
    <3>1. CASE k = n
      BY <1>4, <2>4, <3>1
    <3>2. CASE k = 0
      <4>1. 0 \in 0..n - 1 /\ g[0] = f[0] /\ f[0] = <<>>
        BY <1>4, <2>1, <2>3, <2>5
      <4> QED BY <3>2, <4>1
    <3>3. CASE k # n /\ k # 0
      <4>1. k \in 0..n - 1 /\ k - 1 \in 0..n - 1
        BY <2>1, <3>3
      <4>2. g[k] = f[k] /\ g[k - 1] = f[k - 1]
        BY <2>3, <4>1
      <4> HIDE DEF g
      <4> QED BY <2>5, <3>3, <4>1, <4>2
    <3> QED BY <3>1, <3>2, <3>3
  <2>7. g = [k \in 0..n |-> g[k]]
    OBVIOUS
  <2> HIDE DEF g
  <2>8. Walk(b, S, n, g)
    BY <2>6, <2>7 DEF Walk
  <2> QED BY <1>2, <2>8
<1> QED BY <1>3, <1>4

(* What q has of the first n elements of b.                                *)
Picks(b, S, n, q) ==
  /\ q \in Seq(Int)
  /\ \A x : Contains(q, x) <=> x \in S /\ \E j \in 1..n : b[j] = x
  /\ Increasing(b) => Increasing(q)

(* An element joins a sequence at its end.                                 *)
LEMMA AppendHas ==
  ASSUME NEW s \in Seq(Int), NEW e \in Int
  PROVE  /\ Append(s, e) \in Seq(Int)
         /\ \A x : Contains(Append(s, e), x) <=> Contains(s, x) \/ x = e
         /\ Increasing(s) /\ (\A x : Contains(s, x) => x < e) => Increasing(Append(s, e))
<1> DEFINE q == Append(s, e)
<1>1. /\ q \in Seq(Int) /\ DOMAIN s = 1..Len(s) /\ DOMAIN q = 1..Len(s) + 1
      /\ Len(s) \in Nat /\ Len(q) = Len(s) + 1 /\ q[Len(s) + 1] = e
      /\ \A k \in 1..Len(s) : q[k] = s[k]
  OBVIOUS
<1> HIDE DEF q
<1>2. \A k \in 1..Len(q) : (k \in 1..Len(s) /\ q[k] = s[k]) \/ (k = Len(s) + 1 /\ q[k] = e)
  BY <1>1
<1>3. \A k \in 1..Len(s) : k \in 1..Len(q) /\ q[k] = s[k]
  BY <1>1
<1>4. Len(s) + 1 \in 1..Len(q)
  BY <1>1
<1>5. \A x : Contains(q, x) <=> Contains(s, x) \/ x = e
  BY <1>1, <1>2, <1>3, <1>4 DEF Contains
<1>6. ASSUME Increasing(s), \A x : Contains(s, x) => x < e
      PROVE  Increasing(q)
  <2> SUFFICES ASSUME NEW k \in DOMAIN q, NEW l \in DOMAIN q, k < l PROVE q[k] < q[l]
    BY DEF Increasing
  <2>1. k \in 1..Len(s) /\ q[k] = s[k]
    BY <1>1, <1>2
  <2>2. CASE l \in 1..Len(s)
    BY <1>1, <1>6, <2>1, <2>2 DEF Increasing
  <2>3. CASE l = Len(s) + 1
    <3>1. Contains(s, s[k])
      BY <2>1 DEF Contains
    <3> QED BY <1>1, <1>6, <2>1, <2>3, <3>1
  <2> QED BY <1>1, <1>2, <2>2, <2>3
<1> QED BY <1>1, <1>5, <1>6 DEF q

LEMMA PicksNext ==
  ASSUME NEW b \in Seq(Int), NEW S, NEW n \in 1..Len(b), NEW q, Picks(b, S, n - 1, q)
  PROVE  Picks(b, S, n, IF b[n] \in S THEN Append(q, b[n]) ELSE q)
<1>1. /\ b[n] \in Int /\ n \in Nat /\ DOMAIN b = 1..Len(b)
      /\ \A j \in 1..n : j \in 1..n - 1 \/ j = n
      /\ n \in 1..n /\ \A j \in 1..n - 1 : j \in 1..n /\ j < n /\ j \in DOMAIN b
  OBVIOUS
<1>2. CASE b[n] \notin S
  BY <1>1, <1>2 DEF Picks
<1>3. CASE b[n] \in S
  <2> DEFINE r == Append(q, b[n])
  <2>1. q \in Seq(Int)
    BY DEF Picks
  <2>2. /\ r \in Seq(Int)
        /\ \A x : Contains(r, x) <=> Contains(q, x) \/ x = b[n]
        /\ Increasing(q) /\ (\A x : Contains(q, x) => x < b[n]) => Increasing(r)
    BY <1>1, <2>1, AppendHas
  <2> HIDE DEF r
  <2>3. \A x : Contains(r, x) <=> x \in S /\ \E j \in 1..n : b[j] = x
    BY <1>1, <1>3, <2>2 DEF Picks
  <2>4. ASSUME Increasing(b) PROVE Increasing(r)
    <3>1. ASSUME NEW x, Contains(q, x) PROVE x < b[n]
      <4>1. PICK j \in 1..n - 1 : b[j] = x
        BY <3>1 DEF Picks
      <4>2. j \in DOMAIN b /\ n \in DOMAIN b /\ j < n
        BY <1>1
      <4> QED BY <2>4, <4>1, <4>2 DEF Increasing
    <3> QED BY <2>2, <2>4, <3>1 DEF Picks
  <2> QED BY <1>3, <2>2, <2>3, <2>4 DEF Picks, r
<1> QED BY <1>2, <1>3

(* Those leaves the elements in S, and keeps an order.                     *)
LEMMA ThoseRight ==
  ASSUME NEW b \in Seq(Int), NEW S
  PROVE  /\ Those(b, S) \in Seq(Int)
         /\ \A x : Contains(Those(b, S), x) <=> x \in S /\ Contains(b, x)
         /\ Increasing(b) => Increasing(Those(b, S))
<1> DEFINE those == CHOOSE f : Walk(b, S, Len(b), f)
<1>1. Those(b, S) = those[Len(b)]
  BY DEF Those, Walk
<1>2. Walk(b, S, Len(b), those)
  <2>1. Len(b) \in Nat
    OBVIOUS
  <2>2. \E f : Walk(b, S, Len(b), f)
    BY <2>1, WalkEnds
  <2> QED BY <2>2
<1> HIDE DEF those
<1>3. \A k \in 0..Len(b) :
        those[k] = IF k = 0 THEN <<>>
                   ELSE IF b[k] \in S THEN Append(those[k - 1], b[k]) ELSE those[k - 1]
  BY <1>2 DEF Walk
<1> DEFINE Bad == {n \in 0..Len(b) : ~Picks(b, S, n, those[n])}
<1>4. Bad = {}
  <2> SUFFICES ASSUME Bad # {} PROVE FALSE
    OBVIOUS
  <2>1. Bad \subseteq Nat
    OBVIOUS
  <2>2. PICK n \in Bad : \A m \in Bad : n <= m
    BY <2>1, LeastNumber
  <2>3. CASE n = 0
    <3>1. those[0] = <<>>
      BY <1>3
    <3>2. Picks(b, S, 0, <<>>)
      BY DEF Picks, Increasing, Contains
    <3> QED BY <2>2, <2>3, <3>1, <3>2
  <2>4. CASE n # 0
    <3>1. n \in 1..Len(b) /\ n - 1 \in 0..Len(b) /\ n - 1 \notin Bad
      BY <2>2, <2>4
    <3>2. Picks(b, S, n - 1, those[n - 1])
      BY <3>1
    <3>3. those[n] = IF b[n] \in S THEN Append(those[n - 1], b[n]) ELSE those[n - 1]
      BY <1>3, <2>4
    <3>4. Picks(b, S, n, those[n])
      BY <3>1, <3>2, <3>3, PicksNext
    <3> QED BY <2>2, <3>4
  <2> QED BY <2>3, <2>4
<1>5. Picks(b, S, Len(b), those[Len(b)])
  BY <1>4
<1> QED BY <1>1, <1>5 DEF Picks, Contains

LEMMA ConcatHas ==
  ASSUME NEW s \in Seq(Int), NEW t \in Seq(Int)
  PROVE  /\ s \o t \in Seq(Int)
         /\ \A x : Contains(s \o t, x) <=> Contains(s, x) \/ Contains(t, x)
         /\ Increasing(s) /\ Increasing(t)
            /\ (\A x, y : Contains(s, x) /\ Contains(t, y) => x < y)
            => Increasing(s \o t)
<1> DEFINE q == s \o t
<1>1. /\ q \in Seq(Int) /\ Len(q) = Len(s) + Len(t)
      /\ \A i \in 1..Len(s) + Len(t) : q[i] = IF i <= Len(s) THEN s[i] ELSE t[i - Len(s)]
  BY ConcatProperties
<1>2. /\ Len(s) \in Nat /\ DOMAIN s = 1..Len(s) /\ Len(t) \in Nat /\ DOMAIN t = 1..Len(t)
      /\ DOMAIN q = 1..Len(q)
  BY <1>1
<1> HIDE DEF q
<1>3. ASSUME NEW i \in 1..Len(q)
      PROVE  \/ i \in 1..Len(s) /\ q[i] = s[i]
             \/ i - Len(s) \in 1..Len(t) /\ q[i] = t[i - Len(s)]
  BY <1>1, <1>2
<1>4. \A i \in 1..Len(s) : i \in 1..Len(q) /\ q[i] = s[i]
  BY <1>1, <1>2
<1>5. ASSUME NEW i \in 1..Len(t)
      PROVE  i + Len(s) \in 1..Len(q) /\ q[i + Len(s)] = t[i]
  <2>1. i + Len(s) \in 1..Len(q) /\ ~(i + Len(s) <= Len(s)) /\ (i + Len(s)) - Len(s) = i
    BY <1>1, <1>2
  <2> QED BY <1>1, <2>1
<1>6. ASSUME NEW x PROVE Contains(q, x) <=> Contains(s, x) \/ Contains(t, x)
  BY <1>3, <1>4, <1>5 DEF Contains
<1>7. ASSUME Increasing(s), Increasing(t),
             \A x, y : Contains(s, x) /\ Contains(t, y) => x < y
      PROVE  Increasing(q)
  <2> SUFFICES ASSUME NEW k \in 1..Len(q), NEW l \in 1..Len(q), k < l PROVE q[k] < q[l]
    BY <1>2 DEF Increasing
  <2>1. CASE l \in 1..Len(s)
    <3>1. k \in 1..Len(s)
      BY <1>2, <2>1
    <3> QED BY <1>2, <1>4, <1>7, <2>1, <3>1 DEF Increasing
  <2>2. CASE k \in 1..Len(s) /\ l - Len(s) \in 1..Len(t) /\ q[l] = t[l - Len(s)]
    <3>1. Contains(s, q[k]) /\ Contains(t, q[l])
      BY <1>4, <2>2 DEF Contains
    <3> QED BY <1>7, <3>1
  <2>3. CASE /\ k - Len(s) \in 1..Len(t) /\ q[k] = t[k - Len(s)]
             /\ l - Len(s) \in 1..Len(t) /\ q[l] = t[l - Len(s)]
    <3>1. k - Len(s) < l - Len(s)
      BY <1>1, <1>2
    <3> QED BY <1>2, <1>7, <2>3, <3>1 DEF Increasing
  <2> QED BY <1>3, <2>1, <2>2, <2>3
<1> QED BY <1>1, <1>6, <1>7 DEF q

(* A map has a new entry and all it had, in the order of the stamps.       *)
LEMMA StoreRight ==
  ASSUME NEW b \in Seq(Int), Increasing(b), NEW e \in Int
  PROVE  /\ Store(b, e) \in Seq(Int) /\ Increasing(Store(b, e))
         /\ \A x : Contains(Store(b, e), x) <=> Contains(b, x) \/ x = e
<1> DEFINE low == Those(b, Below(e))
           mid == Append(low, e)
           top == Those(b, Above(e))
<1>1. /\ low \in Seq(Int) /\ Increasing(low)
      /\ \A x : Contains(low, x) <=> x \in Below(e) /\ Contains(b, x)
  BY ThoseRight
<1>2. /\ top \in Seq(Int) /\ Increasing(top)
      /\ \A x : Contains(top, x) <=> x \in Above(e) /\ Contains(b, x)
  BY ThoseRight
<1> HIDE DEF low, top
<1>3. /\ mid \in Seq(Int) /\ \A x : Contains(mid, x) <=> Contains(low, x) \/ x = e
      /\ (\A x : Contains(low, x) => x < e) => Increasing(mid)
  BY <1>1, AppendHas
<1> HIDE DEF mid
<1>4. Increasing(mid)
  BY <1>1, <1>3 DEF Below
<1>5. /\ mid \o top \in Seq(Int)
      /\ \A x : Contains(mid \o top, x) <=> Contains(mid, x) \/ Contains(top, x)
      /\ (\A x, y : Contains(mid, x) /\ Contains(top, y) => x < y) => Increasing(mid \o top)
  BY <1>2, <1>3, <1>4, ConcatHas
<1>6. ASSUME NEW x, NEW y, Contains(mid, x), Contains(top, y) PROVE x < y
  <2>1. x \in Int /\ (x < e \/ x = e)
    BY <1>1, <1>3, <1>6 DEF Below
  <2>2. y \in Int /\ y > e
    BY <1>2, <1>6 DEF Above
  <2> QED BY <2>1, <2>2
<1>7. \A x : Contains(b, x) => x \in Int
  BY DEF Contains
<1>8. ASSUME NEW x PROVE Contains(mid \o top, x) <=> Contains(b, x) \/ x = e
  <2>1. Contains(b, x) => x \in Below(e) \/ x = e \/ x \in Above(e)
    BY <1>7 DEF Below, Above
  <2> QED BY <1>1, <1>2, <1>3, <1>5, <2>1
<1>9. Store(b, e) = mid \o top
  BY DEF Store, low, mid, top
<1> QED BY <1>5, <1>6, <1>8, <1>9

(* A ring that is full loses its first element, another none.              *)
LEMMA PushBackRight ==
  ASSUME NEW b \in Seq(Int), NEW e \in Int, limit \in Nat, limit >= 1, Len(b) <= limit
  PROVE  /\ PushBack(b, e) \in Seq(Int) /\ Len(PushBack(b, e)) <= limit
         /\ \A k \in DOMAIN b : Contains(PushBack(b, e), b[k]) \/ (k = 1 /\ Len(b) = limit)
<1>1. Len(b) \in Nat /\ DOMAIN b = 1..Len(b)
  OBVIOUS
<1>2. CASE Len(b) < limit
  <2>1. PushBack(b, e) = Append(b, e)
    BY <1>2 DEF PushBack
  <2>2. Len(Append(b, e)) = Len(b) + 1
    OBVIOUS
  <2>3. Len(PushBack(b, e)) <= limit
    BY <1>1, <1>2, <2>1, <2>2
  <2>4. \A k \in DOMAIN b : Contains(b, b[k])
    BY <1>1 DEF Contains
  <2>5. PushBack(b, e) \in Seq(Int) /\ \A k \in DOMAIN b : Contains(PushBack(b, e), b[k])
    BY <2>1, <2>4, AppendHas
  <2> QED BY <2>3, <2>5
<1>3. CASE ~(Len(b) < limit)
  <2> DEFINE t == Tail(b)
  <2>1. Len(b) = limit /\ b # <<>>
    <3>1. \A l \in Nat : l <= limit /\ ~(l < limit) => l = limit /\ l # 0
      OBVIOUS
    <3>2. Len(b) = limit /\ Len(b) # 0
      BY <1>1, <1>3, <3>1
    <3> QED BY <3>2
  <2>2. t \in Seq(Int) /\ Len(t) = Len(b) - 1 /\ \A i \in 1..Len(t) : t[i] = b[i + 1]
    BY <2>1, HeadTailProperties
  <2> HIDE DEF t
  <2>3. PushBack(b, e) = Append(t, e)
    BY <1>3 DEF PushBack, t
  <2>4. Append(t, e) \in Seq(Int) /\ Len(Append(t, e)) = Len(t) + 1
    BY <2>2
  <2>5. ASSUME NEW k \in DOMAIN b, k # 1 PROVE Contains(t, b[k])
    <3>1. k - 1 \in 1..Len(t) /\ (k - 1) + 1 = k
      BY <1>1, <2>2, <2>5
    <3>2. t[k - 1] = b[k]
      BY <2>2, <3>1
    <3> QED BY <3>1, <3>2 DEF Contains
  <2>6. \A x : Contains(Append(t, e), x) <=> Contains(t, x) \/ x = e
    BY <2>2, AppendHas
  <2>7. Len(PushBack(b, e)) <= limit
    BY <1>1, <2>1, <2>2, <2>3, <2>4
  <2> QED BY <2>1, <2>3, <2>4, <2>5, <2>6, <2>7
<1> QED BY <1>2, <1>3

(* Pruning keeps the stamps from the padding behind the one read last.     *)
LEMMA PrunedRight ==
  ASSUME TypeOK
  PROVE  /\ Pruned \in Seq(Int) /\ (Increasing(buf) => Increasing(Pruned))
         /\ \A x : Contains(buf, x) =>
              Contains(Pruned, x) \/ (current # -1 /\ x < current - padding)
<1>1. buf \in Seq(Int)
  BY DEF TypeOK
<1>2. CASE current = -1
  BY <1>1, <1>2 DEF Pruned
<1>3. CASE current # -1
  <2> DEFINE S == Int \ Below(current - padding)
  <2>1. Pruned = Those(buf, S)
    BY <1>3 DEF Pruned
  <2>2. \A x : Contains(buf, x) => x \in Int
    BY <1>1 DEF Contains
  <2>3. \A x \in Int : x \in S \/ x < current - padding
    BY DEF Below
  <2> HIDE DEF S
  <2> QED BY <1>1, <1>3, <2>1, <2>2, <2>3, ThoseRight
<1> QED BY <1>2, <1>3

----------------------------------------------------------------------------
(* The steps                                                               *)

(* The first state.                                                        *)
LEMMA BufInvInit == Init => BufInv
<1> SUFFICES ASSUME Init PROVE BufInv
  OBVIOUS
<1> USE DEF Init
<1>1. limit \in Nat /\ (kind = "circular" => limit >= 1) /\ padding \in Nat
  BY BuffersAssumption
<1>2. buf \in Seq(Int) /\ Len(buf) <= 1 /\ \A k, l \in DOMAIN buf : ~(k < l)
  <2>1. CASE kind = "circular"
    BY <2>1
  <2>2. CASE kind # "circular"
    BY <2>2
  <2> QED BY <2>1, <2>2
<1>3. Ring
  <2>1. kind = "circular" => Len(buf) = 1 /\ limit \in Nat
    BY <1>1
  <2> QED BY <1>1, <2>1 DEF Ring
<1>4. PointerValid /\ Reading
  BY DEF PointerValid, Reading
<1>5. TypeOK
  BY <1>1, <1>2, BuffersAssumption DEF TypeOK
<1> QED BY <1>3, <1>4, <1>5 DEF BufInv

(* A step that leaves the buffer and the sizes alone.                      *)
LEMMA QuietStep ==
  ASSUME BufInv, UNCHANGED <<kind, orderly, buf, limit>>, TypeOK', Reading',
         held' \in {None, held} \/ Contains(buf, held')
  PROVE  BufInv'
<1>1. PointerValid'
  BY DEF BufInv, PointerValid
<1>2. Ring'
  BY DEF BufInv, Ring
<1> QED BY <1>1, <1>2 DEF BufInv

LEMMA ProducerKeeps ==
  ASSUME BufInv,
         UpdateOutput \/ PushWait \/ SpuriousWake \/ CommitInput \/ UpdateReturn
  PROVE  BufInv'
<1> USE DEF shape, sizes, consumer
<1>1. UNCHANGED <<kind, orderly, buf, limit, padding, resized, current, inMtx,
                  rpc, want, next, held>>
  BY DEF UpdateOutput, PushWait, SpuriousWake, CommitInput, UpdateReturn
<1>2. Reading'
  BY <1>1 DEF BufInv, Reading
<1>3. clock' \in 0..MaxUpdates /\ new' \in Int
  <2>1. CASE UpdateOutput
    BY <2>1, BuffersAssumption DEF UpdateOutput, BufInv, TypeOK
  <2>2. CASE PushWait \/ SpuriousWake \/ CommitInput \/ UpdateReturn
    BY <2>2 DEF PushWait, SpuriousWake, CommitInput, UpdateReturn, BufInv, TypeOK
  <2> QED BY <2>1, <2>2
<1>4. /\ bufMtx' = (IF pc' \in {"emit", "return"} THEN "producer" ELSE None)
      /\ pc' \in {"idle", "push", "wait", "emit", "return"}
  BY DEF UpdateOutput, PushWait, SpuriousWake, CommitInput, UpdateReturn, BufInv, TypeOK
<1>5. TypeOK'
  BY <1>1, <1>3, <1>4 DEF BufInv, TypeOK
<1> QED BY <1>1, <1>2, <1>5, QuietStep

LEMMA PushKeeps ==
  ASSUME BufInv, Push
  PROVE  /\ BufInv'
         /\ \A k \in DOMAIN buf :
              Contains(buf', buf[k]) \/ (kind = "circular" /\ k = 1 /\ Len(buf) = limit)
<1> USE DEF shape, sizes, consumer, BufInv
<1>1. /\ UNCHANGED <<kind, orderly, limit, padding, resized, current, inMtx, new, clock,
                     rpc, want, next, held>>
      /\ bufMtx' = "producer" /\ pc' = "emit"
      /\ buf' = IF kind = "circular" THEN PushBack(buf, new) ELSE Store(buf, new)
  BY DEF Push
<1>2. /\ kind \in Kinds /\ kind \in MapKinds \cup {"circular"}
      /\ buf \in Seq(Int) /\ new \in Int /\ limit \in Nat /\ DOMAIN buf = 1..Len(buf)
  BY BuffersAssumption DEF TypeOK
<1>3. CASE kind = "circular"
  <2>1. limit >= 1 /\ Len(buf) <= limit /\ kind \notin MapKinds
    BY <1>3 DEF Ring, MapKinds
  <2>2. /\ buf' \in Seq(Int) /\ Len(buf') <= limit
        /\ \A k \in DOMAIN buf : Contains(buf', buf[k]) \/ (k = 1 /\ Len(buf) = limit)
    BY <1>1, <1>2, <1>3, <2>1, PushBackRight
  <2>3. TypeOK'
    BY <1>1, <2>1, <2>2 DEF TypeOK
  <2>4. PointerValid' /\ Reading' /\ Ring'
    BY <1>1, <2>1, <2>2 DEF PointerValid, Reading, Ring
  <2> QED BY <1>3, <2>2, <2>3, <2>4
<1>4. CASE kind # "circular"
  <2>1. kind \in MapKinds /\ Increasing(buf)
    BY <1>2, <1>4 DEF TypeOK, Increasing
  <2>2. /\ buf' \in Seq(Int) /\ Increasing(buf')
        /\ \A x : Contains(buf', x) <=> Contains(buf, x) \/ x = new
    BY <1>1, <1>2, <1>4, <2>1, StoreRight
  <2>3. TypeOK'
    BY <1>1, <2>2 DEF TypeOK, Increasing
  <2>4. PointerValid' /\ Reading' /\ Ring'
    BY <1>1, <1>4, <2>2 DEF PointerValid, Reading, Ring
  <2>5. \A k \in DOMAIN buf : Contains(buf, buf[k])
    BY <1>2 DEF Contains
  <2> QED BY <2>2, <2>3, <2>4, <2>5
<1> QED BY <1>3, <1>4

LEMMA RequestKeeps ==
  ASSUME BufInv, GetData \/ GetDataPtr \/ GetInput
  PROVE  BufInv' /\ buf' = buf
<1> USE DEF shape, sizes, producer
<1>1. PICK op \in {"data", "ptr"} : Request(op)
  BY DEF GetData, GetDataPtr, GetInput
<1>2. /\ UNCHANGED <<kind, orderly, buf, limit, padding, resized, current, bufMtx,
                     pc, new, clock, next>>
      /\ rpc' = op /\ held' = None
  BY <1>1 DEF Request
<1>3. want' \in Int
  BY <1>1, BuffersAssumption DEF Request, BufInv, TypeOK
<1>4. inMtx' \in {None, "consumer"}
  BY DEF GetData, GetDataPtr, GetInput, BufInv, TypeOK
<1>5. TypeOK'
  BY <1>1, <1>2, <1>4 DEF BufInv, TypeOK
<1>6. Reading'
  BY <1>1, <1>2, <1>3 DEF BufInv, Reading
<1> QED BY <1>2, <1>5, <1>6, QuietStep

(* Copy and Point find what they answer with.                              *)
LEMMA AnswerFinds ==
  ASSUME BufInv, NEW points, Answer(points)
  PROVE  held' = None \/ (Found /\ held' \in Int /\ Contains(buf, held') /\
                            (want # -1 => held' = want))
<1>1. buf \in Seq(Int) /\ want \in Int
  BY DEF BufInv, TypeOK, Reading
<1>2. CASE Found /\ points /\ want = -1
  <2>1. buf # <<>> /\ held' = Last(buf)
    BY <1>2 DEF Found, Answer
  <2>2. Len(buf) \in 1..Len(buf) /\ Last(buf) = buf[Len(buf)]
    BY <1>1, <2>1 DEF Last
  <2> QED BY <1>1, <1>2, <2>1, <2>2 DEF Contains
<1>3. CASE Found /\ points /\ want # -1
  BY <1>1, <1>3 DEF Found, Answer
<1>4. CASE ~(Found /\ points)
  BY <1>4 DEF Answer
<1> QED BY <1>2, <1>3, <1>4

LEMMA ReadKeeps ==
  ASSUME BufInv, Copy \/ Point
  PROVE  BufInv' /\ buf' = buf
<1> USE DEF shape, sizes, producer
<1>1. /\ UNCHANGED <<kind, orderly, buf, limit, padding, resized, bufMtx, inMtx,
                     pc, new, clock, want>>
      /\ rpc' \in {"prune", "return"}
  BY DEF Copy, Point
<1>2. current' \in Int /\ next' \in Nat
  BY DEF Copy, Point, Answer, BufInv, TypeOK, Reading
<1>3. held' = None \/ (Found /\ held' \in Int /\ Contains(buf, held') /\
                         (want # -1 => held' = want))
  BY AnswerFinds DEF Copy, Point
<1>4. TypeOK'
  BY <1>1, <1>2 DEF BufInv, TypeOK
<1>5. rpc' = "prune" => kind \in StreamKinds /\ (held' = None \/ (want # -1 /\ current' = want))
  <2>1. CASE Copy
    <3>1. held' = None
      BY <2>1 DEF Copy, Answer
    <3> QED BY <2>1, <3>1 DEF Copy
  <2>2. CASE Point
    BY <2>2 DEF Point
  <2> QED BY <2>1, <2>2
<1>6. Reading'
  BY <1>1, <1>3, <1>5 DEF BufInv, Reading
<1> QED BY <1>1, <1>3, <1>4, <1>6, QuietStep

LEMMA PruneKeeps ==
  ASSUME BufInv, Prune
  PROVE  /\ BufInv' /\ kind \in StreamKinds
         /\ \A k \in DOMAIN buf :
              Contains(buf', buf[k]) \/ (current # -1 /\ buf[k] < current - padding)
<1> USE DEF shape, sizes, BufInv
<1>1. /\ UNCHANGED <<kind, orderly, limit, padding, resized, current, bufMtx, inMtx, new,
                     clock, want, next, held>>
      /\ bufMtx = None /\ rpc = "prune" /\ rpc' = "return" /\ buf' = Pruned
      /\ pc' = IF kind = "blocking" /\ pc = "wait" THEN "push" ELSE pc
  BY DEF Prune
<1>2. kind \in StreamKinds /\ kind \in MapKinds /\ kind # "circular"
  BY <1>1 DEF Reading, StreamKinds, MapKinds
<1>3. /\ buf' \in Seq(Int) /\ Increasing(buf')
      /\ \A x : Contains(buf, x) => Contains(buf', x) \/ (current # -1 /\ x < current - padding)
  BY <1>1, <1>2, PrunedRight DEF TypeOK, Increasing
<1>4. TypeOK'
  <2>1. /\ pc' \in {"idle", "push", "wait", "emit", "return"}
        /\ bufMtx' = (IF pc' \in {"emit", "return"} THEN "producer" ELSE None)
    BY <1>1 DEF TypeOK
  <2> QED BY <1>1, <1>3, <2>1 DEF TypeOK, Increasing
<1>5. PointerValid'
  <2>1. held # None => Contains(buf, held) /\ held = current
    BY <1>1, <1>2 DEF PointerValid, Reading
  <2>2. ~(current < current - padding)
    BY DEF TypeOK
  <2> QED BY <1>1, <1>3, <2>1, <2>2 DEF PointerValid
<1>6. Reading' /\ Ring'
  BY <1>1, <1>2 DEF Reading, Ring
<1>7. \A k \in DOMAIN buf : Contains(buf, buf[k])
  BY DEF Contains, TypeOK
<1> QED BY <1>2, <1>3, <1>4, <1>5, <1>6, <1>7

LEMMA ReturnKeeps ==
  ASSUME BufInv, ReadReturn
  PROVE  BufInv' /\ buf' = buf
<1> USE DEF shape, sizes, producer
<1>1. UNCHANGED <<kind, orderly, buf, limit, padding, resized, current, bufMtx, pc, new,
                  clock, want, next, held>> /\ rpc' = "idle" /\ inMtx' = None
  BY DEF ReadReturn
<1>2. TypeOK' /\ Reading'
  BY <1>1 DEF BufInv, TypeOK, Reading
<1> QED BY <1>1, <1>2, QuietStep

LEMMA SizeKeeps ==
  ASSUME BufInv, NEW n \in 1..Capacity, SetSize(n)
  PROVE  BufInv' /\ resized' # resized
<1> USE DEF shape, producer, BufInv
<1>1. /\ UNCHANGED <<kind, orderly, current, bufMtx, inMtx, pc, new, clock, rpc, want, next>>
      /\ rpc = "idle" /\ resized' = resized + 1
  BY DEF SetSize
<1>2. n \in Nat /\ n >= 1
  BY BuffersAssumption
<1>3. resized' \in Nat /\ resized' # resized
  BY <1>1 DEF Reading
<1>4. CASE kind = "circular"
  <2>1. /\ limit' = n /\ padding' = padding /\ held' = None
        /\ buf' = IF n < Len(buf) THEN SubSeq(buf, 1, n) ELSE buf
    BY <1>4 DEF SetSize
  <2>2. buf \in Seq(Int) /\ Len(buf) \in Nat
    BY DEF TypeOK
  <2>3. buf' \in Seq(Int) /\ Len(buf') <= n
    <3>1. CASE n < Len(buf)
      <4>1. SubSeq(buf, 1, n) \in Seq(Int) /\ Len(SubSeq(buf, 1, n)) = n
        BY <1>2, <2>2, <3>1
      <4> QED BY <1>2, <2>1, <3>1, <4>1
    <3>2. CASE ~(n < Len(buf))
      BY <1>2, <2>1, <2>2, <3>2
    <3> QED BY <3>1, <3>2
  <2>4. TypeOK'
    BY <1>1, <1>2, <1>4, <2>1, <2>3 DEF TypeOK, MapKinds
  <2>5. PointerValid' /\ Reading' /\ Ring'
    BY <1>1, <1>2, <1>3, <1>4, <2>1, <2>3 DEF PointerValid, Reading, Ring, MapKinds
  <2> QED BY <1>3, <2>4, <2>5
<1>5. CASE kind # "circular"
  <2>1. buf' = buf /\ held' = held /\ limit' \in Nat /\ padding' \in Nat
    BY <1>2, <1>5 DEF SetSize, TypeOK
  <2>2. TypeOK'
    BY <1>1, <2>1 DEF TypeOK
  <2>3. PointerValid' /\ Reading' /\ Ring'
    BY <1>1, <1>3, <1>5, <2>1 DEF PointerValid, Reading, Ring
  <2> QED BY <1>3, <2>2, <2>3
<1> QED BY <1>4, <1>5

LEMMA BufStep ==
  ASSUME BufInv, [Next]_vars
  PROVE  /\ BufInv'
         /\ \/ buf' = buf
            \/ Push \/ Prune
            \/ resized' # resized
<1>1. CASE UpdateOutput \/ PushWait \/ SpuriousWake \/ CommitInput \/ UpdateReturn
  <2>1. buf' = buf
    BY <1>1 DEF UpdateOutput, PushWait, SpuriousWake, CommitInput, UpdateReturn
  <2> QED BY <1>1, <2>1, ProducerKeeps
<1>2. CASE Push
  BY <1>2, PushKeeps
<1>3. CASE GetData \/ GetDataPtr \/ GetInput
  BY <1>3, RequestKeeps
<1>4. CASE Copy \/ Point
  BY <1>4, ReadKeeps
<1>5. CASE Prune
  BY <1>5, PruneKeeps
<1>6. CASE ReadReturn
  BY <1>6, ReturnKeeps
<1>7. ASSUME NEW n \in 1..Capacity, SetSize(n) PROVE BufInv' /\ resized' # resized
  BY <1>7, SizeKeeps
<1>8. CASE UNCHANGED vars
  <2>1. UNCHANGED <<kind, orderly, buf, limit, padding, resized, current, bufMtx, inMtx,
                    pc, new, clock, rpc, want, next, held>>
    BY <1>8 DEF vars, shape, sizes, producer, consumer
  <2>2. TypeOK' /\ Reading'
    BY <2>1 DEF BufInv, TypeOK, Reading
  <2> QED BY <2>1, <2>2, QuietStep
<1> QED
  BY <1>1, <1>2, <1>3, <1>4, <1>5, <1>6, <1>7, <1>8 DEF Next, ProducerStep, ConsumerStep

LEMMA BufInvariant == Spec => []BufInv
<1>1. BufInv /\ [Next]_vars => BufInv'
  BY BufStep
<1> QED BY <1>1, BufInvInit, PTL DEF Spec

(* A reader keeps a good pointer for as long as it asks for nothing else,  *)
(* whatever the producer writes and however the buffer is pruned and       *)
(* resized; a map is in the order of its stamps, and its mutex is held in  *)
(* emissions only.                                                         *)
THEOREM PointersStayGood == Spec => []BuffersSound
<1>1. BufInv => BuffersSound
  BY DEF BufInv, BuffersSound
<1> QED BY <1>1, BufInvariant, PTL

(* A map loses nothing, a stream what is further behind the last read than *)
(* the padding, a ring its oldest entry when it is full.                   *)
THEOREM NothingLeavesEarly == Spec => Retains
<1>1. ASSUME BufInv, [Next]_vars
      PROVE  \A k \in DOMAIN buf :
               LET e == buf[k] IN
               ~Contains(buf', e) /\ resized' = resized =>
                 \/ kind \in StreamKinds /\ current # -1 /\ e < current - padding
                 \/ kind = "circular" /\ k = 1 /\ Len(buf) = limit
  <2>1. CASE buf' = buf
    <3>1. \A k \in DOMAIN buf : Contains(buf, buf[k])
      BY <1>1 DEF Contains, BufInv, TypeOK
    <3> QED BY <2>1, <3>1
  <2>2. CASE Push
    BY <1>1, <2>2, PushKeeps
  <2>3. CASE Prune
    BY <1>1, <2>3, PruneKeeps
  <2> QED BY <1>1, <2>1, <2>2, <2>3, BufStep
<1> QED BY <1>1, BufInvariant, PTL DEF Spec, Retains
===============================================================================
