----------------------------- MODULE ObjectsProofs -----------------------------
(***************************************************************************)
(* The factory and its files (ObjectStore), what the macros make of a class *)
(* (Reflection), the parameters of objects (ObjectParameters) and their     *)
(* connections (Wiring): their invariants, and what a recompile and a file  *)
(* restore.                                                                 *)
(***************************************************************************)
EXTENDS ObjectStore, Reflection, ObjectParameters, Wiring, FiniteSetTheorems,
        SequenceTheorems, WellFoundedInduction, TLAPS

-----------------------------------------------------------------------------
(* Numbers, sets and folds that the proofs of several components use.      *)

(* A set of natural numbers has a least one.                               *)
LEMMA LeastNumber ==
  ASSUME NEW S, S \subseteq Nat, S # {}
  PROVE  \E m \in S : \A n \in S : m <= n
<1> DEFINE R == StrictSubsetOrdering(Nat)
           T == {0..n : n \in S}
<1>1. IsWellFoundedOn(R, FiniteSubsetsOf(Nat))
  BY FS_StrictSubsetOrderingWellFounded
<1>2. T \subseteq FiniteSubsetsOf(Nat)
  <2>1. ASSUME NEW n \in S PROVE 0..n \in FiniteSubsetsOf(Nat)
    <3>1. n \in Int /\ 0 \in Int
      OBVIOUS
    <3>2. IsFiniteSet(0..n)
      BY <3>1, FS_Interval
    <3>3. 0..n \in SUBSET Nat
      BY <3>1
    <3> QED BY <3>2, <3>3 DEF FiniteSubsetsOf
  <2> QED BY <2>1
<1>3. T # {}
  OBVIOUS
<1>4. ASSUME NEW x \in Nat, NEW y \in Nat, x < y PROVE <<0..x, 0..y>> \in R
  <2>1. 0..x \subseteq 0..y /\ 0..x # 0..y
    BY <1>4
  <2> QED BY <2>1 DEF StrictSubsetOrdering
<1> HIDE DEF R, T
<1>5. PICK U \in T : \A V \in T : <<V, U>> \notin R
  BY <1>1, <1>2, <1>3, WFMin
<1>6. PICK m \in S : U = 0..m
  BY DEF T
<1>7. \A n \in S : <<0..n, 0..m>> \notin R
  BY <1>5, <1>6 DEF T
<1>8. ASSUME NEW n \in S PROVE ~(n < m)
  BY <1>4, <1>7
<1> QED BY <1>8

(* Induction up to a bound, over a set.                                    *)
LEMMA UpTo ==
  ASSUME NEW n \in Nat, NEW S, 0 \in S, \A k \in 1..n : k - 1 \in S => k \in S
  PROVE  0..n \subseteq S
<1> DEFINE Bad == {k \in 0..n : k \notin S}
<1> SUFFICES ASSUME Bad # {} PROVE FALSE
  OBVIOUS
<1>1. Bad \subseteq Nat
  OBVIOUS
<1>2. PICK k \in Bad : \A m \in Bad : k <= m
  BY <1>1, LeastNumber
<1>3. k # 0 /\ k \in 0..n
  OBVIOUS
<1>4. k \in 1..n /\ k - 1 \in 0..n /\ k - 1 \notin Bad
  BY <1>2, <1>3
<1> QED BY <1>2, <1>4

(* Induction over all natural numbers, over a set.                         *)
LEMMA AllNaturals ==
  ASSUME NEW S, 0 \in S, \A k \in Nat : k \in S => k + 1 \in S
  PROVE  Nat \subseteq S
<1> SUFFICES ASSUME NEW n \in Nat PROVE n \in S
  OBVIOUS
<1>1. \A k \in 1..n : k - 1 \in S => k \in S
  <2> SUFFICES ASSUME NEW k \in 1..n, k - 1 \in S PROVE k \in S
    OBVIOUS
  <2>1. k - 1 \in Nat /\ (k - 1) + 1 = k
    OBVIOUS
  <2> QED BY <2>1
<1>2. 0..n \subseteq S
  BY <1>1, UpTo
<1> QED BY <1>2

(* The largest element of a set of positions.                              *)
LEMMA MaxIn ==
  ASSUME NEW n \in Nat, NEW s \in SUBSET (1..n), s # {}
  PROVE  Max(s) \in s /\ \A y \in s : y <= Max(s)
<1> DEFINE T == {n - y : y \in s}
<1>1. T \subseteq Nat /\ T # {}
  OBVIOUS
<1>2. PICK m \in T : \A z \in T : m <= z
  BY <1>1, LeastNumber
<1>3. PICK x \in s : m = n - x
  OBVIOUS
<1>4. \A y \in s : x >= y
  <2> SUFFICES ASSUME NEW y \in s PROVE x >= y
    OBVIOUS
  <2>1. n - y \in T
    OBVIOUS
  <2> QED BY <1>2, <1>3, <2>1
<1>5. Max(s) \in s /\ \A y \in s : Max(s) >= y
  BY <1>4 DEF Max
<1> QED BY <1>5

LEMMA MaxOfPrefix ==
  ASSUME NEW n \in Nat, NEW k \in 1..n
  PROVE  Max(1..k) = k /\ (1..k) \ {k} = 1..k - 1 /\ 1..k \in SUBSET (1..n) /\ 1..k # {}
<1>1. 1..k \in SUBSET (1..n) /\ k \in 1..k
  OBVIOUS
<1>2. Max(1..k) \in 1..k /\ \A y \in 1..k : y <= Max(1..k)
  BY <1>1, MaxIn
<1> QED BY <1>1, <1>2

(* A function that the positions of a sequence are folded by exists when   *)
(* the step stays in a set.                                                *)
Folds(f, n, S, base, step) ==
  /\ f \in [SUBSET (1..n) -> S]
  /\ \A s \in SUBSET (1..n) : f[s] = IF s = {} THEN base ELSE step[<<f[s \ {Max(s)}], Max(s)>>]

LEMMA FoldExists ==
  ASSUME NEW n \in Nat, NEW S, NEW base \in S, NEW step \in [S \X (1..n) -> S]
  PROVE  \E f : Folds(f, n, S, base, step)
<1> DEFINE Good == {k \in 0..n : \E f : Folds(f, k, S, base, step)}
<1>1. 0 \in Good
  <2> DEFINE f == [s \in {{}} |-> base]
  <2>1. SUBSET (1..0) = {{}}
    OBVIOUS
  <2>2. Folds(f, 0, S, base, step)
    BY <2>1 DEF Folds
  <2> QED BY <2>2
<1>2. ASSUME NEW k \in 1..n, k - 1 \in Good PROVE k \in Good
  <2>1. PICK f : Folds(f, k - 1, S, base, step)
    BY <1>2
  <2> DEFINE D == SUBSET (1..k)
             g == [s \in D |-> IF k \in s THEN step[<<f[s \ {k}], k>>] ELSE f[s]]
  <2>2. \A s \in D : s \ {k} \in SUBSET (1..(k - 1)) /\ (k \notin s => s \in SUBSET (1..(k - 1)))
    OBVIOUS
  <2>3. /\ f \in [SUBSET (1..(k - 1)) -> S]
        /\ \A s \in SUBSET (1..(k - 1)) :
             f[s] = IF s = {} THEN base ELSE step[<<f[s \ {Max(s)}], Max(s)>>]
    BY <2>1 DEF Folds
  <2>4. g \in [D -> S]
    BY <2>2, <2>3
  <2>5. ASSUME NEW s \in D, k \in s
        PROVE  g[s] = IF s = {} THEN base ELSE step[<<g[s \ {Max(s)}], Max(s)>>]
    <3>1. Max(s) = k
      <4>1. k \in Nat
        OBVIOUS
      <4>2. Max(s) \in s /\ \A y \in s : y <= Max(s)
        BY <2>5, <4>1, MaxIn
      <4>3. k <= Max(s)
        BY <2>5, <4>2
      <4>4. Max(s) \in 1..k
        BY <4>2
      <4> HIDE DEF g
      <4> QED BY <4>3, <4>4
    <3>2. s \ {k} \in D /\ k \notin s \ {k}
      OBVIOUS
    <3>3. g[s \ {k}] = f[s \ {k}] /\ g[s] = step[<<f[s \ {k}], k>>] /\ s # {}
      BY <2>5, <3>2
    <3> QED BY <3>1, <3>3
  <2>6. ASSUME NEW s \in D, k \notin s
        PROVE  g[s] = IF s = {} THEN base ELSE step[<<g[s \ {Max(s)}], Max(s)>>]
    <3>1. s \in SUBSET (1..(k - 1)) /\ g[s] = f[s]
      BY <2>2, <2>6
    <3>2. s \ {Max(s)} \in SUBSET (1..(k - 1)) /\ s \ {Max(s)} \in D /\ k \notin s \ {Max(s)}
      BY <2>6, <3>1
    <3>3. g[s \ {Max(s)}] = f[s \ {Max(s)}]
      BY <3>2
    <3> HIDE DEF g
    <3> QED BY <2>3, <3>1, <3>3
  <2> HIDE DEF g
  <2>7. Folds(g, k, S, base, step)
    BY <2>4, <2>5, <2>6 DEF Folds
  <2> QED BY <2>7
<1>3. 0..n \subseteq Good
  BY <1>1, <1>2, UpTo
<1> QED BY <1>3

----------------------------------------------------------------------------
(* The factory and its files                                               *)

ObjectIds == (Types \ Plain) \X Nat

(* The constructors that are registered belong to types.                   *)
Catalogue == constructors \in Seq(Types)

(* An object is one of a type that can be constructed, and has its         *)
(* parameters set; its number is bounded as the objects are.               *)
Living ==
  /\ IsFiniteSet(DOMAIN alive) /\ DOMAIN alive \subseteq ObjectIds
  /\ alive \in [DOMAIN alive -> Settings]
  /\ \A o \in DOMAIN alive : Known(o[1])

(* A file has one object or, in JSON, a node for each pointer, and an      *)
(* object's parameters at the first of its nodes only.                     *)
Written ==
  /\ Len(file) \in Nat /\ DOMAIN file = 1..Len(file)
  /\ format \in {"binary", "xml"} => Len(file) = 1
  /\ \A i \in DOMAIN file : file[i].setting \subseteq Settings
  /\ format = "json" =>
       \A i, j \in DOMAIN file : j < i /\ file[j].at = file[i].at => file[i].setting = {}

Loaded == pointers \in Seq(ObjectIds) /\ crashed \in BOOLEAN

StoreInv == StoreSound /\ Catalogue /\ Living /\ Written /\ Loaded

LEMMA InitStoreInv == StoreInit => StoreInv
<1> SUFFICES ASSUME StoreInit PROVE StoreInv
  OBVIOUS
<1>1. constructors = <<>> /\ alive = <<>> /\ file = <<>> /\ pointers = <<>> /\ format = "none"
  BY DEF StoreInit
<1>2. DOMAIN <<>> = {} /\ Len(<<>>) = 0 /\ 1..0 = {} /\ \A S : <<>> \in Seq(S)
  OBVIOUS
<1>3. <<>> \in [{} -> Settings] /\ Range(<<>>) = {} /\ IsInjective(<<>>)
  BY <1>2 DEF Range, IsInjective
<1>4. StoreTypeOK
  BY <1>1, <1>2, <1>3, StoreAssumption DEF StoreTypeOK, Formats
<1>5. Living
  BY <1>1, <1>2, <1>3, FS_EmptySet DEF Living
<1>6. Catalogue /\ Written /\ Loaded /\ KeepsTypes
  BY <1>1, <1>2 DEF StoreInit, Catalogue, Written, Loaded, KeepsTypes
<1> QED BY <1>4, <1>5, <1>6 DEF StoreInv, StoreSound

(* A new object has a number that no other one of its type has, and the    *)
(* first that is free.                                                     *)
LEMMA NextIdFree ==
  ASSUME NEW objects, IsFiniteSet(DOMAIN objects), DOMAIN objects \subseteq ObjectIds, NEW type
  PROVE  /\ NextId(objects, type) \in 0..Cardinality(DOMAIN objects)
         /\ <<type, NextId(objects, type)>> \notin DOMAIN objects
<1> DEFINE mine == {x \in DOMAIN objects : x[1] = type}
           taken == {o[2] : o \in mine}
           number == [o \in mine |-> o[2]]
<1>1. IsFiniteSet(mine) /\ Cardinality(mine) <= Cardinality(DOMAIN objects)
  BY FS_Subset
<1>2. number \in Surjection(mine, taken)
  BY DEF Surjection
<1>3. IsFiniteSet(taken) /\ Cardinality(taken) <= Cardinality(mine)
  BY <1>1, <1>2, FS_Surjection
<1>4. taken \subseteq Nat
  BY DEF ObjectIds
<1>5. Cardinality(taken) \in Nat /\ Cardinality(mine) \in Nat /\ Cardinality(DOMAIN objects) \in Nat
  BY <1>1, <1>3, FS_CardinalityType
<1> HIDE DEF taken
<1> DEFINE c == Cardinality(taken)
           free == (0..c) \ taken
<1>6. free # {}
  <2> SUFFICES ASSUME 0..c \subseteq taken PROVE FALSE
    OBVIOUS
  <2>1. Cardinality(0..c) <= c
    BY <1>3, FS_Subset
  <2>2. Cardinality(0..c) = c + 1
    BY <1>5, FS_Interval
  <2> QED BY <1>5, <2>1, <2>2
<1>f. free \subseteq Nat
  BY <1>5
<1>7. PICK n \in free : \A m \in free : n <= m
  <2> HIDE DEF free
  <2> QED BY <1>f, <1>6, LeastNumber
<1>8. n \in 0..c /\ n \notin taken /\ \A k \in 0..(n - 1) : k \in taken
  BY <1>5, <1>7
<1>9. NextId(objects, type) = CHOOSE i \in 0..c : i \notin taken /\ \A k \in 0..(i - 1) : k \in taken
  BY DEF NextId, taken
<1> DEFINE next == NextId(objects, type)
<1>10. next \in 0..c /\ next \notin taken
  BY <1>8, <1>9
<1>11. <<type, next>> \notin DOMAIN objects
  BY <1>10 DEF taken
<1> QED BY <1>1, <1>3, <1>5, <1>10, <1>11

(* An object that gets a setting.                                          *)
LEMMA WithOne ==
  ASSUME NEW D, IsFiniteSet(D), NEW objects \in [D -> Settings], NEW o, NEW s \in Settings
  PROVE  /\ DOMAIN With(objects, o, s) = D \cup {o}
         /\ With(objects, o, s) \in [D \cup {o} -> Settings]
         /\ With(objects, o, s)[o] = s
         /\ IsFiniteSet(D \cup {o})
BY FS_AddElement DEF With

(* What can be made is an object, and not the null pointer.                *)
LEMMA MadeIsNew ==
  ASSUME Catalogue, NEW objects, IsFiniteSet(DOMAIN objects), DOMAIN objects \subseteq ObjectIds,
         NEW type, Made(objects, type) # Null
  PROVE  /\ Made(objects, type) \in ObjectIds
         /\ Made(objects, type)[1] = type /\ Known(type)
         /\ Made(objects, type)[2] \in 0..Cardinality(DOMAIN objects)
         /\ Made(objects, type) \notin DOMAIN objects
<1>1. /\ Known(type) /\ type \notin Plain
      /\ Made(objects, type) = <<type, NextId(objects, type)>>
  BY DEF Made
<1>2. type \in Types
  BY <1>1 DEF Known, Catalogue, Range
<1>3. /\ NextId(objects, type) \in 0..Cardinality(DOMAIN objects)
      /\ <<type, NextId(objects, type)>> \notin DOMAIN objects
  BY NextIdFree
<1>4. Cardinality(DOMAIN objects) \in Nat
  BY FS_CardinalityType
<1> QED BY <1>1, <1>2, <1>3, <1>4 DEF ObjectIds

LEMMA NullIsNone == \A o \in ObjectIds : o # Null
BY DEF ObjectIds, Null

LEMMA FirstIsSetting == First \in Settings
BY StoreAssumption DEF First

(* What a load has done so far: the objects, those it has met and the      *)
(* pointers it gave.                                                       *)
LoadStates ==
  {s \in [alive : UNION {[D -> Settings] : D \in SUBSET ObjectIds}, met : SUBSET ObjectIds,
          pointers : Seq(ObjectIds), crashed : BOOLEAN] : IsFiniteSet(DOMAIN s.alive)}

(* The object that a node leads to, if any.                                *)
Target(s, node) ==
  LET found == Get(s.alive, node)
  IN IF found # Null THEN found ELSE Made(s.alive, node.at[1])

LEMMA TargetIs ==
  ASSUME Catalogue, NEW s \in LoadStates, NEW node, Target(s, node) # Null
  PROVE  LET o == Target(s, node) IN
         /\ o \in ObjectIds /\ o[1] = node.at[1] /\ Known(o[1])
         /\ o \in DOMAIN s.alive \/ o[2] \in 0..Cardinality(DOMAIN s.alive)
         /\ Get(s.alive, node) # Null <=> o \in DOMAIN s.alive
<1> DEFINE o == Target(s, node)
<1>1. DOMAIN s.alive \subseteq ObjectIds /\ IsFiniteSet(DOMAIN s.alive)
  BY DEF LoadStates
<1>2. CASE Get(s.alive, node) # Null
  <2>1. o = node.at /\ o \in DOMAIN s.alive /\ Known(o[1])
    BY <1>2 DEF Get, Target
  <2> QED BY <1>1, <1>2, <2>1
<1>3. CASE Get(s.alive, node) = Null
  <2>1. o = Made(s.alive, node.at[1])
    BY <1>3 DEF Target
  <2> QED BY <1>1, <1>3, <2>1, MadeIsNew
<1> QED BY <1>2, <1>3

(* One node: a null pointer ends it all, otherwise the object is there and *)
(* the pointer is given.                                                   *)
LEMMA OneNode ==
  ASSUME Catalogue, NEW s \in LoadStates, NEW node, node.setting \subseteq Settings
  PROVE  LET t == LoadNode(s, node)
             o == Target(s, node)
         IN /\ t \in LoadStates
            /\ s.crashed => t = s
            /\ ~s.crashed /\ o = Null =>
                 t.crashed /\ t.alive = s.alive /\ t.pointers = s.pointers
            /\ ~s.crashed /\ o # Null =>
                 /\ ~t.crashed /\ t.pointers = Append(s.pointers, o) /\ t.met = s.met \cup {o}
                 /\ DOMAIN t.alive = DOMAIN s.alive \cup {o}
                 /\ \A x \in DOMAIN s.alive : x # o \/ o \in s.met => t.alive[x] = s.alive[x]
                 /\ o \notin s.met /\ node.setting # {} => t.alive[o] \in node.setting
<1> DEFINE o == Target(s, node)
           found == Get(s.alive, node)
           now == IF found # Null THEN s.alive ELSE With(s.alive, o, First)
           set == CHOOSE x \in node.setting : TRUE
           later == IF o \in s.met \/ node.setting = {} THEN now ELSE With(now, o, set)
           t == LoadNode(s, node)
<1>1. /\ s \in [alive : UNION {[D -> Settings] : D \in SUBSET ObjectIds}, met : SUBSET ObjectIds,
                pointers : Seq(ObjectIds), crashed : BOOLEAN]
      /\ IsFiniteSet(DOMAIN s.alive)
  BY DEF LoadStates
<1>2. CASE s.crashed
  BY <1>2 DEF LoadNode
<1>3. CASE ~s.crashed /\ o = Null
  <2>1. t = [s EXCEPT !.crashed = TRUE]
    BY <1>3 DEF LoadNode, Target
  <2>2. t \in LoadStates
    BY <1>1, <2>1 DEF LoadStates
  <2> QED BY <1>1, <1>3, <2>1, <2>2
<1>4. CASE ~s.crashed /\ o # Null
  <2>1. /\ s.alive \in [DOMAIN s.alive -> Settings] /\ DOMAIN s.alive \subseteq ObjectIds
        /\ s.met \subseteq ObjectIds /\ s.pointers \in Seq(ObjectIds)
    BY <1>1
  <2>2. /\ o \in ObjectIds /\ (found # Null <=> o \in DOMAIN s.alive)
    BY <1>4, TargetIs
  <2>3. t = [s EXCEPT !.alive = later, !.met = s.met \cup {o}, !.pointers = Append(s.pointers, o)]
    BY <1>4 DEF LoadNode, Target
  <2>4. /\ DOMAIN now = DOMAIN s.alive \cup {o} /\ now \in [DOMAIN now -> Settings]
        /\ \A x \in DOMAIN s.alive : now[x] = s.alive[x]
        /\ IsFiniteSet(DOMAIN now)
    <3>1. CASE found # Null
      BY <1>1, <2>1, <2>2, <3>1
    <3>2. CASE found = Null
      <4>1. now = With(s.alive, o, First)
        BY <3>2
      <4>2. \A x \in DOMAIN s.alive : x # o
        BY <2>2, <3>2
      <4> HIDE DEF o, now
      <4>3. /\ DOMAIN With(s.alive, o, First) = DOMAIN s.alive \cup {o}
            /\ With(s.alive, o, First) \in [DOMAIN s.alive \cup {o} -> Settings]
            /\ \A x \in DOMAIN s.alive : x # o => With(s.alive, o, First)[x] = s.alive[x]
            /\ IsFiniteSet(DOMAIN s.alive \cup {o})
        <5>1. /\ DOMAIN With(s.alive, o, First) = DOMAIN s.alive \cup {o}
              /\ With(s.alive, o, First) \in [DOMAIN s.alive \cup {o} -> Settings]
              /\ IsFiniteSet(DOMAIN s.alive \cup {o})
          <6>1. s.alive \in [DOMAIN s.alive -> Settings] /\ IsFiniteSet(DOMAIN s.alive)
            BY <1>1, <2>1
          <6>2. First \in Settings
            BY FirstIsSetting
          <6>3. PICK d : d = DOMAIN s.alive
            OBVIOUS
          <6>4. s.alive \in [d -> Settings] /\ IsFiniteSet(d)
            BY <6>1, <6>3
          <6>5. PICK w : w = With(s.alive, o, First)
            OBVIOUS
          <6>6. DOMAIN w = d \cup {o} /\ w \in [d \cup {o} -> Settings] /\ IsFiniteSet(d \cup {o})
            <7>1. w = [x \in d \cup {o} |-> IF x = o THEN First ELSE s.alive[x]]
              BY <6>3, <6>5 DEF With
            <7>2. IsFiniteSet(d \cup {o})
              BY <6>4, FS_AddElement
            <7> QED BY <6>2, <6>4, <7>1, <7>2
          <6> QED BY <6>3, <6>5, <6>6
        <5>2. \A x \in DOMAIN s.alive : x # o => With(s.alive, o, First)[x] = s.alive[x]
          BY DEF With
        <5> QED BY <5>1, <5>2
      <4> QED BY <4>1, <4>2, <4>3
    <3> QED BY <3>1, <3>2
  <2> HIDE DEF now
  <2>5. node.setting # {} => set \in node.setting /\ set \in Settings
    OBVIOUS
  <2> HIDE DEF set
  <2>6. /\ DOMAIN later = DOMAIN s.alive \cup {o} /\ later \in [DOMAIN later -> Settings]
        /\ IsFiniteSet(DOMAIN later)
        /\ \A x \in DOMAIN s.alive : x # o \/ o \in s.met => later[x] = s.alive[x]
        /\ o \notin s.met /\ node.setting # {} => later[o] \in node.setting
    <3>1. CASE o \in s.met \/ node.setting = {}
      <4>1. later = now
        BY <3>1
      <4> QED BY <2>4, <3>1, <4>1
    <3>2. CASE ~(o \in s.met \/ node.setting = {})
      <4>1. later = With(now, o, set)
        BY <3>2
      <4>2. /\ DOMAIN later = DOMAIN now \cup {o} /\ later \in [DOMAIN now \cup {o} -> Settings]
            /\ later[o] = set /\ \A x \in DOMAIN now : x # o => later[x] = now[x]
            /\ IsFiniteSet(DOMAIN now \cup {o})
        <5> HIDE DEF o, later
        <5>1. set \in Settings /\ now \in [DOMAIN now -> Settings] /\ IsFiniteSet(DOMAIN now)
          BY <2>4, <2>5, <3>2
        <5>2. /\ DOMAIN later = DOMAIN now \cup {o} /\ later \in [DOMAIN now \cup {o} -> Settings]
              /\ later[o] = set /\ IsFiniteSet(DOMAIN now \cup {o})
          BY <4>1, <5>1, FS_AddElement DEF With
        <5>3. \A x \in DOMAIN now : x # o => later[x] = now[x]
          BY <4>1 DEF With
        <5> QED BY <5>2, <5>3
      <4> QED BY <2>4, <2>5, <3>2, <4>2
    <3> QED BY <3>1, <3>2
  <2> HIDE DEF later
  <2>7. /\ t.alive = later /\ t.met = s.met \cup {o} /\ t.pointers = Append(s.pointers, o)
        /\ t.crashed = s.crashed
        /\ t \in [alive : UNION {[D -> Settings] : D \in SUBSET ObjectIds}, met : SUBSET ObjectIds,
                 pointers : Seq(ObjectIds), crashed : BOOLEAN]
    <3>1. later \in UNION {[D -> Settings] : D \in SUBSET ObjectIds}
      <4>1. DOMAIN later \in SUBSET ObjectIds
        BY <2>1, <2>2, <2>6
      <4> QED BY <2>6, <4>1
    <3>2. Append(s.pointers, o) \in Seq(ObjectIds) /\ s.met \cup {o} \in SUBSET ObjectIds
      BY <2>1, <2>2
    <3> QED BY <1>1, <2>3, <3>1, <3>2
  <2>8. t \in LoadStates
    BY <2>6, <2>7 DEF LoadStates
  <2> HIDE DEF o, t, found
  <2>9. /\ ~t.crashed /\ t.pointers = Append(s.pointers, o) /\ t.met = s.met \cup {o}
        /\ DOMAIN t.alive = DOMAIN s.alive \cup {o}
        /\ \A x \in DOMAIN s.alive : x # o \/ o \in s.met => t.alive[x] = s.alive[x]
        /\ o \notin s.met /\ node.setting # {} => t.alive[o] \in node.setting
    BY <1>4, <2>6, <2>7
  <2> QED BY <1>4, <2>8, <2>9 DEF o, t
<1> QED BY <1>2, <1>3, <1>4

(* All nodes, one after the other.                                         *)
LoadStays(S, nodes, n) == \A s \in S, i \in 1..n : LoadNode(s, nodes[i]) \in S
LoadWalk(w, base, nodes, n) ==
  /\ w[0] = base /\ \A k \in 1..n : w[k] = LoadNode(w[k - 1], nodes[k])
  /\ LoadAll(base, nodes) = w[n]

LEMMA LoadRuns ==
  ASSUME NEW n \in Nat, NEW nodes, DOMAIN nodes = 1..n,
         NEW S, NEW base \in S, LoadStays(S, nodes, n)
  PROVE  \E w : LoadWalk(w, base, nodes, n) /\ \A k \in 0..n : w[k] \in S
<1> DEFINE step == [p \in S \X (1..n) |-> LoadNode(p[1], nodes[p[2]])]
           Eq(f) == f = [s \in SUBSET (1..n) |-> IF s = {} THEN base
                                                ELSE LoadNode(f[s \ {Max(s)}], nodes[Max(s)])]
           iter == CHOOSE f : Eq(f)
           w == [k \in 0..n |-> iter[1..k]]
<1>1. LoadAll(base, nodes) = iter[1..n]
  BY DEF LoadAll, FoldLeft, MapThenFoldSet
<1>2. step \in [S \X (1..n) -> S]
  BY DEF LoadStays
<1>3. PICK f : Folds(f, n, S, base, step)
  BY <1>2, FoldExists
<1>4. Eq(f)
  <2>1. /\ f \in [SUBSET (1..n) -> S]
        /\ \A s \in SUBSET (1..n) : f[s] = IF s = {} THEN base ELSE step[<<f[s \ {Max(s)}], Max(s)>>]
    BY <1>3 DEF Folds
  <2>2. ASSUME NEW s \in SUBSET (1..n), s # {}
        PROVE  f[s] = LoadNode(f[s \ {Max(s)}], nodes[Max(s)])
    <3>1. Max(s) \in 1..n /\ s \ {Max(s)} \in SUBSET (1..n)
      BY <2>2, MaxIn
    <3>2. <<f[s \ {Max(s)}], Max(s)>> \in S \X (1..n)
      BY <2>1, <3>1
    <3> QED BY <2>1, <2>2, <3>2
  <2> QED BY <2>1, <2>2
<1> HIDE DEF step
<1>5. Eq(iter)
  BY <1>4
<1> HIDE DEF iter
<1>6. w[0] = base
  <2>1. 1..0 = {} /\ 0 \in 0..n /\ {} \in SUBSET (1..n)
    OBVIOUS
  <2> QED BY <1>5, <2>1
<1>7. ASSUME NEW k \in 1..n PROVE w[k] = LoadNode(w[k - 1], nodes[k])
  <2>1. Max(1..k) = k /\ (1..k) \ {k} = 1..k - 1 /\ 1..k \in SUBSET (1..n) /\ 1..k # {}
    BY MaxOfPrefix
  <2>2. k \in 0..n /\ k - 1 \in 0..n
    OBVIOUS
  <2> QED BY <1>5, <2>1, <2>2
<1>8. w[n] = iter[1..n]
  OBVIOUS
<1> HIDE DEF w
<1>9. LoadWalk(w, base, nodes, n)
  BY <1>1, <1>6, <1>7, <1>8 DEF LoadWalk
<1> DEFINE Good == {k \in 0..n : w[k] \in S}
<1>10. 0 \in Good
  BY <1>6
<1>11. ASSUME NEW k \in 1..n, k - 1 \in Good PROVE k \in Good
  BY <1>7, <1>11 DEF LoadStays
<1>12. 0..n \subseteq Good
  <2> HIDE DEF Good
  <2> QED BY <1>10, <1>11, UpTo
<1> QED BY <1>9, <1>12

Start == [alive |-> alive, met |-> {}, pointers |-> <<>>, crashed |-> crashed]

LEMMA LoadWalks ==
  ASSUME StoreInv
  PROVE  \E w : LoadWalk(w, Start, file, Len(file)) /\ \A k \in 0..Len(file) : w[k] \in LoadStates
<1>1. Catalogue /\ Living /\ Written /\ crashed \in BOOLEAN
  BY DEF StoreInv, Loaded
<1>2. Len(file) \in Nat /\ DOMAIN file = 1..Len(file)
      /\ \A i \in 1..Len(file) : file[i].setting \subseteq Settings
  BY <1>1 DEF Written
<1>3. Start \in LoadStates
  <2>1. alive \in UNION {[D -> Settings] : D \in SUBSET ObjectIds} /\ IsFiniteSet(DOMAIN alive)
    BY <1>1 DEF Living
  <2> QED BY <1>1, <2>1 DEF Start, LoadStates
<1>4. LoadStays(LoadStates, file, Len(file))
  BY <1>1, <1>2, OneNode DEF LoadStays
<1> QED BY <1>2, <1>3, <1>4, LoadRuns

(* What has been loaded after k nodes: objects of the types that were      *)
(* saved, with numbers within the bound, and a pointer for each node.      *)
AfterNodes(s, k) ==
  /\ \A o \in DOMAIN s.alive : o[2] \in 0..MaxObjects /\ Known(o[1])
  /\ Cardinality(DOMAIN s.alive) <= Cardinality(DOMAIN alive) + k
  /\ Len(s.pointers) <= k /\ (~s.crashed => Len(s.pointers) = k)
  /\ \A i \in 1..Len(s.pointers) :
       s.pointers[i] \in DOMAIN s.alive /\ s.pointers[i][1] = file[i].at[1]

LEMMA NodeAdds ==
  ASSUME StoreInv, Cardinality(DOMAIN alive) + Len(file) <= MaxObjects + 1,
         NEW k \in 1..Len(file), NEW s \in LoadStates, AfterNodes(s, k - 1)
  PROVE  AfterNodes(LoadNode(s, file[k]), k)
<1> DEFINE node == file[k]
           t == LoadNode(s, node)
           o == Target(s, node)
           c == Cardinality(DOMAIN alive)
<1>1. /\ Catalogue /\ Len(file) \in Nat /\ node.setting \subseteq Settings
      /\ IsFiniteSet(DOMAIN alive)
  BY DEF StoreInv, Written, Living
<1>2. /\ MaxObjects \in Nat /\ k \in Nat /\ k - 1 \in Nat /\ c \in Nat
      /\ IsFiniteSet(DOMAIN s.alive) /\ s.pointers \in Seq(ObjectIds) /\ Len(s.pointers) \in Nat
      /\ s.crashed \in BOOLEAN
  BY <1>1, StoreAssumption, FS_CardinalityType DEF LoadStates
<1>3. /\ s.crashed => t = s
      /\ ~s.crashed /\ o = Null => t.crashed /\ t.alive = s.alive /\ t.pointers = s.pointers
      /\ ~s.crashed /\ o # Null =>
           /\ ~t.crashed /\ t.pointers = Append(s.pointers, o)
           /\ DOMAIN t.alive = DOMAIN s.alive \cup {o}
  BY <1>1, OneNode
<1>4. o # Null => /\ o \in ObjectIds /\ o[1] = node.at[1] /\ Known(o[1])
                  /\ o \in DOMAIN s.alive \/ o[2] \in 0..Cardinality(DOMAIN s.alive)
  BY <1>1, TargetIs
<1> HIDE DEF o, t
<1>5. Cardinality(DOMAIN s.alive) \in Nat /\ Cardinality(DOMAIN s.alive) <= c + (k - 1)
      /\ Len(s.pointers) <= k - 1
  BY <1>2, FS_CardinalityType DEF AfterNodes
<1>6. CASE s.crashed \/ o = Null
  <2>1. t.alive = s.alive /\ t.pointers = s.pointers /\ t.crashed
    BY <1>2, <1>3, <1>6
  <2> QED BY <1>2, <1>5, <2>1 DEF AfterNodes, t
<1>7. CASE ~s.crashed /\ o # Null
  <2>1. /\ ~t.crashed /\ t.pointers = Append(s.pointers, o)
        /\ DOMAIN t.alive = DOMAIN s.alive \cup {o}
    BY <1>3, <1>7
  <2>2. Cardinality(DOMAIN s.alive) <= MaxObjects
    BY <1>1, <1>2, <1>5
  <2>3. o[2] \in 0..MaxObjects /\ Known(o[1])
    BY <1>2, <1>4, <1>5, <1>7, <2>2 DEF AfterNodes
  <2>4. \A x \in DOMAIN t.alive : x[2] \in 0..MaxObjects /\ Known(x[1])
    BY <2>1, <2>3 DEF AfterNodes
  <2>5. Cardinality(DOMAIN t.alive) <= c + k
    <3>1. Cardinality(DOMAIN t.alive) =
            IF o \in DOMAIN s.alive THEN Cardinality(DOMAIN s.alive)
            ELSE Cardinality(DOMAIN s.alive) + 1
      BY <1>2, <2>1, FS_AddElement
    <3> QED BY <1>2, <1>5, <3>1
  <2>6. Len(s.pointers) = k - 1
    BY <1>7 DEF AfterNodes
  <2>7. /\ Len(t.pointers) = k /\ t.pointers[k] = o
        /\ \A i \in 1..(k - 1) : t.pointers[i] = s.pointers[i]
    BY <1>2, <1>4, <1>7, <2>1, <2>6, AppendProperties
  <2>8. \A i \in 1..k : t.pointers[i] \in DOMAIN t.alive /\ t.pointers[i][1] = file[i].at[1]
    <3> SUFFICES ASSUME NEW i \in 1..k
                 PROVE  t.pointers[i] \in DOMAIN t.alive /\ t.pointers[i][1] = file[i].at[1]
      OBVIOUS
    <3>1. CASE i = k
      BY <1>4, <1>7, <2>1, <2>7, <3>1
    <3>2. CASE i \in 1..(k - 1)
      BY <2>1, <2>6, <2>7, <3>2 DEF AfterNodes
    <3> QED BY <1>2, <3>1, <3>2
  <2>9. Len(t.pointers) <= k /\ (~t.crashed => Len(t.pointers) = k)
    BY <1>2, <2>7
  <2>10. \A i \in 1..Len(t.pointers) : t.pointers[i] \in DOMAIN t.alive /\ t.pointers[i][1] = file[i].at[1]
    BY <2>7, <2>8
  <2>11. AfterNodes(t, k)
    BY <2>4, <2>5, <2>9, <2>10 DEF AfterNodes
  <2> QED BY <2>11 DEF t
<1> QED BY <1>6, <1>7

LEMMA LoadKeeps == StoreInv /\ ~crashed /\ LoadPointers => StoreInv'
<1> SUFFICES ASSUME StoreInv, ~crashed, LoadPointers PROVE StoreInv'
  OBVIOUS
<1>1. Catalogue /\ Living /\ Written /\ Loaded /\ StoreTypeOK /\ KeepsTypes
  BY DEF StoreInv, StoreSound
<1>2. /\ Len(file) \in Nat /\ DOMAIN file = 1..Len(file)
      /\ Cardinality(DOMAIN alive) + Len(file) <= MaxObjects + 1
  BY <1>1 DEF Written, LoadPointers
<1>3. PICK w : LoadWalk(w, Start, file, Len(file)) /\ \A k \in 0..Len(file) : w[k] \in LoadStates
  BY LoadWalks
<1> DEFINE end == w[Len(file)]
<1>4. /\ alive' = end.alive /\ pointers' = end.pointers /\ crashed' = end.crashed
      /\ UNCHANGED <<constructors, plugins, format, file>>
  BY <1>3 DEF LoadPointers, LoadWalk, Start
<1> DEFINE Good == {k \in 0..Len(file) : AfterNodes(w[k], k)}
<1>5. 0 \in Good
  <2>1. w[0] = Start
    BY <1>3 DEF LoadWalk
  <2>2. \A o \in DOMAIN alive : o[2] \in 0..MaxObjects /\ Known(o[1])
    BY <1>1 DEF Living, StoreTypeOK
  <2>3. Cardinality(DOMAIN alive) \in Nat
    BY <1>1, FS_CardinalityType DEF Living
  <2>4. AfterNodes(Start, 0)
    BY <2>2, <2>3 DEF AfterNodes, Start
  <2> QED BY <1>2, <2>1, <2>4
<1>6. ASSUME NEW k \in 1..Len(file), k - 1 \in Good PROVE k \in Good
  <2>1. w[k] = LoadNode(w[k - 1], file[k]) /\ w[k - 1] \in LoadStates
    BY <1>2, <1>3 DEF LoadWalk
  <2>2. AfterNodes(w[k - 1], k - 1)
    BY <1>6
  <2> QED BY <1>2, <2>1, <2>2, NodeAdds
<1>7. end \in LoadStates /\ AfterNodes(end, Len(file))
  <2>1. Len(file) \in 0..Len(file)
    BY <1>2
  <2>2. 0..Len(file) \subseteq Good
    <3> HIDE DEF Good
    <3> QED BY <1>2, <1>5, <1>6, UpTo
  <2> QED BY <1>3, <2>1, <2>2
<1> HIDE DEF end
<1>8. /\ IsFiniteSet(DOMAIN alive') /\ DOMAIN alive' \subseteq ObjectIds
      /\ alive' \in [DOMAIN alive' -> Settings] /\ pointers' \in Seq(ObjectIds)
      /\ crashed' \in BOOLEAN
  BY <1>4, <1>7 DEF LoadStates
<1>9. /\ \A o \in DOMAIN alive' : o[2] \in 0..MaxObjects /\ Known(o[1])
      /\ Len(pointers') <= Len(file)
      /\ \A i \in 1..Len(pointers') :
           pointers'[i] \in DOMAIN alive' /\ pointers'[i][1] = file[i].at[1]
  BY <1>4, <1>7 DEF AfterNodes
<1>10. Living'
  BY <1>4, <1>8, <1>9 DEF Living, Known
<1>11. StoreTypeOK'
  <2>1. DOMAIN pointers' = 1..Len(pointers')
    BY <1>8, LenProperties
  <2>2. Range(pointers') \subseteq DOMAIN alive'
    BY <1>9, <2>1 DEF Range
  <2>3. \A o \in DOMAIN alive' : o[1] \in Types \ Plain /\ alive'[o] \in Settings
    BY <1>8 DEF ObjectIds
  <2> QED BY <1>1, <1>4, <1>8, <1>9, <2>2, <2>3 DEF StoreTypeOK
<1>12. KeepsTypes'
  <2>1. DOMAIN pointers' = 1..Len(pointers')
    BY <1>8, LenProperties
  <2> QED BY <1>4, <1>9, <2>1 DEF KeepsTypes
<1>13. Catalogue' /\ Written' /\ Loaded'
  BY <1>1, <1>4, <1>8 DEF Catalogue, Written, Loaded
<1> QED BY <1>10, <1>11, <1>12, <1>13 DEF StoreInv, StoreSound
(* The constructors of a plugin are registered one after the other.        *)
RegisterStays(S, types, n) == \A s \in S, i \in 1..n : Registered(s, types[i]) \in S
RegisterWalk(w, base, types, n) ==
  /\ w[0] = base /\ \A k \in 1..n : w[k] = Registered(w[k - 1], types[k])
  /\ RegisterAll(base, types) = w[n]

LEMMA RegisterRuns ==
  ASSUME NEW n \in Nat, NEW types, DOMAIN types = 1..n,
         NEW S, NEW base \in S, RegisterStays(S, types, n)
  PROVE  \E w : RegisterWalk(w, base, types, n) /\ \A k \in 0..n : w[k] \in S
<1> DEFINE step == [p \in S \X (1..n) |-> Registered(p[1], types[p[2]])]
           Eq(f) == f = [s \in SUBSET (1..n) |-> IF s = {} THEN base
                                                ELSE Registered(f[s \ {Max(s)}], types[Max(s)])]
           iter == CHOOSE f : Eq(f)
           w == [k \in 0..n |-> iter[1..k]]
<1>1. RegisterAll(base, types) = iter[1..n]
  BY DEF RegisterAll, FoldLeft, MapThenFoldSet
<1>2. step \in [S \X (1..n) -> S]
  BY DEF RegisterStays
<1>3. PICK f : Folds(f, n, S, base, step)
  BY <1>2, FoldExists
<1>4. Eq(f)
  <2>1. /\ f \in [SUBSET (1..n) -> S]
        /\ \A s \in SUBSET (1..n) : f[s] = IF s = {} THEN base ELSE step[<<f[s \ {Max(s)}], Max(s)>>]
    BY <1>3 DEF Folds
  <2>2. ASSUME NEW s \in SUBSET (1..n), s # {}
        PROVE  f[s] = Registered(f[s \ {Max(s)}], types[Max(s)])
    <3>1. Max(s) \in 1..n /\ s \ {Max(s)} \in SUBSET (1..n)
      BY <2>2, MaxIn
    <3>2. <<f[s \ {Max(s)}], Max(s)>> \in S \X (1..n)
      BY <2>1, <3>1
    <3> QED BY <2>1, <2>2, <3>2
  <2> QED BY <2>1, <2>2
<1> HIDE DEF step
<1>5. Eq(iter)
  BY <1>4
<1> HIDE DEF iter
<1>6. w[0] = base
  <2>1. 1..0 = {} /\ 0 \in 0..n /\ {} \in SUBSET (1..n)
    OBVIOUS
  <2> QED BY <1>5, <2>1
<1>7. ASSUME NEW k \in 1..n PROVE w[k] = Registered(w[k - 1], types[k])
  <2>1. Max(1..k) = k /\ (1..k) \ {k} = 1..k - 1 /\ 1..k \in SUBSET (1..n) /\ 1..k # {}
    BY MaxOfPrefix
  <2>2. k \in 0..n /\ k - 1 \in 0..n
    OBVIOUS
  <2> QED BY <1>5, <2>1, <2>2
<1>8. w[n] = iter[1..n]
  OBVIOUS
<1> HIDE DEF w
<1>9. RegisterWalk(w, base, types, n)
  BY <1>1, <1>6, <1>7, <1>8 DEF RegisterWalk
<1> DEFINE Good == {k \in 0..n : w[k] \in S}
<1>10. 0 \in Good
  BY <1>6
<1>11. ASSUME NEW k \in 1..n, k - 1 \in Good PROVE k \in Good
  BY <1>7, <1>11 DEF RegisterStays
<1>12. 0..n \subseteq Good
  <2> HIDE DEF Good
  <2> QED BY <1>10, <1>11, UpTo
<1> QED BY <1>9, <1>12


LEMMA LoadPluginKeeps ==
  ASSUME StoreInv, NEW p \in DOMAIN PluginTypes, LoadPlugin(p)
  PROVE  StoreInv'
<1>1. Catalogue /\ Living /\ Written /\ Loaded /\ StoreTypeOK /\ KeepsTypes
  BY DEF StoreInv, StoreSound
<1>2. UNCHANGED <<alive, format, file, pointers, crashed>>
  BY DEF LoadPlugin
<1> DEFINE S == {cs \in Seq(Types) : IsInjective(cs) /\ Range(constructors) \subseteq Range(cs)}
           types == PluginTypes[p]
<1>3. constructors \in S
  BY <1>1 DEF Catalogue, StoreTypeOK
<1>4. types \in Seq(Types) /\ Len(types) \in Nat /\ DOMAIN types = 1..Len(types)
  BY StoreAssumption DEF Types
<1>5. ASSUME NEW cs \in S, NEW t \in Types PROVE Registered(cs, t) \in S
  <2>1. CASE t \in Range(cs)
    BY <2>1 DEF Registered
  <2>2. CASE t \notin Range(cs)
    <3> DEFINE q == Append(cs, t)
    <3>1. Registered(cs, t) = q
      BY <2>2 DEF Registered
    <3>2. /\ q \in Seq(Types) /\ Len(cs) \in Nat /\ DOMAIN cs = 1..Len(cs) /\ DOMAIN q = 1..(Len(cs) + 1)
          /\ q[Len(cs) + 1] = t /\ \A i \in 1..Len(cs) : q[i] = cs[i]
      OBVIOUS
    <3> HIDE DEF q
    <3>3. \A i \in DOMAIN q : (i \in DOMAIN cs /\ q[i] = cs[i]) \/ (i = Len(cs) + 1 /\ q[i] = t)
      BY <3>2
    <3>4. IsInjective(q)
      BY <2>2, <3>2, <3>3 DEF IsInjective, Range
    <3>5. Range(cs) \subseteq Range(q)
      BY <3>2 DEF Range
    <3> QED BY <3>1, <3>2, <3>4, <3>5
  <2> QED BY <2>1, <2>2
<1>6. constructors' \in S
  <2>1. CASE types = <<>>
    BY <1>3, <2>1 DEF LoadPlugin
  <2>2. CASE types # <<>>
    <3>1. constructors' = RegisterAll(constructors, types)
      BY <2>2 DEF LoadPlugin
    <3>2. \A i \in 1..Len(types) : types[i] \in Types
      BY <1>4
    <3> HIDE DEF S, types
    <3>3. RegisterStays(S, types, Len(types))
      BY <1>5, <3>2 DEF RegisterStays
    <3>4. PICK w : RegisterWalk(w, constructors, types, Len(types)) /\ \A k \in 0..Len(types) : w[k] \in S
      BY <1>3, <1>4, <3>3, RegisterRuns
    <3> QED BY <1>4, <3>1, <3>4 DEF RegisterWalk
  <2> QED BY <2>1, <2>2
<1>7. /\ constructors' \in Seq(Types) /\ IsInjective(constructors')
      /\ Range(constructors) \subseteq Range(constructors')
  BY <1>6
<1>8. \A t : Known(t) => Known(t)'
  BY <1>7 DEF Known
<1>9. Range(constructors') \subseteq Types
  BY <1>7, RangeOfSeq
<1>10. StoreTypeOK'
  BY <1>1, <1>2, <1>7, <1>9 DEF StoreTypeOK
<1>11. Catalogue' /\ Living' /\ Written' /\ Loaded' /\ KeepsTypes'
  BY <1>1, <1>2, <1>7, <1>8 DEF Catalogue, Living, Written, Loaded, KeepsTypes
<1> QED BY <1>10, <1>11 DEF StoreInv, StoreSound

(* A step that does nothing but to the objects.                            *)
LEMMA AliveChanges ==
  ASSUME StoreInv, UNCHANGED <<constructors, format, file, pointers>>,
         crashed' \in BOOLEAN, ~crashed' => ~crashed,
         IsFiniteSet(DOMAIN alive'), DOMAIN alive' \subseteq ObjectIds,
         alive' \in [DOMAIN alive' -> Settings],
         \A o \in DOMAIN alive' : Known(o[1]) /\ o[2] \in 0..MaxObjects,
         ~crashed => \A o \in DOMAIN alive : o \in Range(pointers) => o \in DOMAIN alive'
  PROVE  StoreInv'
<1>1. Catalogue /\ Living /\ Written /\ Loaded /\ StoreTypeOK /\ KeepsTypes
  BY DEF StoreInv, StoreSound
<1>2. Living'
  BY DEF Living, Known
<1>3. StoreTypeOK'
  <2>1. \A o \in DOMAIN alive' : o[1] \in Types \ Plain /\ alive'[o] \in Settings
    BY DEF ObjectIds
  <2> QED BY <1>1, <2>1 DEF StoreTypeOK
<1>4. Catalogue' /\ Written' /\ Loaded' /\ KeepsTypes'
  BY <1>1 DEF Catalogue, Written, Loaded, KeepsTypes
<1> QED BY <1>2, <1>3, <1>4 DEF StoreInv, StoreSound

LEMMA ObjectsKnown ==
  ASSUME StoreInv
  PROVE  /\ IsFiniteSet(DOMAIN alive) /\ DOMAIN alive \subseteq ObjectIds
         /\ alive \in [DOMAIN alive -> Settings] /\ crashed \in BOOLEAN /\ Catalogue
         /\ \A o \in DOMAIN alive : Known(o[1]) /\ o[2] \in 0..MaxObjects
         /\ Cardinality(DOMAIN alive) \in Nat
<1>1. Catalogue /\ Living /\ Loaded /\ StoreTypeOK
  BY DEF StoreInv, StoreSound
<1>2. Cardinality(DOMAIN alive) \in Nat
  BY <1>1, FS_CardinalityType DEF Living
<1> QED BY <1>1, <1>2 DEF Living, Loaded, StoreTypeOK

(* An object that is new, or gets other parameters.                        *)
LEMMA WithKeeps ==
  ASSUME StoreInv, UNCHANGED <<constructors, format, file, pointers>>,
         crashed' \in BOOLEAN, ~crashed' => ~crashed,
         NEW o \in ObjectIds, Known(o[1]), o[2] \in 0..MaxObjects,
         DOMAIN alive' = DOMAIN alive \cup {o}, alive' \in [DOMAIN alive \cup {o} -> Settings]
  PROVE  StoreInv'
<1>1. IsFiniteSet(DOMAIN alive')
  BY ObjectsKnown, FS_AddElement
<1>2. DOMAIN alive' \subseteq ObjectIds /\ alive' \in [DOMAIN alive' -> Settings]
  BY ObjectsKnown
<1>3. \A x \in DOMAIN alive' : Known(x[1]) /\ x[2] \in 0..MaxObjects
  BY ObjectsKnown
<1> QED BY <1>1, <1>2, <1>3, AliveChanges

LEMMA CreateKeeps ==
  ASSUME StoreInv, NEW type, NEW interface, CreateObject(type, interface)
  PROVE  StoreInv'
<1>1. UNCHANGED <<constructors, plugins, format, file, pointers, crashed>> /\ MaxObjects \in Nat
      /\ Cardinality(DOMAIN alive) < MaxObjects
  BY StoreAssumption DEF CreateObject
<1> DEFINE o == Made(alive, type)
<1>2. CASE alive' = alive
  BY <1>1, <1>2, ObjectsKnown, AliveChanges
<1>3. CASE o # Null /\ alive' = With(alive, o, First)
  <2>1. /\ o \in ObjectIds /\ Known(o[1]) /\ o[2] \in 0..Cardinality(DOMAIN alive)
    BY <1>3, ObjectsKnown, MadeIsNew
  <2>2. o[2] \in 0..MaxObjects
    BY <1>1, <2>1, ObjectsKnown
  <2> HIDE DEF o
  <2>3. DOMAIN alive' = DOMAIN alive \cup {o} /\ alive' \in [DOMAIN alive \cup {o} -> Settings]
    BY <1>3, ObjectsKnown, FirstIsSetting DEF With
  <2> QED BY <1>1, <2>1, <2>2, <2>3, ObjectsKnown, WithKeeps
<1> QED BY <1>2, <1>3 DEF CreateObject

LEMMA ObjectKeeps ==
  ASSUME StoreInv, ~crashed, NEW o \in DOMAIN alive,
         \/ \E s \in Settings : AssignParameters(o, s)
         \/ Release(o) \/ ReadOnto(o)
  PROVE  StoreInv'
<1>1. UNCHANGED <<constructors, plugins, format, file, pointers, crashed>>
  BY DEF AssignParameters, Release, ReadOnto
<1>2. o \in ObjectIds /\ Known(o[1]) /\ o[2] \in 0..MaxObjects /\ DOMAIN alive = DOMAIN alive \cup {o}
  BY ObjectsKnown
<1>3. ASSUME NEW s \in Settings, AssignParameters(o, s) PROVE StoreInv'
  <2>1. DOMAIN alive' = DOMAIN alive /\ alive' \in [DOMAIN alive -> Settings]
    BY <1>3, ObjectsKnown DEF AssignParameters
  <2> QED BY <1>1, <1>2, <2>1, ObjectsKnown, AliveChanges
<1>4. CASE Release(o)
  <2>1. alive' = [x \in DOMAIN alive \ {o} |-> alive[x]] /\ o \notin Range(pointers)
    BY <1>4 DEF Release, Restrict
  <2>2. IsFiniteSet(DOMAIN alive')
    BY <2>1, ObjectsKnown, FS_RemoveElement
  <2>3. DOMAIN alive' \subseteq ObjectIds /\ alive' \in [DOMAIN alive' -> Settings]
    BY <2>1, ObjectsKnown
  <2> QED BY <1>1, <2>1, <2>2, <2>3, ObjectsKnown, AliveChanges
<1>5. CASE ReadOnto(o)
  <2>1. 1 \in DOMAIN file /\ file[1].setting \subseteq Settings
    BY <1>5 DEF ReadOnto, StoreInv, Written
  <2>2. CASE alive' = alive
    BY <1>1, <2>2, ObjectsKnown, AliveChanges
  <2>3. CASE file[1].setting # {} /\ alive' = With(alive, o, CHOOSE s \in file[1].setting : TRUE)
    <3>1. DOMAIN alive' = DOMAIN alive /\ alive' \in [DOMAIN alive -> Settings]
      BY <1>2, <2>1, <2>3, ObjectsKnown DEF With
    <3> QED BY <1>1, <1>2, <3>1, ObjectsKnown, AliveChanges
  <2> QED BY <1>5, <2>2, <2>3 DEF ReadOnto, ReadInto
<1> QED BY <1>3, <1>4, <1>5

LEMMA RestartKeeps == StoreInv /\ Restart => StoreInv'
<1> SUFFICES ASSUME StoreInv, Restart PROVE StoreInv'
  OBVIOUS
<1>1. /\ constructors' = <<>> /\ alive' = <<>> /\ pointers' = <<>> /\ crashed' = FALSE
      /\ UNCHANGED <<format, file>>
  BY DEF Restart
<1>2. DOMAIN <<>> = {} /\ Len(<<>>) = 0 /\ \A S : <<>> \in Seq(S)
  OBVIOUS
<1>3. <<>> \in [{} -> Settings] /\ Range(<<>>) = {} /\ IsInjective(<<>>)
  BY <1>2 DEF Range, IsInjective
<1>4. Written /\ StoreTypeOK
  BY DEF StoreInv, StoreSound
<1>5. 0 <= Len(file)
  BY <1>4 DEF Written
<1>6. StoreTypeOK'
  BY <1>1, <1>2, <1>3, <1>4, <1>5 DEF StoreTypeOK
<1>7. Living'
  BY <1>1, <1>2, <1>3, FS_EmptySet DEF Living
<1>8. Written'
  BY <1>1, <1>4 DEF Written
<1>9. Catalogue' /\ Loaded' /\ KeepsTypes'
  BY <1>1, <1>2 DEF Catalogue, Loaded, KeepsTypes
<1> QED BY <1>6, <1>7, <1>8, <1>9 DEF StoreInv, StoreSound

(* A file that is written, while nothing else changes.                     *)
LEMMA FileChanges ==
  ASSUME StoreInv, UNCHANGED <<constructors, alive, crashed>>, pointers' = <<>>,
         format' \in Formats, Written'
  PROVE  StoreInv'
<1>1. Catalogue /\ Living /\ Loaded /\ StoreTypeOK
  BY DEF StoreInv, StoreSound
<1>2. DOMAIN <<>> = {} /\ Len(<<>>) = 0 /\ Range(<<>>) = {} /\ \A S : <<>> \in Seq(S)
  BY DEF Range
<1>3. 0 <= Len(file')
  BY DEF Written
<1>4. StoreTypeOK'
  BY <1>1, <1>2, <1>3 DEF StoreTypeOK
<1>5. Living'
  BY <1>1 DEF Living, Known
<1>6. Catalogue' /\ Loaded' /\ KeepsTypes'
  BY <1>1, <1>2 DEF Catalogue, Loaded, KeepsTypes
<1> QED BY <1>4, <1>5, <1>6 DEF StoreInv, StoreSound

LEMMA WriteKeeps ==
  ASSUME StoreInv, NEW o \in DOMAIN alive, NEW form \in {"binary", "xml"}, WriteObject(o, form)
  PROVE  StoreInv'
<1> DEFINE node == [at |-> o, setting |-> IF o[1] \in Bare THEN {} ELSE {alive[o]}]
<1>1. /\ file' = <<node>> /\ format' = form /\ pointers' = <<>>
      /\ UNCHANGED <<constructors, alive, crashed>>
  BY DEF WriteObject
<1>2. node.setting \subseteq Settings
  BY ObjectsKnown
<1> HIDE DEF node
<1>3. Len(file') = 1 /\ DOMAIN file' = 1..1 /\ file'[1] = node
  BY <1>1
<1>4. Written'
  BY <1>1, <1>2, <1>3 DEF Written
<1> QED BY <1>1, <1>4, FileChanges DEF Formats

LEMMA SaveKeeps ==
  ASSUME StoreInv, NEW ps \in SeqOf(DOMAIN alive, 2), SavePointers(ps)
  PROVE  StoreInv'
<1>1. /\ file' = [i \in DOMAIN ps |-> NodeOf(ps, i)] /\ format' = "json" /\ pointers' = <<>>
      /\ UNCHANGED <<constructors, alive, crashed>>
  BY DEF SavePointers
<1>2. PICK m \in 0..2 : ps \in [1..m -> DOMAIN alive]
  BY DEF SeqOf
<1>3. /\ DOMAIN file' = 1..m /\ m \in Nat
      /\ \A i \in 1..m : file'[i] = NodeOf(ps, i)
  BY <1>1, <1>2
<1>4. Len(file') = m
  <2>1. file' \in [1..m -> {NodeOf(ps, i) : i \in 1..m}]
    BY <1>1, <1>2
  <2>2. file' \in Seq({NodeOf(ps, i) : i \in 1..m})
    BY <1>3, <2>1, SeqDef
  <2> QED BY <1>3, <2>2, LenProperties
<1>5. ASSUME NEW i \in 1..m
      PROVE  /\ file'[i].at = ps[i] /\ file'[i].setting \subseteq Settings
             /\ (\E j \in 1..(i - 1) : ps[j] = ps[i]) => file'[i].setting = {}
  <2>1. file'[i] = NodeOf(ps, i) /\ ps[i] \in DOMAIN alive
    BY <1>2, <1>3
  <2>2. alive[ps[i]] \in Settings
    BY <2>1, ObjectsKnown
  <2> QED BY <2>1, <2>2 DEF NodeOf
<1>6. ASSUME NEW i \in 1..m, NEW j \in 1..m, j < i, file'[j].at = file'[i].at
      PROVE  file'[i].setting = {}
  <2>1. j \in 1..(i - 1) /\ ps[j] = ps[i]
    BY <1>5, <1>6
  <2> QED BY <1>5, <2>1
<1>7. Written'
  BY <1>1, <1>3, <1>4, <1>5, <1>6 DEF Written
<1> QED BY <1>1, <1>7, FileChanges DEF Formats

LEMMA ReadNewKeeps == StoreInv /\ ~crashed /\ ReadNew => StoreInv'
<1> SUFFICES ASSUME StoreInv, ~crashed, ReadNew PROVE StoreInv'
  OBVIOUS
<1> DEFINE o == Made(alive, file[1].at[1])
           new == With(alive, o, First)
<1>1. /\ UNCHANGED <<constructors, plugins, format, file, pointers>>
      /\ format \in {"binary", "xml"} /\ Cardinality(DOMAIN alive) < MaxObjects
      /\ alive' = IF o = Null THEN alive ELSE ReadInto(new, o)
      /\ crashed' = (crashed \/ (o = Null /\ format = "binary"))
  BY DEF ReadNew
<1>2. crashed' \in BOOLEAN /\ (~crashed' => ~crashed)
  BY <1>1, ObjectsKnown
<1>3. 1 \in DOMAIN file /\ file[1].setting \subseteq Settings
  BY <1>1 DEF StoreInv, Written
<1>4. CASE o = Null
  BY <1>1, <1>2, <1>4, ObjectsKnown, AliveChanges
<1>5. CASE o # Null
  <2>1. /\ o \in ObjectIds /\ Known(o[1]) /\ o[2] \in 0..Cardinality(DOMAIN alive)
    BY <1>5, ObjectsKnown, MadeIsNew
  <2>2. o[2] \in 0..MaxObjects
    BY <1>1, <2>1, ObjectsKnown, StoreAssumption
  <2> HIDE DEF o
  <2>3. DOMAIN new = DOMAIN alive \cup {o} /\ new \in [DOMAIN alive \cup {o} -> Settings]
    BY ObjectsKnown, FirstIsSetting DEF With
  <2> HIDE DEF new
  <2>4. DOMAIN alive' = DOMAIN alive \cup {o} /\ alive' \in [DOMAIN alive \cup {o} -> Settings]
    <3>1. CASE alive' = new
      BY <2>3, <3>1
    <3>2. CASE file[1].setting # {} /\ alive' = With(new, o, CHOOSE s \in file[1].setting : TRUE)
      BY <1>3, <2>3, <3>2 DEF With
    <3> QED BY <1>1, <1>5, <3>1, <3>2 DEF ReadInto
  <2> QED BY <1>1, <1>2, <2>1, <2>2, <2>4, WithKeeps
<1> QED BY <1>4, <1>5

LEMMA StoreStep == StoreInv /\ [StoreNext]_storeVars => StoreInv'
<1> SUFFICES ASSUME StoreInv, [StoreNext]_storeVars PROVE StoreInv'
  OBVIOUS
<1>1. CASE UNCHANGED storeVars
  <2>1. UNCHANGED <<constructors, alive, format, file, pointers, crashed>>
    BY <1>1 DEF storeVars
  <2> QED BY <2>1 DEF StoreInv, StoreSound, StoreTypeOK, KeepsTypes, Catalogue, Living, Written,
                      Loaded, Known
<1>2. CASE Restart
  BY <1>2, RestartKeeps
<1>3. ASSUME ~crashed, NEW p \in DOMAIN PluginTypes, LoadPlugin(p) PROVE StoreInv'
  BY <1>3, LoadPluginKeeps
<1>4. ASSUME NEW t, NEW i, CreateObject(t, i) PROVE StoreInv'
  BY <1>4, CreateKeeps
<1>5. ASSUME ~crashed, NEW o \in DOMAIN alive,
             (\E s \in Settings : AssignParameters(o, s)) \/ Release(o) \/ ReadOnto(o)
      PROVE  StoreInv'
  BY <1>5, ObjectKeeps
<1>6. ASSUME NEW o \in DOMAIN alive, NEW f \in {"binary", "xml"}, WriteObject(o, f) PROVE StoreInv'
  BY <1>6, WriteKeeps
<1>7. ASSUME NEW ps \in SeqOf(DOMAIN alive, 2), SavePointers(ps) PROVE StoreInv'
  BY <1>7, SaveKeeps
<1>8. CASE ~crashed /\ ReadNew
  BY <1>8, ReadNewKeeps
<1>9. CASE ~crashed /\ LoadPointers
  BY <1>9, LoadKeeps
<1> QED BY <1>1, <1>2, <1>3, <1>4, <1>5, <1>6, <1>7, <1>8, <1>9 DEF StoreNext

(* A pointer that was loaded points to an object of the type that was      *)
(* saved, which is alive.                                                  *)
THEOREM StoreIsSound == StoreSpec => []StoreSound
<1>1. StoreInit => StoreInv
  BY InitStoreInv
<1>2. StoreInv /\ [StoreNext]_storeVars => StoreInv'
  BY StoreStep
<1>3. StoreInv => StoreSound
  BY DEF StoreInv
<1> QED BY <1>1, <1>2, <1>3, PTL DEF StoreSpec

(* What has been restored after k nodes when the objects still live.       *)
InPlace(s, k) ==
  /\ ~s.crashed /\ DOMAIN s.alive = DOMAIN alive
  /\ s.met = {file[i].at : i \in 1..k}
  /\ Len(s.pointers) = k /\ \A i \in 1..k : s.pointers[i] = file[i].at
  /\ \A i \in 1..k : file[i].setting # {} => s.alive[file[i].at] \in file[i].setting

StillLive == \A i \in DOMAIN file : file[i].at \in DOMAIN alive /\ file[i].ctor <= Len(constructors)

LEMMA NodeRestores ==
  ASSUME StoreInv, format = "json", StillLive, NEW k \in 1..Len(file), NEW s \in LoadStates, InPlace(s, k - 1)
  PROVE  InPlace(LoadNode(s, file[k]), k)
<1> DEFINE node == file[k]
           t == LoadNode(s, node)
           o == Target(s, node)
<1>1. /\ Catalogue /\ Len(file) \in Nat /\ DOMAIN file = 1..Len(file) /\ node.setting \subseteq Settings
      /\ \A i, j \in DOMAIN file : j < i /\ file[j].at = file[i].at => file[i].setting = {}
  BY DEF StoreInv, Written
<1>2. k \in Nat /\ k - 1 \in Nat /\ k - 1 < k /\ s.pointers \in Seq(ObjectIds)
  BY <1>1 DEF LoadStates
<1>3. node.at \in DOMAIN alive /\ Known(node.at[1]) /\ node.ctor <= Len(constructors) /\ node.at \in ObjectIds
  BY <1>1, ObjectsKnown DEF StillLive
<1>4. o = node.at /\ o # Null
  <2>1. Get(s.alive, node) = node.at
    BY <1>3 DEF Get, InPlace
  <2> QED BY <1>3, <2>1, NullIsNone DEF Target
<1>5. /\ ~t.crashed /\ t.pointers = Append(s.pointers, o) /\ t.met = s.met \cup {o}
      /\ DOMAIN t.alive = DOMAIN s.alive \cup {o}
      /\ \A x \in DOMAIN s.alive : x # o \/ o \in s.met => t.alive[x] = s.alive[x]
      /\ o \notin s.met /\ node.setting # {} => t.alive[o] \in node.setting
  BY <1>1, <1>4, OneNode DEF InPlace
<1> HIDE DEF o, t
<1>6. DOMAIN t.alive = DOMAIN alive
  BY <1>3, <1>4, <1>5 DEF InPlace
<1>7. t.met = {file[i].at : i \in 1..k}
  <2>1. 1..k = (1..(k - 1)) \cup {k}
    BY <1>2
  <2> QED BY <1>4, <1>5, <2>1 DEF InPlace
<1>8. /\ Len(t.pointers) = k /\ \A i \in 1..k : t.pointers[i] = file[i].at
  <2>1. /\ Len(t.pointers) = k /\ t.pointers[k] = o
        /\ \A i \in 1..(k - 1) : t.pointers[i] = s.pointers[i]
    <3>1. Len(s.pointers) = k - 1 /\ o \in ObjectIds
      BY <1>3, <1>4 DEF InPlace
    <3> QED BY <1>2, <1>5, <3>1, AppendProperties
  <2>2. \A i \in 1..k : i = k \/ i \in 1..(k - 1)
    BY <1>2
  <2> QED BY <1>4, <2>1, <2>2 DEF InPlace
<1>9. ASSUME NEW i \in 1..k, file[i].setting # {} PROVE t.alive[file[i].at] \in file[i].setting
  <2>1. CASE i = k
    <3>1. ASSUME o \in s.met PROVE FALSE
      <4>1. PICK j \in 1..(k - 1) : file[j].at = o
        BY <3>1 DEF InPlace
      <4>2. j < k /\ j \in DOMAIN file /\ k \in DOMAIN file
        BY <1>1, <1>2
      <4> QED BY <1>1, <1>4, <1>9, <2>1, <4>1, <4>2
    <3> QED BY <1>4, <1>5, <1>9, <2>1, <3>1
  <2>2. CASE i \in 1..(k - 1)
    <3> DEFINE x == file[i].at
    <3>1. s.alive[x] \in file[i].setting
      BY <1>9, <2>2 DEF InPlace
    <3>2. x \in DOMAIN s.alive /\ x \in s.met
      <4>1. i \in DOMAIN file
        BY <1>1, <1>2, <2>2
      <4> QED BY <2>2, <4>1 DEF InPlace, StillLive
    <3> QED BY <1>5, <3>1, <3>2
  <2> QED BY <1>2, <2>1, <2>2
<1>10. InPlace(t, k)
  BY <1>5, <1>6, <1>7, <1>8, <1>9 DEF InPlace
<1> QED BY <1>10 DEF t

LEMMA CrashStays ==
  ASSUME StoreInv, crashed, LoadPointers
  PROVE  crashed'
<1>1. PICK w : LoadWalk(w, Start, file, Len(file)) /\ \A k \in 0..Len(file) : w[k] \in LoadStates
  BY LoadWalks
<1>2. Len(file) \in Nat /\ DOMAIN file = 1..Len(file) /\ Catalogue
      /\ \A i \in DOMAIN file : file[i].setting \subseteq Settings
  BY DEF StoreInv, Written
<1> DEFINE Good == {k \in 0..Len(file) : w[k].crashed}
<1>3. 0 \in Good
  BY <1>1, <1>2 DEF LoadWalk, Start
<1>4. ASSUME NEW k \in 1..Len(file), k - 1 \in Good PROVE k \in Good
  <2>1. w[k] = LoadNode(w[k - 1], file[k]) /\ w[k - 1] \in LoadStates /\ w[k - 1].crashed
    BY <1>1, <1>2, <1>4 DEF LoadWalk
  <2> QED BY <1>2, <2>1 DEF LoadNode
<1>5. 0..Len(file) \subseteq Good
  <2> HIDE DEF Good
  <2> QED BY <1>2, <1>3, <1>4, UpTo
<1>6. w[Len(file)].crashed
  BY <1>2, <1>5
<1> QED BY <1>1, <1>6 DEF LoadPointers, LoadWalk, Start

LEMMA LoadRestores == StoreInv /\ ~crashed => RestoredInPlace
<1> SUFFICES ASSUME StoreInv, ~crashed, LoadPointers, StillLive
             PROVE  /\ pointers' = [i \in DOMAIN file |-> file[i].at]
                    /\ \A i \in DOMAIN file : file[i].setting # {} => alive'[file[i].at] \in file[i].setting
  BY DEF RestoredInPlace, StillLive
<1>1. PICK w : LoadWalk(w, Start, file, Len(file)) /\ \A k \in 0..Len(file) : w[k] \in LoadStates
  BY LoadWalks
<1>2. Len(file) \in Nat /\ DOMAIN file = 1..Len(file)
  BY DEF StoreInv, Written
<1> DEFINE end == w[Len(file)]
<1>3. alive' = end.alive /\ pointers' = end.pointers /\ format = "json"
  BY <1>1 DEF LoadPointers, LoadWalk, Start
<1> DEFINE Good == {k \in 0..Len(file) : InPlace(w[k], k)}
<1>4. 0 \in Good
  BY <1>1, <1>2 DEF LoadWalk, Start, InPlace
<1>5. ASSUME NEW k \in 1..Len(file), k - 1 \in Good PROVE k \in Good
  <2>1. w[k] = LoadNode(w[k - 1], file[k]) /\ w[k - 1] \in LoadStates /\ InPlace(w[k - 1], k - 1)
    BY <1>1, <1>2, <1>5 DEF LoadWalk
  <2> QED BY <1>2, <1>3, <2>1, NodeRestores
<1>6. 0..Len(file) \subseteq Good
  <2> HIDE DEF Good
  <2> QED BY <1>2, <1>4, <1>5, UpTo
<1>7. InPlace(end, Len(file)) /\ end.pointers \in Seq(ObjectIds)
  BY <1>1, <1>2, <1>6 DEF LoadStates
<1> HIDE DEF end
<1>8. DOMAIN pointers' = 1..Len(file) /\ \A i \in 1..Len(file) : pointers'[i] = file[i].at
  BY <1>3, <1>7, LenProperties DEF InPlace
<1>9. pointers' = [i \in DOMAIN file |-> file[i].at]
  <2>1. pointers' \in [1..Len(file) -> ObjectIds]
    BY <1>3, <1>7, <1>8, LenProperties
  <2> QED BY <1>2, <1>8, <2>1
<1> QED BY <1>2, <1>3, <1>7, <1>9 DEF InPlace

(* Where the objects that were saved still live, loading gives each        *)
(* pointer its object and each object its parameters.                      *)
THEOREM StoreRestores == StoreSpec => RestoresInPlace
<1>1. StoreInit => StoreInv
  BY InitStoreInv
<1>2. StoreInv /\ [StoreNext]_storeVars => StoreInv'
  BY StoreStep
<1>3. StoreInv /\ [StoreNext]_storeVars => [RestoredInPlace]_storeVars
  <2> SUFFICES ASSUME StoreInv, StoreNext PROVE RestoredInPlace
    OBVIOUS
  <2>1. CASE ~crashed
    BY <2>1, LoadRestores
  <2>2. CASE crashed
    <3>1. ~crashed'
      BY <2>2 DEF StoreNext, Restart
    <3> QED BY <2>2, <3>1, CrashStays DEF RestoredInPlace
  <2> QED BY <2>1, <2>2
<1> QED BY <1>1, <1>2, <1>3, PTL DEF StoreSpec, RestoresInPlace

-----------------------------------------------------------------------------
(* What the macros of a class describe                                     *)

(* What is kept of a sequence.                                             *)
LEMMA Selects ==
  ASSUME NEW U, NEW s \in Seq(U), NEW keep
  PROVE  /\ Selected(s, keep) \in Seq(U)
         /\ ToSet(Selected(s, keep)) = ToSet(s) \cap keep
<1>0. PICK n \in Nat : n = Len(s)
  OBVIOUS
<1> DEFINE S == Seq(U)
           more(t, f) == IF f \in keep THEN Append(t, f) ELSE t
           step == [p \in S \X (1..n) |-> more(p[1], s[p[2]])]
           Eq(f) == f = [d \in SUBSET (1..n) |-> IF d = {} THEN <<>>
                                                ELSE more(f[d \ {Max(d)}], s[Max(d)])]
           iter == CHOOSE f : Eq(f)
           w == [k \in 0..n |-> iter[1..k]]
<1>1. n \in Nat /\ DOMAIN s = 1..n /\ \A i \in 1..n : s[i] \in U
  BY <1>0
<1>2. Selected(s, keep) = iter[1..n]
  BY <1>1 DEF Selected, FoldLeft, MapThenFoldSet
<1>3. <<>> \in S /\ step \in [S \X (1..n) -> S]
  BY <1>1
<1>4. PICK f : Folds(f, n, S, <<>>, step)
  <2> HIDE DEF S, step
  <2> QED BY <1>1, <1>3, FoldExists
<1>5. Eq(f)
  <2>1. /\ f \in [SUBSET (1..n) -> S]
        /\ \A d \in SUBSET (1..n) : f[d] = IF d = {} THEN <<>> ELSE step[<<f[d \ {Max(d)}], Max(d)>>]
    BY <1>4 DEF Folds
  <2>2. ASSUME NEW d \in SUBSET (1..n), d # {}
        PROVE  f[d] = more(f[d \ {Max(d)}], s[Max(d)])
    <3> HIDE DEF S, more
    <3>1. Max(d) \in 1..n /\ d \ {Max(d)} \in SUBSET (1..n)
      BY <1>1, <2>2, MaxIn
    <3>2. <<f[d \ {Max(d)}], Max(d)>> \in S \X (1..n)
      BY <2>1, <3>1
    <3> QED BY <2>1, <2>2, <3>2
  <2> HIDE DEF S, more
  <2> QED BY <2>1, <2>2
<1> HIDE DEF step, more
<1>6. Eq(iter)
  BY <1>5
<1> HIDE DEF iter
<1>7. w[0] = <<>>
  <2>1. 1..0 = {} /\ 0 \in 0..n /\ {} \in SUBSET (1..n)
    BY <1>1
  <2> QED BY <1>6, <2>1
<1>8. ASSUME NEW k \in 1..n PROVE w[k] = more(w[k - 1], s[k])
  <2>1. Max(1..k) = k /\ (1..k) \ {k} = 1..k - 1 /\ 1..k \in SUBSET (1..n) /\ 1..k # {}
    BY <1>1, MaxOfPrefix
  <2>2. k \in 0..n /\ k - 1 \in 0..n
    BY <1>1
  <2> QED BY <1>6, <2>1, <2>2
<1>9. w[n] = iter[1..n]
  BY <1>1
<1> HIDE DEF w
<1> DEFINE Chosen(k) == {s[i] : i \in {j \in 1..k : s[j] \in keep}}
           After(k) == w[k] \in S /\ ToSet(w[k]) = Chosen(k)
           Good == {k \in 0..n : After(k)}
<1>10. 0 \in Good
  <2>1. ToSet(<<>>) = {} /\ Chosen(0) = {}
    BY DEF ToSet
  <2>2. w[0] \in S /\ ToSet(w[0]) = {}
    BY <1>7, <2>1
  <2>3. After(0)
    BY <2>1, <2>2
  <2> HIDE DEF After
  <2> QED BY <1>1, <2>3
<1>11. ASSUME NEW k \in 1..n, k - 1 \in Good PROVE k \in Good
  <2>1. w[k - 1] \in S /\ ToSet(w[k - 1]) = Chosen(k - 1) /\ s[k] \in U
    BY <1>1, <1>11
  <2>2. 1..k = (1..(k - 1)) \cup {k}
    BY <1>1
  <2>3. CASE s[k] \in keep
    <3> DEFINE t == w[k - 1]
    <3>1. w[k] = Append(t, s[k])
      BY <1>8, <2>3 DEF more
    <3>2. /\ Append(t, s[k]) \in S /\ Len(t) \in Nat /\ DOMAIN t = 1..Len(t)
          /\ DOMAIN Append(t, s[k]) = 1..(Len(t) + 1)
          /\ Append(t, s[k])[Len(t) + 1] = s[k] /\ \A i \in 1..Len(t) : Append(t, s[k])[i] = t[i]
      BY <2>1
    <3>3. ToSet(w[k]) = ToSet(t) \cup {s[k]}
      <4> HIDE DEF t
      <4> QED BY <3>1, <3>2 DEF ToSet
    <3>4. Chosen(k) = Chosen(k - 1) \cup {s[k]}
      BY <2>2, <2>3
    <3> HIDE DEF Chosen, t
    <3>5. ToSet(w[k]) = Chosen(k) /\ w[k] \in S
      BY <2>1, <3>1, <3>2, <3>3, <3>4 DEF t
    <3>6. After(k)
      BY <3>5
    <3> HIDE DEF After
    <3> QED BY <3>6
  <2>4. CASE s[k] \notin keep
    <3>1. w[k] = w[k - 1]
      BY <1>8, <2>4 DEF more
    <3>2. Chosen(k) = Chosen(k - 1)
      BY <2>2, <2>4
    <3> HIDE DEF Chosen
    <3>3. After(k)
      BY <2>1, <3>1, <3>2
    <3> HIDE DEF After
    <3> QED BY <3>3
  <2> QED BY <2>3, <2>4
<1>12. 0..n \subseteq Good
  <2> HIDE DEF Good
  <2> QED BY <1>1, <1>10, <1>11, UpTo
<1>13. w[n] \in S /\ ToSet(w[n]) = Chosen(n)
  <2> HIDE DEF After
  <2>1. n \in 0..n
    BY <1>1
  <2>2. After(n)
    BY <1>12, <2>1
  <2> QED BY <2>2 DEF After
<1>14. Chosen(n) = ToSet(s) \cap keep
  BY <1>1 DEF ToSet
<1> QED BY <1>2, <1>9, <1>13, <1>14

(* What several sequences have in common one after the other.              *)
LEMMA Flattened ==
  ASSUME NEW U, NEW seqs \in Seq(Seq(U))
  PROVE  /\ FlattenSeq(seqs) \in Seq(U)
         /\ ToSet(FlattenSeq(seqs)) = UNION {ToSet(seqs[i]) : i \in DOMAIN seqs}
<1>0. PICK n \in Nat : n = Len(seqs)
  OBVIOUS
<1> DEFINE S == Seq(U)
           step == [p \in S \X (1..n) |-> p[1] \o seqs[p[2]]]
           Eq(f) == f = [i \in 1..n |-> IF i = 1 THEN seqs[i] ELSE f[i - 1] \o seqs[i]]
           flat == CHOOSE f : Eq(f)
<1>1. n \in Nat /\ DOMAIN seqs = 1..n /\ \A i \in 1..n : seqs[i] \in S
  BY <1>0
<1>2. CASE n = 0
  <2>1. FlattenSeq(seqs) = seqs
    BY <1>0, <1>2 DEF FlattenSeq
  <2>2. seqs = <<>>
    BY <1>0, <1>2, EmptySeq
  <2> QED BY <2>1, <2>2 DEF ToSet
<1>3. CASE n # 0
  <2>1. FlattenSeq(seqs) = flat[n]
    BY <1>0, <1>3 DEF FlattenSeq
  <2>2. <<>> \in S /\ step \in [S \X (1..n) -> S]
    BY <1>1
  <2>3. PICK f : Folds(f, n, S, <<>>, step)
    <3> HIDE DEF S, step
    <3> QED BY <1>1, <2>2, FoldExists
  <2> DEFINE g == [i \in 1..n |-> f[1..i]]
  <2>4. f \in [SUBSET (1..n) -> S] /\ f[{}] = <<>>
    BY <2>3 DEF Folds
  <2>5. ASSUME NEW i \in 1..n PROVE f[1..i] = f[1..(i - 1)] \o seqs[i] /\ f[1..(i - 1)] \in S
    <3>1. Max(1..i) = i /\ (1..i) \ {i} = 1..i - 1 /\ 1..i \in SUBSET (1..n) /\ 1..i # {}
      BY <1>1, MaxOfPrefix
    <3>2. 1..(i - 1) \in SUBSET (1..n)
      BY <1>1
    <3> HIDE DEF S
    <3>3. <<f[1..(i - 1)], i>> \in S \X (1..n)
      BY <2>4, <3>2
    <3>4. f[1..i] = step[<<f[1..(i - 1)], i>>]
      BY <2>3, <3>1 DEF Folds
    <3> QED BY <2>4, <3>2, <3>3, <3>4
  <2>6. Eq(g)
    <3>1. ASSUME NEW i \in 1..n PROVE g[i] = IF i = 1 THEN seqs[i] ELSE g[i - 1] \o seqs[i]
      <4>1. CASE i = 1
        <5>1. 1..(i - 1) = {}
          BY <4>1
        <5>2. f[1..i] = <<>> \o seqs[1]
          BY <2>4, <2>5, <4>1, <5>1
        <5>3. <<>> \o seqs[1] = seqs[1]
          BY <1>1, <4>1, ConcatEmptySeq
        <5> QED BY <4>1, <5>2, <5>3
      <4>2. CASE i # 1
        <5>1. i - 1 \in 1..n
          BY <1>1, <4>2
        <5> QED BY <2>5, <4>2, <5>1
      <4> QED BY <4>1, <4>2
    <3> QED BY <3>1
  <2> HIDE DEF g
  <2>7. Eq(flat)
    BY <2>6
  <2> HIDE DEF flat
  <2> DEFINE Union(k) == UNION {ToSet(seqs[i]) : i \in 1..k}
             After(k) == flat[k] \in S /\ ToSet(flat[k]) = Union(k)
             Good == {k \in 0..n : k = 0 \/ After(k)}
  <2>8. ASSUME NEW k \in 1..n, k - 1 \in Good PROVE k \in Good
    <3>1. CASE k = 1
      <4>1. flat[k] = seqs[1]
        <5> QED BY <2>7, <3>1
      <4>2. Union(k) = ToSet(seqs[1])
        BY <3>1
      <4> QED BY <1>1, <3>1, <4>1, <4>2
    <3>2. CASE k # 1
      <4> DEFINE t == flat[k - 1]
                 u == seqs[k]
      <4>1. flat[k] = t \o u
        <5> QED BY <2>7, <3>2
      <4>2. t \in S /\ ToSet(t) = Union(k - 1) /\ u \in S
        BY <1>1, <2>8, <3>2
      <4> HIDE DEF t, u
      <4>3. /\ t \o u \in S /\ ToSet(t \o u) = ToSet(t) \cup ToSet(u)
        <5>1. /\ t \o u \in S /\ Len(t) \in Nat /\ Len(u) \in Nat /\ DOMAIN t = 1..Len(t)
              /\ DOMAIN u = 1..Len(u) /\ DOMAIN (t \o u) = 1..(Len(t) + Len(u))
              /\ \A i \in 1..Len(t) : (t \o u)[i] = t[i]
              /\ \A i \in 1..Len(u) : (t \o u)[Len(t) + i] = u[i]
          BY <4>2
        <5>2. \A i \in 1..(Len(t) + Len(u)) : i \in 1..Len(t) \/ (i - Len(t) \in 1..Len(u) /\ i = Len(t) + (i - Len(t)))
          BY <5>1
        <5>3. \A i \in 1..Len(u) : Len(t) + i \in 1..(Len(t) + Len(u))
          BY <5>1
        <5>4. \A i \in 1..Len(t) : i \in 1..(Len(t) + Len(u))
          BY <5>1
        <5> DEFINE v == t \o u
        <5> HIDE DEF v
        <5>5. ASSUME NEW x \in ToSet(v) PROVE x \in ToSet(t) \cup ToSet(u)
          <6>1. PICK i \in 1..(Len(t) + Len(u)) : x = v[i]
            BY <5>1, <5>5 DEF ToSet, v
          <6> QED BY <5>1, <5>2, <6>1 DEF ToSet, v
        <5>6. ASSUME NEW x \in ToSet(t) \cup ToSet(u) PROVE x \in ToSet(v)
          BY <5>1, <5>3, <5>4, <5>6 DEF ToSet, v
        <5> QED BY <5>1, <5>5, <5>6 DEF v
      <4>4. 1..k = (1..(k - 1)) \cup {k}
        BY <1>1
      <4>5. Union(k) = Union(k - 1) \cup ToSet(u)
        BY <4>4 DEF u
      <4> HIDE DEF S, Union
      <4>6. After(k)
        BY <4>1, <4>2, <4>3, <4>5
      <4> HIDE DEF After
      <4> QED BY <4>6
    <3> QED BY <3>1, <3>2
  <2>9. 0..n \subseteq Good
    <3>1. 0 \in Good
      BY <1>1
    <3> HIDE DEF Good
    <3> QED BY <1>1, <2>8, <3>1, UpTo
  <2>10. flat[n] \in S /\ ToSet(flat[n]) = Union(n)
    <3> HIDE DEF After
    <3>1. n \in 0..n
      BY <1>1
    <3>2. After(n)
      BY <1>3, <2>9, <3>1
    <3> QED BY <3>2 DEF After
  <2> QED BY <1>1, <2>1, <2>10
<1> QED BY <1>2, <1>3

LEMMA ConcatSet ==
  ASSUME NEW U, NEW t \in Seq(U), NEW u \in Seq(U)
  PROVE  t \o u \in Seq(U) /\ ToSet(t \o u) = ToSet(t) \cup ToSet(u)
<1> DEFINE v == t \o u
<1>1. /\ v \in Seq(U) /\ Len(t) \in Nat /\ Len(u) \in Nat /\ DOMAIN t = 1..Len(t)
      /\ DOMAIN u = 1..Len(u) /\ DOMAIN v = 1..(Len(t) + Len(u))
      /\ \A i \in 1..Len(t) : v[i] = t[i]
      /\ \A i \in 1..Len(u) : v[Len(t) + i] = u[i]
  OBVIOUS
<1>2. \A i \in 1..(Len(t) + Len(u)) : i \in 1..Len(t) \/ (i - Len(t) \in 1..Len(u) /\ i = Len(t) + (i - Len(t)))
  BY <1>1
<1>3. \A i \in 1..Len(u) : Len(t) + i \in 1..(Len(t) + Len(u))
  BY <1>1
<1>4. \A i \in 1..Len(t) : i \in 1..(Len(t) + Len(u))
  BY <1>1
<1> HIDE DEF v
<1>5. ASSUME NEW x \in ToSet(v) PROVE x \in ToSet(t) \cup ToSet(u)
  <2>1. PICK i \in 1..(Len(t) + Len(u)) : x = v[i]
    BY <1>1, <1>5 DEF ToSet
  <2>2. CASE i \in 1..Len(t)
    <3>1. x = t[i]
      BY <1>1, <2>1, <2>2
    <3> QED BY <1>1, <2>2, <3>1 DEF ToSet
  <2>3. CASE i - Len(t) \in 1..Len(u) /\ i = Len(t) + (i - Len(t))
    <3>1. PICK j \in 1..Len(u) : i = Len(t) + j
      BY <2>3
    <3>2. x = u[j]
      BY <1>1, <2>1, <3>1
    <3> QED BY <1>1, <3>2 DEF ToSet
  <2> QED BY <1>2, <2>2, <2>3
<1>6. ASSUME NEW x \in ToSet(t) \cup ToSet(u) PROVE x \in ToSet(v)
  BY <1>1, <1>3, <1>4, <1>6 DEF ToSet
<1>7. v \in Seq(U) /\ ToSet(v) = ToSet(t) \cup ToSet(u)
  BY <1>1, <1>5, <1>6
<1> QED BY <1>7 DEF v

LEMMA ReverseSet ==
  ASSUME NEW U, NEW s \in Seq(U)
  PROVE  Reverse(s) \in Seq(U) /\ ToSet(Reverse(s)) = ToSet(s)
<1> DEFINE n == Len(s)
           r == Reverse(s)
<1>1. n \in Nat /\ DOMAIN s = 1..n /\ \A i \in 1..n : s[i] \in U
  OBVIOUS
<1>2. r = [i \in 1..n |-> s[(n - i) + 1]]
  BY DEF Reverse
<1> HIDE DEF n, r
<1>3. \A i \in 1..n : (n - i) + 1 \in 1..n /\ (n - ((n - i) + 1)) + 1 = i
  BY <1>1
<1>4. r \in [1..n -> U]
  BY <1>1, <1>2, <1>3
<1>5. r \in Seq(U)
  BY <1>1, <1>4, SeqDef
<1>6. DOMAIN r = 1..n /\ \A i \in 1..n : r[i] = s[(n - i) + 1]
  BY <1>2
<1>7. ASSUME NEW x \in ToSet(r) PROVE x \in ToSet(s)
  BY <1>1, <1>3, <1>6 DEF ToSet
<1>8. ASSUME NEW x \in ToSet(s) PROVE x \in ToSet(r)
  <2>1. PICK i \in 1..n : x = s[i]
    BY <1>1, <1>8 DEF ToSet
  <2>2. r[(n - i) + 1] = x
    BY <1>3, <1>6, <2>1
  <2> QED BY <1>3, <1>6, <2>2 DEF ToSet
<1> QED BY <1>5, <1>7, <1>8 DEF r

LEMMA SetOfSeq ==
  ASSUME NEW U, NEW s \in Seq(U)
  PROVE  /\ \A x \in ToSet(s) : x \in U
         /\ \A i \in DOMAIN s : s[i] \in ToSet(s)
         /\ \A x \in ToSet(s) : \E i \in DOMAIN s : s[i] = x
<1>1. \A i \in DOMAIN s : s[i] \in U
  OBVIOUS
<1> QED BY <1>1 DEF ToSet

Fields == ToSet(ClassOrder) \X Nat
ClassRecords == [members : Seq(Kinds), ownThenParents : Seq(Fields),
                 parentsThenOwn : Seq(Fields), declaredThenParents : Seq(Fields)]

(* The three traversals of a class visit the same fields, which members    *)
(* declare that are defined by then.                                       *)
SameFields(c) ==
  ToSet(c.parentsThenOwn) = ToSet(c.ownThenParents) /\ ToSet(c.declaredThenParents) = ToSet(c.ownThenParents)
ClassesAre ==
  /\ class \in Seq(ClassRecords) /\ Len(class) <= Len(ClassOrder)
  /\ \A i \in DOMAIN class :
       /\ SameFields(class[i])
       /\ \A f \in ToSet(class[i].ownThenParents) :
            \E j \in 1..i : f[1] = ClassOrder[j] /\ f[2] \in DOMAIN class[j].members

(* An object has the fields of the last class and what its Init added; an  *)
(* archive has a value for each field that is saved, and the same one for  *)
(* a field that is saved twice.                                            *)
ObjectRecords ==
  /\ object = <<>> => added = <<>>
  /\ object # <<>> => /\ Len(class) = Len(ClassOrder) /\ added = AddedByInit(Newest)
                      /\ DOMAIN object = FieldsOf(Newest) /\ FieldsOf(Newest) # {}
ArchivesAre ==
  /\ archive # <<>> \/ reloaded # <<>> => object # <<>>
  /\ archive # <<>> =>
       LET order == SaveOrder(Newest) IN
       /\ DOMAIN archive = DOMAIN order
       /\ \A i, j \in DOMAIN archive : order[i] = order[j] => archive[i] = archive[j]

ReflInv == ClassesAre /\ ObjectRecords /\ ArchivesAre /\ LoadsWhatWasSaved

LEMMA OrderIs ==
  /\ Len(ClassOrder) \in Nat \ {0} /\ DOMAIN ClassOrder = 1..Len(ClassOrder)
  /\ \A i \in 1..Len(ClassOrder) : ClassOrder[i] \in ToSet(ClassOrder) /\ Index(ClassOrder[i]) = i
<1>1. /\ Len(ClassOrder) \in Nat \ {0} /\ DOMAIN ClassOrder = 1..Len(ClassOrder)
  BY ReflAssumption, LenProperties, EmptySeq
<1>2. ASSUME NEW i \in 1..Len(ClassOrder) PROVE Index(ClassOrder[i]) = i
  <2>1. \A j \in 1..Len(ClassOrder) : ClassOrder[j] = ClassOrder[i] => j = i
    BY <1>1, ReflAssumption DEF IsInjective
  <2> QED BY <1>1, <2>1 DEF Index
<1> QED BY <1>1, <1>2 DEF ToSet

(* What the parents' traversals visit.                                     *)
LEMMA ParentsVisit ==
  ASSUME ClassesAre, NEW parents \in SeqOf(Defined, 2)
  PROVE  LET all == UNION {ToSet(class[Index(parents[i])].ownThenParents) : i \in DOMAIN parents} IN
         \A t \in {"ownThenParents", "parentsThenOwn", "declaredThenParents"} :
            AsParents(parents, t) \in Seq(Fields) /\ ToSet(AsParents(parents, t)) = all
<1>1. PICK m \in 0..2 : parents \in [1..m -> Defined]
  BY DEF SeqOf
<1>2. m \in Nat /\ DOMAIN parents = 1..m
  BY <1>1
<1>3. ASSUME NEW i \in 1..m
      PROVE  LET k == Index(parents[i]) IN k \in DOMAIN class /\ class[k] \in ClassRecords /\ SameFields(class[k])
  <2>1. PICK j \in 1..Len(class) : parents[i] = ClassOrder[j]
    BY <1>1, <1>3 DEF Defined
  <2>2. class \in Seq(ClassRecords) /\ Len(class) \in Nat /\ Len(class) <= Len(ClassOrder)
    BY DEF ClassesAre
  <2>3. Index(parents[i]) = j
    BY <2>1, <2>2, OrderIs
  <2> QED BY <2>2, <2>3 DEF ClassesAre
<1> DEFINE all == UNION {ToSet(class[Index(parents[i])].ownThenParents) : i \in DOMAIN parents}
<1>4. ASSUME NEW t \in {"ownThenParents", "parentsThenOwn", "declaredThenParents"}
      PROVE  AsParents(parents, t) \in Seq(Fields) /\ ToSet(AsParents(parents, t)) = all
  <2> DEFINE seqs == [i \in DOMAIN parents |-> class[Index(parents[i])][t]]
  <2>1. ASSUME NEW i \in 1..m
        PROVE  /\ class[Index(parents[i])][t] \in Seq(Fields)
               /\ ToSet(class[Index(parents[i])][t]) = ToSet(class[Index(parents[i])].ownThenParents)
    <3>1. class[Index(parents[i])] \in ClassRecords /\ SameFields(class[Index(parents[i])])
      BY <1>3
    <3> QED BY <3>1 DEF ClassRecords, SameFields
  <2>2. seqs \in [1..m -> Seq(Fields)] /\ DOMAIN seqs = 1..m
    BY <1>2, <2>1
  <2>3. \A i \in 1..m : ToSet(seqs[i]) = ToSet(class[Index(parents[i])].ownThenParents)
    BY <1>2, <2>1
  <2>4. AsParents(parents, t) = FlattenSeq(seqs)
    BY DEF AsParents
  <2> HIDE DEF seqs
  <2>5. seqs \in Seq(Seq(Fields))
    BY <1>2, <2>2, SeqDef
  <2>6. FlattenSeq(seqs) \in Seq(Fields) /\ ToSet(FlattenSeq(seqs)) = UNION {ToSet(seqs[i]) : i \in DOMAIN seqs}
    BY <2>5, Flattened
  <2>7. UNION {ToSet(seqs[i]) : i \in DOMAIN seqs} = all
    BY <1>2, <2>2, <2>3
  <2> QED BY <2>4, <2>6, <2>7
<1> QED BY <1>4

(* A class that is defined.                                                *)
LEMMA ClassIs ==
  ASSUME ClassesAre, Len(class) < Len(ClassOrder), NEW parents \in SeqOf(Defined, 2),
         NEW m, NEW members \in SeqOf(Kinds, m)
  PROVE  LET n == Len(class) + 1
             c == Class(ClassOrder[n], parents, members)
         IN /\ c \in ClassRecords /\ SameFields(c) /\ c.members = members
            /\ \A f \in ToSet(c.ownThenParents) :
                 \/ f[1] = ClassOrder[n] /\ f[2] \in DOMAIN members
                 \/ \E i \in DOMAIN class : f \in ToSet(class[i].ownThenParents)
<1> DEFINE n == Len(class) + 1
           c == Class(ClassOrder[n], parents, members)
           own == Own(ClassOrder[n], members)
           all == UNION {ToSet(class[Index(parents[i])].ownThenParents) : i \in DOMAIN parents}
<1>1. class \in Seq(ClassRecords) /\ Len(class) \in Nat /\ n \in 1..Len(ClassOrder)
  BY OrderIs DEF ClassesAre
<1>2. PICK k \in 0..m : members \in [1..k -> Kinds]
  BY DEF SeqOf
<1>3. members \in Seq(Kinds) /\ k \in Nat /\ DOMAIN members = 1..k
  <2>1. CASE k \in Nat
    BY <1>2, <2>1, SeqDef
  <2> QED BY <1>2, <2>1
<1>4. own \in Seq(Fields) /\ ToSet(own) = {<<ClassOrder[n], j>> : j \in DOMAIN members}
  <2>1. own = [j \in 1..k |-> <<ClassOrder[n], j>>]
    BY <1>3 DEF Own
  <2>2. own \in [1..k -> Fields]
    BY <1>1, <1>3, <2>1, OrderIs DEF Fields
  <2>3. own \in Seq(Fields)
    BY <1>3, <2>2, SeqDef
  <2>4. ToSet(own) = {<<ClassOrder[n], j>> : j \in DOMAIN members}
    BY <1>3, <2>1 DEF ToSet
  <2> QED BY <2>3, <2>4
<1>5. \A t \in {"ownThenParents", "parentsThenOwn", "declaredThenParents"} :
        AsParents(parents, t) \in Seq(Fields) /\ ToSet(AsParents(parents, t)) = all
  BY ParentsVisit
<1>6. c = [members |-> members,
           ownThenParents |-> Reverse(own) \o AsParents(parents, "ownThenParents"),
           parentsThenOwn |-> AsParents(parents, "parentsThenOwn") \o Reverse(own),
           declaredThenParents |-> own \o AsParents(parents, "declaredThenParents")]
  BY DEF Class
<1>7. \A i \in DOMAIN parents : Index(parents[i]) \in DOMAIN class
  <2>1. PICK l \in 0..2 : parents \in [1..l -> Defined]
    BY DEF SeqOf
  <2> SUFFICES ASSUME NEW i \in DOMAIN parents PROVE Index(parents[i]) \in DOMAIN class
    OBVIOUS
  <2>2. PICK j \in 1..Len(class) : parents[i] = ClassOrder[j]
    BY <2>1 DEF Defined
  <2>3. j \in 1..Len(ClassOrder) /\ j \in DOMAIN class
    BY <1>1, <2>2, OrderIs
  <2> QED BY <2>2, <2>3, OrderIs
<1>8. ASSUME NEW f \in all PROVE \E i \in DOMAIN class : f \in ToSet(class[i].ownThenParents)
  BY <1>7
<1> HIDE DEF own, all, c
<1>9. Reverse(own) \in Seq(Fields) /\ ToSet(Reverse(own)) = ToSet(own)
  BY <1>4, ReverseSet
<1>10. /\ c.ownThenParents \in Seq(Fields) /\ ToSet(c.ownThenParents) = ToSet(own) \cup all
  BY <1>5, <1>6, <1>9, ConcatSet
<1>11. /\ c.parentsThenOwn \in Seq(Fields) /\ ToSet(c.parentsThenOwn) = ToSet(own) \cup all
  BY <1>5, <1>6, <1>9, ConcatSet
<1>12. /\ c.declaredThenParents \in Seq(Fields) /\ ToSet(c.declaredThenParents) = ToSet(own) \cup all
  BY <1>4, <1>5, <1>6, ConcatSet
<1>13. c \in ClassRecords /\ c.members = members
  BY <1>3, <1>6, <1>10, <1>11, <1>12 DEF ClassRecords
<1>14. SameFields(c)
  BY <1>10, <1>11, <1>12 DEF SameFields
<1>15. \A f \in ToSet(c.ownThenParents) :
         \/ f[1] = ClassOrder[n] /\ f[2] \in DOMAIN members
         \/ \E i \in DOMAIN class : f \in ToSet(class[i].ownThenParents)
  BY <1>4, <1>8, <1>10
<1> QED BY <1>13, <1>14, <1>15 DEF c

LEMMA DefineKeeps == ReflInv /\ DefineClass => ReflInv'
<1> SUFFICES ASSUME ReflInv, DefineClass PROVE ReflInv'
  OBVIOUS
<1>1. ClassesAre /\ ObjectRecords /\ ArchivesAre /\ LoadsWhatWasSaved
  BY DEF ReflInv
<1>2. PICK parents \in SeqOf(Defined, 2), members \in SeqOf(Kinds, Members[ClassOrder[Len(class) + 1]]) :
        class' = Append(class, Class(ClassOrder[Len(class) + 1], parents, members))
  BY DEF DefineClass
<1> DEFINE n == Len(class) + 1
           c == Class(ClassOrder[n], parents, members)
<1>3. UNCHANGED <<object, added, archive, reloaded>> /\ Len(class) < Len(ClassOrder)
  BY DEF DefineClass
<1>4. /\ c \in ClassRecords /\ SameFields(c) /\ c.members = members
      /\ \A f \in ToSet(c.ownThenParents) :
                 \/ f[1] = ClassOrder[n] /\ f[2] \in DOMAIN members
                 \/ \E i \in DOMAIN class : f \in ToSet(class[i].ownThenParents)
  BY <1>1, <1>3, ClassIs
<1>5. class' = Append(class, c) /\ class \in Seq(ClassRecords) /\ Len(class) \in Nat
      /\ DOMAIN class = 1..Len(class)
  BY <1>1, <1>2 DEF ClassesAre
<1> HIDE DEF c
<1>6. /\ class' \in Seq(ClassRecords) /\ DOMAIN class' = 1..n /\ Len(class') = n
      /\ class'[n] = c /\ \A i \in 1..Len(class) : class'[i] = class[i]
  BY <1>4, <1>5
<1>7. object = <<>> /\ added = <<>> /\ archive = <<>> /\ reloaded = <<>>
  BY <1>1, <1>3 DEF ObjectRecords, ArchivesAre
<1>8. ASSUME NEW i \in 1..n
      PROVE  /\ SameFields(class'[i])
             /\ \A f \in ToSet(class'[i].ownThenParents) :
                  \E j \in 1..i : f[1] = ClassOrder[j] /\ f[2] \in DOMAIN class'[j].members
  <2>1. CASE i \in 1..Len(class)
    <3>1. \A j \in 1..i : class'[j] = class[j] /\ class'[i] = class[i]
      BY <1>5, <1>6, <2>1
    <3>2. i \in DOMAIN class
      BY <1>5, <2>1
    <3> QED BY <1>1, <3>1, <3>2 DEF ClassesAre
  <2>2. CASE i = n
    <3> SUFFICES ASSUME NEW f \in ToSet(c.ownThenParents)
                 PROVE  \E j \in 1..i : f[1] = ClassOrder[j] /\ f[2] \in DOMAIN class'[j].members
      BY <1>4, <1>6, <2>2
    <3>1. CASE f[1] = ClassOrder[n] /\ f[2] \in DOMAIN members
      <4>1. n \in 1..n /\ class'[n].members = members
        BY <1>4, <1>5, <1>6
      <4> QED BY <2>2, <3>1, <4>1
    <3>2. ASSUME NEW k \in DOMAIN class, f \in ToSet(class[k].ownThenParents)
          PROVE  \E j \in 1..i : f[1] = ClassOrder[j] /\ f[2] \in DOMAIN class'[j].members
      <4>1. PICK j \in 1..k : f[1] = ClassOrder[j] /\ f[2] \in DOMAIN class[j].members
        BY <1>1, <3>2 DEF ClassesAre
      <4>2. j \in 1..Len(class) /\ j \in 1..n
        BY <1>5
      <4>3. class'[j] = class[j]
        BY <1>6, <4>2
      <4> QED BY <2>2, <4>1, <4>2, <4>3
    <3> QED BY <1>4, <3>1, <3>2
  <2> QED BY <1>5, <2>1, <2>2
<1>9. ClassesAre'
  <2>1. Len(class') <= Len(ClassOrder)
    BY <1>3, <1>5, <1>6, OrderIs
  <2>2. \A i \in DOMAIN class' :
          /\ SameFields(class'[i])
          /\ \A f \in ToSet(class'[i].ownThenParents) :
               \E j \in 1..i : f[1] = ClassOrder[j] /\ f[2] \in DOMAIN class'[j].members
    BY <1>6, <1>8
  <2> QED BY <1>6, <2>1, <2>2 DEF ClassesAre
<1>10. ObjectRecords' /\ ArchivesAre' /\ LoadsWhatWasSaved'
  BY <1>3, <1>7 DEF ObjectRecords, ArchivesAre, LoadsWhatWasSaved
<1> QED BY <1>9, <1>10 DEF ReflInv

(* What the traversals of the last class visit.                            *)
LEMMA NewestVisits ==
  ASSUME ClassesAre, Len(class) = Len(ClassOrder)
  PROVE  /\ Index(Newest) \in DOMAIN class /\ FieldsOf(Newest) \subseteq Fields
         /\ OwnThenParents(Newest) \in Seq(Fields) /\ ToSet(OwnThenParents(Newest)) = FieldsOf(Newest)
         /\ ParentsThenOwn(Newest) \in Seq(Fields) /\ ToSet(ParentsThenOwn(Newest)) = FieldsOf(Newest)
         /\ DeclaredThenParents(Newest) \in Seq(Fields) /\ ToSet(DeclaredThenParents(Newest)) = FieldsOf(Newest)
<1> DEFINE n == Len(class)
<1>1. class \in Seq(ClassRecords) /\ DOMAIN class = 1..n /\ n \in 1..Len(ClassOrder)
  BY OrderIs DEF ClassesAre
<1>2. Index(Newest) = n
  BY <1>1, OrderIs DEF Newest
<1>3. n \in DOMAIN class /\ class[n] \in ClassRecords /\ SameFields(class[n])
  BY <1>1 DEF ClassesAre
<1>4. /\ class[n].ownThenParents \in Seq(Fields) /\ class[n].parentsThenOwn \in Seq(Fields)
      /\ class[n].declaredThenParents \in Seq(Fields)
  BY <1>3 DEF ClassRecords
<1>5. ToSet(class[n].ownThenParents) \subseteq Fields
  BY <1>4, SetOfSeq
<1> QED BY <1>2, <1>3, <1>4, <1>5
        DEF FieldsOf, OwnThenParents, ParentsThenOwn, DeclaredThenParents, SameFields

LEMMA OnlyKeeps ==
  ASSUME NEW s \in Seq(Fields), NEW kinds
  PROVE  /\ Only(s, kinds) \in Seq(Fields)
         /\ ToSet(Only(s, kinds)) = {f \in ToSet(s) : Kind(f) \in kinds}
<1> DEFINE keep == {f \in ToSet(s) : Kind(f) \in kinds}
<1>1. Selected(s, keep) \in Seq(Fields) /\ ToSet(Selected(s, keep)) = ToSet(s) \cap keep
  <2> HIDE DEF keep
  <2> QED BY Selects
<1> QED BY <1>1 DEF Only

(* While no class is defined, what there is of the last one stays.         *)
LEMMA ClassStays ==
  UNCHANGED class =>
    /\ Newest' = Newest /\ FieldsOf(Newest)' = FieldsOf(Newest)
    /\ SaveOrder(Newest)' = SaveOrder(Newest) /\ AddedByInit(Newest)' = AddedByInit(Newest)
    /\ ClassesAre' = ClassesAre
<1> SUFFICES ASSUME UNCHANGED class
             PROVE  /\ Newest' = Newest /\ FieldsOf(Newest)' = FieldsOf(Newest)
                    /\ SaveOrder(Newest)' = SaveOrder(Newest) /\ AddedByInit(Newest)' = AddedByInit(Newest)
                    /\ ClassesAre' = ClassesAre
  OBVIOUS
<1>1. Newest' = Newest
  BY DEF Newest
<1>2. /\ OwnThenParents(Newest)' = OwnThenParents(Newest) /\ ParentsThenOwn(Newest)' = ParentsThenOwn(Newest)
      /\ DeclaredThenParents(Newest)' = DeclaredThenParents(Newest)
  BY <1>1 DEF OwnThenParents, ParentsThenOwn, DeclaredThenParents
<1>3. \A s, t, kinds : t = s =>
        Selected(t, {f \in ToSet(t) : Kind(f)' \in kinds}) = Selected(s, {f \in ToSet(s) : Kind(f) \in kinds})
  BY DEF Kind
<1>4. SaveOrder(Newest)' = SaveOrder(Newest)
  BY <1>2, <1>3 DEF SaveOrder, Only
<1>5. AddedParameters(Newest)' = AddedParameters(Newest)
  BY <1>2, <1>3 DEF AddedParameters, Only
<1>6. AddedSignals(Newest)' = AddedSignals(Newest)
  <2>1. ParentsThenOwn(Newest)' = ParentsThenOwn(Newest)
    BY <1>2
  <2>2. \A s, t : t = s =>
          Selected(t, {f \in ToSet(t) : Kind(f)' \in {"signal"}}) = Selected(s, {f \in ToSet(s) : Kind(f) \in {"signal"}})
    BY DEF Kind
  <2>3. Only(ParentsThenOwn(Newest), {"signal"})' = Only(ParentsThenOwn(Newest), {"signal"})
    BY <2>1, <2>2 DEF Only
  <2> QED BY <2>3 DEF AddedSignals
<1>7. BoundSlots(Newest)' = BoundSlots(Newest)
  <2>1. ParentsThenOwn(Newest)' = ParentsThenOwn(Newest)
    BY <1>2
  <2>2. \A s, t : t = s =>
          Selected(t, {f \in ToSet(t) : Kind(f)' \in {"slot"}}) = Selected(s, {f \in ToSet(s) : Kind(f) \in {"slot"}})
    BY DEF Kind
  <2>3. Only(ParentsThenOwn(Newest), {"slot"})' = Only(ParentsThenOwn(Newest), {"slot"})
    BY <2>1, <2>2 DEF Only
  <2> QED BY <2>3 DEF BoundSlots
<1>8. FieldsOf(Newest)' = FieldsOf(Newest)
  BY <1>2 DEF FieldsOf
<1>9. ClassesAre' = ClassesAre
  BY DEF ClassesAre
<1> QED BY <1>1, <1>4, <1>5, <1>6, <1>7, <1>8, <1>9 DEF AddedByInit

(* A new object, or one with other values, and what was added to it.       *)
LEMMA ObjectKept ==
  ASSUME ReflInv, UNCHANGED <<class, archive, reloaded>>, Len(class) = Len(ClassOrder),
         DOMAIN object' = FieldsOf(Newest), FieldsOf(Newest) # {}, added' = AddedByInit(Newest)
  PROVE  ReflInv'
<1>1. object' # <<>>
  <2>1. DOMAIN <<>> = {}
    OBVIOUS
  <2> QED BY <2>1
<1>2. ClassesAre /\ ObjectRecords /\ ArchivesAre /\ LoadsWhatWasSaved
  BY DEF ReflInv
<1>3. ObjectRecords' /\ ClassesAre'
  BY <1>1, <1>2, ClassStays DEF ObjectRecords
<1>4. ArchivesAre' /\ LoadsWhatWasSaved'
  BY <1>1, <1>2, ClassStays DEF ArchivesAre, LoadsWhatWasSaved
<1> QED BY <1>3, <1>4 DEF ReflInv

LEMMA ObjectSteps ==
  ASSUME ReflInv, ConstructObject \/ AssignMembers \/ Recompile
  PROVE  ReflInv'
<1>1. CASE ConstructObject
  <2>1. DOMAIN object' = FieldsOf(Newest)
    BY <1>1 DEF ConstructObject, Constructed, InitValues
  <2> QED BY <1>1, <2>1, ObjectKept DEF ConstructObject
<1>2. CASE AssignMembers
  <2>1. /\ Len(class) = Len(ClassOrder) /\ added = AddedByInit(Newest)
        /\ DOMAIN object = FieldsOf(Newest) /\ FieldsOf(Newest) # {}
    BY <1>2 DEF AssignMembers, ReflInv, ObjectRecords
  <2> QED BY <1>2, <2>1, ObjectKept DEF AssignMembers
<1>3. CASE Recompile
  <2>1. Len(class) = Len(ClassOrder) /\ FieldsOf(Newest) # {}
    BY <1>3 DEF Recompile, ReflInv, ObjectRecords
  <2>2. DOMAIN object' = FieldsOf(Newest)
    BY <1>3 DEF Recompile, InitValues
  <2> QED BY <1>3, <2>1, <2>2, ObjectKept DEF Recompile
<1> QED BY <1>1, <1>2, <1>3

LEMMA SaveStep == ReflInv /\ Save => ReflInv'
<1> SUFFICES ASSUME ReflInv, Save PROVE ReflInv'
  OBVIOUS
<1> DEFINE order == SaveOrder(Newest)
<1>1. ClassesAre /\ ObjectRecords /\ ArchivesAre /\ LoadsWhatWasSaved
  BY DEF ReflInv
<1>2. /\ object # <<>> /\ archive' = [i \in DOMAIN order |-> object[order[i]]] /\ reloaded' = <<>>
      /\ UNCHANGED <<class, object, added>>
  BY DEF Save
<1>3. ClassesAre' /\ ObjectRecords'
  BY <1>1, <1>2, ClassStays DEF ObjectRecords
<1>4. SaveOrder(Newest)' = order
  BY <1>2, ClassStays
<1> HIDE DEF order
<1>5. ArchivesAre'
  BY <1>2, <1>4 DEF ArchivesAre
<1>6. LoadsWhatWasSaved'
  BY <1>2 DEF LoadsWhatWasSaved
<1> QED BY <1>3, <1>5, <1>6 DEF ReflInv

LEMMA LoadStep == ReflInv /\ Load => ReflInv'
<1> SUFFICES ASSUME ReflInv, Load PROVE ReflInv'
  OBVIOUS
<1> DEFINE order == SaveOrder(Newest)
           reads(f) == {i \in DOMAIN order : order[i] = f}
<1>1. ClassesAre /\ ObjectRecords /\ ArchivesAre /\ LoadsWhatWasSaved
  BY DEF ReflInv
<1>2. /\ archive # <<>> /\ reloaded' = LoadedInto(Constructed, Newest, archive)
      /\ UNCHANGED <<class, object, added, archive>>
  BY DEF Load
<1>3. Len(class) = Len(ClassOrder)
  BY <1>1, <1>2 DEF ArchivesAre, ObjectRecords
<1>4. /\ DeclaredThenParents(Newest) \in Seq(Fields)
      /\ ToSet(DeclaredThenParents(Newest)) = FieldsOf(Newest)
  BY <1>1, <1>3, NewestVisits
<1>5. order \in Seq(Fields) /\ ToSet(order) \subseteq FieldsOf(Newest)
  BY <1>4, OnlyKeeps DEF SaveOrder
<1>6. LoadOrder(Newest) = order
  BY DEF LoadOrder, SaveOrder
<1>7. /\ DOMAIN archive = DOMAIN order
      /\ \A i, j \in DOMAIN archive : order[i] = order[j] => archive[i] = archive[j]
  BY <1>1, <1>2 DEF ArchivesAre
<1> HIDE DEF order
<1>8. ASSUME NEW i \in DOMAIN order PROVE reloaded'[order[i]] = archive[i]
  <2> DEFINE f == order[i]
             last == CHOOSE k \in reads(f) : \A j \in reads(f) : j <= k
  <2>1. Len(order) \in Nat /\ DOMAIN order = 1..Len(order)
    BY <1>5, LenProperties
  <2>2. f \in FieldsOf(Newest)
    BY <1>5, SetOfSeq
  <2>3. reads(f) \subseteq 1..Len(order) /\ reads(f) # {}
    BY <2>1
  <2>4. last \in reads(f)
    <3> DEFINE r == reads(f)
    <3> HIDE DEF r
    <3>1. Max(r) \in r /\ \A y \in r : y <= Max(r)
      BY <2>1, <2>3, MaxIn DEF r
    <3>2. (CHOOSE k \in r : \A j \in r : j <= k) \in r
      BY <3>1
    <3> QED BY <3>2 DEF r
  <2>5. reloaded'[f] = archive[last]
    BY <1>2, <1>6, <2>2, <2>3 DEF LoadedInto
  <2> HIDE DEF last
  <2>6. last \in DOMAIN archive /\ order[last] = order[i] /\ i \in DOMAIN archive
    BY <1>7, <2>4
  <2>7. archive[last] = archive[i]
    BY <1>7, <2>6
  <2> QED BY <2>5, <2>7
<1>9. LoadsWhatWasSaved'
  <2>1. SaveOrder(Newest)' = order
    BY <1>2, ClassStays DEF order
  <2> QED BY <1>2, <1>7, <1>8, <2>1 DEF LoadsWhatWasSaved
<1>10. ClassesAre' /\ ObjectRecords' /\ ArchivesAre'
  BY <1>1, <1>2, ClassStays DEF ObjectRecords, ArchivesAre
<1> QED BY <1>9, <1>10 DEF ReflInv

LEMMA InitReflInv == ReflInit => ReflInv
<1> SUFFICES ASSUME ReflInit PROVE ReflInv
  OBVIOUS
<1>1. class = <<>> /\ object = <<>> /\ added = <<>> /\ archive = <<>> /\ reloaded = <<>>
  BY DEF ReflInit
<1>2. ClassesAre
  BY <1>1, OrderIs DEF ClassesAre
<1> QED BY <1>1, <1>2 DEF ReflInv, ObjectRecords, ArchivesAre, LoadsWhatWasSaved

LEMMA ReflStep == ReflInv /\ [ReflNext]_reflVars => ReflInv'
<1> SUFFICES ASSUME ReflInv, [ReflNext]_reflVars PROVE ReflInv'
  OBVIOUS
<1>1. CASE UNCHANGED reflVars
  <2>1. UNCHANGED <<class, object, added, archive, reloaded>>
    BY <1>1 DEF reflVars
  <2> QED BY <2>1, ClassStays DEF ReflInv, ObjectRecords, ArchivesAre, LoadsWhatWasSaved
<1> QED BY <1>1, DefineKeeps, ObjectSteps, SaveStep, LoadStep DEF ReflNext

(* What an object's Init adds is what its class visits of some kinds.      *)
LEMMA AddedIs ==
  ASSUME ClassesAre, Len(class) = Len(ClassOrder)
  PROVE  /\ ToSet(AddedByInit(Newest))
              = {f \in FieldsOf(Newest) : Kind(f) \in {"param", "state", "persistent", "input", "signal", "slot"}}
         /\ ParameterInfo(Newest) \cup SlotInfo(Newest) \cup SignalInfo(Newest)
              = {f \in FieldsOf(Newest) : Kind(f) \in {"param", "state", "signal", "slot"}}
<1> DEFINE F == FieldsOf(Newest)
<1>1. /\ OwnThenParents(Newest) \in Seq(Fields) /\ ToSet(OwnThenParents(Newest)) = F
      /\ ParentsThenOwn(Newest) \in Seq(Fields) /\ ToSet(ParentsThenOwn(Newest)) = F
      /\ DeclaredThenParents(Newest) \in Seq(Fields) /\ ToSet(DeclaredThenParents(Newest)) = F
  BY NewestVisits
<1> HIDE DEF F
<1>2. /\ AddedParameters(Newest) \in Seq(Fields)
      /\ ToSet(AddedParameters(Newest)) = {f \in F : Kind(f) \in AddedKinds}
  BY <1>1, OnlyKeeps DEF AddedParameters
<1>3. /\ AddedSignals(Newest) \in Seq(Fields)
      /\ ToSet(AddedSignals(Newest)) = {f \in F : Kind(f) \in {"signal"}}
  BY <1>1, OnlyKeeps DEF AddedSignals
<1>4. /\ BoundSlots(Newest) \in Seq(Fields)
      /\ ToSet(BoundSlots(Newest)) = {f \in F : Kind(f) \in {"slot"}}
  BY <1>1, OnlyKeeps DEF BoundSlots
<1>5. /\ ParameterInfo(Newest) = {f \in F : Kind(f) \in {"param", "state"}}
      /\ SlotInfo(Newest) = {f \in F : Kind(f) \in {"slot"}}
      /\ SignalInfo(Newest) = {f \in F : Kind(f) \in {"signal"}}
  BY <1>1, OnlyKeeps DEF ParameterInfo, SlotInfo, SignalInfo
<1>6. ToSet(AddedByInit(Newest)) = ToSet(AddedParameters(Newest)) \cup ToSet(AddedSignals(Newest))
                                     \cup ToSet(BoundSlots(Newest))
  <2> DEFINE a == AddedParameters(Newest)
             b == AddedSignals(Newest)
             d == BoundSlots(Newest)
  <2>1. AddedByInit(Newest) = (a \o b) \o d
    BY DEF AddedByInit
  <2>2. a \in Seq(Fields) /\ b \in Seq(Fields) /\ d \in Seq(Fields)
    BY <1>2, <1>3, <1>4
  <2> HIDE DEF a, b, d
  <2>3. a \o b \in Seq(Fields) /\ ToSet(a \o b) = ToSet(a) \cup ToSet(b)
    BY <2>2, ConcatSet
  <2>4. ToSet((a \o b) \o d) = ToSet(a \o b) \cup ToSet(d)
    <3> DEFINE e == a \o b
    <3>1. e \in Seq(Fields)
      BY <2>3
    <3> HIDE DEF e
    <3>2. ToSet(e \o d) = ToSet(e) \cup ToSet(d)
      BY <2>2, <3>1, ConcatSet
    <3> QED BY <3>2 DEF e
  <2>5. ToSet(AddedByInit(Newest)) = ToSet(a) \cup ToSet(b) \cup ToSet(d)
    BY <2>1, <2>3, <2>4
  <2> QED BY <2>5 DEF a, b, d
<1>7. ToSet(AddedByInit(Newest))
        = {f \in F : Kind(f) \in {"param", "state", "persistent", "input", "signal", "slot"}}
  BY <1>2, <1>3, <1>4, <1>6 DEF AddedKinds
<1>8. ParameterInfo(Newest) \cup SlotInfo(Newest) \cup SignalInfo(Newest)
        = {f \in F : Kind(f) \in {"param", "state", "signal", "slot"}}
  BY <1>5
<1> QED BY <1>7, <1>8 DEF F

LEMMA InvIsSound == ReflInv => ReflectionSound
<1> SUFFICES ASSUME ReflInv PROVE ReflectionSound
  OBVIOUS
<1>1. ClassesAre /\ ObjectRecords /\ ArchivesAre /\ LoadsWhatWasSaved
  BY DEF ReflInv
<1>2. object # <<>> => /\ Len(class) = Len(ClassOrder) /\ added = AddedByInit(Newest)
                       /\ DOMAIN object = FieldsOf(Newest)
  BY <1>1 DEF ObjectRecords
<1>3. DescribesObjects
  <2> SUFFICES ASSUME object # <<>>
               PROVE  ParameterInfo(Newest) \cup SlotInfo(Newest) \cup SignalInfo(Newest)
                        = {f \in ToSet(added) : Kind(f) \notin {"input", "persistent"}}
    BY DEF DescribesObjects
  <2> QED BY <1>1, <1>2, AddedIs
<1>4. ToSet(added) \subseteq DOMAIN object
  <2>1. CASE object = <<>>
    BY <1>1, <2>1 DEF ObjectRecords, ToSet
  <2>2. CASE object # <<>>
    BY <1>1, <1>2, <2>2, AddedIs
  <2> QED BY <2>1, <2>2
<1>5. ASSUME NEW i \in DOMAIN class
      PROVE  /\ class[i].members \in Seq(Kinds)
             /\ \A f \in FieldsOf(ClassOrder[i]) :
                  \E j \in 1..i : f[1] = ClassOrder[j] /\ f[2] \in DOMAIN class[j].members
  <2>1. i \in 1..Len(ClassOrder) /\ class[i] \in ClassRecords
    BY <1>1, OrderIs DEF ClassesAre
  <2>2. FieldsOf(ClassOrder[i]) = ToSet(class[i].ownThenParents)
    BY <2>1, OrderIs DEF FieldsOf, OwnThenParents
  <2> QED BY <1>1, <2>1, <2>2 DEF ClassesAre, ClassRecords
<1>6. ReflTypeOK
  BY <1>1, <1>2, <1>4, <1>5 DEF ReflTypeOK, ClassesAre
<1> QED BY <1>1, <1>3, <1>6 DEF ReflectionSound

(* Whatever classes are defined and whatever is assigned, saved, loaded and *)
(* recompiled, the descriptions of a class name what its objects add and    *)
(* bind, and what was saved is what is loaded.                             *)
THEOREM MacrosAgree == ReflSpec => []ReflectionSound
BY InitReflInv, ReflStep, InvIsSound, PTL DEF ReflSpec

LEMMA RecompileKeeps == ReflInv => ValuesKept
<1> SUFFICES ASSUME ReflInv, Recompile, NEW f \in DOMAIN object, Kind(f) \in {"param", "state", "property"}
             PROVE  object'[f] = object[f]
  BY DEF ValuesKept
<1>1. /\ ClassesAre /\ Len(class) = Len(ClassOrder) /\ DOMAIN object = FieldsOf(Newest)
  BY DEF ReflInv, ObjectRecords, Recompile
<1>2. f \in ToSet(Only(OwnThenParents(Newest), Serialized))
  BY <1>1, NewestVisits, OnlyKeeps DEF Serialized
<1>3. SerializedOnto(object, Newest)[f] = object[f]
  BY <1>1, <1>2 DEF SerializedOnto
<1> QED BY <1>1, <1>3 DEF Recompile, InitValues

(* A recompile keeps what was assigned to a parameter, a state or a        *)
(* property of the class or of a base.                                     *)
THEOREM ReflKeepsValues == ReflSpec => RecompileKeepsValues
<1>1. ReflInv => [ValuesKept]_reflVars
  BY RecompileKeeps
<1> QED BY <1>1, InitReflInv, ReflStep, PTL DEF ReflSpec, RecompileKeepsValues

-----------------------------------------------------------------------------
(* An object's parameters                                                  *)

Raws == [InputParams -> {Nothing} \cup AllParams]
Shareds == [InputParams -> {Nothing, Orphaned} \cup AllParams]
Wirings == [InputParams -> SUBSET AllParams]
InputRecords(o) == {r \in Owners \X Names \X Ins[o] : r[2] \in Outs[r[1]] \cup Runs[r[1]]}
ObShapes ==
  [listed : [Owners -> SUBSET Names], made : [Owners -> UNION {[Runs[o] -> 0..MaxMade] : o \in Owners}],
   notify : [AllParams -> Nat], raw : Raws, shared : Shareds, wired : Wirings,
   recs : [Owners -> Seq(Owners \X Names \X Names)]]
ObStates ==
  {b \in ObShapes : \A o \in Owners : /\ b.listed[o] \subseteq Declared(o)
                                      /\ b.made[o] \in [Runs[o] -> 0..MaxMade]
                                      /\ b.recs[o] \in Seq(InputRecords(o))}

LEMMA NamesAre ==
  ASSUME NEW o \in Owners
  PROVE  Declared(o) \subseteq Names /\ Runs[o] \subseteq Names /\ Ins[o] \subseteq Names
BY DEF Names, Declared

LEMMA ParamsAre ==
  /\ \A o \in Owners : \A n \in Declared(o) : <<o, n, 0>> \in AllParams
  /\ \A o \in Owners : \A n \in Runs[o] : \A k \in 1..MaxMade : <<o, n, k>> \in AllParams
  /\ \A p \in AllParams : \/ \E o \in Owners : \E n \in Declared(o) : p = <<o, n, 0>>
                          \/ \E o \in Owners : \E n \in Runs[o] : \E k \in 1..MaxMade : p = <<o, n, k>>
<1>1. ASSUME NEW o \in Owners, NEW n \in Declared(o) PROVE <<o, n, 0>> \in AllParams
  BY DEF AllParams, ParamsOf
<1>2. ASSUME NEW o \in Owners, NEW n \in Runs[o], NEW k \in 1..MaxMade PROVE <<o, n, k>> \in AllParams
  BY DEF AllParams, ParamsOf
<1>3. ASSUME NEW p \in AllParams
      PROVE  \/ \E o \in Owners : \E n \in Declared(o) : p = <<o, n, 0>>
             \/ \E o \in Owners : \E n \in Runs[o] : \E k \in 1..MaxMade : p = <<o, n, k>>
  <2>1. PICK o \in Owners : p \in ParamsOf(o)
    BY DEF AllParams
  <2>2. CASE p \in {o} \X Declared(o) \X {0}
    BY <2>2
  <2>3. CASE p \in {o} \X Runs[o] \X (1..MaxMade)
    BY <2>3
  <2> QED BY <2>1, <2>2, <2>3 DEF ParamsOf
<1> QED BY <1>1, <1>2, <1>3

LEMMA InputsAre ==
  /\ \A o \in Owners : \A n \in Ins[o] : <<o, n, 0>> \in InputParams
  /\ \A i \in InputParams : \E o \in Owners : \E n \in Ins[o] : i = <<o, n, 0>>
<1>1. ASSUME NEW o \in Owners, NEW n \in Ins[o] PROVE <<o, n, 0>> \in InputParams
  BY DEF InputParams
<1>2. ASSUME NEW i \in InputParams PROVE \E o \in Owners : \E n \in Ins[o] : i = <<o, n, 0>>
  BY DEF InputParams
<1> QED BY <1>1, <1>2

LEMMA StateIs ==
  ASSUME NEW b \in ObStates
  PROVE  /\ b = [listed |-> b.listed, made |-> b.made, notify |-> b.notify, raw |-> b.raw, shared |-> b.shared, wired |-> b.wired, recs |-> b.recs]
         /\ b.listed \in [Owners -> SUBSET Names] /\ b.notify \in [AllParams -> Nat]
         /\ b.raw \in Raws /\ b.shared \in Shareds /\ b.wired \in Wirings
         /\ b.made \in [Owners -> UNION {[Runs[o] -> 0..MaxMade] : o \in Owners}]
         /\ b.recs \in [Owners -> Seq(Owners \X Names \X Names)]
         /\ \A o \in Owners : /\ b.listed[o] \subseteq Declared(o)
                              /\ b.made[o] \in [Runs[o] -> 0..MaxMade]
                              /\ b.recs[o] \in Seq(InputRecords(o))
BY DEF ObStates, ObShapes

LEMMA IsState ==
  ASSUME NEW l, NEW m, NEW nt, NEW rw, NEW sh, NEW wd, NEW rc,
         l \in [Owners -> SUBSET Names], nt \in [AllParams -> Nat], rw \in Raws, sh \in Shareds, wd \in Wirings,
         DOMAIN m = Owners, m = [o \in Owners |-> m[o]], DOMAIN rc = Owners, rc = [o \in Owners |-> rc[o]],
         \A o \in Owners : /\ l[o] \subseteq Declared(o)
                           /\ m[o] \in [Runs[o] -> 0..MaxMade]
                           /\ rc[o] \in Seq(InputRecords(o))
  PROVE  [listed |-> l, made |-> m, notify |-> nt, raw |-> rw, shared |-> sh, wired |-> wd, recs |-> rc] \in ObStates
<1>1. m \in [Owners -> UNION {[Runs[o] -> 0..MaxMade] : o \in Owners}]
  OBVIOUS
<1>2. ASSUME NEW o \in Owners PROVE rc[o] \in Seq(Owners \X Names \X Names)
  <2>1. InputRecords(o) \subseteq Owners \X Names \X Names
    BY NamesAre DEF InputRecords
  <2> QED BY <2>1, SeqMonotonic
<1>3. rc \in [Owners -> Seq(Owners \X Names \X Names)]
  BY <1>2
<1> QED BY <1>1, <1>3 DEF ObStates, ObShapes

(* A state with other links, and one with other records.                   *)
LEMMA OtherLinks ==
  ASSUME NEW b \in ObStates, NEW nt \in [AllParams -> Nat], NEW rw \in Raws, NEW sh \in Shareds, NEW wd \in Wirings
  PROVE  [listed |-> b.listed, made |-> b.made, notify |-> nt, raw |-> rw, shared |-> sh, wired |-> wd, recs |-> b.recs] \in ObStates
<1>1. /\ b.listed \in [Owners -> SUBSET Names]
      /\ DOMAIN b.made = Owners /\ b.made = [o \in Owners |-> b.made[o]]
      /\ DOMAIN b.recs = Owners /\ b.recs = [o \in Owners |-> b.recs[o]]
      /\ \A o \in Owners : /\ b.listed[o] \subseteq Declared(o)
                           /\ b.made[o] \in [Runs[o] -> 0..MaxMade]
                           /\ b.recs[o] \in Seq(InputRecords(o))
  BY StateIs
<1> QED BY <1>1, IsState

LEMMA OtherRecords ==
  ASSUME NEW b \in ObStates, NEW rc, DOMAIN rc = Owners, rc = [o \in Owners |-> rc[o]],
         \A o \in Owners : rc[o] \in Seq(InputRecords(o))
  PROVE  [listed |-> b.listed, made |-> b.made, notify |-> b.notify, raw |-> b.raw, shared |-> b.shared, wired |-> b.wired, recs |-> rc] \in ObStates
<1>1. /\ b.listed \in [Owners -> SUBSET Names] /\ b.notify \in [AllParams -> Nat]
      /\ b.raw \in Raws /\ b.shared \in Shareds /\ b.wired \in Wirings
      /\ DOMAIN b.made = Owners /\ b.made = [o \in Owners |-> b.made[o]]
      /\ \A o \in Owners : /\ b.listed[o] \subseteq Declared(o)
                           /\ b.made[o] \in [Runs[o] -> 0..MaxMade]
  BY StateIs
<1> QED BY <1>1, IsState

(* What is left of the links when parameters are deleted.                  *)
LEMMA DeletedIs ==
  ASSUME NEW b \in ObStates, NEW params
  PROVE  LET d == Deleted(b, params) IN
         /\ d \in ObStates /\ d.listed = b.listed /\ d.made = b.made /\ d.recs = b.recs
         /\ \A p \in AllParams : d.notify[p] = IF p \in params THEN 0 ELSE b.notify[p]
         /\ \A i \in InputParams : i \in params => d.shared[i] = Nothing
<1> DEFINE d == Deleted(b, params)
           nt == [p \in AllParams |-> IF p \in params THEN 0 ELSE b.notify[p]]
           rw == [i \in InputParams |-> IF Cut(b, i, params) THEN Nothing ELSE b.raw[i]]
           sh == [i \in InputParams |-> IF Cut(b, i, params) THEN Nothing
                                        ELSE IF b.shared[i] \in params THEN Orphaned ELSE b.shared[i]]
           wd == [i \in InputParams |-> IF i \in params THEN {} ELSE b.wired[i] \ params]
<1>1. d = [listed |-> b.listed, made |-> b.made, notify |-> nt, raw |-> rw, shared |-> sh, wired |-> wd, recs |-> b.recs]
  <2>1. b = [listed |-> b.listed, made |-> b.made, notify |-> b.notify, raw |-> b.raw, shared |-> b.shared, wired |-> b.wired, recs |-> b.recs]
    BY StateIs
  <2>2. d = [b EXCEPT !.notify = nt, !.raw = rw, !.shared = sh, !.wired = wd]
    BY DEF Deleted
  <2> HIDE DEF d, nt, rw, sh, wd
  <2> QED BY <2>1, <2>2
<1>2. nt \in [AllParams -> Nat] /\ \A p \in AllParams : nt[p] = IF p \in params THEN 0 ELSE b.notify[p]
  BY StateIs
<1>3. rw \in Raws
  BY StateIs DEF Raws
<1>4. sh \in Shareds
  BY StateIs DEF Shareds
<1>5. wd \in Wirings
  BY StateIs DEF Wirings
<1>6. \A i \in InputParams : i \in params => sh[i] = Nothing
  BY DEF Cut
<1> HIDE DEF d, nt, rw, sh, wd
<1>7. [listed |-> b.listed, made |-> b.made, notify |-> nt, raw |-> rw, shared |-> sh, wired |-> wd, recs |-> b.recs] \in ObStates
  BY <1>2, <1>3, <1>4, <1>5, OtherLinks
<1>8. /\ d \in ObStates /\ d.listed = b.listed /\ d.made = b.made /\ d.recs = b.recs /\ d.notify = nt /\ d.shared = sh
  BY <1>1, <1>7
<1> QED BY <1>2, <1>6, <1>8 DEF d

(* An object's declared parameters are listed, and notify it once more.    *)
LEMMA InitIs ==
  ASSUME NEW b \in ObStates, NEW o \in Owners
  PROVE  LET d == InitParameters(b, o) IN
         /\ d \in ObStates /\ d.made = b.made /\ d.recs = b.recs /\ d.raw = b.raw /\ d.shared = b.shared
         /\ d.listed[o] = Declared(o) /\ \A x \in Owners : x # o => d.listed[x] = b.listed[x]
         /\ \A p \in AllParams : d.notify[p] = IF p[1] = o /\ p[3] = 0 THEN b.notify[p] + 1 ELSE b.notify[p]
<1> DEFINE d == InitParameters(b, o)
           l == [b.listed EXCEPT ![o] = Declared(o)]
           nt == [p \in AllParams |-> IF p[1] = o /\ p[3] = 0 THEN b.notify[p] + 1 ELSE b.notify[p]]
<1>1. d = [listed |-> l, made |-> b.made, notify |-> nt, raw |-> b.raw, shared |-> b.shared, wired |-> b.wired, recs |-> b.recs]
  <2>1. b = [listed |-> b.listed, made |-> b.made, notify |-> b.notify, raw |-> b.raw, shared |-> b.shared, wired |-> b.wired, recs |-> b.recs]
    BY StateIs
  <2>2. d = [b EXCEPT !.listed = l, !.notify = nt]
    BY StateIs DEF InitParameters
  <2> HIDE DEF d, l, nt
  <2> QED BY <2>1, <2>2
<1>2. nt \in [AllParams -> Nat] /\ \A p \in AllParams : nt[p] = IF p[1] = o /\ p[3] = 0 THEN b.notify[p] + 1 ELSE b.notify[p]
  BY StateIs
<1>3. /\ l \in [Owners -> SUBSET Names] /\ l[o] = Declared(o) /\ \A x \in Owners : x # o => l[x] = b.listed[x]
  BY StateIs, NamesAre
<1> HIDE DEF d, l, nt
<1>4. \A x \in Owners : l[x] \subseteq Declared(x)
  BY <1>3, StateIs
<1>5. [listed |-> l, made |-> b.made, notify |-> nt, raw |-> b.raw, shared |-> b.shared, wired |-> b.wired, recs |-> b.recs] \in ObStates
  <2>1. /\ b.raw \in Raws /\ b.shared \in Shareds /\ b.wired \in Wirings
        /\ DOMAIN b.made = Owners /\ b.made = [x \in Owners |-> b.made[x]]
        /\ DOMAIN b.recs = Owners /\ b.recs = [x \in Owners |-> b.recs[x]]
        /\ \A x \in Owners : b.made[x] \in [Runs[x] -> 0..MaxMade] /\ b.recs[x] \in Seq(InputRecords(x))
    BY StateIs
  <2> QED BY <1>2, <1>3, <1>4, <2>1, IsState
<1>6. /\ d \in ObStates /\ d.made = b.made /\ d.recs = b.recs /\ d.raw = b.raw /\ d.shared = b.shared /\ d.listed = l /\ d.notify = nt
  BY <1>1, <1>5
<1> QED BY <1>2, <1>3, <1>6 DEF d

(* Setting one of an input's two pointers.                                 *)
Same(c, b, i) == c.raw[i] = b.raw[i] /\ c.shared[i] = b.shared[i]
OnlyLinks(b, d, i) ==
  /\ d.listed = b.listed /\ d.made = b.made /\ d.notify = b.notify /\ d.recs = b.recs
  /\ \A x \in InputParams : x # i => Same(d, b, x)

LEMMA SetRawIs ==
  ASSUME NEW b \in ObStates, NEW i \in InputParams, NEW p \in AllParams
  PROVE  LET d == SetRaw(b, i, p) IN
         d \in ObStates /\ OnlyLinks(b, d, i) /\ d.raw[i] = p /\ d.shared[i] = b.shared[i]
<1> DEFINE d == SetRaw(b, i, p)
           rw == [b.raw EXCEPT ![i] = p]
           wd == [b.wired EXCEPT ![i] = b.wired[i] \cup {p}]
<1>1. d = [listed |-> b.listed, made |-> b.made, notify |-> b.notify, raw |-> rw, shared |-> b.shared, wired |-> wd, recs |-> b.recs]
  <2>1. b = [listed |-> b.listed, made |-> b.made, notify |-> b.notify, raw |-> b.raw, shared |-> b.shared, wired |-> b.wired, recs |-> b.recs]
    BY StateIs
  <2>2. d = [b EXCEPT !.raw = rw, !.wired = wd]
    BY StateIs DEF SetRaw
  <2> HIDE DEF d, rw, wd
  <2> QED BY <2>1, <2>2
<1>2. rw \in Raws /\ rw[i] = p /\ \A x \in InputParams : x # i => rw[x] = b.raw[x]
  BY StateIs DEF Raws
<1>3. wd \in Wirings
  BY StateIs DEF Wirings
<1> HIDE DEF d, rw, wd
<1>4. [listed |-> b.listed, made |-> b.made, notify |-> b.notify, raw |-> rw, shared |-> b.shared, wired |-> wd, recs |-> b.recs] \in ObStates
  <2>1. b.notify \in [AllParams -> Nat] /\ b.shared \in Shareds
    BY StateIs
  <2> QED BY <1>2, <1>3, <2>1, OtherLinks
<1>5. /\ d \in ObStates /\ d.listed = b.listed /\ d.made = b.made /\ d.notify = b.notify
      /\ d.raw = rw /\ d.shared = b.shared /\ d.recs = b.recs
  BY <1>1, <1>4
<1> QED BY <1>2, <1>5 DEF d, OnlyLinks, Same

LEMMA SetBufferIs ==
  ASSUME NEW b \in ObStates, NEW i \in InputParams, NEW p \in AllParams
  PROVE  LET d == SetBuffer(b, i, p) IN
         d \in ObStates /\ OnlyLinks(b, d, i) /\ (b.shared[i] = Nothing => d.shared[i] = p)
<1> DEFINE d == SetBuffer(b, i, p)
           rw == IF b.shared[i] = Nothing THEN b.raw ELSE [b.raw EXCEPT ![i] = Nothing]
           sh == IF b.shared[i] = Nothing THEN [b.shared EXCEPT ![i] = p] ELSE [b.shared EXCEPT ![i] = Nothing]
<1>1. d = [listed |-> b.listed, made |-> b.made, notify |-> b.notify, raw |-> rw, shared |-> sh, wired |-> b.wired, recs |-> b.recs]
  <2>1. b = [listed |-> b.listed, made |-> b.made, notify |-> b.notify, raw |-> b.raw, shared |-> b.shared, wired |-> b.wired, recs |-> b.recs]
    BY StateIs
  <2>2. d = [b EXCEPT !.raw = rw, !.shared = sh]
    <3>1. CASE b.shared[i] = Nothing
      <4>1. rw = b.raw /\ d = [b EXCEPT !.shared = sh]
        BY <3>1 DEF SetBuffer
      <4> HIDE DEF d, rw, sh
      <4> QED BY <2>1, <4>1
    <3>2. CASE b.shared[i] # Nothing
      BY <3>2 DEF SetBuffer
    <3> QED BY <3>1, <3>2
  <2> HIDE DEF d, rw, sh
  <2> QED BY <2>1, <2>2
<1>2. rw \in Raws /\ \A x \in InputParams : x # i => rw[x] = b.raw[x]
  BY StateIs DEF Raws
<1>3. /\ sh \in Shareds /\ \A x \in InputParams : x # i => sh[x] = b.shared[x]
      /\ b.shared[i] = Nothing => sh[i] = p
  BY StateIs DEF Shareds
<1> HIDE DEF d, rw, sh
<1>4. [listed |-> b.listed, made |-> b.made, notify |-> b.notify, raw |-> rw, shared |-> sh, wired |-> b.wired, recs |-> b.recs] \in ObStates
  <2>1. b.notify \in [AllParams -> Nat] /\ b.wired \in Wirings
    BY StateIs
  <2> QED BY <1>2, <1>3, <2>1, OtherLinks
<1>5. /\ d \in ObStates /\ d.listed = b.listed /\ d.made = b.made /\ d.notify = b.notify
      /\ d.raw = rw /\ d.shared = sh /\ d.recs = b.recs
  BY <1>1, <1>4
<1> QED BY <1>2, <1>3, <1>5 DEF d, OnlyLinks, Same

(* An object records what it connects an input to.                         *)
LEMMA RecordedIs ==
  ASSUME NEW a \in ObStates, NEW o \in Owners, NEW e \in InputRecords(o)
  PROVE  LET d == [a EXCEPT !.recs[o] = Append(@, e)] IN
         /\ d \in ObStates /\ d.listed = a.listed /\ d.made = a.made /\ d.notify = a.notify
         /\ d.raw = a.raw /\ d.shared = a.shared
         /\ \A x \in Owners : x # o => d.recs[x] = a.recs[x]
<1> DEFINE d == [a EXCEPT !.recs[o] = Append(@, e)]
           rc == [a.recs EXCEPT ![o] = Append(a.recs[o], e)]
<1>1. d = [listed |-> a.listed, made |-> a.made, notify |-> a.notify, raw |-> a.raw, shared |-> a.shared, wired |-> a.wired, recs |-> rc]
  <2>1. a = [listed |-> a.listed, made |-> a.made, notify |-> a.notify, raw |-> a.raw, shared |-> a.shared, wired |-> a.wired, recs |-> a.recs]
    BY StateIs
  <2>2. d = [a EXCEPT !.recs = rc]
    BY StateIs
  <2> HIDE DEF d, rc
  <2> QED BY <2>1, <2>2
<1>2. /\ DOMAIN rc = Owners /\ rc = [x \in Owners |-> rc[x]]
      /\ rc[o] = Append(a.recs[o], e) /\ \A x \in Owners : x # o => rc[x] = a.recs[x]
  BY StateIs
<1> HIDE DEF d, rc
<1>3. ASSUME NEW x \in Owners PROVE rc[x] \in Seq(InputRecords(x))
  <2>1. a.recs[x] \in Seq(InputRecords(x))
    BY StateIs
  <2>2. CASE x = o
    <3>1. Append(a.recs[o], e) \in Seq(InputRecords(o))
      <4>1. PICK q \in Seq(InputRecords(o)) : q = a.recs[o]
        BY <2>1, <2>2
      <4>2. Append(q, e) \in Seq(InputRecords(o))
        OBVIOUS
      <4> QED BY <4>1, <4>2
    <3> QED BY <1>2, <2>2, <3>1
  <2>3. CASE x # o
    BY <1>2, <2>1, <2>3
  <2> QED BY <2>2, <2>3
<1>4. [listed |-> a.listed, made |-> a.made, notify |-> a.notify, raw |-> a.raw, shared |-> a.shared, wired |-> a.wired, recs |-> rc] \in ObStates
  BY <1>2, <1>3, OtherRecords
<1>5. /\ d \in ObStates /\ d.listed = a.listed /\ d.made = a.made /\ d.notify = a.notify
      /\ d.raw = a.raw /\ d.shared = a.shared /\ d.recs = rc
  BY <1>1, <1>4
<1> QED BY <1>2, <1>5 DEF d

(* An input is given another parameter to read, directly or by a buffer.   *)
Given(b, d, i, p, via) ==
  /\ via = "direct" => d.raw[i] = p /\ d.shared[i] = b.shared[i]
  /\ via # "direct" /\ b.shared[i] = Nothing => d.shared[i] = p

LEMMA ConnectedIs ==
  ASSUME NEW b \in ObStates, NEW o \in Owners, NEW n \in Ins[o],
         NEW p \in AllParams, p[2] \in Outs[p[1]] \cup Runs[p[1]]
  PROVE  LET d == Connected(b, o, n, p) IN
         /\ d \in ObStates /\ d.listed = b.listed /\ d.made = b.made /\ d.notify = b.notify
         /\ Given(b, d, <<o, n, 0>>, p, Via(o, p))
         /\ \A i \in InputParams : i # <<o, n, 0>> => Same(d, b, i)
         /\ \A x \in Owners : x # o => d.recs[x] = b.recs[x]
<1>1. PICK i \in InputParams : i = <<o, n, 0>>
  BY InputsAre
<1>2. PICK e \in InputRecords(o) : e = <<p[1], p[2], n>>
  <2>1. p[1] \in Owners /\ p[2] \in Names
    BY ParamsAre, NamesAre
  <2> QED BY <2>1 DEF InputRecords
<1>3. PICK a : a = IF Via(o, p) = "buffer" THEN SetBuffer(b, i, p) ELSE SetRaw(b, i, p)
  OBVIOUS
<1>4. a \in ObStates /\ OnlyLinks(b, a, i) /\ Given(b, a, i, p, Via(o, p))
  <2>1. CASE Via(o, p) = "buffer"
    BY <1>3, <2>1, SetBufferIs DEF Given
  <2>2. CASE Via(o, p) # "buffer"
    <3>1. Via(o, p) = "direct"
      BY <2>2 DEF Via
    <3> QED BY <1>3, <2>2, <3>1, SetRawIs DEF Given
  <2> QED BY <2>1, <2>2
<1>5. PICK d : d = [a EXCEPT !.recs[o] = Append(@, e)]
  OBVIOUS
<1>6. d = Connected(b, o, n, p)
  BY <1>1, <1>2, <1>3, <1>5 DEF Connected
<1>7. /\ d \in ObStates /\ d.listed = a.listed /\ d.made = a.made /\ d.notify = a.notify
      /\ d.raw = a.raw /\ d.shared = a.shared
      /\ \A x \in Owners : x # o => d.recs[x] = a.recs[x]
  BY <1>4, <1>5, RecordedIs
<1>8. /\ d \in ObStates /\ d.listed = b.listed /\ d.made = b.made /\ d.notify = b.notify
      /\ Given(b, d, i, p, Via(o, p))
      /\ \A x \in InputParams : x # i => Same(d, b, x)
      /\ \A x \in Owners : x # o => d.recs[x] = b.recs[x]
  BY <1>4, <1>7 DEF OnlyLinks, Given, Same
<1> QED BY <1>1, <1>6, <1>8

LEMMA FoundIs ==
  ASSUME NEW b \in ObStates, NEW o \in Owners, NEW n \in Outs[o] \cup Runs[o]
  PROVE  LET f == Found(b, o, n) IN
         /\ f # Nothing => f \in AllParams /\ f[1] = o /\ f[2] = n
         /\ f # Nothing => \/ n \in b.listed[o] /\ f = <<o, n, 0>>
                           \/ n \in Runs[o] /\ b.made[o][n] > 0 /\ f = <<o, n, b.made[o][n]>>
         /\ n \in b.listed[o] => f = <<o, n, 0>> /\ f # Nothing
         /\ f = Nothing => n \notin b.listed[o]
<1>1. b.listed[o] \subseteq Declared(o) /\ b.made[o] \in [Runs[o] -> 0..MaxMade] /\ MaxMade \in Nat
  BY StateIs, ObjAssumption
<1>2. CASE n \in b.listed[o]
  <2>1. Found(b, o, n) = <<o, n, 0>>
    BY <1>2 DEF Found
  <2>2. <<o, n, 0>> \in AllParams
    BY <1>1, <1>2, ParamsAre
  <2> QED BY <1>2, <2>1, <2>2 DEF Nothing
<1>3. CASE n \notin b.listed[o] /\ n \in Runs[o] /\ b.made[o][n] > 0
  <2>1. Found(b, o, n) = <<o, n, b.made[o][n]>>
    BY <1>3 DEF Found
  <2>2. b.made[o][n] \in 1..MaxMade
    BY <1>1, <1>3
  <2>3. <<o, n, b.made[o][n]>> \in AllParams
    BY <1>3, <2>2, ParamsAre
  <2> QED BY <1>3, <2>1, <2>3
<1>4. CASE n \notin b.listed[o] /\ ~(n \in Runs[o] /\ b.made[o][n] > 0)
  BY <1>4 DEF Found
<1> QED BY <1>2, <1>3, <1>4

(* A parameter that an object has listed or made.                          *)
Exists(b, objects, p) ==
  /\ p[1] \in objects
  /\ \/ p[2] \in b.listed[p[1]] /\ p = <<p[1], p[2], 0>>
     \/ p[2] \in Runs[p[1]] /\ b.made[p[1]][p[2]] > 0 /\ p = <<p[1], p[2], b.made[p[1]][p[2]]>>

LEMMA ExistingIs ==
  /\ \A p : p \in Existing <=> Exists(ob, built, p)
  /\ \A p : p \in Existing' <=> Exists(ob', built', p)
  /\ \A o \in built : \A p : p \in ParametersOf(o) <=> Exists(ob, built, p) /\ p[1] = o
<1>1. ASSUME NEW o, NEW p
      PROVE  p \in ParametersOf(o) <=>
               /\ p[1] = o
               /\ \/ p[2] \in ob.listed[o] /\ p = <<p[1], p[2], 0>>
                  \/ p[2] \in Runs[o] /\ ob.made[o][p[2]] > 0 /\ p = <<p[1], p[2], ob.made[o][p[2]]>>
  BY DEF ParametersOf
<1>2. ASSUME NEW o, NEW p
      PROVE  p \in ParametersOf(o)' <=>
               /\ p[1] = o
               /\ \/ p[2] \in ob'.listed[o] /\ p = <<p[1], p[2], 0>>
                  \/ p[2] \in Runs[o] /\ ob'.made[o][p[2]] > 0 /\ p = <<p[1], p[2], ob'.made[o][p[2]]>>
  BY DEF ParametersOf
<1>3. \A p : p \in Existing <=> Exists(ob, built, p)
  BY <1>1 DEF Existing, Exists
<1>4. \A p : p \in Existing' <=> Exists(ob', built', p)
  BY <1>2 DEF Existing, Exists
<1>5. \A o \in built : \A p : p \in ParametersOf(o) <=> Exists(ob, built, p) /\ p[1] = o
  BY <1>1 DEF Exists
<1> QED BY <1>3, <1>4, <1>5

(* What a parameter that exists is.                                        *)
LEMMA ExistsIs ==
  ASSUME NEW b \in ObStates, NEW objects \in SUBSET Owners, NEW p, Exists(b, objects, p)
  PROVE  /\ p \in AllParams /\ p[1] \in Owners /\ p[3] \in Nat
         /\ p \notin InputParams => p[2] \in Outs[p[1]] \cup Runs[p[1]]
<1>1. p[1] \in Owners /\ MaxMade \in Nat
  BY ObjAssumption DEF Exists
<1>2. b.listed[p[1]] \subseteq Declared(p[1]) /\ b.made[p[1]] \in [Runs[p[1]] -> 0..MaxMade]
  BY <1>1, StateIs
<1>3. CASE p[2] \in b.listed[p[1]] /\ p = <<p[1], p[2], 0>>
  <2>1. p[2] \in Declared(p[1]) /\ <<p[1], p[2], 0>> \in AllParams /\ p[3] = 0
    BY <1>1, <1>2, <1>3, ParamsAre
  <2>2. p[2] \in Ins[p[1]] => <<p[1], p[2], 0>> \in InputParams
    BY <1>1, InputsAre
  <2> QED BY <1>1, <1>3, <2>1, <2>2 DEF Declared
<1>4. CASE p[2] \in Runs[p[1]] /\ b.made[p[1]][p[2]] > 0 /\ p = <<p[1], p[2], b.made[p[1]][p[2]]>>
  <2>1. b.made[p[1]][p[2]] \in 1..MaxMade
    BY <1>1, <1>2, <1>4
  <2>2. <<p[1], p[2], b.made[p[1]][p[2]]>> \in AllParams /\ p[3] = b.made[p[1]][p[2]]
    BY <1>1, <1>4, <2>1, ParamsAre
  <2> QED BY <1>1, <1>4, <2>1, <2>2
<1> QED BY <1>3, <1>4 DEF Exists

Hears(b, objects, late) ==
  \A p \in AllParams : Exists(b, objects, p) =>
     b.notify[p] >= 1 /\ (b.notify[p] > 1 => p[1] \in late /\ p[3] = 0)
ObGood(b, objects, late) ==
  /\ b \in ObStates /\ objects \subseteq Owners
  /\ \A o \in objects : b.listed[o] = Declared(o)
  /\ Hears(b, objects, late)

ParamInv == ObGood(ob, built, early) /\ managed \in [TreeNames -> {Nothing} \cup AllParams]

LEMMA InvIsParametersSound == ParamInv => ParametersSound
<1> SUFFICES ASSUME ParamInv PROVE ParametersSound
  OBVIOUS
<1>1. ob \in ObStates /\ built \subseteq Owners /\ Hears(ob, built, early)
  BY DEF ParamInv, ObGood
<1>2. ObjTypeOK
  BY <1>1, StateIs DEF ObjTypeOK, ParamInv, Raws, Shareds, Wirings
<1>3. NotifiesOwner
  BY <1>1, ExistingIs, ExistsIs DEF NotifiesOwner, Hears
<1> QED BY <1>2, <1>3 DEF ParametersSound

LEMMA InitParamInv == ObjInit => ParamInv
<1> SUFFICES ASSUME ObjInit PROVE ParamInv
  OBVIOUS
<1> DEFINE l == [o \in Owners |-> Declared(o)]
           m == [o \in Owners |-> [n \in Runs[o] |-> 0]]
           nt == [p \in AllParams |-> IF p[3] = 0 THEN 1 ELSE 0]
           rw == [i \in InputParams |-> Nothing]
           wd == [i \in InputParams |-> {}]
           rc == [o \in Owners |-> <<>>]
<1>1. ob = [listed |-> l, made |-> m, notify |-> nt, raw |-> rw, shared |-> rw, wired |-> wd, recs |-> rc] /\ built = Owners
      /\ managed = [t \in TreeNames |-> Nothing]
  BY DEF ObjInit
<1>2. /\ l \in [Owners -> SUBSET Names] /\ nt \in [AllParams -> Nat] /\ rw \in Raws /\ rw \in Shareds /\ wd \in Wirings
  BY NamesAre DEF Raws, Shareds, Wirings
<1>3. \A o \in Owners : l[o] = Declared(o) /\ m[o] = [n \in Runs[o] |-> 0] /\ rc[o] = <<>>
  OBVIOUS
<1>4. \A o \in Owners : m[o] \in [Runs[o] -> 0..MaxMade] /\ rc[o] \in Seq(InputRecords(o))
  BY <1>3, ObjAssumption
<1>5. [listed |-> l, made |-> m, notify |-> nt, raw |-> rw, shared |-> rw, wired |-> wd, recs |-> rc] \in ObStates
  BY <1>2, <1>3, <1>4, IsState
<1>6. \A p \in AllParams : nt[p] = IF p[3] = 0 THEN 1 ELSE 0
  OBVIOUS
<1> HIDE DEF l, m, nt, rw, wd, rc
<1>8. ob.listed = l /\ ob.made = m /\ ob.notify = nt /\ ob \in ObStates
  BY <1>1, <1>5
<1>9. Hears(ob, built, early)
  <2> SUFFICES ASSUME NEW p \in AllParams, Exists(ob, built, p)
               PROVE  ob.notify[p] >= 1 /\ ~(ob.notify[p] > 1)
    BY DEF Hears
  <2>1. p[3] = 0
    <3>1. CASE p = <<p[1], p[2], 0>>
      BY <3>1
    <3>2. CASE p[2] \in Runs[p[1]] /\ ob.made[p[1]][p[2]] > 0
      <4>1. p[1] \in Owners
        BY <1>1 DEF Exists
      <4>2. ob.made[p[1]][p[2]] = 0
        BY <1>3, <1>8, <3>2, <4>1
      <4> QED BY <3>2, <4>2
    <3> QED BY <3>1, <3>2 DEF Exists
  <2> QED BY <1>6, <1>8, <2>1
<1>10. managed \in [TreeNames -> {Nothing} \cup AllParams]
  BY <1>1
<1> QED BY <1>1, <1>3, <1>8, <1>9, <1>10 DEF ParamInv, ObGood

LEMMA UpdateKeeps ==
  ASSUME ParamInv, NEW o \in Owners, NEW n \in Runs[o], UpdateParameter(o, n)
  PROVE  ParamInv'
<1> DEFINE k == ob.made[o][n]
           q == <<o, n, k + 1>>
           old == <<o, n, k>>
           d == Deleted(ob, {old})
           m == [d.made EXCEPT ![o] = [d.made[o] EXCEPT ![n] = k + 1]]
           nt == [d.notify EXCEPT ![q] = 1]
           b == [d EXCEPT !.made = m, !.notify = nt]
<1>1. /\ o \in built /\ k < MaxMade /\ UNCHANGED <<built, context, root, managed, early>>
      /\ ob' = AddMade(ob, q)
  BY DEF UpdateParameter
<1>2. /\ ob \in ObStates /\ built \subseteq Owners /\ \A x \in built : ob.listed[x] = Declared(x)
      /\ Hears(ob, built, early)
  BY DEF ParamInv, ObGood
<1>3. /\ d \in ObStates /\ d.listed = ob.listed /\ d.made = ob.made /\ d.recs = ob.recs
      /\ \A p \in AllParams : d.notify[p] = IF p = old THEN 0 ELSE ob.notify[p]
  <2>1. \A x : x \in {old} <=> x = old
    OBVIOUS
  <2> HIDE DEF old
  <2> QED BY <1>2, <2>1, DeletedIs
<1>4. /\ ob.made[o] \in [Runs[o] -> 0..MaxMade] /\ k \in Nat /\ k + 1 \in 1..MaxMade /\ q \in AllParams
  <2>1. ob.made[o] \in [Runs[o] -> 0..MaxMade] /\ MaxMade \in Nat
    BY <1>2, StateIs, ObjAssumption
  <2>2. k \in Nat /\ k + 1 \in 1..MaxMade
    BY <1>1, <2>1
  <2> QED BY <2>1, <2>2, ParamsAre
<1>5. ob' = b
  <2>1. d = [listed |-> d.listed, made |-> d.made, notify |-> d.notify, raw |-> d.raw, shared |-> d.shared, wired |-> d.wired, recs |-> d.recs]
    BY <1>3, StateIs
  <2>2. ob' = [Deleted(ob, {old}) EXCEPT !.made[o][n] = k + 1, !.notify[q] = 1]
    BY <1>1 DEF AddMade
  <2> QED BY <2>1, <2>2
<1>6. /\ m[o] = [ob.made[o] EXCEPT ![n] = k + 1] /\ \A x \in Owners : x # o => m[x] = ob.made[x]
      /\ DOMAIN m = Owners /\ m = [x \in Owners |-> m[x]]
  <2>1. /\ d.made = ob.made /\ DOMAIN ob.made = Owners
    BY <1>2, <1>3, StateIs
  <2> HIDE DEF d
  <2> QED BY <2>1
<1>7. /\ nt \in [AllParams -> Nat] /\ nt[q] = 1 /\ \A p \in AllParams : p # q => nt[p] = d.notify[p]
  BY <1>3, <1>4, StateIs
<1>8. b = [listed |-> ob.listed, made |-> m, notify |-> nt, raw |-> d.raw, shared |-> d.shared, wired |-> d.wired, recs |-> ob.recs]
  <2>1. d = [listed |-> d.listed, made |-> d.made, notify |-> d.notify, raw |-> d.raw, shared |-> d.shared, wired |-> d.wired, recs |-> d.recs]
    BY <1>3, StateIs
  <2>2. b = [d EXCEPT !.made = m, !.notify = nt]
    OBVIOUS
  <2> HIDE DEF m, nt, d, b
  <2>3. b = [listed |-> d.listed, made |-> m, notify |-> nt, raw |-> d.raw, shared |-> d.shared, wired |-> d.wired, recs |-> d.recs]
    BY <2>1, <2>2
  <2> QED BY <1>3, <2>3
<1> HIDE DEF d, m, nt, b
<1>9. \A x \in Owners : m[x] \in [Runs[x] -> 0..MaxMade]
  <2> SUFFICES ASSUME NEW x \in Owners PROVE m[x] \in [Runs[x] -> 0..MaxMade]
    OBVIOUS
  <2>1. CASE x = o
    BY <1>4, <1>6, <2>1
  <2>2. CASE x # o
    <3>1. m[x] = ob.made[x]
      BY <1>6, <2>2
    <3>2. ob.made[x] \in [Runs[x] -> 0..MaxMade]
      BY <1>2, StateIs
    <3> QED BY <3>1, <3>2
  <2> QED BY <2>1, <2>2
<1>10. b \in ObStates
  <2>1. d.raw \in Raws /\ d.shared \in Shareds /\ d.wired \in Wirings
    BY <1>3, StateIs
  <2>2. [listed |-> ob.listed, made |-> m, notify |-> nt, raw |-> d.raw, shared |-> d.shared, wired |-> d.wired, recs |-> ob.recs] \in ObStates
    <3>1. /\ ob.listed \in [Owners -> SUBSET Names]
          /\ DOMAIN ob.recs = Owners /\ ob.recs = [x \in Owners |-> ob.recs[x]]
          /\ \A x \in Owners : ob.listed[x] \subseteq Declared(x) /\ ob.recs[x] \in Seq(InputRecords(x))
      BY <1>2, StateIs
    <3>2. DOMAIN m = Owners /\ m = [x \in Owners |-> m[x]] /\ nt \in [AllParams -> Nat]
      BY <1>6, <1>7
    <3> QED BY <1>9, <2>1, <3>1, <3>2, IsState
  <2> QED BY <1>8, <2>2
<1>11. b.listed = ob.listed /\ b.made = m /\ b.notify = nt
  BY <1>8
<1>12. ASSUME NEW p, Exists(b, built, p)
       PROVE  p = q \/ (p # q /\ p # old /\ Exists(ob, built, p))
  <2>1. CASE p[2] \in b.listed[p[1]] /\ p = <<p[1], p[2], 0>>
    <3>1. p[1] \in Owners /\ p[2] \in Declared(p[1])
      BY <1>2, <1>11, <1>12, <2>1 DEF Exists
    <3>2. ~(p[1] = o /\ p[2] = n)
      BY <3>1, ObjAssumption
    <3> QED BY <1>11, <1>12, <2>1, <3>2 DEF Exists
  <2>2. CASE p[2] \in Runs[p[1]] /\ b.made[p[1]][p[2]] > 0 /\ p = <<p[1], p[2], b.made[p[1]][p[2]]>>
    <3>1. CASE p[1] = o /\ p[2] = n
      <4>1. b.made[o][n] = k + 1
        BY <1>4, <1>6, <1>11
      <4> QED BY <2>2, <3>1, <4>1
    <3>2. CASE ~(p[1] = o /\ p[2] = n)
      <4>1. p[1] \in Owners
        BY <1>2, <1>12 DEF Exists
      <4>2. b.made[p[1]][p[2]] = ob.made[p[1]][p[2]]
        <5>1. CASE p[1] = o
          BY <1>4, <1>6, <1>11, <2>2, <3>2, <5>1
        <5>2. CASE p[1] # o
          BY <1>6, <1>11, <4>1, <5>2
        <5> QED BY <5>1, <5>2
      <4> QED BY <1>12, <2>2, <3>2, <4>2 DEF Exists
    <3> QED BY <3>1, <3>2
  <2> QED BY <1>12, <2>1, <2>2 DEF Exists
<1>13. Hears(b, built, early)
  <2> SUFFICES ASSUME NEW p \in AllParams, Exists(b, built, p)
               PROVE  b.notify[p] >= 1 /\ (b.notify[p] > 1 => p[1] \in early /\ p[3] = 0)
    BY DEF Hears
  <2>1. CASE p = q
    BY <1>7, <1>11, <2>1
  <2>2. CASE p # q /\ p # old /\ Exists(ob, built, p)
    <3>1. b.notify[p] = ob.notify[p]
      BY <1>3, <1>7, <1>11, <2>2
    <3> QED BY <1>2, <2>2, <3>1 DEF Hears
  <2> QED BY <1>12, <2>1, <2>2
<1>14. ObGood(b, built, early)
  BY <1>2, <1>10, <1>11, <1>13 DEF ObGood
<1> QED BY <1>1, <1>5, <1>14 DEF ParamInv

(* What an input reads is of no concern to who notifies whom.              *)
LEMMA SourceKeeps ==
  ASSUME ParamInv, UNCHANGED <<built, managed, early>>, ob' \in ObStates,
         ob'.listed = ob.listed, ob'.made = ob.made, ob'.notify = ob.notify
  PROVE  ParamInv'
<1>1. /\ built \subseteq Owners /\ \A x \in built : ob.listed[x] = Declared(x)
      /\ Hears(ob, built, early)
  BY DEF ParamInv, ObGood
<1>2. \A x : Exists(ob', built', x) <=> Exists(ob, built, x)
  BY DEF Exists
<1>3. Hears(ob', built', early')
  BY <1>1, <1>2 DEF Hears
<1>4. ObGood(ob', built', early')
  BY <1>1, <1>3 DEF ObGood
<1> QED BY <1>4 DEF ParamInv

LEMMA ConnectKeeps ==
  ASSUME ParamInv, NEW o \in Owners, NEW n \in Ins[o], NEW p, ConnectInput(o, n, p)
  PROVE  ParamInv'
<1>1. /\ p \in Readable /\ ob' = Connected(ob, o, n, p)
      /\ UNCHANGED <<built, context, root, managed, early>>
  BY DEF ConnectInput
<1>2. ob \in ObStates /\ built \subseteq Owners
  BY DEF ParamInv, ObGood
<1>3. Exists(ob, built, p) /\ p \notin InputParams
  BY <1>1, ExistingIs DEF Readable, IsInput
<1>4. p \in AllParams /\ p[2] \in Outs[p[1]] \cup Runs[p[1]]
  BY <1>2, <1>3, ExistsIs
<1>5. /\ ob' \in ObStates /\ ob'.listed = ob.listed /\ ob'.made = ob.made /\ ob'.notify = ob.notify
  BY <1>1, <1>2, <1>4, ConnectedIs
<1> QED BY <1>1, <1>5, SourceKeeps

LEMMA LinkKeeps ==
  ASSUME ParamInv, NEW o \in Owners, NEW n \in Ins[o], NEW t, LinkParameters(o, n, t)
  PROVE  ParamInv'
<1>1. PICK i \in InputParams : i = <<o, n, 0>>
  BY InputsAre
<1>2. /\ managed[t] \in Readable /\ ob' = SetRaw(ob, i, managed[t])
      /\ UNCHANGED <<built, context, root, managed, early>>
  BY <1>1 DEF LinkParameters
<1>3. ob \in ObStates /\ built \subseteq Owners
  BY DEF ParamInv, ObGood
<1>4. managed[t] \in AllParams
  <2>1. Exists(ob, built, managed[t])
    BY <1>2, ExistingIs DEF Readable
  <2> QED BY <1>3, <2>1, ExistsIs
<1>5. /\ ob' \in ObStates /\ ob'.listed = ob.listed /\ ob'.made = ob.made /\ ob'.notify = ob.notify
  BY <1>2, <1>3, <1>4, SetRawIs DEF OnlyLinks
<1> QED BY <1>2, <1>5, SourceKeeps

(* What the manager of parameters lists.                                   *)
LEMMA ManagerKeeps ==
  ASSUME ParamInv, UNCHANGED <<ob, built, early>>,
         managed' \in [TreeNames -> {Nothing} \cup AllParams]
  PROVE  ParamInv'
BY DEF ParamInv

LEMMA VariablesKeep ==
  ASSUME ParamInv, NEW o \in Owners, SetupVariableManager(o) \/ RemoveVariableManager(o)
  PROVE  ParamInv'
<1>1. ob \in ObStates /\ built \subseteq Owners /\ managed \in [TreeNames -> {Nothing} \cup AllParams]
  BY DEF ParamInv, ObGood
<1>2. CASE SetupVariableManager(o)
  <2>1. \A p \in ParametersOf(o) : p \in AllParams
    BY <1>1, <1>2, ExistingIs, ExistsIs DEF SetupVariableManager
  <2>2. managed' \in [TreeNames -> {Nothing} \cup AllParams]
    BY <1>1, <1>2, <2>1 DEF SetupVariableManager
  <2> QED BY <1>2, <2>2, ManagerKeeps DEF SetupVariableManager
<1>3. CASE RemoveVariableManager(o)
  <2>1. managed' \in [TreeNames -> {Nothing} \cup AllParams]
    BY <1>1, <1>3 DEF RemoveVariableManager, Removed
  <2> QED BY <1>3, <2>1, ManagerKeeps DEF RemoveVariableManager
<1> QED BY <1>2, <1>3

LEMMA DestroyKeeps ==
  ASSUME ParamInv, NEW o \in Owners, Destroy(o)
  PROVE  ParamInv'
<1> DEFINE d == Deleted(ob, ParametersOf(o))
           l == [d.listed EXCEPT ![o] = {}]
           m == [d.made EXCEPT ![o] = [n \in Runs[o] |-> 0]]
           rc == [d.recs EXCEPT ![o] = <<>>]
           b == [d EXCEPT !.listed = l, !.made = m, !.recs = rc]
<1>1. o \in built /\ built' = built \ {o} /\ ob' = b /\ UNCHANGED <<managed, early>>
  BY DEF Destroy
<1>2. /\ ob \in ObStates /\ built \subseteq Owners /\ \A x \in built : ob.listed[x] = Declared(x)
      /\ Hears(ob, built, early)
  BY DEF ParamInv, ObGood
<1>3. \A p : p \in ParametersOf(o) <=> Exists(ob, built, p) /\ p[1] = o
  BY <1>1, ExistingIs
<1>4. /\ d \in ObStates /\ d.listed = ob.listed /\ d.made = ob.made /\ d.recs = ob.recs
      /\ \A p \in AllParams : d.notify[p] = IF p \in ParametersOf(o) THEN 0 ELSE ob.notify[p]
  BY <1>2, DeletedIs
<1>5. /\ l \in [Owners -> SUBSET Names] /\ l[o] = {} /\ \A x \in Owners : x # o => l[x] = ob.listed[x]
      /\ DOMAIN m = Owners /\ m = [x \in Owners |-> m[x]]
      /\ m[o] = [n \in Runs[o] |-> 0] /\ \A x \in Owners : x # o => m[x] = ob.made[x]
      /\ DOMAIN rc = Owners /\ rc = [x \in Owners |-> rc[x]]
      /\ rc[o] = <<>> /\ \A x \in Owners : x # o => rc[x] = ob.recs[x]
  BY <1>2, <1>4, StateIs
<1>6. b = [listed |-> l, made |-> m, notify |-> d.notify, raw |-> d.raw, shared |-> d.shared, wired |-> d.wired, recs |-> rc]
  <2>1. d = [listed |-> d.listed, made |-> d.made, notify |-> d.notify, raw |-> d.raw, shared |-> d.shared, wired |-> d.wired, recs |-> d.recs]
    BY <1>4, StateIs
  <2>2. b = [d EXCEPT !.listed = l, !.made = m, !.recs = rc]
    OBVIOUS
  <2> HIDE DEF d, l, m, rc, b
  <2> QED BY <2>1, <2>2
<1> HIDE DEF d, l, m, rc, b
<1>7. \A x \in Owners : l[x] \subseteq Declared(x) /\ m[x] \in [Runs[x] -> 0..MaxMade] /\ rc[x] \in Seq(InputRecords(x))
  <2> SUFFICES ASSUME NEW x \in Owners
               PROVE  l[x] \subseteq Declared(x) /\ m[x] \in [Runs[x] -> 0..MaxMade] /\ rc[x] \in Seq(InputRecords(x))
    OBVIOUS
  <2>1. CASE x = o
    <3>1. <<>> \in Seq(InputRecords(x)) /\ [n \in Runs[o] |-> 0] \in [Runs[o] -> 0..MaxMade]
      BY ObjAssumption
    <3> QED BY <1>5, <2>1, <3>1
  <2>2. CASE x # o
    BY <1>2, <1>5, <2>2, StateIs
  <2> QED BY <2>1, <2>2
<1>8. b \in ObStates
  <2>1. [listed |-> l, made |-> m, notify |-> d.notify, raw |-> d.raw, shared |-> d.shared, wired |-> d.wired, recs |-> rc] \in ObStates
    BY <1>4, <1>5, <1>7, StateIs, IsState
  <2> QED BY <1>6, <2>1
<1>9. b.listed = l /\ b.made = m /\ b.notify = d.notify
  BY <1>6
<1>10. \A p : Exists(b, built', p) <=> Exists(ob, built, p) /\ p[1] # o
  BY <1>1, <1>2, <1>5, <1>9 DEF Exists
<1>11. Hears(b, built', early)
  BY <1>2, <1>3, <1>4, <1>9, <1>10 DEF Hears
<1>12. \A x \in built' : b.listed[x] = Declared(x)
  BY <1>1, <1>2, <1>5, <1>9
<1>13. ObGood(b, built', early)
  BY <1>1, <1>2, <1>8, <1>11, <1>12 DEF ObGood
<1> QED BY <1>1, <1>13 DEF ParamInv

(* The records of an object, one after the other.                          *)
RebuiltStays(S, o, recs, n) == \A s \in S, i \in 1..n : Rebuilt(s, o, recs[i]) \in S
RebuiltWalk(w, o, base, recs, n) ==
  /\ w[0] = base /\ \A k \in 1..n : w[k] = Rebuilt(w[k - 1], o, recs[k])
  /\ RebuiltAll(base, o, recs) = w[n]

LEMMA RebuiltRuns ==
  ASSUME NEW n \in Nat, NEW o, NEW recs, DOMAIN recs = 1..n,
         NEW S, NEW base \in S, RebuiltStays(S, o, recs, n)
  PROVE  \E w : RebuiltWalk(w, o, base, recs, n) /\ \A k \in 0..n : w[k] \in S
<1> DEFINE step == [p \in S \X (1..n) |-> Rebuilt(p[1], o, recs[p[2]])]
           Eq(f) == f = [s \in SUBSET (1..n) |-> IF s = {} THEN base
                                                ELSE Rebuilt(f[s \ {Max(s)}], o, recs[Max(s)])]
           iter == CHOOSE f : Eq(f)
           w == [k \in 0..n |-> iter[1..k]]
<1>1. RebuiltAll(base, o, recs) = iter[1..n]
  BY DEF RebuiltAll, FoldLeft, MapThenFoldSet
<1>2. step \in [S \X (1..n) -> S]
  BY DEF RebuiltStays
<1>3. PICK f : Folds(f, n, S, base, step)
  BY <1>2, FoldExists
<1>4. Eq(f)
  <2>1. /\ f \in [SUBSET (1..n) -> S]
        /\ \A s \in SUBSET (1..n) : f[s] = IF s = {} THEN base ELSE step[<<f[s \ {Max(s)}], Max(s)>>]
    BY <1>3 DEF Folds
  <2>2. ASSUME NEW s \in SUBSET (1..n), s # {}
        PROVE  f[s] = Rebuilt(f[s \ {Max(s)}], o, recs[Max(s)])
    <3>1. Max(s) \in 1..n /\ s \ {Max(s)} \in SUBSET (1..n)
      BY <2>2, MaxIn
    <3>2. <<f[s \ {Max(s)}], Max(s)>> \in S \X (1..n)
      BY <2>1, <3>1
    <3> QED BY <2>1, <2>2, <3>2
  <2> QED BY <2>1, <2>2
<1> HIDE DEF step
<1>5. Eq(iter)
  BY <1>4
<1> HIDE DEF iter
<1>6. w[0] = base
  <2>1. 1..0 = {} /\ 0 \in 0..n /\ {} \in SUBSET (1..n)
    OBVIOUS
  <2> QED BY <1>5, <2>1
<1>7. ASSUME NEW k \in 1..n PROVE w[k] = Rebuilt(w[k - 1], o, recs[k])
  <2>1. Max(1..k) = k /\ (1..k) \ {k} = 1..k - 1 /\ 1..k \in SUBSET (1..n) /\ 1..k # {}
    BY MaxOfPrefix
  <2>2. k \in 0..n /\ k - 1 \in 0..n
    OBVIOUS
  <2> QED BY <1>5, <2>1, <2>2
<1>8. w[n] = iter[1..n]
  OBVIOUS
<1> HIDE DEF w
<1>9. RebuiltWalk(w, o, base, recs, n)
  BY <1>1, <1>6, <1>7, <1>8 DEF RebuiltWalk
<1> DEFINE Good == {k \in 0..n : w[k] \in S}
<1>10. 0 \in Good
  BY <1>6
<1>11. ASSUME NEW k \in 1..n, k - 1 \in Good PROVE k \in Good
  BY <1>7, <1>11 DEF RebuiltStays
<1>12. 0..n \subseteq Good
  <2> HIDE DEF Good
  <2> QED BY <1>10, <1>11, UpTo
<1> QED BY <1>9, <1>12

(* The objects that are replaced, one after the other.                     *)
TurnStays(S, order, n) == \A s \in S, i \in 1..n : Reinitialized(s, order[i]) \in S
TurnWalk(w, base, order, n) ==
  /\ w[0] = base /\ \A k \in 1..n : w[k] = Reinitialized(w[k - 1], order[k])
  /\ ReinitializedAll(base, order) = w[n]

LEMMA TurnsRun ==
  ASSUME NEW n \in Nat, NEW order, DOMAIN order = 1..n,
         NEW S, NEW base \in S, TurnStays(S, order, n)
  PROVE  \E w : TurnWalk(w, base, order, n) /\ \A k \in 0..n : w[k] \in S
<1> DEFINE step == [p \in S \X (1..n) |-> Reinitialized(p[1], order[p[2]])]
           Eq(f) == f = [s \in SUBSET (1..n) |-> IF s = {} THEN base
                                                ELSE Reinitialized(f[s \ {Max(s)}], order[Max(s)])]
           iter == CHOOSE f : Eq(f)
           w == [k \in 0..n |-> iter[1..k]]
<1>1. ReinitializedAll(base, order) = iter[1..n]
  BY DEF ReinitializedAll, FoldLeft, MapThenFoldSet
<1>2. step \in [S \X (1..n) -> S]
  BY DEF TurnStays
<1>3. PICK f : Folds(f, n, S, base, step)
  BY <1>2, FoldExists
<1>4. Eq(f)
  <2>1. /\ f \in [SUBSET (1..n) -> S]
        /\ \A s \in SUBSET (1..n) : f[s] = IF s = {} THEN base ELSE step[<<f[s \ {Max(s)}], Max(s)>>]
    BY <1>3 DEF Folds
  <2>2. ASSUME NEW s \in SUBSET (1..n), s # {}
        PROVE  f[s] = Reinitialized(f[s \ {Max(s)}], order[Max(s)])
    <3>1. Max(s) \in 1..n /\ s \ {Max(s)} \in SUBSET (1..n)
      BY <2>2, MaxIn
    <3>2. <<f[s \ {Max(s)}], Max(s)>> \in S \X (1..n)
      BY <2>1, <3>1
    <3> QED BY <2>1, <2>2, <3>2
  <2> QED BY <2>1, <2>2
<1> HIDE DEF step
<1>5. Eq(iter)
  BY <1>4
<1> HIDE DEF iter
<1>6. w[0] = base
  <2>1. 1..0 = {} /\ 0 \in 0..n /\ {} \in SUBSET (1..n)
    OBVIOUS
  <2> QED BY <1>5, <2>1
<1>7. ASSUME NEW k \in 1..n PROVE w[k] = Reinitialized(w[k - 1], order[k])
  <2>1. Max(1..k) = k /\ (1..k) \ {k} = 1..k - 1 /\ 1..k \in SUBSET (1..n) /\ 1..k # {}
    BY MaxOfPrefix
  <2>2. k \in 0..n /\ k - 1 \in 0..n
    OBVIOUS
  <2> QED BY <1>5, <2>1, <2>2
<1>8. w[n] = iter[1..n]
  OBVIOUS
<1> HIDE DEF w
<1>9. TurnWalk(w, base, order, n)
  BY <1>1, <1>6, <1>7, <1>8 DEF TurnWalk
<1> DEFINE Good == {k \in 0..n : w[k] \in S}
<1>10. 0 \in Good
  BY <1>6
<1>11. ASSUME NEW k \in 1..n, k - 1 \in Good PROVE k \in Good
  BY <1>7, <1>11 DEF TurnStays
<1>12. 0..n \subseteq Good
  <2> HIDE DEF Good
  <2> QED BY <1>10, <1>11, UpTo
<1> QED BY <1>9, <1>12

InputOf(o, r) == <<o, r[3], 0>>
OutputOf(r) == <<r[1], r[2], 0>>

(* One record of a replaced object.                                        *)
AfterRecord(b, c, o, r) ==
  /\ c \in ObStates /\ c.made = b.made
  /\ \A x \in Owners : b.listed[x] \subseteq c.listed[x]
                       /\ (c.listed[x] = b.listed[x] \/ c.listed[x] = Declared(x))
  /\ \A x \in Owners : x # o => c.recs[x] = b.recs[x]
  /\ \A p \in AllParams : /\ c.notify[p] >= b.notify[p]
                          /\ c.notify[p] # b.notify[p] =>
                               p[3] = 0 /\ p[1] = r[1] /\ r[1] \in built /\ r[2] \notin b.listed[r[1]]
  /\ \A i \in InputParams : i # InputOf(o, r) => Same(c, b, i)
  /\ r[1] \notin built \/ Via(o, r) = "direct" => c.shared[InputOf(o, r)] = b.shared[InputOf(o, r)]
  /\ r[1] \in built /\ r[2] \in Outs[r[1]] => Given(b, c, InputOf(o, r), OutputOf(r), Via(o, r))

LEMMA OneRebuilt ==
  ASSUME NEW b \in ObStates, built \subseteq Owners, NEW o \in Owners, NEW r \in InputRecords(o),
         NEW c, c = Rebuilt(b, o, r)
  PROVE  AfterRecord(b, c, o, r)
<1>1. /\ r[1] \in Owners /\ r[2] \in Outs[r[1]] \cup Runs[r[1]] /\ r[3] \in Ins[o]
  BY DEF InputRecords
<1>2. CASE r[1] \notin built
  <2>1. c = b
    BY <1>2 DEF Rebuilt
  <2> QED BY <1>2, <2>1, StateIs DEF AfterRecord, Same
<1>3. CASE r[1] \in built
  <2> DEFINE a == IF Found(b, r[1], r[2]) = Nothing THEN InitParameters(b, r[1]) ELSE b
             p == Found(a, r[1], r[2])
  <2>1. c = IF p = Nothing THEN a ELSE Connected(a, o, r[3], p)
    BY <1>3 DEF Rebuilt
  <2>2. /\ a \in ObStates /\ a.made = b.made /\ a.recs = b.recs /\ a.raw = b.raw /\ a.shared = b.shared
        /\ \A x \in Owners : b.listed[x] \subseteq a.listed[x]
                             /\ (a.listed[x] = b.listed[x] \/ a.listed[x] = Declared(x))
        /\ \A q \in AllParams : /\ a.notify[q] >= b.notify[q]
                                /\ a.notify[q] # b.notify[q] =>
                                     q[3] = 0 /\ q[1] = r[1] /\ r[2] \notin b.listed[r[1]]
        /\ r[2] \in Outs[r[1]] => r[2] \in a.listed[r[1]]
    <3>1. CASE Found(b, r[1], r[2]) = Nothing
      <4>1. a = InitParameters(b, r[1])
        BY <3>1
      <4>2. /\ a \in ObStates /\ a.made = b.made /\ a.recs = b.recs /\ a.raw = b.raw /\ a.shared = b.shared
            /\ a.listed[r[1]] = Declared(r[1]) /\ \A x \in Owners : x # r[1] => a.listed[x] = b.listed[x]
            /\ \A q \in AllParams : a.notify[q] = IF q[1] = r[1] /\ q[3] = 0 THEN b.notify[q] + 1 ELSE b.notify[q]
        BY <1>1, <4>1, InitIs
      <4>3. r[2] \notin b.listed[r[1]]
        BY <1>1, <3>1, FoundIs
      <4>4. \A x \in Owners : b.listed[x] \subseteq Declared(x)
        BY StateIs
      <4>5. \A q \in AllParams : b.notify[q] \in Nat
        BY StateIs
      <4> HIDE DEF a
      <4>6. \A q \in AllParams : /\ a.notify[q] >= b.notify[q]
                                 /\ a.notify[q] # b.notify[q] =>
                                     q[3] = 0 /\ q[1] = r[1] /\ r[2] \notin b.listed[r[1]]
        BY <4>2, <4>3, <4>5
      <4>7. r[2] \in Outs[r[1]] => r[2] \in a.listed[r[1]]
        BY <4>2 DEF Declared
      <4>8. \A x \in Owners : b.listed[x] \subseteq a.listed[x]
                             /\ (a.listed[x] = b.listed[x] \/ a.listed[x] = Declared(x))
        BY <4>2, <4>4
      <4> QED BY <4>2, <4>6, <4>7, <4>8
    <3>2. CASE Found(b, r[1], r[2]) # Nothing
      <4>1. a = b
        BY <3>2
      <4>2. r[2] \in Outs[r[1]] => r[2] \in b.listed[r[1]]
        BY <1>1, <3>2, FoundIs, ObjAssumption DEF Declared
      <4>3. \A q \in AllParams : b.notify[q] \in Nat
        BY StateIs
      <4> QED BY <4>1, <4>2, <4>3
    <3> QED BY <3>1, <3>2
  <2> HIDE DEF a
  <2>4. CASE p = Nothing
    <3>1. c = a
      BY <2>1, <2>4
    <3>2. r[2] \notin Outs[r[1]]
      BY <1>1, <2>2, <2>4, FoundIs
    <3> HIDE DEF p
    <3> QED BY <1>3, <2>2, <3>1, <3>2 DEF AfterRecord, Same
  <2>5. CASE p # Nothing
    <3>1. c = Connected(a, o, r[3], p)
      BY <2>1, <2>5
    <3>2. /\ p \in AllParams /\ p[1] = r[1] /\ p[2] = r[2]
          /\ \/ r[2] \in a.listed[r[1]] /\ p = <<r[1], r[2], 0>>
             \/ r[2] \in Runs[r[1]] /\ a.made[r[1]][r[2]] > 0 /\ p = <<r[1], r[2], a.made[r[1]][r[2]]>>
          /\ r[2] \in Outs[r[1]] => p = <<r[1], r[2], 0>>
      BY <1>1, <2>2, <2>5, FoundIs
    <3> HIDE DEF p
    <3>3. PICK i \in InputParams : i = InputOf(o, r)
      BY <1>1, InputsAre DEF InputOf
    <3>4. /\ c \in ObStates /\ c.listed = a.listed /\ c.made = a.made /\ c.notify = a.notify
          /\ Given(a, c, i, p, Via(o, p))
          /\ \A x \in InputParams : x # i => Same(c, a, x)
          /\ \A x \in Owners : x # o => c.recs[x] = a.recs[x]
      <4>1. a \in ObStates /\ r[3] \in Ins[o] /\ p[2] \in Outs[p[1]] \cup Runs[p[1]]
        BY <1>1, <2>2, <3>2
      <4>2. PICK n \in Ins[o] : n = r[3] /\ i = <<o, n, 0>>
        BY <3>3, <4>1 DEF InputOf
      <4>3. PICK q \in AllParams : q = p
        BY <3>2
      <4>4. c = Connected(a, o, n, q) /\ q[2] \in Outs[q[1]] \cup Runs[q[1]]
        BY <3>1, <4>1, <4>2, <4>3
      <4>5. /\ c \in ObStates /\ c.listed = a.listed /\ c.made = a.made /\ c.notify = a.notify
            /\ Given(a, c, i, q, Via(o, q))
            /\ \A x \in InputParams : x # i => Same(c, a, x)
            /\ \A x \in Owners : x # o => c.recs[x] = a.recs[x]
        BY <4>1, <4>2, <4>4, ConnectedIs
      <4> QED BY <4>3, <4>5
    <3>5. Via(o, p) = Via(o, r)
      BY <3>2 DEF Via
    <3>6. /\ Via(o, r) = "direct" => c.shared[i] = b.shared[i]
          /\ Given(b, c, i, p, Via(o, r))
      BY <2>2, <3>4, <3>5 DEF Given
    <3>7. \A x \in InputParams : x # i => Same(c, b, x)
      BY <2>2, <3>4 DEF Same
    <3>8. r[2] \in Outs[r[1]] => p = OutputOf(r)
      BY <3>2 DEF OutputOf
    <3> QED BY <1>3, <2>2, <3>3, <3>4, <3>6, <3>7, <3>8 DEF AfterRecord
  <2> QED BY <2>4, <2>5
<1> QED BY <1>2, <1>3

(* What rebuilding an object's inputs may change: the lists of the objects  *)
(* it asks, which only grow, and how often their parameters notify them.   *)
Ahead(b, c, o, late) ==
  /\ c \in ObStates /\ c.made = b.made
  /\ \A x \in Owners : b.listed[x] \subseteq c.listed[x]
                       /\ (c.listed[x] = b.listed[x] \/ c.listed[x] = Declared(x))
  /\ \A x \in Owners : x # o => c.recs[x] = b.recs[x]
  /\ \A p \in AllParams : /\ c.notify[p] >= b.notify[p]
                          /\ c.notify[p] # b.notify[p] => p[3] = 0 /\ p[1] \in late
  /\ \A i \in InputParams : i[1] # o => Same(c, b, i)

LEMMA AheadIsOrder ==
  ASSUME NEW o, NEW late
  PROVE  /\ \A b \in ObStates : Ahead(b, b, o, late)
         /\ \A a \in ObStates, b \in ObStates, c \in ObStates :
              Ahead(a, b, o, late) /\ Ahead(b, c, o, late) => Ahead(a, c, o, late)
<1>1. ASSUME NEW b \in ObStates PROVE Ahead(b, b, o, late)
  <2>1. \A p \in AllParams : b.notify[p] \in Nat
    BY StateIs
  <2> QED BY <2>1 DEF Ahead, Same
<1>2. ASSUME NEW a \in ObStates, NEW b \in ObStates, NEW c \in ObStates, Ahead(a, b, o, late), Ahead(b, c, o, late)
      PROVE  Ahead(a, c, o, late)
  <2>1. \A p \in AllParams : a.notify[p] \in Nat /\ b.notify[p] \in Nat /\ c.notify[p] \in Nat
    BY StateIs
  <2>2. \A p \in AllParams : /\ c.notify[p] >= a.notify[p]
                             /\ c.notify[p] # a.notify[p] => p[3] = 0 /\ p[1] \in late
    BY <1>2, <2>1 DEF Ahead
  <2>3. \A x \in Owners : a.listed[x] \subseteq c.listed[x]
                       /\ (c.listed[x] = a.listed[x] \/ c.listed[x] = Declared(x))
    BY <1>2 DEF Ahead
  <2>4. \A i \in InputParams : i[1] # o => Same(c, a, i)
    BY <1>2 DEF Ahead, Same
  <2> QED BY <1>2, <2>2, <2>3, <2>4 DEF Ahead
<1> QED BY <1>1, <1>2

LEMMA AheadGoesOn ==
  ASSUME NEW b \in ObStates, built \subseteq Owners, NEW o \in Owners, NEW late, NEW s \in ObStates, Ahead(b, s, o, late),
         NEW r \in InputRecords(o), r[1] \in built /\ r[2] \notin b.listed[r[1]] => r[1] \in late
  PROVE  Rebuilt(s, o, r) \in ObStates /\ Ahead(b, Rebuilt(s, o, r), o, late)
<1>1. PICK c : c = Rebuilt(s, o, r)
  OBVIOUS
<1>2. r[1] \in Owners
  BY DEF InputRecords
<1>3. r[1] \in built /\ r[2] \notin s.listed[r[1]] => r[1] \in late
  BY <1>2 DEF Ahead
<1>4. /\ c \in ObStates /\ c.made = s.made
      /\ \A x \in Owners : s.listed[x] \subseteq c.listed[x]
                           /\ (c.listed[x] = s.listed[x] \/ c.listed[x] = Declared(x))
      /\ \A x \in Owners : x # o => c.recs[x] = s.recs[x]
      /\ \A p \in AllParams : /\ c.notify[p] >= s.notify[p]
                              /\ c.notify[p] # s.notify[p] =>
                                   p[3] = 0 /\ p[1] = r[1] /\ r[1] \in built /\ r[2] \notin s.listed[r[1]]
      /\ \A i \in InputParams : i # InputOf(o, r) => Same(c, s, i)
  <2>1. AfterRecord(s, c, o, r)
    BY <1>1, OneRebuilt
  <2> QED BY <2>1 DEF AfterRecord
<1>5. \A p \in AllParams : /\ c.notify[p] >= s.notify[p]
                           /\ c.notify[p] # s.notify[p] => p[3] = 0 /\ p[1] \in late
  BY <1>3, <1>4
<1>6. \A i \in InputParams : i[1] # o => i # InputOf(o, r)
  BY DEF InputOf
<1>7. Ahead(s, c, o, late)
  BY <1>4, <1>5, <1>6 DEF Ahead
<1> QED BY <1>1, <1>4, <1>7, AheadIsOrder

(* The last record of an input decides what it reads.                      *)
IsLast(recs, m) == m \in DOMAIN recs /\ \A k \in DOMAIN recs : k > m => recs[k][3] # recs[m][3]
Direct(o, recs, m) ==
  \A j \in DOMAIN recs :
     j < m /\ recs[j][3] = recs[m][3] /\ recs[j][1] \in built => Via(o, recs[j]) = "direct"
LinkTo(c, o, r) ==
  IF Via(o, r) = "direct" THEN c.raw[InputOf(o, r)] = OutputOf(r) /\ c.shared[InputOf(o, r)] = Nothing
  ELSE c.shared[InputOf(o, r)] = OutputOf(r)
Restored(c, o, recs) ==
  \A m \in DOMAIN recs :
     IsLast(recs, m) /\ recs[m][1] \in built /\ recs[m][2] \in Outs[recs[m][1]] /\ Direct(o, recs, m)
     => LinkTo(c, o, recs[m])
Bufferless(b, o) == \A n \in Ins[o] : b.shared[<<o, n, 0>>] = Nothing

(* One record of an object whose buffers before it are gone.               *)
LEMMA NextRecord ==
  ASSUME NEW b \in ObStates, built \subseteq Owners, NEW o \in Owners, NEW r \in InputRecords(o),
         NEW c, c = Rebuilt(b, o, r), NEW i \in InputParams
  PROVE  /\ i # InputOf(o, r) => Same(c, b, i)
         /\ r[1] \notin built \/ Via(o, r) = "direct" => c.shared[i] = b.shared[i]
         /\ i = InputOf(o, r) /\ r[1] \in built /\ r[2] \in Outs[r[1]] /\ b.shared[i] = Nothing => LinkTo(c, o, r)
<1>1. AfterRecord(b, c, o, r)
  BY OneRebuilt
<1>2. i # InputOf(o, r) => Same(c, b, i)
  BY <1>1 DEF AfterRecord
<1>3. r[1] \notin built \/ Via(o, r) = "direct" => c.shared[i] = b.shared[i]
  BY <1>1, <1>2 DEF AfterRecord, Same
<1>4. ASSUME i = InputOf(o, r), r[1] \in built, r[2] \in Outs[r[1]], b.shared[i] = Nothing
      PROVE  LinkTo(c, o, r)
  BY <1>1, <1>4 DEF AfterRecord, Given, LinkTo
<1> QED BY <1>2, <1>3, <1>4

LEMMA AllRebuilt ==
  ASSUME NEW b \in ObStates, built \subseteq Owners, NEW o \in Owners, NEW recs \in Seq(InputRecords(o)), NEW late,
         \A k \in DOMAIN recs : recs[k][1] \in built /\ recs[k][2] \notin b.listed[recs[k][1]] => recs[k][1] \in late
  PROVE  LET c == RebuiltAll(b, o, recs) IN Ahead(b, c, o, late) /\ (Bufferless(b, o) => Restored(c, o, recs))
<1> DEFINE S == {s \in ObStates : Ahead(b, s, o, late)}
<1>1. PICK n \in Nat : n = Len(recs) /\ DOMAIN recs = 1..n
  OBVIOUS
<1>2. b \in S
  BY AheadIsOrder
<1>3. ASSUME NEW s \in S, NEW k \in 1..n PROVE Rebuilt(s, o, recs[k]) \in S
  BY <1>1, AheadGoesOn
<1>4. RebuiltStays(S, o, recs, n)
  BY <1>3 DEF RebuiltStays
<1>5. PICK w : RebuiltWalk(w, o, b, recs, n) /\ \A k \in 0..n : w[k] \in S
  <2> HIDE DEF S
  <2> QED BY <1>1, <1>2, <1>4, RebuiltRuns
<1> DEFINE c == RebuiltAll(b, o, recs)
<1>6. c = w[n] /\ w[n] \in S
  BY <1>5 DEF RebuiltWalk
<1>7. Ahead(b, c, o, late)
  BY <1>6
<1>8. ASSUME NEW k \in 1..n, NEW i \in InputParams
      PROVE  /\ i # InputOf(o, recs[k]) => Same(w[k], w[k - 1], i)
             /\ recs[k][1] \notin built \/ Via(o, recs[k]) = "direct" => w[k].shared[i] = w[k - 1].shared[i]
             /\ i = InputOf(o, recs[k]) /\ recs[k][1] \in built /\ recs[k][2] \in Outs[recs[k][1]]
                  /\ w[k - 1].shared[i] = Nothing => LinkTo(w[k], o, recs[k])
  <2>1. PICK r, s, d : r = recs[k] /\ s = w[k - 1] /\ d = w[k]
    OBVIOUS
  <2>2. k - 1 \in 0..n
    OBVIOUS
  <2>3. s \in ObStates /\ d = Rebuilt(s, o, r) /\ r \in InputRecords(o)
    BY <1>1, <1>5, <2>1, <2>2 DEF RebuiltWalk
  <2>4. /\ i # InputOf(o, r) => Same(d, s, i)
        /\ r[1] \notin built \/ Via(o, r) = "direct" => d.shared[i] = s.shared[i]
        /\ i = InputOf(o, r) /\ r[1] \in built /\ r[2] \in Outs[r[1]] /\ s.shared[i] = Nothing => LinkTo(d, o, r)
    BY <2>3, NextRecord
  <2> QED BY <2>1, <2>4
<1>9. ASSUME Bufferless(b, o), NEW m \in 1..n, IsLast(recs, m), recs[m][1] \in built, recs[m][2] \in Outs[recs[m][1]],
             Direct(o, recs, m)
      PROVE  LinkTo(c, o, recs[m])
  <2>1. PICK i \in InputParams : i = InputOf(o, recs[m])
    <3>1. recs[m] \in InputRecords(o)
      BY <1>1
    <3>2. recs[m][3] \in Ins[o]
      BY <3>1 DEF InputRecords
    <3> QED BY <3>2, InputsAre DEF InputOf
  <2>2. b.shared[i] = Nothing
    <3>1. recs[m] \in InputRecords(o)
      BY <1>1
    <3>2. recs[m][3] \in Ins[o]
      BY <3>1 DEF InputRecords
    <3> QED BY <1>9, <2>1, <3>2 DEF Bufferless, InputOf
  <2> DEFINE Good == {k \in 0..n : /\ k < m => w[k].shared[i] = Nothing
                                   /\ k >= m => LinkTo(w[k], o, recs[m])}
  <2>3. 0 \in Good
    BY <1>5, <2>2 DEF RebuiltWalk
  <2>4. ASSUME NEW k \in 1..n, k - 1 \in Good PROVE k \in Good
    <3>1. CASE k < m
      <4>1. w[k - 1].shared[i] = Nothing
        BY <2>4, <3>1
      <4>2. w[k].shared[i] = w[k - 1].shared[i]
        <5>1. CASE recs[k][3] # recs[m][3]
          <6>1. i # InputOf(o, recs[k])
            BY <2>1, <5>1 DEF InputOf
          <6> QED BY <1>8, <6>1 DEF Same
        <5>2. CASE recs[k][3] = recs[m][3]
          <6>1. recs[k][1] \in built => Via(o, recs[k]) = "direct"
            BY <1>1, <1>9, <3>1, <5>2 DEF Direct
          <6> QED BY <1>8, <6>1
        <5> QED BY <5>1, <5>2
      <4> QED BY <3>1, <4>1, <4>2
    <3>2. CASE k = m
      <4>1. w[k - 1].shared[i] = Nothing
        BY <2>4, <3>2
      <4>2. LinkTo(w[k], o, recs[k])
        BY <1>8, <1>9, <2>1, <3>2, <4>1
      <4> QED BY <3>2, <4>2
    <3>3. CASE k > m
      <4>1. LinkTo(w[k - 1], o, recs[m])
        BY <2>4, <3>3
      <4>2. recs[k][3] # recs[m][3]
        BY <1>1, <1>9, <3>3 DEF IsLast
      <4>3. i # InputOf(o, recs[k])
        BY <2>1, <4>2 DEF InputOf
      <4>4. Same(w[k], w[k - 1], i)
        BY <1>8, <4>3
      <4>5. LinkTo(w[k], o, recs[m])
        BY <2>1, <4>1, <4>4 DEF LinkTo, Same
      <4> QED BY <3>3, <4>5
    <3> QED BY <3>1, <3>2, <3>3
  <2>5. 0..n \subseteq Good
    <3> HIDE DEF Good
    <3> QED BY <2>3, <2>4, UpTo
  <2>6. n \in Good /\ n >= m
    <3>1. n \in 0..n /\ n >= m
      OBVIOUS
    <3> HIDE DEF Good
    <3> QED BY <2>5, <3>1
  <2> QED BY <1>6, <2>6
<1>10. Bufferless(b, o) => Restored(c, o, recs)
  BY <1>1, <1>9 DEF Restored
<1> QED BY <1>7, <1>10

(* Init(false) of one replaced object: its own parameters notify it once    *)
(* more, whatever else happens.                                            *)
Once(yes) == IF yes THEN 1 ELSE 0
Turned(b, c, o, late) ==
  /\ c \in ObStates /\ c.made = b.made /\ c.listed[o] = Declared(o)
  /\ \A x \in Owners : b.listed[x] \subseteq c.listed[x]
                       /\ (c.listed[x] = b.listed[x] \/ c.listed[x] = Declared(x))
  /\ \A x \in Owners : x # o => c.recs[x] = b.recs[x]
  /\ \A p \in AllParams :
       LET least == b.notify[p] + Once(p[1] = o /\ p[3] = 0) IN
       c.notify[p] >= least /\ (c.notify[p] # least => p[3] = 0 /\ p[1] \in late)
  /\ \A i \in InputParams : i[1] # o => Same(c, b, i)
  /\ Bufferless(b, o) => Restored(c, o, b.recs[o])

LEMMA ForgottenIs ==
  ASSUME NEW b \in ObStates, NEW o \in Owners
  PROVE  LET c == [b EXCEPT !.recs[o] = <<>>] IN
         /\ c \in ObStates /\ c.listed = b.listed /\ c.made = b.made /\ c.notify = b.notify /\ c.raw = b.raw /\ c.shared = b.shared
         /\ \A x \in Owners : x # o => c.recs[x] = b.recs[x]
<1> DEFINE rc == [b.recs EXCEPT ![o] = <<>>]
           c == [b EXCEPT !.recs[o] = <<>>]
<1>1. c = [listed |-> b.listed, made |-> b.made, notify |-> b.notify, raw |-> b.raw, shared |-> b.shared, wired |-> b.wired, recs |-> rc]
  <2>1. b = [listed |-> b.listed, made |-> b.made, notify |-> b.notify, raw |-> b.raw, shared |-> b.shared, wired |-> b.wired, recs |-> b.recs]
    BY StateIs
  <2>2. c = [b EXCEPT !.recs = rc]
    BY StateIs
  <2> HIDE DEF c, rc
  <2> QED BY <2>1, <2>2
<1>2. /\ DOMAIN rc = Owners /\ rc = [x \in Owners |-> rc[x]]
      /\ rc[o] = <<>> /\ \A x \in Owners : x # o => rc[x] = b.recs[x]
  BY StateIs
<1> HIDE DEF c, rc
<1>3. \A x \in Owners : rc[x] \in Seq(InputRecords(x))
  <2> SUFFICES ASSUME NEW x \in Owners PROVE rc[x] \in Seq(InputRecords(x))
    OBVIOUS
  <2>1. <<>> \in Seq(InputRecords(x))
    OBVIOUS
  <2> QED BY <1>2, <2>1, StateIs
<1>4. [listed |-> b.listed, made |-> b.made, notify |-> b.notify, raw |-> b.raw, shared |-> b.shared, wired |-> b.wired, recs |-> rc] \in ObStates
  BY <1>2, <1>3, OtherRecords
<1>5. /\ c \in ObStates /\ c.listed = b.listed /\ c.made = b.made /\ c.notify = b.notify /\ c.raw = b.raw /\ c.shared = b.shared /\ c.recs = rc
  BY <1>1, <1>4
<1> QED BY <1>2, <1>5 DEF c

LEMMA OneTurn ==
  ASSUME NEW b \in ObStates, built \subseteq Owners, NEW o \in Owners, NEW late,
         \A k \in DOMAIN b.recs[o] : LET r == b.recs[o][k] IN
           r[1] \in built /\ r[1] # o /\ r[2] \notin b.listed[r[1]] => r[1] \in late,
         \A k \in DOMAIN b.recs[o] : LET r == b.recs[o][k] IN
           r[1] \in built /\ r[1] = o /\ r[2] \in Runs[o] => o \in late
  PROVE  Turned(b, Reinitialized(b, o), o, late)
<1>1. PICK d : d = InitParameters(b, o)
  OBVIOUS
<1>2. /\ d \in ObStates /\ d.made = b.made /\ d.recs = b.recs /\ d.raw = b.raw /\ d.shared = b.shared
      /\ d.listed[o] = Declared(o) /\ \A x \in Owners : x # o => d.listed[x] = b.listed[x]
      /\ \A p \in AllParams : d.notify[p] = IF p[1] = o /\ p[3] = 0 THEN b.notify[p] + 1 ELSE b.notify[p]
  BY <1>1, InitIs
<1>3. PICK e : e = [d EXCEPT !.recs[o] = <<>>]
  OBVIOUS
<1>4. /\ e \in ObStates /\ e.listed = d.listed /\ e.made = d.made /\ e.notify = d.notify /\ e.raw = d.raw /\ e.shared = d.shared
      /\ \A x \in Owners : x # o => e.recs[x] = d.recs[x]
  BY <1>2, <1>3, ForgottenIs
<1>5. PICK recs : recs = b.recs[o]
  OBVIOUS
<1>6. PICK c : c = RebuiltAll(e, o, recs)
  OBVIOUS
<1>7. c = Reinitialized(b, o)
  BY <1>1, <1>3, <1>5, <1>6 DEF Reinitialized
<1>8. recs \in Seq(InputRecords(o))
  BY <1>5, StateIs
<1>9. \A k \in DOMAIN recs : recs[k][1] \in built /\ recs[k][2] \notin e.listed[recs[k][1]] => recs[k][1] \in late
  <2> SUFFICES ASSUME NEW k \in DOMAIN recs, recs[k][1] \in built, recs[k][2] \notin e.listed[recs[k][1]]
               PROVE  recs[k][1] \in late
    OBVIOUS
  <2>1. PICK r : r = recs[k]
    OBVIOUS
  <2>2. r \in InputRecords(o)
    BY <1>8, <2>1
  <2>3. r[1] \in Owners /\ r[2] \in Outs[r[1]] \cup Runs[r[1]]
    BY <2>2 DEF InputRecords
  <2>4. CASE r[1] = o
    <3>1. r[2] \notin Declared(o)
      BY <1>2, <1>4, <2>1, <2>4
    <3>2. r[2] \in Runs[o]
      BY <2>3, <2>4, <3>1 DEF Declared
    <3> QED BY <1>5, <2>1, <2>4, <3>2
  <2>5. CASE r[1] # o
    <3>1. r[2] \notin b.listed[r[1]]
      BY <1>2, <1>4, <2>1, <2>3, <2>5
    <3> QED BY <1>5, <2>1, <2>5, <3>1
  <2> QED BY <2>4, <2>5
<1>10. Ahead(e, c, o, late) /\ (Bufferless(e, o) => Restored(c, o, recs))
  BY <1>4, <1>6, <1>8, <1>9, AllRebuilt
<1>11. /\ c \in ObStates /\ c.made = e.made
       /\ \A x \in Owners : e.listed[x] \subseteq c.listed[x]
                            /\ (c.listed[x] = e.listed[x] \/ c.listed[x] = Declared(x))
       /\ \A x \in Owners : x # o => c.recs[x] = e.recs[x]
       /\ \A p \in AllParams : /\ c.notify[p] >= e.notify[p]
                               /\ c.notify[p] # e.notify[p] => p[3] = 0 /\ p[1] \in late
       /\ \A i \in InputParams : i[1] # o => Same(c, e, i)
  BY <1>10 DEF Ahead
<1>12. \A x \in Owners : b.listed[x] \subseteq d.listed[x] /\ (d.listed[x] = b.listed[x] \/ d.listed[x] = Declared(x))
  <2> SUFFICES ASSUME NEW x \in Owners
               PROVE  b.listed[x] \subseteq d.listed[x] /\ (d.listed[x] = b.listed[x] \/ d.listed[x] = Declared(x))
    OBVIOUS
  <2>1. b.listed[x] \subseteq Declared(x)
    BY StateIs
  <2>2. CASE x = o
    BY <1>2, <2>1, <2>2
  <2>3. CASE x # o
    BY <1>2, <2>3
  <2> QED BY <2>2, <2>3
<1>13. /\ \A i \in InputParams : i[1] # o => Same(c, b, i)
       /\ Bufferless(b, o) => Restored(c, o, recs)
  BY <1>2, <1>4, <1>10, <1>11 DEF Same, Bufferless
<1>14. \A x \in Owners : b.listed[x] \subseteq c.listed[x]
                       /\ (c.listed[x] = b.listed[x] \/ c.listed[x] = Declared(x))
  BY <1>4, <1>11, <1>12
<1>15. c.listed[o] = Declared(o)
  BY <1>2, <1>4, <1>11
<1>16. \A p \in AllParams : d.notify[p] = b.notify[p] + Once(p[1] = o /\ p[3] = 0)
  <2>1. \A p \in AllParams : b.notify[p] \in Nat
    BY StateIs
  <2> QED BY <1>2, <2>1 DEF Once
<1>17. \A p \in AllParams :
         LET least == b.notify[p] + Once(p[1] = o /\ p[3] = 0) IN
         c.notify[p] >= least /\ (c.notify[p] # least => p[3] = 0 /\ p[1] \in late)
  BY <1>4, <1>11, <1>16
<1>18. Turned(b, c, o, late)
  BY <1>2, <1>4, <1>5, <1>11, <1>13, <1>14, <1>15, <1>17 DEF Turned
<1> QED BY <1>7, <1>18

(* The objects before any of them is initialized.                          *)
Fresh(objs, params) ==
  [Deleted(ob, params) EXCEPT
     !.listed = [o \in Owners |-> IF o \in objs THEN {} ELSE @[o]],
     !.made = [o \in Owners |-> IF o \in objs THEN [n \in Runs[o] |-> 0] ELSE @[o]]]

LEMMA FreshIs ==
  ASSUME ob \in ObStates, NEW objs \in SUBSET Owners, NEW params
  PROVE  LET f == Fresh(objs, params)
         IN /\ f \in ObStates /\ f.recs = ob.recs
            /\ \A o \in Owners : f.listed[o] = IF o \in objs THEN {} ELSE ob.listed[o]
            /\ \A o \in Owners : f.made[o] = IF o \in objs THEN [n \in Runs[o] |-> 0] ELSE ob.made[o]
            /\ \A p \in AllParams : f.notify[p] = IF p \in params THEN 0 ELSE ob.notify[p]
            /\ \A i \in InputParams : i \in params => f.shared[i] = Nothing
<1> DEFINE d == Deleted(ob, params)
           l == [o \in Owners |-> IF o \in objs THEN {} ELSE d.listed[o]]
           m == [o \in Owners |-> IF o \in objs THEN [n \in Runs[o] |-> 0] ELSE d.made[o]]
           f == [d EXCEPT
                    !.listed = [o \in Owners |-> IF o \in objs THEN {} ELSE @[o]],
                    !.made = [o \in Owners |-> IF o \in objs THEN [n \in Runs[o] |-> 0] ELSE @[o]]]
<1>1. /\ d \in ObStates /\ d.listed = ob.listed /\ d.made = ob.made /\ d.recs = ob.recs
      /\ \A p \in AllParams : d.notify[p] = IF p \in params THEN 0 ELSE ob.notify[p]
      /\ \A i \in InputParams : i \in params => d.shared[i] = Nothing
  BY DeletedIs
<1>2. f = [listed |-> l, made |-> m, notify |-> d.notify, raw |-> d.raw, shared |-> d.shared, wired |-> d.wired, recs |-> d.recs]
  <2>1. d = [listed |-> d.listed, made |-> d.made, notify |-> d.notify, raw |-> d.raw, shared |-> d.shared, wired |-> d.wired, recs |-> d.recs]
    BY <1>1, StateIs
  <2>2. f = [d EXCEPT !.listed = l, !.made = m]
    OBVIOUS
  <2> HIDE DEF d, l, m, f
  <2> QED BY <2>1, <2>2
<1>3. /\ l \in [Owners -> SUBSET Names] /\ \A o \in Owners : l[o] = IF o \in objs THEN {} ELSE ob.listed[o]
      /\ DOMAIN m = Owners /\ m = [o \in Owners |-> m[o]]
      /\ \A o \in Owners : m[o] = IF o \in objs THEN [n \in Runs[o] |-> 0] ELSE ob.made[o]
  BY <1>1, StateIs
<1>5. \A o \in Owners : d.recs[o] \in Seq(InputRecords(o))
  BY <1>1, StateIs
<1>6. /\ DOMAIN d.recs = Owners /\ d.recs = [o \in Owners |-> d.recs[o]]
      /\ d.notify \in [AllParams -> Nat] /\ d.raw \in Raws /\ d.shared \in Shareds /\ d.wired \in Wirings
  BY <1>1, StateIs
<1> HIDE DEF d, l, m, f
<1>4. \A o \in Owners : l[o] \subseteq Declared(o) /\ m[o] \in [Runs[o] -> 0..MaxMade]
  <2> SUFFICES ASSUME NEW o \in Owners PROVE l[o] \subseteq Declared(o) /\ m[o] \in [Runs[o] -> 0..MaxMade]
    OBVIOUS
  <2>1. [n \in Runs[o] |-> 0] \in [Runs[o] -> 0..MaxMade]
    BY ObjAssumption
  <2>2. ob.listed[o] \subseteq Declared(o) /\ ob.made[o] \in [Runs[o] -> 0..MaxMade]
    BY StateIs
  <2> QED BY <1>3, <2>1, <2>2
<1>7. [listed |-> l, made |-> m, notify |-> d.notify, raw |-> d.raw, shared |-> d.shared, wired |-> d.wired, recs |-> d.recs] \in ObStates
  BY <1>3, <1>4, <1>5, <1>6, IsState
<1>8. /\ f \in ObStates /\ f.listed = l /\ f.made = m /\ f.notify = d.notify /\ f.shared = d.shared /\ f.recs = d.recs
  BY <1>2, <1>7
<1>9. f = Fresh(objs, params)
  BY DEF f, d, Fresh
<1> QED BY <1>1, <1>3, <1>8, <1>9

(* After k of the objects in order have been initialized, f being what the  *)
(* recompile left of their parameters.                                     *)
After(c, f, order, k, n, late) ==
  /\ c \in ObStates /\ c.made = f.made
  /\ \A x \in Owners : f.listed[x] \subseteq c.listed[x]
                       /\ (c.listed[x] = f.listed[x] \/ c.listed[x] = Declared(x))
  /\ \A j \in 1..k : c.listed[order[j]] = Declared(order[j])
  /\ \A j \in k + 1..n : c.recs[order[j]] = f.recs[order[j]]
  /\ \A p \in AllParams :
       LET least == f.notify[p] + Once(p[3] = 0 /\ \E j \in 1..k : order[j] = p[1]) IN
       c.notify[p] >= least /\ (c.notify[p] # least => p[3] = 0 /\ p[1] \in late)
  /\ \A j \in k + 1..n : Bufferless(c, order[j])
  /\ \A j \in 1..k : Restored(c, order[j], f.recs[order[j]])

(* Whom a record asks for an output it does not have counts as late.       *)
LateFor(f, order, n, late) ==
  \A k \in 1..n : \A m \in DOMAIN f.recs[order[k]] :
    LET r == f.recs[order[k]][m] IN
    r[1] \in built =>
      /\ r[2] \in Runs[r[1]] => r[1] \in late
      /\ r[2] \in Outs[r[1]] => \/ f.listed[r[1]] = Declared(r[1])
                                \/ \E j \in 1..k : order[j] = r[1]
                                \/ r[1] \in late

LEMMA NextTurn ==
  ASSUME NEW f \in ObStates, built \subseteq Owners, NEW n \in Nat, NEW order \in [1..n -> Owners],
         \A i \in 1..n, j \in 1..n : order[i] = order[j] => i = j,
         NEW late, LateFor(f, order, n, late),
         NEW k \in 1..n, NEW b \in ObStates, After(b, f, order, k - 1, n, late)
  PROVE  After(Reinitialized(b, order[k]), f, order, k, n, late)
<1>1. PICK o \in Owners : o = order[k]
  OBVIOUS
<1>2. PICK c : c = Reinitialized(b, o)
  OBVIOUS
<1>3. /\ b.made = f.made
      /\ \A x \in Owners : f.listed[x] \subseteq b.listed[x]
                           /\ (b.listed[x] = f.listed[x] \/ b.listed[x] = Declared(x))
      /\ \A j \in 1..k - 1 : b.listed[order[j]] = Declared(order[j])
      /\ \A j \in k..n : b.recs[order[j]] = f.recs[order[j]]
      /\ \A j \in k..n : Bufferless(b, order[j])
      /\ \A j \in 1..k - 1 : Restored(b, order[j], f.recs[order[j]])
  <2>1. k - 1 + 1 = k
    OBVIOUS
  <2> QED BY <2>1 DEF After
<1>4. b.recs[o] = f.recs[o] /\ Bufferless(b, o)
  BY <1>1, <1>3
<1>5. ASSUME NEW m \in DOMAIN b.recs[o], NEW r, r = b.recs[o][m], r[1] \in built
      PROVE  /\ r[1] # o /\ r[2] \notin b.listed[r[1]] => r[1] \in late
             /\ r[1] = o /\ r[2] \in Runs[o] => o \in late
  <2>1. r \in InputRecords(o)
    <3>1. b.recs[o] \in Seq(InputRecords(o))
      BY StateIs
    <3> QED BY <1>5, <3>1
  <2>2. r[1] \in Owners /\ r[2] \in Outs[r[1]] \cup Runs[r[1]]
    BY <2>1 DEF InputRecords
  <2>3. /\ r[2] \in Runs[r[1]] => r[1] \in late
        /\ r[2] \in Outs[r[1]] => \/ f.listed[r[1]] = Declared(r[1])
                                  \/ \E j \in 1..k : order[j] = r[1]
                                  \/ r[1] \in late
    <3>1. m \in DOMAIN f.recs[order[k]] /\ r = f.recs[order[k]][m]
      BY <1>1, <1>4, <1>5
    <3> QED BY <1>5, <3>1 DEF LateFor
  <2>4. ASSUME r[1] # o, r[2] \notin b.listed[r[1]], r[2] \in Outs[r[1]] PROVE r[1] \in late
    <3>1. b.listed[r[1]] # Declared(r[1])
      BY <2>4 DEF Declared
    <3>2. b.listed[r[1]] = f.listed[r[1]]
      BY <1>3, <2>2, <3>1
    <3>3. ASSUME NEW j \in 1..k, order[j] = r[1] PROVE FALSE
      <4>1. j \in 1..k - 1
        BY <1>1, <2>4, <3>3
      <4> QED BY <1>3, <3>1, <3>3, <4>1
    <3> QED BY <2>3, <2>4, <3>1, <3>2, <3>3
  <2> QED BY <2>2, <2>3, <2>4
<1>6. \A m \in DOMAIN b.recs[o] : LET r == b.recs[o][m] IN
        r[1] \in built /\ r[1] # o /\ r[2] \notin b.listed[r[1]] => r[1] \in late
  BY <1>5
<1>7. \A m \in DOMAIN b.recs[o] : LET r == b.recs[o][m] IN
        r[1] \in built /\ r[1] = o /\ r[2] \in Runs[o] => o \in late
  BY <1>5
<1>8. Turned(b, c, o, late)
  BY <1>2, <1>6, <1>7, OneTurn
<1>9. /\ c \in ObStates /\ c.made = b.made /\ c.listed[o] = Declared(o)
      /\ \A x \in Owners : b.listed[x] \subseteq c.listed[x]
                           /\ (c.listed[x] = b.listed[x] \/ c.listed[x] = Declared(x))
      /\ \A x \in Owners : x # o => c.recs[x] = b.recs[x]
      /\ \A i \in InputParams : i[1] # o => Same(c, b, i)
      /\ Restored(c, o, f.recs[o])
  BY <1>3, <1>4, <1>8 DEF Turned
<1>10. \A x \in Owners : f.listed[x] \subseteq c.listed[x]
                        /\ (c.listed[x] = f.listed[x] \/ c.listed[x] = Declared(x))
  BY <1>3, <1>9
<1>11. ASSUME NEW j \in 1..k PROVE c.listed[order[j]] = Declared(order[j])
  <2>1. CASE j = k
    BY <1>1, <1>9, <2>1
  <2>2. CASE j # k
    <3>1. j \in 1..k - 1 /\ order[j] \in Owners
      BY <2>2
    <3>2. b.listed[order[j]] = Declared(order[j])
      BY <1>3, <3>1
    <3> QED BY <1>9, <3>1, <3>2
  <2> QED BY <2>1, <2>2
<1>12. ASSUME NEW j \in k + 1..n PROVE c.recs[order[j]] = f.recs[order[j]] /\ Bufferless(c, order[j])
  <2>1. j \in k..n /\ j \in 1..n /\ j # k
    OBVIOUS
  <2>2. order[j] # o /\ order[j] \in Owners
    BY <1>1, <2>1
  <2>3. PICK x \in Owners : x = order[j] /\ x # o
    BY <2>2
  <2>4. Bufferless(b, x)
    BY <1>3, <2>1, <2>3
  <2>5. \A m \in Ins[x] : Same(c, b, <<x, m, 0>>)
    BY <1>9, <2>3, InputsAre
  <2>6. Bufferless(c, x)
    BY <2>4, <2>5 DEF Bufferless, Same
  <2> QED BY <1>3, <1>9, <2>1, <2>3, <2>6
<1>13. ASSUME NEW p \in AllParams
       PROVE  LET least == f.notify[p] + Once(p[3] = 0 /\ \E j \in 1..k : order[j] = p[1]) IN
              c.notify[p] >= least /\ (c.notify[p] # least => p[3] = 0 /\ p[1] \in late)
  <2> DEFINE before == p[3] = 0 /\ \E j \in 1..k - 1 : order[j] = p[1]
             now == p[1] = o /\ p[3] = 0
             done == p[3] = 0 /\ \E j \in 1..k : order[j] = p[1]
  <2>1. done <=> before \/ now
    <3>1. \A j \in 1..k : j \in 1..k - 1 \/ j = k
      OBVIOUS
    <3>2. \A j \in 1..k - 1 : j \in 1..k
      OBVIOUS
    <3>3. k \in 1..k
      OBVIOUS
    <3> QED BY <1>1, <3>1, <3>2, <3>3
  <2>2. ~(before /\ now)
    <3>1. \A j \in 1..k - 1 : j \in 1..n /\ j # k
      OBVIOUS
    <3> QED BY <1>1, <3>1
  <2> HIDE DEF before, now, done
  <2>3. Once(done) = Once(before) + Once(now)
    BY <2>1, <2>2 DEF Once
  <2>4. /\ b.notify[p] >= f.notify[p] + Once(before)
        /\ b.notify[p] # f.notify[p] + Once(before) => p[3] = 0 /\ p[1] \in late
    BY DEF After, before
  <2>5. /\ c.notify[p] >= b.notify[p] + Once(now)
        /\ c.notify[p] # b.notify[p] + Once(now) => p[3] = 0 /\ p[1] \in late
    BY <1>8 DEF Turned, now
  <2>6. f.notify[p] \in Nat /\ b.notify[p] \in Nat /\ c.notify[p] \in Nat
    BY <1>9, StateIs
  <2>7. Once(before) \in Nat /\ Once(now) \in Nat
    BY DEF Once
  <2>8. c.notify[p] >= f.notify[p] + Once(done) /\ (c.notify[p] # f.notify[p] + Once(done) => p[3] = 0 /\ p[1] \in late)
    <3>1. c.notify[p] >= f.notify[p] + Once(done)
      <4>1. \A x, y, z, v, w \in Nat : y >= x + v /\ z >= y + w => z >= x + (v + w)
        OBVIOUS
      <4>2. b.notify[p] >= f.notify[p] + Once(before) /\ c.notify[p] >= b.notify[p] + Once(now)
        BY <2>4, <2>5
      <4> QED BY <2>3, <2>6, <2>7, <4>1, <4>2
    <3>2. c.notify[p] # f.notify[p] + Once(done)
            => b.notify[p] # f.notify[p] + Once(before) \/ c.notify[p] # b.notify[p] + Once(now)
      BY <2>3, <2>6, <2>7
    <3> QED BY <2>4, <2>5, <3>1, <3>2
  <2> QED BY <2>8 DEF done
<1>14. ASSUME NEW j \in 1..k PROVE Restored(c, order[j], f.recs[order[j]])
  <2>1. CASE j = k
    BY <1>1, <1>9, <2>1
  <2>2. CASE j # k
    <3>1. j \in 1..k - 1 /\ j \in 1..n
      BY <2>2
    <3>2. PICK x \in Owners : x = order[j]
      BY <3>1
    <3>3. x # o
      BY <1>1, <2>2, <3>1, <3>2
    <3>4. PICK recs : recs = f.recs[x]
      OBVIOUS
    <3>5. Restored(b, x, recs) /\ recs \in Seq(InputRecords(x))
      BY <1>3, <3>1, <3>2, <3>4, StateIs
    <3>6. \A m \in DOMAIN recs : InputOf(x, recs[m]) \in InputParams
      <4> SUFFICES ASSUME NEW m \in DOMAIN recs PROVE InputOf(x, recs[m]) \in InputParams
        OBVIOUS
      <4>1. recs[m] \in InputRecords(x)
        BY <3>5
      <4>2. recs[m][3] \in Ins[x]
        BY <4>1 DEF InputRecords
      <4> QED BY <4>2, InputsAre DEF InputOf
    <3>7. \A i \in InputParams : i[1] = x => Same(c, b, i)
      BY <1>9, <3>3
    <3>8. \A m \in DOMAIN recs : Same(c, b, InputOf(x, recs[m]))
      BY <3>6, <3>7 DEF InputOf
    <3>9. \A m \in DOMAIN recs : LinkTo(b, x, recs[m]) => LinkTo(c, x, recs[m])
      BY <3>8 DEF LinkTo, Same
    <3>10. Restored(c, x, recs)
      BY <3>5, <3>9 DEF Restored
    <3> QED BY <3>2, <3>4, <3>10
  <2> QED BY <2>1, <2>2
<1>15. c.made = f.made /\ c \in ObStates
  BY <1>3, <1>9
<1>16. After(c, f, order, k, n, late)
  <2>1. \A j \in 1..k : c.listed[order[j]] = Declared(order[j])
    BY <1>11
  <2>2. \A j \in k + 1..n : c.recs[order[j]] = f.recs[order[j]] /\ Bufferless(c, order[j])
    BY <1>12
  <2>3. \A j \in 1..k : Restored(c, order[j], f.recs[order[j]])
    BY <1>14
  <2> QED BY <1>10, <1>13, <1>15, <2>1, <2>2, <2>3 DEF After
<1> QED BY <1>1, <1>2, <1>16

LEMMA AllTurns ==
  ASSUME NEW f \in ObStates, built \subseteq Owners, NEW n \in Nat, NEW order \in [1..n -> Owners],
         \A i \in 1..n, j \in 1..n : order[i] = order[j] => i = j,
         NEW late, LateFor(f, order, n, late), \A j \in 1..n : Bufferless(f, order[j])
  PROVE  After(ReinitializedAll(f, order), f, order, n, n, late)
<1>1. TurnStays(ObStates, order, n)
  <2> SUFFICES ASSUME NEW s \in ObStates, NEW i \in 1..n PROVE Reinitialized(s, order[i]) \in ObStates
    BY DEF TurnStays
  <2>1. PICK o \in Owners : o = order[i]
    OBVIOUS
  <2>2. \A k \in DOMAIN s.recs[o] : LET r == s.recs[o][k] IN r[1] \in built => r[1] \in Owners
    OBVIOUS
  <2>3. Turned(s, Reinitialized(s, o), o, Owners)
    BY <2>2, OneTurn
  <2> QED BY <2>1, <2>3 DEF Turned
<1>2. DOMAIN order = 1..n
  OBVIOUS
<1>3. PICK w : TurnWalk(w, f, order, n) /\ \A k \in 0..n : w[k] \in ObStates
  BY <1>1, <1>2, TurnsRun
<1> DEFINE Good == {k \in 0..n : After(w[k], f, order, k, n, late)}
<1>4. 0 \in Good
  <2>1. w[0] = f
    BY <1>3 DEF TurnWalk
  <2>2. \A p \in AllParams : f.notify[p] \in Nat
    BY StateIs
  <2>3. 1..0 = {} /\ 0 + 1 = 1
    OBVIOUS
  <2>4. \A p \in AllParams :
          LET least == f.notify[p] + Once(p[3] = 0 /\ \E j \in 1..0 : order[j] = p[1]) IN
          f.notify[p] >= least /\ (f.notify[p] # least => p[3] = 0 /\ p[1] \in late)
    BY <2>2, <2>3 DEF Once
  <2>5. After(f, f, order, 0, n, late)
    BY <2>3, <2>4 DEF After
  <2> QED BY <2>1, <2>5
<1>5. ASSUME NEW k \in 1..n, k - 1 \in Good PROVE k \in Good
  <2>1. w[k - 1] \in ObStates /\ w[k] = Reinitialized(w[k - 1], order[k])
    <3>1. k - 1 \in 0..n
      OBVIOUS
    <3> QED BY <1>3, <3>1 DEF TurnWalk
  <2>2. After(w[k - 1], f, order, k - 1, n, late)
    BY <1>5
  <2>3. After(Reinitialized(w[k - 1], order[k]), f, order, k, n, late)
    BY <2>1, <2>2, NextTurn
  <2> QED BY <2>1, <2>3
<1>6. 0..n \subseteq Good
  <2> HIDE DEF Good
  <2> QED BY <1>4, <1>5, UpTo
<1>7. n \in Good /\ w[n] = ReinitializedAll(f, order)
  BY <1>3, <1>6 DEF TurnWalk
<1> QED BY <1>7

LEMMA OrdersAre ==
  ASSUME NEW order \in Orders
  PROVE  \E n \in Nat : /\ order \in [1..n -> Owners]
                        /\ \A i \in 1..n, j \in 1..n : order[i] = order[j] => i = j
                        /\ Range(order) = {order[j] : j \in 1..n}
<1>1. PICK k \in 1..Cardinality(Owners) : order \in [1..k -> Owners]
  BY DEF Orders
<1>2. IsInjective(order)
  BY DEF Orders
<1>3. k \in Nat
  <2>1. Cardinality(Owners) \in Nat
    BY ObjAssumption, FS_CardinalityType
  <2> QED BY <2>1
<1> QED BY <1>1, <1>2, <1>3 DEF IsInjective, Range

LEMMA SwapIs ==
  ASSUME ParamInv, NEW order \in Orders, Swap(order)
  PROVE  \E n \in Nat, f \in ObStates :
           LET objs == {order[j] : j \in 1..n}
               late == InitializedFor(order)
           IN /\ order \in [1..n -> Owners] /\ objs \subseteq built
              /\ Range(order) = objs /\ UNCHANGED <<built, context, managed>>
              /\ early' = (early \ objs) \cup late
              /\ f.recs = ob.recs
              /\ \A x \in built : f.listed[x] = IF x \in objs THEN {} ELSE Declared(x)
              /\ \A x \in Owners : f.made[x] = IF x \in objs THEN [m \in Runs[x] |-> 0] ELSE ob.made[x]
              /\ \A p \in AllParams : f.notify[p] = IF p[1] \in objs /\ Exists(ob, built, p) THEN 0 ELSE ob.notify[p]
              /\ After(ob', f, order, n, n, late)
<1>1. PICK n \in Nat : /\ order \in [1..n -> Owners]
                       /\ \A i \in 1..n, j \in 1..n : order[i] = order[j] => i = j
                       /\ Range(order) = {order[j] : j \in 1..n}
  BY OrdersAre
<1>2. PICK objs : objs = Range(order)
  OBVIOUS
<1>3. PICK late : late = InitializedFor(order)
  OBVIOUS
<1>4. /\ ob \in ObStates /\ built \subseteq Owners /\ \A x \in built : ob.listed[x] = Declared(x)
      /\ Hears(ob, built, early)
  BY DEF ParamInv, ObGood
<1>5. PICK params : params = UNION {ParametersOf(o) : o \in objs}
  OBVIOUS
<1> DEFINE f == Fresh(objs, params)
<1>6. /\ objs \subseteq built /\ UNCHANGED <<built, context, managed>>
      /\ early' = (early \ objs) \cup late /\ ob' = ReinitializedAll(f, order)
  <2>1. /\ objs \subseteq built /\ UNCHANGED <<built, context, managed>>
        /\ early' = (early \ objs) \cup late
    BY <1>2, <1>3 DEF Swap
  <2>2. ob' = ReinitializedAll(Fresh(Range(order), UNION {ParametersOf(o) : o \in Range(order)}), order)
    BY DEF Swap, Fresh
  <2> QED BY <1>2, <1>5, <2>1, <2>2
<1>7. /\ f \in ObStates /\ f.recs = ob.recs
      /\ \A o \in Owners : f.listed[o] = IF o \in objs THEN {} ELSE ob.listed[o]
      /\ \A o \in Owners : f.made[o] = IF o \in objs THEN [m \in Runs[o] |-> 0] ELSE ob.made[o]
      /\ \A p \in AllParams : f.notify[p] = IF p \in params THEN 0 ELSE ob.notify[p]
      /\ \A i \in InputParams : i \in params => f.shared[i] = Nothing
  <2>1. objs \in SUBSET Owners
    BY <1>4, <1>6
  <2> QED BY <1>4, <2>1, FreshIs
<1> HIDE DEF f
<1>8. \A p : p \in params <=> p[1] \in objs /\ Exists(ob, built, p)
  BY <1>5, <1>6, ExistingIs
<1>9. \A x \in built : f.listed[x] = IF x \in objs THEN {} ELSE Declared(x)
  BY <1>4, <1>7
<1>10. \A p \in AllParams : f.notify[p] = IF p[1] \in objs /\ Exists(ob, built, p) THEN 0 ELSE ob.notify[p]
  BY <1>7, <1>8
<1>11. \A j \in 1..n : Bufferless(f, order[j])
  <2> SUFFICES ASSUME NEW x \in objs, NEW m \in Ins[x] PROVE f.shared[<<x, m, 0>>] = Nothing
    BY <1>1, <1>2 DEF Bufferless
  <2>1. x \in built /\ x \in Owners
    BY <1>4, <1>6
  <2>2. PICK i \in InputParams : i = <<x, m, 0>>
    BY <2>1, InputsAre
  <2>3. m \in ob.listed[x]
    BY <1>4, <2>1 DEF Declared
  <2>4. Exists(ob, built, i) /\ i[1] = x
    BY <2>1, <2>2, <2>3 DEF Exists
  <2> QED BY <1>7, <1>8, <2>2, <2>4
<1>12. LateFor(f, order, n, late)
  <2> SUFFICES ASSUME NEW k \in 1..n, NEW m \in DOMAIN f.recs[order[k]], NEW r, r = f.recs[order[k]][m], r[1] \in built
               PROVE  /\ r[2] \in Runs[r[1]] => r[1] \in late
                      /\ r[2] \in Outs[r[1]] => \/ f.listed[r[1]] = Declared(r[1])
                                                \/ \E j \in 1..k : order[j] = r[1]
                                                \/ r[1] \in late
    BY DEF LateFor
  <2>1. r \in Range(ob.recs[order[k]]) /\ k \in DOMAIN order
    BY <1>1, <1>7 DEF Range
  <2>2. r[2] \in Runs[r[1]] => r[1] \in late
    BY <1>3, <2>1 DEF InitializedFor
  <2>3. ASSUME f.listed[r[1]] # Declared(r[1]), ~ \E j \in 1..k : order[j] = r[1] PROVE r[1] \in late
    <3>1. r[1] \in objs
      BY <1>9, <2>3
    <3>2. PICK j \in 1..n : order[j] = r[1]
      BY <1>1, <1>2, <3>1
    <3>3. k < j /\ j \in DOMAIN order
      BY <1>1, <2>3, <3>2
    <3> QED BY <1>3, <2>1, <3>2, <3>3 DEF InitializedFor
  <2> QED BY <2>2, <2>3
<1>13. After(ob', f, order, n, n, late)
  BY <1>1, <1>4, <1>6, <1>7, <1>11, <1>12, AllTurns
<1> QED BY <1>1, <1>2, <1>3, <1>6, <1>7, <1>9, <1>10, <1>13

LEMMA SwapKeeps ==
  ASSUME ParamInv, NEW order \in Orders, Swap(order)
  PROVE  ParamInv'
<1>1. PICK n \in Nat, f \in ObStates :
           LET objs == {order[j] : j \in 1..n}
               late == InitializedFor(order)
           IN /\ order \in [1..n -> Owners] /\ objs \subseteq built
              /\ Range(order) = objs /\ UNCHANGED <<built, context, managed>>
              /\ early' = (early \ objs) \cup late
              /\ f.recs = ob.recs
              /\ \A x \in built : f.listed[x] = IF x \in objs THEN {} ELSE Declared(x)
              /\ \A x \in Owners : f.made[x] = IF x \in objs THEN [m \in Runs[x] |-> 0] ELSE ob.made[x]
              /\ \A p \in AllParams : f.notify[p] = IF p[1] \in objs /\ Exists(ob, built, p) THEN 0 ELSE ob.notify[p]
              /\ After(ob', f, order, n, n, late)
  BY SwapIs
<1>2. PICK objs, late : objs = {order[j] : j \in 1..n} /\ late = InitializedFor(order)
  OBVIOUS
<1>3. /\ ob \in ObStates /\ built \subseteq Owners /\ \A x \in built : ob.listed[x] = Declared(x)
      /\ Hears(ob, built, early)
  BY DEF ParamInv, ObGood
<1>4. PICK c : c = ob'
  OBVIOUS
<1>5. /\ c \in ObStates /\ c.made = f.made
      /\ \A x \in Owners : f.listed[x] \subseteq c.listed[x]
                       /\ (c.listed[x] = f.listed[x] \/ c.listed[x] = Declared(x))
      /\ \A j \in 1..n : c.listed[order[j]] = Declared(order[j])
      /\ \A p \in AllParams :
           LET least == f.notify[p] + Once(p[3] = 0 /\ \E j \in 1..n : order[j] = p[1]) IN
           c.notify[p] >= least /\ (c.notify[p] # least => p[3] = 0 /\ p[1] \in late)
  BY <1>1, <1>2, <1>4 DEF After
<1>6. \A x \in built : c.listed[x] = Declared(x)
  <2> SUFFICES ASSUME NEW x \in built PROVE c.listed[x] = Declared(x)
    OBVIOUS
  <2>1. CASE x \in objs
    BY <1>2, <1>5, <2>1
  <2>2. CASE x \notin objs
    <3>1. f.listed[x] = Declared(x) /\ x \in Owners
      BY <1>1, <1>2, <1>3, <2>2
    <3> QED BY <1>5, <3>1
  <2> QED BY <2>1, <2>2
<1>7. Hears(c, built, early')
  <2> SUFFICES ASSUME NEW p \in AllParams, Exists(c, built, p)
               PROVE  c.notify[p] >= 1 /\ (c.notify[p] > 1 => p[1] \in early' /\ p[3] = 0)
    BY DEF Hears
  <2>1. PICK x \in built : x = p[1]
    BY DEF Exists
  <2>2. PICK done : done = (p[3] = 0 /\ \E j \in 1..n : order[j] = p[1])
    OBVIOUS
  <2>3. /\ c.notify[p] >= f.notify[p] + Once(done)
        /\ c.notify[p] # f.notify[p] + Once(done) => p[3] = 0 /\ x \in late
    BY <1>5, <2>1, <2>2
  <2>4. c.notify[p] \in Nat /\ f.notify[p] \in Nat /\ ob.notify[p] \in Nat
    BY <1>3, <1>5, StateIs
  <2>5. early' = (early \ objs) \cup late
    BY <1>1, <1>2
  <2>6. f.notify[p] = IF x \in objs /\ Exists(ob, built, p) THEN 0 ELSE ob.notify[p]
    BY <1>1, <1>2, <2>1
  <2>7. CASE p[2] \in c.listed[x] /\ p = <<x, p[2], 0>>
    <3>1. Exists(ob, built, p) /\ p[3] = 0
      <4>1. p[2] \in ob.listed[x]
        BY <1>3, <1>6, <2>7
      <4> QED BY <2>1, <2>7, <4>1 DEF Exists
    <3>2. CASE x \in objs
      <4>1. f.notify[p] = 0 /\ Once(done) = 1
        BY <1>2, <2>1, <2>2, <2>6, <3>1, <3>2 DEF Once
      <4> QED BY <2>1, <2>3, <2>4, <2>5, <3>1, <4>1
    <3>3. CASE x \notin objs
      <4>1. f.notify[p] = ob.notify[p] /\ Once(done) = 0
        BY <1>2, <2>1, <2>2, <2>6, <3>3 DEF Once
      <4>2. ob.notify[p] >= 1 /\ (ob.notify[p] > 1 => x \in early)
        BY <1>3, <2>1, <3>1 DEF Hears
      <4> QED BY <2>1, <2>3, <2>4, <2>5, <3>1, <3>3, <4>1, <4>2
    <3> QED BY <3>2, <3>3
  <2>8. CASE p[2] \in Runs[x] /\ c.made[x][p[2]] > 0 /\ p = <<x, p[2], c.made[x][p[2]]>>
    <3>1. x \notin objs
      <4>1. x \in Owners /\ (x \in objs => c.made[x] = [m \in Runs[x] |-> 0])
        BY <1>1, <1>2, <1>3, <1>5
      <4> QED BY <2>8, <4>1
    <3>2. c.made[x] = ob.made[x]
      BY <1>1, <1>2, <1>3, <1>5, <3>1
    <3>3. Exists(ob, built, p)
      BY <2>1, <2>8, <3>2 DEF Exists
    <3>4. p[3] # 0 /\ Once(done) = 0
      <4>1. c.made[x][p[2]] # 0
        <5>1. c.made[x][p[2]] \in Nat
          <6>1. x \in Owners /\ MaxMade \in Nat
            BY <1>3, ObjAssumption
          <6>2. c.made[x] \in [Runs[x] -> 0..MaxMade]
            BY <1>5, <6>1, StateIs
          <6> QED BY <2>8, <6>1, <6>2
        <5> QED BY <2>8, <5>1
      <4>2. p[3] = c.made[x][p[2]]
        BY <2>8
      <4>3. done = FALSE
        BY <2>2, <4>1, <4>2
      <4> QED BY <4>1, <4>2, <4>3 DEF Once
    <3>5. ob.notify[p] >= 1 /\ ~(ob.notify[p] > 1)
      BY <1>3, <3>3, <3>4 DEF Hears
    <3> QED BY <2>3, <2>4, <2>6, <3>1, <3>4, <3>5
  <2>9. \/ p[2] \in c.listed[x] /\ p = <<x, p[2], 0>>
        \/ p[2] \in Runs[x] /\ c.made[x][p[2]] > 0 /\ p = <<x, p[2], c.made[x][p[2]]>>
    BY <2>1 DEF Exists
  <2> QED BY <2>7, <2>8, <2>9
<1>8. built' = built /\ managed' = managed
  BY <1>1
<1>9. ObGood(c, built, early')
  BY <1>3, <1>5, <1>6, <1>7 DEF ObGood
<1> QED BY <1>4, <1>8, <1>9 DEF ParamInv

LEMMA RecordsAre ==
  \A o, n, m : m \in RecordsOf(o, n) <=> m \in DOMAIN ob.recs[o] /\ ob.recs[o][m][3] = n
BY DEF RecordsOf

LEMMA LastRecordIs ==
  ASSUME ob \in ObStates, NEW o \in Owners, NEW n, RecordsOf(o, n) # {}
  PROVE  Max(RecordsOf(o, n)) \in RecordsOf(o, n) /\ IsLast(ob.recs[o], Max(RecordsOf(o, n)))
<1>1. ob.recs[o] \in Seq(InputRecords(o))
  BY StateIs
<1>2. PICK l \in Nat : DOMAIN ob.recs[o] = 1..l
  BY <1>1
<1>3. RecordsOf(o, n) \in SUBSET (1..l)
  BY <1>2, RecordsAre
<1>4. Max(RecordsOf(o, n)) \in RecordsOf(o, n) /\ \A k \in RecordsOf(o, n) : k <= Max(RecordsOf(o, n))
  BY <1>3, MaxIn
<1>5. PICK m \in 1..l : m = Max(RecordsOf(o, n))
  BY <1>3, <1>4
<1>6. ASSUME NEW k \in 1..l, k > m PROVE ob.recs[o][k][3] # ob.recs[o][m][3]
  <2>1. k \notin RecordsOf(o, n)
    <3>1. \A j \in RecordsOf(o, n) : j <= m
      BY <1>4, <1>5
    <3> QED BY <1>6, <3>1
  <2> QED BY <1>2, <1>4, <1>5, <2>1, RecordsAre
<1>7. IsLast(ob.recs[o], m)
  BY <1>2, <1>6 DEF IsLast
<1> QED BY <1>4, <1>5, <1>7

LEMMA SwapRestoresInputs ==
  ASSUME ParamInv PROVE InputsRestored
<1> SUFFICES ASSUME NEW order \in Orders, Swap(order), NEW o \in Range(order), NEW n \in Ins[o], RecordsOf(o, n) # {},
                    NEW m, m = Max(RecordsOf(o, n)), NEW r, r = ob.recs[o][m],
                    r[1] \in built, r[2] \in Outs[r[1]], NoBufferBefore(o, n, m)
             PROVE  /\ Reads(ob', <<o, n, 0>>) = OutputOf(r)
                    /\ ob'.shared[<<o, n, 0>>] = Nothing <=> Via(o, r) = "direct"
  BY DEF InputsRestored, OutputOf
<1>1. PICK k \in Nat, f \in ObStates :
           LET objs == {order[j] : j \in 1..k}
               late == InitializedFor(order)
           IN /\ order \in [1..k -> Owners] /\ objs \subseteq built
              /\ Range(order) = objs /\ UNCHANGED <<built, context, managed>>
              /\ early' = (early \ objs) \cup late
              /\ f.recs = ob.recs
              /\ \A x \in built : f.listed[x] = IF x \in objs THEN {} ELSE Declared(x)
              /\ \A x \in Owners : f.made[x] = IF x \in objs THEN [q \in Runs[x] |-> 0] ELSE ob.made[x]
              /\ \A p \in AllParams : f.notify[p] = IF p[1] \in objs /\ Exists(ob, built, p) THEN 0 ELSE ob.notify[p]
              /\ After(ob', f, order, k, k, late)
  BY SwapIs
<1>2. PICK j \in 1..k : o = order[j] /\ o \in Owners
  BY <1>1
<1>3. ob \in ObStates
  BY DEF ParamInv, ObGood
<1>4. m \in DOMAIN ob.recs[o] /\ r[3] = n /\ IsLast(ob.recs[o], m)
  <2>1. m \in RecordsOf(o, n) /\ IsLast(ob.recs[o], m)
    BY <1>2, <1>3, LastRecordIs
  <2> QED BY <2>1, RecordsAre
<1>5. Direct(o, ob.recs[o], m)
  <2> SUFFICES ASSUME NEW x \in DOMAIN ob.recs[o], x < m, ob.recs[o][x][3] = ob.recs[o][m][3], ob.recs[o][x][1] \in built
               PROVE  Via(o, ob.recs[o][x]) = "direct"
    BY DEF Direct
  <2>1. ob.recs[o][m][3] = n
    BY <1>4
  <2>2. x \in RecordsOf(o, n)
    BY <2>1, RecordsAre
  <2> QED BY <2>2 DEF NoBufferBefore
<1>6. Restored(ob', order[j], f.recs[order[j]])
  BY <1>1, <1>2 DEF After
<1>7. f.recs[order[j]] = ob.recs[o]
  BY <1>1, <1>2
<1>8. Restored(ob', o, ob.recs[o])
  BY <1>2, <1>6, <1>7
<1>9. LinkTo(ob', o, r)
  BY <1>4, <1>5, <1>8 DEF Restored
<1>10. InputOf(o, r) = <<o, n, 0>>
  BY <1>4 DEF InputOf
<1>11. OutputOf(r) # Nothing
  BY DEF OutputOf, Nothing
<1> QED BY <1>9, <1>10, <1>11 DEF LinkTo, Reads

LEMMA ParamStep == ParamInv /\ [ObjNext]_objVars => ParamInv'
<1> SUFFICES ASSUME ParamInv, [ObjNext]_objVars PROVE ParamInv'
  OBVIOUS
<1>1. CASE UNCHANGED objVars
  BY <1>1 DEF objVars, ParamInv
<1>2. ASSUME NEW o \in Owners, NEW n \in Runs[o], UpdateParameter(o, n) PROVE ParamInv'
  BY <1>2, UpdateKeeps
<1>3. ASSUME NEW o \in Owners, NEW n \in Ins[o], NEW p \in Existing, ConnectInput(o, n, p) PROVE ParamInv'
  BY <1>3, ConnectKeeps
<1>4. ASSUME NEW o \in Owners, NEW n \in Ins[o], NEW t \in TreeNames, LinkParameters(o, n, t) PROVE ParamInv'
  BY <1>4, LinkKeeps
<1>5. ASSUME NEW o \in Owners, NEW c \in Contexts, SetContext(o, c) PROVE ParamInv'
  BY <1>5 DEF SetContext, ParamInv
<1>6. ASSUME NEW o \in Owners, NEW r \in Roots, SetParameterRoot(o, r) PROVE ParamInv'
  BY <1>6 DEF SetParameterRoot, ParamInv
<1>7. ASSUME NEW o \in Owners, SetupVariableManager(o) \/ RemoveVariableManager(o) PROVE ParamInv'
  BY <1>7, VariablesKeep
<1>8. ASSUME NEW o \in Owners, Destroy(o) PROVE ParamInv'
  BY <1>8, DestroyKeeps
<1>9. ASSUME NEW order \in Orders, Swap(order) PROVE ParamInv'
  BY <1>9, SwapKeeps
<1> QED BY <1>1, <1>2, <1>3, <1>4, <1>5, <1>6, <1>7, <1>8, <1>9 DEF ObjNext

(* Every parameter an object has reports to it, through replacements and    *)
(* recompiles: once, but for objects a consumer initialized early.         *)
THEOREM ParametersAreSound == ObjSpec => []ParametersSound
<1>1. ObjInit => ParamInv
  BY InitParamInv
<1>2. ParamInv /\ [ObjNext]_objVars => ParamInv'
  BY ParamStep
<1>3. ParamInv => ParametersSound
  BY InvIsParametersSound
<1> QED BY <1>1, <1>2, <1>3, PTL DEF ObjSpec

(* A recompile gives an input the output it was connected to last, in      *)
(* whatever order the objects are initialized and whatever it read before,  *)
(* through a buffer exactly when the threads differ; unless an earlier      *)
(* connection of it goes through a buffer.                                 *)
THEOREM InputsAreRestored == ObjSpec => RecompileRestoresInputs
<1>1. ObjInit => ParamInv
  BY InitParamInv
<1>2. ParamInv /\ [ObjNext]_objVars => ParamInv'
  BY ParamStep
<1>3. ParamInv => InputsRestored
  BY SwapRestoresInputs
<1>4. ParamInv => [objVars' # objVars => InputsRestored]_objVars
  BY <1>3
<1> QED BY <1>1, <1>2, <1>4, PTL DEF ObjSpec, RecompileRestoresInputs

----------------------------------------------------------------------------
(* How objects are wired                                                   *)

(* A signal's list of relays: none twice, and one at most if the signal    *)
(* returns a value.                                                        *)
Orderly(q, s) ==
  /\ \A i, j \in DOMAIN q : q[i] = q[j] => i = j
  /\ ~IsVoid(s) => Len(q) <= 1

LEMMA AppendedHas ==
  ASSUME NEW X, NEW q \in Seq(X), NEW r \in X
  PROVE  /\ Append(q, r) \in Seq(X) /\ Len(Append(q, r)) = Len(q) + 1
         /\ DOMAIN Append(q, r) = 1..(Len(q) + 1) /\ DOMAIN q = 1..Len(q) /\ Len(q) \in Nat
         /\ \A i \in 1..Len(q) : Append(q, r)[i] = q[i]
         /\ Append(q, r)[Len(q) + 1] = r
         /\ \A x : Contains(Append(q, r), x) <=> Contains(q, x) \/ x = r
<1>1. /\ Append(q, r) \in Seq(X) /\ Len(Append(q, r)) = Len(q) + 1
      /\ DOMAIN Append(q, r) = 1..(Len(q) + 1) /\ DOMAIN q = 1..Len(q) /\ Len(q) \in Nat
      /\ \A i \in 1..Len(q) : Append(q, r)[i] = q[i]
      /\ Append(q, r)[Len(q) + 1] = r
  BY AppendProperties, LenProperties
<1>2. ASSUME NEW x PROVE Contains(Append(q, r), x) <=> Contains(q, x) \/ x = r
  <2> DEFINE a == Append(q, r)
  <2>1. \A i \in 1..(Len(q) + 1) : i \in 1..Len(q) \/ i = Len(q) + 1
    BY <1>1
  <2>2. Contains(a, x) <=> \E i \in 1..(Len(q) + 1) : a[i] = x
    BY <1>1 DEF Contains
  <2>3. Len(q) + 1 \in 1..(Len(q) + 1) /\ 1..Len(q) \subseteq 1..(Len(q) + 1)
    BY <1>1
  <2> HIDE DEF a
  <2> QED BY <1>1, <2>1, <2>2, <2>3 DEF Contains, a
<1> QED BY <1>1, <1>2

LEMMA RemovedHas ==
  ASSUME NEW X, NEW q \in Seq(X), NEW r
  PROVE  /\ RemoveFirst(q, r) \in Seq(X)
         /\ \A x : x # r => (Contains(RemoveFirst(q, r), x) <=> Contains(q, x))
         /\ \A x : Contains(RemoveFirst(q, r), x) => Contains(q, x)
         /\ (\A i, j \in DOMAIN q : q[i] = q[j] => i = j)
              => /\ ~Contains(RemoveFirst(q, r), r)
                 /\ \A i, j \in DOMAIN RemoveFirst(q, r) : RemoveFirst(q, r)[i] = RemoveFirst(q, r)[j] => i = j
<1>1. DOMAIN q = 1..Len(q) /\ Len(q) \in Nat /\ \A i \in 1..Len(q) : q[i] \in X
  BY LenProperties
<1>2. CASE ~\E i \in 1..Len(q) : q[i] = r
  BY <1>2, <1>1 DEF RemoveFirst, Contains
<1>3. CASE \E i \in 1..Len(q) : q[i] = r
  <2> DEFINE I == {i \in 1..Len(q) : q[i] = r}
             m == SelectInSeq(q, LAMBDA v : v = r)
             p == SubSeq(q, 1, m - 1) \o SubSeq(q, m + 1, Len(q))
  <2>1. RemoveFirst(q, r) = p
    BY <1>3 DEF RemoveFirst, RemoveAt
  <2>2. m \in 1..Len(q) /\ q[m] = r
    <3>1. I \subseteq Nat /\ I # {}
      BY <1>1, <1>3
    <3>2. PICK i \in I : \A j \in I : i <= j
      BY <3>1, LeastNumber
    <3>3. m = CHOOSE n \in I : \A j \in I : n <= j
      BY <1>3 DEF SelectInSeq, Min
    <3>4. m \in I
      BY <3>2, <3>3
    <3> QED BY <3>4
  <2> HIDE DEF m
  <2>3. /\ p \in Seq(X) /\ Len(p) = Len(q) - 1 /\ DOMAIN p = 1..(Len(q) - 1)
        /\ \A i \in 1..(Len(q) - 1) : p[i] = IF i < m THEN q[i] ELSE q[i + 1]
    <3> DEFINE a == SubSeq(q, 1, m - 1)
               b == SubSeq(q, m + 1, Len(q))
    <3>1. a \in Seq(X) /\ Len(a) = m - 1 /\ \A i \in 1..(m - 1) : a[i] = q[i]
      BY <1>1, <2>2
    <3>2. b \in Seq(X) /\ Len(b) = Len(q) - m /\ \A i \in 1..(Len(q) - m) : b[i] = q[m + i]
      <4>1. m + 1 \in Int /\ Len(q) \in Int /\ \A i \in (m + 1)..Len(q) : q[i] \in X
        BY <1>1, <2>2
      <4>2. /\ b \in Seq(X) /\ Len(b) = IF m + 1 <= Len(q) THEN Len(q) - (m + 1) + 1 ELSE 0
            /\ \A i \in 1..(Len(q) - (m + 1) + 1) : b[i] = q[(m + 1) + i - 1]
        BY <4>1, SubSeqProperties
      <4> HIDE DEF b
      <4>3. Len(b) = Len(q) - m /\ Len(q) - (m + 1) + 1 = Len(q) - m
        <5>1. m \in Nat /\ m <= Len(q) /\ Len(q) \in Nat
          BY <1>1, <2>2
        <5>2. Len(q) - (m + 1) + 1 = Len(q) - m /\ (~(m + 1 <= Len(q)) => Len(q) - m = 0)
          <6> \A n, j \in Nat : j <= n => n - (j + 1) + 1 = n - j /\ (~(j + 1 <= n) => n - j = 0)
            OBVIOUS
          <6> QED BY <5>1
        <5>3. CASE m + 1 <= Len(q)
          BY <4>2, <5>2, <5>3
        <5>4. CASE ~(m + 1 <= Len(q))
          <6>1. Len(b) = 0
            BY <4>2, <5>4
          <6> QED BY <5>2, <5>4, <6>1
        <5> QED BY <5>3, <5>4
      <4>4. \A i \in 1..(Len(q) - m) : (m + 1) + i - 1 = m + i
        BY <1>1, <2>2
      <4> QED BY <4>2, <4>3, <4>4
    <3> HIDE DEF a, b
    <3>3. p = a \o b
      BY DEF a, b
    <3> HIDE DEF p
    <3>4. /\ p \in Seq(X) /\ Len(p) = Len(a) + Len(b) /\ DOMAIN p = 1..(Len(a) + Len(b))
          /\ \A i \in 1..(Len(a) + Len(b)) : p[i] = IF i <= Len(a) THEN a[i] ELSE b[i - Len(a)]
      <4>1. a \in Seq(X) /\ b \in Seq(X)
        BY <3>1, <3>2
      <4>2. p \in Seq(X) /\ Len(p) = Len(a) + Len(b)
        BY <3>3, <4>1, ConcatProperties
      <4>3. \A i \in 1..(Len(a) + Len(b)) : p[i] = IF i <= Len(a) THEN a[i] ELSE b[i - Len(a)]
        BY <3>3, <4>1, ConcatProperties
      <4>4. DOMAIN p = 1..Len(p)
        BY <4>2, LenProperties
      <4> QED BY <4>2, <4>3, <4>4
    <3>5. ASSUME NEW i \in 1..(Len(q) - 1) PROVE p[i] = IF i < m THEN q[i] ELSE q[i + 1]
      <4>1. CASE i < m
        <5>1. i <= Len(a) /\ i \in 1..(m - 1) /\ i \in 1..(Len(a) + Len(b))
          BY <1>1, <2>2, <3>1, <3>2, <4>1
        <5>2. p[i] = a[i]
          BY <3>4, <5>1
        <5> QED BY <3>1, <4>1, <5>1, <5>2
      <4>2. CASE ~(i < m)
        <5>1. /\ ~(i <= Len(a)) /\ i \in 1..(Len(a) + Len(b)) /\ i - Len(a) \in 1..(Len(q) - m)
              /\ m + (i - Len(a)) = i + 1
          BY <1>1, <2>2, <3>1, <3>2, <4>2
        <5>2. p[i] = b[i - Len(a)]
          BY <3>4, <5>1
        <5>3. b[i - Len(a)] = q[m + (i - Len(a))]
          BY <3>2, <5>1
        <5> QED BY <4>2, <5>1, <5>2, <5>3
      <4> QED BY <4>1, <4>2
    <3>6. Len(a) + Len(b) = Len(q) - 1
      BY <1>1, <2>2, <3>1, <3>2
    <3> QED BY <3>4, <3>5, <3>6
  <2> HIDE DEF p
  <2>4. ASSUME NEW x, Contains(p, x) PROVE Contains(q, x)
    <3>1. PICK i \in 1..(Len(q) - 1) : p[i] = x
      BY <2>3, <2>4 DEF Contains
    <3> QED BY <1>1, <2>3, <3>1 DEF Contains
  <2>5. ASSUME NEW x, x # r, Contains(q, x) PROVE Contains(p, x)
    <3>1. PICK i \in 1..Len(q) : q[i] = x
      BY <2>5 DEF Contains
    <3>2. i # m
      BY <2>2, <2>5, <3>1
    <3>3. CASE i < m
      <4>1. i \in 1..(Len(q) - 1) /\ p[i] = x
        BY <1>1, <2>2, <2>3, <3>1, <3>3
      <4> QED BY <2>3, <4>1 DEF Contains
    <3>4. CASE i > m
      <4>1. i - 1 \in 1..(Len(q) - 1) /\ ~(i - 1 < m) /\ (i - 1) + 1 = i
        BY <1>1, <2>2, <3>1, <3>4
      <4>2. p[i - 1] = x
        BY <2>3, <3>1, <4>1
      <4> QED BY <2>3, <4>1, <4>2 DEF Contains
    <3> QED BY <1>1, <2>2, <3>2, <3>3, <3>4
  <2>6. ASSUME \A i, j \in DOMAIN q : q[i] = q[j] => i = j
        PROVE  ~Contains(p, r) /\ \A i, j \in DOMAIN p : p[i] = p[j] => i = j
    <3>1. ASSUME NEW i \in 1..(Len(q) - 1)
          PROVE  (IF i < m THEN i ELSE i + 1) \in 1..Len(q) /\ (IF i < m THEN i ELSE i + 1) # m
      BY <1>1, <2>2
    <3>2. ASSUME NEW i \in 1..(Len(q) - 1) PROVE p[i] = q[IF i < m THEN i ELSE i + 1]
      BY <2>3
    <3>3. \A i \in 1..(Len(q) - 1) : p[i] # r
      BY <1>1, <2>2, <2>6, <3>1, <3>2
    <3>4. ASSUME NEW i \in 1..(Len(q) - 1), NEW j \in 1..(Len(q) - 1), p[i] = p[j] PROVE i = j
      <4>1. (IF i < m THEN i ELSE i + 1) = (IF j < m THEN j ELSE j + 1)
        BY <1>1, <2>6, <3>1, <3>2, <3>4
      <4> QED BY <1>1, <2>2, <4>1
    <3> QED BY <2>3, <3>3, <3>4 DEF Contains
  <2> QED BY <2>1, <2>3, <2>4, <2>5, <2>6
<1> QED BY <1>2, <1>3

LEMMA AttachedHas ==
  ASSUME NEW X, NEW q \in Seq(X), NEW r \in X, NEW s, Orderly(q, s)
  PROVE  /\ Attach(q, s, r) \in Seq(X) /\ Orderly(Attach(q, s, r), s)
         /\ \A x : Contains(Attach(q, s, r), x) <=> x = r \/ (IsVoid(s) /\ Contains(q, x))
<1>1. DOMAIN q = 1..Len(q) /\ Len(q) \in Nat
  BY LenProperties
<1>2. CASE Contains(q, r)
  <2>1. Attach(q, s, r) = q
    BY <1>2 DEF Attach
  <2>2. ASSUME ~IsVoid(s), NEW x, Contains(q, x) PROVE x = r
    <3>1. Len(q) <= 1
      BY <2>2 DEF Orderly
    <3>2. PICK i \in 1..Len(q) : q[i] = r
      BY <1>2 DEF Contains
    <3>3. PICK j \in 1..Len(q) : q[j] = x
      BY <2>2 DEF Contains
    <3>4. i = j
      BY <1>1, <3>1, <3>2, <3>3
    <3> QED BY <3>2, <3>3, <3>4
  <2> QED BY <1>2, <2>1, <2>2
<1>3. CASE ~Contains(q, r) /\ IsVoid(s)
  <2> DEFINE a == Append(q, r)
  <2>1. Attach(q, s, r) = a
    BY <1>3 DEF Attach, AddRelay
  <2>2. /\ a \in Seq(X) /\ Len(a) = Len(q) + 1 /\ DOMAIN a = 1..(Len(q) + 1)
        /\ \A i \in 1..Len(q) : a[i] = q[i]
        /\ a[Len(q) + 1] = r
        /\ \A x : Contains(a, x) <=> Contains(q, x) \/ x = r
    BY AppendedHas
  <2> HIDE DEF a
  <2>3. \A i \in 1..Len(q) : q[i] # r
    BY <1>3 DEF Contains
  <2>4. ASSUME NEW i \in DOMAIN a, NEW j \in DOMAIN a, a[i] = a[j] PROVE i = j
    BY <1>1, <2>2, <2>3, <2>4 DEF Orderly
  <2> QED BY <1>3, <2>1, <2>2, <2>4 DEF Orderly
<1>4. CASE ~Contains(q, r) /\ ~IsVoid(s)
  <2>1. Attach(q, s, r) = <<r>>
    BY <1>4 DEF Attach, SetRelay
  <2>2. <<r>> \in Seq(X) /\ Len(<<r>>) = 1 /\ <<r>>[1] = r /\ DOMAIN <<r>> = {1} /\ 1..1 = {1}
    OBVIOUS
  <2>3. \A x : Contains(<<r>>, x) <=> x = r
    BY <2>2 DEF Contains
  <2> QED BY <1>4, <2>1, <2>2, <2>3 DEF Orderly
<1> QED BY <1>2, <1>3, <1>4

LEMMA DetachedHas ==
  ASSUME NEW X, NEW q \in Seq(X), NEW r, NEW s, Orderly(q, s), Contains(q, r)
  PROVE  /\ Detach(q, s, r) \in Seq(X) /\ Orderly(Detach(q, s, r), s)
         /\ \A x : Contains(Detach(q, s, r), x) <=> x # r /\ Contains(q, x)
<1>1. DOMAIN q = 1..Len(q) /\ Len(q) \in Nat
  BY LenProperties
<1>2. CASE IsVoid(s)
  <2>1. Detach(q, s, r) = RemoveFirst(q, r)
    BY <1>2 DEF Detach, RemoveRelay
  <2>2. \A i, j \in DOMAIN q : q[i] = q[j] => i = j
    BY DEF Orderly
  <2>3. /\ RemoveFirst(q, r) \in Seq(X)
        /\ \A x : x # r => (Contains(RemoveFirst(q, r), x) <=> Contains(q, x))
        /\ ~Contains(RemoveFirst(q, r), r)
        /\ \A i, j \in DOMAIN RemoveFirst(q, r) : RemoveFirst(q, r)[i] = RemoveFirst(q, r)[j] => i = j
    BY <2>2, RemovedHas
  <2> QED BY <1>2, <2>1, <2>3 DEF Orderly
<1>3. CASE ~IsVoid(s)
  <2>1. PICK i \in 1..Len(q) : q[i] = r
    BY DEF Contains
  <2>2. Len(q) = 1 /\ i = 1
    BY <1>1, <1>3, <2>1 DEF Orderly
  <2>3. q = <<r>>
    BY <2>1, <2>2
  <2>4. Detach(q, s, r) = <<>>
    BY <1>3, <2>3 DEF Detach, ResetRelay
  <2>5. <<>> \in Seq(X) /\ Len(<<>>) = 0 /\ DOMAIN <<>> = {} /\ 1..0 = {}
    OBVIOUS
  <2>6. \A x : Contains(q, x) => x = r
    BY <2>1, <2>2 DEF Contains
  <2> QED BY <2>4, <2>5, <2>6 DEF Orderly, Contains
<1> QED BY <1>2, <1>3

LEMMA EmptyHas ==
  /\ \A X : <<>> \in Seq(X)
  /\ \A s : Orderly(<<>>, s)
  /\ \A x : ~Contains(<<>>, x)
<1>1. Len(<<>>) = 0 /\ DOMAIN <<>> = {} /\ 1..0 = {} /\ \A X : <<>> \in Seq(X)
  OBVIOUS
<1> QED BY <1>1 DEF Orderly, Contains

LEMMA RelaysAre ==
  ASSUME NEW m \in Nat
  PROVE  /\ Relays(m + 1) = Relays(m) \cup {OwnRelay(m + 1)}
         /\ OwnRelay(m + 1) \notin Relays(m) /\ OwnRelay(m + 1) \notin Keys
         /\ Keys \subseteq Relays(m)
<1>1. 1..(m + 1) = 1..m \cup {m + 1} /\ m + 1 \notin 1..m
  OBVIOUS
<1>2. \A i, j \in Nat : OwnRelay(i) = OwnRelay(j) => i = j
  BY DEF OwnRelay
<1>3. \A i \in Nat : OwnRelay(i) \notin Keys
  <2>1. \A i, a, b : <<i>> # <<a, b>>
    <3> SUFFICES ASSUME NEW i, NEW a, NEW b, <<i>> = <<a, b>> PROVE FALSE
      OBVIOUS
    <3>1. Len(<<i>>) = 1 /\ Len(<<a, b>>) = 2
      OBVIOUS
    <3> QED BY <3>1
  <2> QED BY <2>1 DEF OwnRelay, Keys, Key
<1>4. \A i \in 1..m : OwnRelay(i) # OwnRelay(m + 1)
  BY <1>1, <1>2
<1> QED BY <1>1, <1>3, <1>4 DEF Relays

(* What holds of the relays, the slots and the signals (n), the links (u),  *)
(* who joined the manager (j) and the objects there are (here).             *)
OwnRelays(made) == {OwnRelay(i) : i \in 1..made}

Shaped(n) ==
  /\ n = [hold |-> n.hold, keep |-> n.keep, out |-> n.out, made |-> n.made]
  /\ n.made \in Nat
  /\ n.hold \in [Relays(n.made) -> SUBSET SlotSet]
  /\ n.keep \in [SlotSet -> Seq(Relays(n.made))]
  /\ n.out \in [SignalSet -> Seq(Relays(n.made))]
  /\ \A s \in SignalSet : Orderly(n.out[s], s)

Kept(n, here) ==
  \A r \in Relays(n.made) : \A k \in n.hold[r] :
    /\ k[1] \in here /\ Contains(n.keep[k], r)
    /\ ~IsVoid(k) => n.hold[r] = {k}
    /\ r \in Keys => r = Key(k)

Managed(n, j) ==
  /\ j = [signals |-> j.signals, slots |-> j.slots]
  /\ j.signals \subseteq SignalSet /\ j.slots \subseteq SlotSet
  /\ \A s \in SignalSet : \A r \in Keys : Contains(n.out[s], r) => r = Key(s) /\ s \in j.signals
  /\ \A s \in j.signals : IsVoid(s) => Contains(n.out[s], Key(s))
  /\ \A k \in SlotSet : IsVoid(k) => (k \in j.slots <=> k \in n.hold[Key(k)])

LinksKnown(n, u) ==
  /\ IsFiniteSet(u)
  /\ \A l \in u :
       /\ l \in OwnRelays(n.made) \X SignalSet \X SlotSet \X BOOLEAN
       /\ Contains(n.out[l[2]], l[1]) /\ n.hold[l[1]] = {l[3]} /\ l[2][3] = l[3][3]
       /\ \A m \in u : l[1] = m[1] => l = m
  /\ \A s \in SignalSet : \A r \in OwnRelays(n.made) : \A k \in n.hold[r] :
       Contains(n.out[s], r) => \E l \in u : l[1] = r /\ l[2] = s /\ l[3] = k

Wired(n, u, j, here) == Shaped(n) /\ Kept(n, here) /\ Managed(n, j) /\ LinksKnown(n, u)

LEMMA RelaysSplit ==
  ASSUME NEW m \in Nat
  PROVE  /\ Relays(m) = Keys \cup OwnRelays(m) /\ \A r \in OwnRelays(m) : r \notin Keys
         /\ OwnRelays(m + 1) = OwnRelays(m) \cup {OwnRelay(m + 1)}
         /\ OwnRelay(m + 1) \notin OwnRelays(m)
         /\ \A e \in SignalSet \cup SlotSet : Key(e) \in Keys
<1>1. 1..(m + 1) = 1..m \cup {m + 1} /\ m + 1 \notin 1..m
  OBVIOUS
<1>2. ASSUME NEW i \in 1..m PROVE OwnRelay(i) \notin Keys
  <2>1. i - 1 \in Nat /\ (i - 1) + 1 = i
    OBVIOUS
  <2> QED BY <2>1, RelaysAre
<1>3. OwnRelay(m + 1) \notin Relays(m)
  BY RelaysAre
<1> QED BY <1>1, <1>2, <1>3 DEF Relays, OwnRelays, Keys

LEMMA ContainedIs ==
  ASSUME NEW X, NEW q \in Seq(X), NEW x, Contains(q, x)
  PROVE  x \in X
BY LenProperties DEF Contains

(* A connection. *)
LEMMA LinkedIsWired ==
  ASSUME NEW n, NEW u, NEW j, NEW here, Wired(n, u, j, here),
         NEW s \in SignalSet, NEW k \in SlotSet, k[1] \in here, s[3] = k[3],
         NEW recorded \in BOOLEAN, NEW e, e = [net |-> n, up |-> u],
         NEW f, f = Linked(e, s, k, recorded)
  PROVE  /\ f = [net |-> f.net, up |-> f.up]
         /\ Wired(f.net, f.up, j, here)
         /\ f.net.made = n.made + 1
         /\ f.up = {l \in u : IsVoid(s) \/ l[2] # s} \cup {<<OwnRelay(n.made + 1), s, k, recorded>>}
<1>1. PICK r : r = OwnRelay(n.made + 1)
  OBVIOUS
<1>2. PICK m : m = Link(n, s, k)
  OBVIOUS
<1>3. PICK v : v = {l \in u : IsVoid(s) \/ l[2] # s} \cup {<<r, s, k, recorded>>}
  OBVIOUS
<1>4. f = [net |-> m, up |-> v]
  BY <1>1, <1>2, <1>3 DEF Linked
<1>5. /\ n.made \in Nat /\ n.hold \in [Relays(n.made) -> SUBSET SlotSet]
      /\ n.keep \in [SlotSet -> Seq(Relays(n.made))]
      /\ n.out \in [SignalSet -> Seq(Relays(n.made))]
      /\ \A q \in SignalSet : Orderly(n.out[q], q)
  BY DEF Wired, Shaped
<1>6. /\ Relays(n.made + 1) = Relays(n.made) \cup {r} /\ r \notin Relays(n.made) /\ r \notin Keys
      /\ Keys \subseteq Relays(n.made) /\ Relays(n.made) = Keys \cup OwnRelays(n.made)
      /\ OwnRelays(n.made + 1) = OwnRelays(n.made) \cup {r} /\ r \notin OwnRelays(n.made)
      /\ (\A x \in OwnRelays(n.made) : x \notin Keys)
      /\ (\A x \in SignalSet \cup SlotSet : Key(x) \in Keys)
  BY <1>1, <1>5, RelaysAre, RelaysSplit
<1>7. RelayConnect({}, k) = {k}
  BY DEF RelayConnect, AddSlot, SetSlot
<1>8. /\ m = [hold |-> m.hold, keep |-> m.keep, out |-> m.out, made |-> m.made]
      /\ m.made = n.made + 1
      /\ m.hold = [x \in Relays(n.made + 1) |-> IF x = r THEN {k} ELSE n.hold[x]]
      /\ m.keep = [n.keep EXCEPT ![k] = Append(@, r)]
      /\ m.out = [n.out EXCEPT ![s] = Attach(@, s, r)]
  BY <1>1, <1>2, <1>5, <1>6, <1>7 DEF Link, Join
<1>9. n.keep[k] \in Seq(Relays(n.made + 1)) /\ n.out[s] \in Seq(Relays(n.made + 1))
  BY <1>5, <1>6
<1>10. /\ Append(n.keep[k], r) \in Seq(Relays(n.made + 1))
       /\ \A x : Contains(Append(n.keep[k], r), x) <=> Contains(n.keep[k], x) \/ x = r
  BY <1>6, <1>9, AppendedHas
<1>11. /\ Attach(n.out[s], s, r) \in Seq(Relays(n.made + 1)) /\ Orderly(Attach(n.out[s], s, r), s)
       /\ \A x : Contains(Attach(n.out[s], s, r), x) <=> x = r \/ (IsVoid(s) /\ Contains(n.out[s], x))
  BY <1>5, <1>6, <1>9, AttachedHas
<1>12. /\ m.hold \in [Relays(m.made) -> SUBSET SlotSet] /\ m.hold[r] = {k}
       /\ \A x \in Relays(n.made) : m.hold[x] = n.hold[x]
  BY <1>5, <1>6, <1>8
<1>13. /\ m.keep \in [SlotSet -> Seq(Relays(m.made))]
       /\ \A q \in SlotSet : \A x : Contains(m.keep[q], x) <=> Contains(n.keep[q], x) \/ (q = k /\ x = r)
  BY <1>5, <1>6, <1>8, <1>10
<1>14. /\ m.out \in [SignalSet -> Seq(Relays(m.made))]
       /\ \A q \in SignalSet : Orderly(m.out[q], q)
       /\ \A q \in SignalSet : \A x : Contains(m.out[q], x)
            <=> (q = s /\ x = r) \/ ((q # s \/ IsVoid(s)) /\ Contains(n.out[q], x))
  BY <1>5, <1>6, <1>8, <1>11
<1>15. \A q \in SignalSet : ~Contains(n.out[q], r)
  BY <1>5, <1>6, ContainedIs
<1>16. Shaped(m)
  BY <1>5, <1>8, <1>12, <1>13, <1>14 DEF Shaped
<1>17. Kept(m, here)
  <2> SUFFICES ASSUME NEW x \in Relays(m.made), NEW q \in m.hold[x]
               PROVE  /\ q[1] \in here /\ Contains(m.keep[q], x)
                      /\ ~IsVoid(q) => m.hold[x] = {q}
                      /\ x \in Keys => x = Key(q)
    BY DEF Kept
  <2>1. CASE x = r
    BY <1>6, <1>12, <1>13, <2>1
  <2>2. CASE x # r
    <3>1. x \in Relays(n.made) /\ m.hold[x] = n.hold[x] /\ q \in SlotSet
      BY <1>5, <1>6, <1>8, <1>12, <2>2
    <3> QED BY <1>13, <3>1 DEF Wired, Kept
  <2> QED BY <2>1, <2>2
<1>18. Managed(m, j)
  <2>1. /\ j = [signals |-> j.signals, slots |-> j.slots]
        /\ j.signals \subseteq SignalSet /\ j.slots \subseteq SlotSet
        /\ \A q \in SignalSet : \A x \in Keys : Contains(n.out[q], x) => x = Key(q) /\ q \in j.signals
        /\ \A q \in j.signals : IsVoid(q) => Contains(n.out[q], Key(q))
        /\ \A q \in SlotSet : IsVoid(q) => (q \in j.slots <=> q \in n.hold[Key(q)])
    BY DEF Wired, Managed
  <2>2. ASSUME NEW q \in SignalSet, NEW x \in Keys, Contains(m.out[q], x)
        PROVE  x = Key(q) /\ q \in j.signals
    <3>1. Contains(n.out[q], x)
      BY <1>6, <1>14, <2>2
    <3> QED BY <2>1, <3>1
  <2>3. ASSUME NEW q \in j.signals, IsVoid(q) PROVE Contains(m.out[q], Key(q))
    BY <1>14, <2>1, <2>3
  <2>4. ASSUME NEW q \in SlotSet, IsVoid(q) PROVE q \in j.slots <=> q \in m.hold[Key(q)]
    <3>1. m.hold[Key(q)] = n.hold[Key(q)]
      BY <1>6, <1>12
    <3> QED BY <2>1, <2>4, <3>1
  <2> QED BY <2>1, <2>2, <2>3, <2>4 DEF Managed
<1>19. LinksKnown(m, v)
  <2>1. /\ IsFiniteSet(u)
        /\ \A l \in u :
             /\ l \in OwnRelays(n.made) \X SignalSet \X SlotSet \X BOOLEAN
             /\ Contains(n.out[l[2]], l[1]) /\ n.hold[l[1]] = {l[3]} /\ l[2][3] = l[3][3]
             /\ \A y \in u : l[1] = y[1] => l = y
        /\ \A q \in SignalSet : \A x \in OwnRelays(n.made) : \A p \in n.hold[x] :
             Contains(n.out[q], x) => \E l \in u : l[1] = x /\ l[2] = q /\ l[3] = p
    BY DEF Wired, LinksKnown
  <2>2. IsFiniteSet(v)
    BY <1>3, <2>1, FS_Subset, FS_AddElement
  <2>3. ASSUME NEW l \in v
        PROVE  l = <<r, s, k, recorded>> \/ (l \in u /\ (IsVoid(s) \/ l[2] # s) /\ l[1] # r)
    BY <1>3, <1>6, <2>1
  <2>4. ASSUME NEW l \in v
        PROVE  /\ l \in OwnRelays(m.made) \X SignalSet \X SlotSet \X BOOLEAN
               /\ Contains(m.out[l[2]], l[1]) /\ m.hold[l[1]] = {l[3]} /\ l[2][3] = l[3][3]
    <3>1. CASE l = <<r, s, k, recorded>>
      BY <1>6, <1>8, <1>12, <1>14, <3>1
    <3>2. CASE l \in u /\ (IsVoid(s) \/ l[2] # s)
      <4>1. /\ l \in OwnRelays(n.made) \X SignalSet \X SlotSet \X BOOLEAN
            /\ Contains(n.out[l[2]], l[1]) /\ n.hold[l[1]] = {l[3]} /\ l[2][3] = l[3][3]
        BY <2>1, <3>2
      <4>2. l[2] \in SignalSet /\ l[1] \in Relays(n.made)
        BY <1>6, <4>1
      <4>3. OwnRelays(n.made) \subseteq OwnRelays(m.made)
        BY <1>6, <1>8
      <4>4. Contains(m.out[l[2]], l[1])
        BY <1>14, <3>2, <4>1, <4>2
      <4>5. m.hold[l[1]] = {l[3]}
        BY <1>12, <4>1, <4>2
      <4>6. l \in OwnRelays(m.made) \X SignalSet \X SlotSet \X BOOLEAN
        BY <4>1, <4>3
      <4> QED BY <4>1, <4>4, <4>5, <4>6
    <3> QED BY <2>3, <3>1, <3>2
  <2>5. ASSUME NEW l \in v, NEW y \in v, l[1] = y[1] PROVE l = y
    BY <2>1, <2>3, <2>5
  <2>6. ASSUME NEW q \in SignalSet, NEW x \in OwnRelays(m.made), NEW p \in m.hold[x], Contains(m.out[q], x)
        PROVE  \E l \in v : l[1] = x /\ l[2] = q /\ l[3] = p
    <3>1. CASE x = r
      <4>1. q = s /\ p = k
        BY <1>12, <1>14, <1>15, <2>6, <3>1
      <4>2. PICK l : l = <<r, s, k, recorded>>
        OBVIOUS
      <4>3. l[1] = r /\ l[2] = s /\ l[3] = k /\ l \in v
        BY <1>3, <4>2
      <4> QED BY <3>1, <4>1, <4>3
    <3>2. CASE x # r
      <4>1. /\ x \in OwnRelays(n.made) /\ p \in n.hold[x] /\ Contains(n.out[q], x)
            /\ (q # s \/ IsVoid(s))
        <5>1. x \in OwnRelays(n.made) /\ x \in Relays(n.made)
          BY <1>6, <1>8, <3>2
        <5> QED BY <1>12, <1>14, <2>6, <3>2, <5>1
      <4>2. PICK l \in u : l[1] = x /\ l[2] = q /\ l[3] = p
        BY <2>1, <4>1
      <4> QED BY <1>3, <4>1, <4>2
    <3> QED BY <3>1, <3>2
  <2> QED BY <2>2, <2>4, <2>5, <2>6 DEF LinksKnown
<1>20. f.net = m /\ f.up = v
  BY <1>4
<1>21. Wired(m, v, j, here)
  BY <1>16, <1>17, <1>18, <1>19 DEF Wired
<1> QED BY <1>1, <1>3, <1>4, <1>8, <1>20, <1>21

(* The parts of Wired, for a step to use. *)
LEMMA WiredIs ==
  ASSUME NEW n, NEW u, NEW j, NEW here, Wired(n, u, j, here)
  PROVE  /\ n = [hold |-> n.hold, keep |-> n.keep, out |-> n.out, made |-> n.made]
         /\ n.made \in Nat /\ n.hold \in [Relays(n.made) -> SUBSET SlotSet]
         /\ n.keep \in [SlotSet -> Seq(Relays(n.made))]
         /\ n.out \in [SignalSet -> Seq(Relays(n.made))]
         /\ \A s \in SignalSet : Orderly(n.out[s], s)
         /\ Relays(n.made) = Keys \cup OwnRelays(n.made) /\ (\A r \in OwnRelays(n.made) : r \notin Keys)
         /\ \A e \in SignalSet \cup SlotSet : Key(e) \in Keys
<1>1. /\ n = [hold |-> n.hold, keep |-> n.keep, out |-> n.out, made |-> n.made]
      /\ n.made \in Nat /\ n.hold \in [Relays(n.made) -> SUBSET SlotSet]
      /\ n.keep \in [SlotSet -> Seq(Relays(n.made))]
      /\ n.out \in [SignalSet -> Seq(Relays(n.made))]
      /\ \A s \in SignalSet : Orderly(n.out[s], s)
  BY DEF Wired, Shaped
<1>2. /\ Relays(n.made) = Keys \cup OwnRelays(n.made) /\ \A r \in OwnRelays(n.made) : r \notin Keys
      /\ \A e \in SignalSet \cup SlotSet : Key(e) \in Keys
  BY <1>1, RelaysSplit
<1> QED BY <1>1, <1>2

LEMMA HoldsAre ==
  ASSUME NEW n, NEW u, NEW j, NEW here, Wired(n, u, j, here),
         NEW r \in Relays(n.made), NEW k \in n.hold[r]
  PROVE  /\ k \in SlotSet /\ k[1] \in here /\ Contains(n.keep[k], r)
         /\ ~IsVoid(k) => n.hold[r] = {k}
         /\ r \in Keys => r = Key(k)
<1>1. n.hold \in [Relays(n.made) -> SUBSET SlotSet]
  BY WiredIs
<1>2. k \in SlotSet
  BY <1>1
<1> QED BY <1>2 DEF Wired, Kept

LEMMA JoinsAre ==
  ASSUME NEW n, NEW u, NEW j, NEW here, Wired(n, u, j, here)
  PROVE  /\ j = [signals |-> j.signals, slots |-> j.slots]
         /\ j.signals \subseteq SignalSet /\ j.slots \subseteq SlotSet
         /\ \A q \in SignalSet : \A x \in Keys : Contains(n.out[q], x) => x = Key(q) /\ q \in j.signals
         /\ \A q \in j.signals : IsVoid(q) => Contains(n.out[q], Key(q))
         /\ \A q \in SlotSet : IsVoid(q) => (q \in j.slots <=> q \in n.hold[Key(q)])
BY DEF Wired, Managed

LEMMA LinksAre ==
  ASSUME NEW n, NEW u, NEW j, NEW here, Wired(n, u, j, here)
  PROVE  /\ IsFiniteSet(u)
         /\ \A l \in u :
              /\ l \in OwnRelays(n.made) \X SignalSet \X SlotSet \X BOOLEAN
              /\ l[1] \in OwnRelays(n.made) /\ l[2] \in SignalSet /\ l[3] \in SlotSet
              /\ Contains(n.out[l[2]], l[1]) /\ n.hold[l[1]] = {l[3]} /\ l[2][3] = l[3][3]
         /\ \A l, y \in u : l[1] = y[1] => l = y
         /\ \A q \in SignalSet : \A x \in OwnRelays(n.made) : \A p \in n.hold[x] :
              Contains(n.out[q], x) => \E l \in u : l[1] = x /\ l[2] = q /\ l[3] = p
<1>1. /\ IsFiniteSet(u)
      /\ \A l \in u :
           /\ l \in OwnRelays(n.made) \X SignalSet \X SlotSet \X BOOLEAN
           /\ Contains(n.out[l[2]], l[1]) /\ n.hold[l[1]] = {l[3]} /\ l[2][3] = l[3][3]
           /\ \A y \in u : l[1] = y[1] => l = y
      /\ \A q \in SignalSet : \A x \in OwnRelays(n.made) : \A p \in n.hold[x] :
           Contains(n.out[q], x) => \E l \in u : l[1] = x /\ l[2] = q /\ l[3] = p
  BY DEF Wired, LinksKnown
<1>2. \A l \in u : l[1] \in OwnRelays(n.made) /\ l[2] \in SignalSet /\ l[3] \in SlotSet
  BY <1>1
<1> QED BY <1>1, <1>2

(* A new state of the relays that differs from n in what they have: only the *)
(* parts that changed are left to show.                                     *)
LEMMA IsWired ==
  ASSUME NEW n, NEW u, NEW j, NEW here,
         n = [hold |-> n.hold, keep |-> n.keep, out |-> n.out, made |-> n.made],
         n.made \in Nat, n.hold \in [Relays(n.made) -> SUBSET SlotSet],
         n.keep \in [SlotSet -> Seq(Relays(n.made))],
         n.out \in [SignalSet -> Seq(Relays(n.made))],
         \A s \in SignalSet : Orderly(n.out[s], s),
         Kept(n, here), Managed(n, j), LinksKnown(n, u)
  PROVE  Wired(n, u, j, here)
BY DEF Wired, Shaped

(* Slots and signals that join the manager's relays. *)
LEMMA JoinedIsWired ==
  ASSUME NEW n, NEW u, NEW j, NEW here, Wired(n, u, j, here),
         NEW slots, slots \subseteq SlotSet, NEW signals, signals \subseteq SignalSet,
         \A k \in slots : k[1] \in here,
         \A k, q \in slots : Key(k) = Key(q) => k = q,
         NEW m, m = ManagerJoined(n, slots, signals),
         NEW i, i = [signals |-> j.signals \cup signals, slots |-> j.slots \cup slots],
         NEW v, v = {l \in u : IsVoid(l[2]) \/ l[2] \notin signals}
  PROVE  Wired(m, v, i, here)
<1>1. /\ n = [hold |-> n.hold, keep |-> n.keep, out |-> n.out, made |-> n.made]
      /\ n.made \in Nat /\ n.hold \in [Relays(n.made) -> SUBSET SlotSet]
      /\ n.keep \in [SlotSet -> Seq(Relays(n.made))]
      /\ n.out \in [SignalSet -> Seq(Relays(n.made))]
      /\ \A s \in SignalSet : Orderly(n.out[s], s)
      /\ Relays(n.made) = Keys \cup OwnRelays(n.made) /\ (\A r \in OwnRelays(n.made) : r \notin Keys)
      /\ \A e \in SignalSet \cup SlotSet : Key(e) \in Keys
  BY WiredIs
<1>2. /\ m = [hold |-> m.hold, keep |-> m.keep, out |-> m.out, made |-> m.made]
      /\ m.made = n.made
      /\ m.hold = [r \in Relays(n.made) |-> IF \E k \in slots : Key(k) = r
                                           THEN RelayConnect(n.hold[r], CHOOSE k \in slots : Key(k) = r)
                                           ELSE n.hold[r]]
      /\ m.keep = [k \in SlotSet |-> IF k \in slots THEN Append(n.keep[k], Key(k)) ELSE n.keep[k]]
      /\ m.out = [s \in SignalSet |-> IF s \in signals THEN Attach(n.out[s], s, Key(s)) ELSE n.out[s]]
  BY <1>1 DEF ManagerJoined, JoinSlot, JoinSignal, Join, ManagerRelay
<1>3. ASSUME NEW k \in slots
      PROVE  m.hold[Key(k)] = IF IsVoid(k) THEN n.hold[Key(k)] \cup {k} ELSE {k}
  <2>1. (CHOOSE q \in slots : Key(q) = Key(k)) = k
    <3>1. \E q \in slots : Key(q) = Key(k)
      OBVIOUS
    <3>2. PICK x : x = CHOOSE q \in slots : Key(q) = Key(k)
      OBVIOUS
    <3>3. x \in slots /\ Key(x) = Key(k)
      BY <3>1, <3>2
    <3> QED BY <3>2, <3>3
  <2>2. Key(k) \in Relays(n.made)
    BY <1>1
  <2>3. m.hold[Key(k)] = RelayConnect(n.hold[Key(k)], CHOOSE q \in slots : Key(q) = Key(k))
    BY <1>2, <2>2
  <2> QED BY <2>1, <2>3 DEF RelayConnect, AddSlot, SetSlot
<1>4. ASSUME NEW r \in Relays(n.made), \A k \in slots : Key(k) # r PROVE m.hold[r] = n.hold[r]
  <2>1. ~\E k \in slots : Key(k) = r
    BY <1>4
  <2> QED BY <1>2, <2>1
<1>5. m.hold \in [Relays(m.made) -> SUBSET SlotSet]
  <2>1. ASSUME NEW r \in Relays(n.made) PROVE m.hold[r] \in SUBSET SlotSet
    <3>1. n.hold[r] \in SUBSET SlotSet
      BY <1>1
    <3>2. CASE \E k \in slots : Key(k) = r
      <4>1. PICK k \in slots : Key(k) = r
        BY <3>2
      <4>2. m.hold[r] = n.hold[r] \cup {k} \/ m.hold[r] = {k}
        BY <1>3, <4>1
      <4> QED BY <3>1, <4>1, <4>2
    <3>3. CASE \A k \in slots : Key(k) # r
      BY <1>4, <3>1, <3>3
    <3> QED BY <3>2, <3>3
  <2> QED BY <1>2, <2>1
<1>6. ASSUME NEW k \in SlotSet
      PROVE  /\ m.keep[k] \in Seq(Relays(n.made))
             /\ \A x : Contains(m.keep[k], x) <=> Contains(n.keep[k], x) \/ (k \in slots /\ x = Key(k))
  <2>1. n.keep[k] \in Seq(Relays(n.made)) /\ Key(k) \in Relays(n.made)
    BY <1>1
  <2>2. /\ Append(n.keep[k], Key(k)) \in Seq(Relays(n.made))
        /\ \A x : Contains(Append(n.keep[k], Key(k)), x) <=> Contains(n.keep[k], x) \/ x = Key(k)
    BY <2>1, AppendedHas
  <2>3. m.keep[k] = IF k \in slots THEN Append(n.keep[k], Key(k)) ELSE n.keep[k]
    BY <1>2
  <2>4. CASE k \in slots
    BY <2>2, <2>3, <2>4
  <2>5. CASE k \notin slots
    BY <2>1, <2>3, <2>5
  <2> QED BY <2>4, <2>5
<1>7. ASSUME NEW s \in SignalSet
      PROVE  /\ m.out[s] \in Seq(Relays(n.made)) /\ Orderly(m.out[s], s)
             /\ \A x : Contains(m.out[s], x)
                  <=> (s \in signals /\ x = Key(s)) \/ ((s \notin signals \/ IsVoid(s)) /\ Contains(n.out[s], x))
  <2>1. n.out[s] \in Seq(Relays(n.made)) /\ Key(s) \in Relays(n.made) /\ Orderly(n.out[s], s)
    BY <1>1
  <2>2. /\ Attach(n.out[s], s, Key(s)) \in Seq(Relays(n.made)) /\ Orderly(Attach(n.out[s], s, Key(s)), s)
        /\ \A x : Contains(Attach(n.out[s], s, Key(s)), x) <=> x = Key(s) \/ (IsVoid(s) /\ Contains(n.out[s], x))
    BY <2>1, AttachedHas
  <2>3. m.out[s] = IF s \in signals THEN Attach(n.out[s], s, Key(s)) ELSE n.out[s]
    BY <1>2
  <2>4. CASE s \in signals
    BY <2>2, <2>3, <2>4
  <2>5. CASE s \notin signals
    BY <2>1, <2>3, <2>5
  <2> QED BY <2>4, <2>5
<1>8. Kept(m, here)
  <2> SUFFICES ASSUME NEW x \in Relays(n.made), NEW q \in m.hold[x]
               PROVE  /\ q[1] \in here /\ Contains(m.keep[q], x)
                      /\ ~IsVoid(q) => m.hold[x] = {q}
                      /\ x \in Keys => x = Key(q)
    BY <1>2 DEF Kept
  <2>1. \A k \in n.hold[x] :
          /\ k \in SlotSet /\ k[1] \in here /\ Contains(n.keep[k], x)
          /\ ~IsVoid(k) => n.hold[x] = {k}
          /\ x \in Keys => x = Key(k)
    BY HoldsAre
  <2>2. CASE \A k \in slots : Key(k) # x
    BY <1>4, <1>6, <2>1, <2>2
  <2>3. CASE \E k \in slots : Key(k) = x
    <3>1. PICK k \in slots : Key(k) = x
      BY <2>3
    <3>2. k \in SlotSet /\ k[1] \in here /\ x \in Keys /\ Contains(m.keep[k], x)
      BY <1>1, <1>6, <3>1
    <3>3. m.hold[x] = IF IsVoid(k) THEN n.hold[x] \cup {k} ELSE {k}
      BY <1>3, <3>1
    <3>4. CASE q = k
      <4>1. ~IsVoid(q) => m.hold[x] = {q}
        BY <3>3, <3>4
      <4> QED BY <3>1, <3>2, <3>4, <4>1
    <3>5. CASE q # k
      <4>1. IsVoid(k) /\ q \in n.hold[x]
        BY <3>3, <3>5
      <4>2. q \in SlotSet /\ q[1] \in here /\ Contains(n.keep[q], x) /\ x = Key(q)
        BY <2>1, <3>2, <4>1
      <4>3. IsVoid(q)
        <5>1. Key(q) = Key(k)
          BY <3>1, <4>2
        <5>2. q[3] = k[3]
          BY <5>1 DEF Key
        <5> QED BY <4>1, <5>2 DEF IsVoid
      <4>4. Contains(m.keep[q], x)
        <5>1. q \in SlotSet /\ Contains(n.keep[q], x)
          BY <4>2
        <5>2. \A y : Contains(n.keep[q], y) => Contains(m.keep[q], y)
          BY <1>6, <5>1
        <5> QED BY <5>1, <5>2
      <4> QED BY <4>2, <4>3, <4>4
    <3> QED BY <3>4, <3>5
  <2> QED BY <2>2, <2>3
<1>9. Managed(m, i)
  <2>1. /\ j.signals \subseteq SignalSet /\ j.slots \subseteq SlotSet
        /\ \A q \in SignalSet : \A x \in Keys : Contains(n.out[q], x) => x = Key(q) /\ q \in j.signals
        /\ \A q \in j.signals : IsVoid(q) => Contains(n.out[q], Key(q))
        /\ \A q \in SlotSet : IsVoid(q) => (q \in j.slots <=> q \in n.hold[Key(q)])
    BY JoinsAre
  <2>2. i.signals = j.signals \cup signals /\ i.slots = j.slots \cup slots
    OBVIOUS
  <2>3. ASSUME NEW q \in SignalSet, NEW x \in Keys, Contains(m.out[q], x)
        PROVE  x = Key(q) /\ q \in i.signals
    BY <1>7, <2>1, <2>2, <2>3
  <2>4. ASSUME NEW q \in i.signals, IsVoid(q) PROVE Contains(m.out[q], Key(q))
    BY <1>7, <2>1, <2>2, <2>4
  <2>5. ASSUME NEW q \in SlotSet, IsVoid(q) PROVE q \in i.slots <=> q \in m.hold[Key(q)]
    <3>1. Key(q) \in Relays(n.made)
      BY <1>1
    <3>2. CASE \A k \in slots : Key(k) # Key(q)
      BY <1>4, <2>1, <2>2, <2>5, <3>1, <3>2
    <3>3. CASE \E k \in slots : Key(k) = Key(q)
      <4>1. PICK k \in slots : Key(k) = Key(q)
        BY <3>3
      <4>2. k[3] = q[3]
        BY <4>1 DEF Key
      <4>3. m.hold[Key(q)] = n.hold[Key(q)] \cup {k}
        BY <1>3, <2>5, <4>1, <4>2 DEF IsVoid
      <4>4. q \in slots <=> q = k
        BY <4>1
      <4> QED BY <2>1, <2>2, <2>5, <4>3, <4>4
    <3> QED BY <3>2, <3>3
  <2> QED BY <2>1, <2>2, <2>3, <2>4, <2>5 DEF Managed
<1>10. LinksKnown(m, v)
  <2>1. /\ IsFiniteSet(u)
        /\ \A l \in u :
             /\ l \in OwnRelays(n.made) \X SignalSet \X SlotSet \X BOOLEAN
             /\ l[1] \in OwnRelays(n.made) /\ l[2] \in SignalSet /\ l[3] \in SlotSet
             /\ Contains(n.out[l[2]], l[1]) /\ n.hold[l[1]] = {l[3]} /\ l[2][3] = l[3][3]
        /\ \A l, y \in u : l[1] = y[1] => l = y
        /\ \A q \in SignalSet : \A x \in OwnRelays(n.made) : \A p \in n.hold[x] :
             Contains(n.out[q], x) => \E l \in u : l[1] = x /\ l[2] = q /\ l[3] = p
    BY LinksAre
  <2>2. IsFiniteSet(v) /\ v \subseteq u
    <3>1. v \subseteq u
      OBVIOUS
    <3> QED BY <2>1, <3>1, FS_Subset
  <2>3. \A x \in OwnRelays(n.made) : m.hold[x] = n.hold[x] /\ \A s \in SignalSet : Key(s) # x
    <3> SUFFICES ASSUME NEW x \in OwnRelays(n.made)
                 PROVE  m.hold[x] = n.hold[x] /\ \A s \in SignalSet : Key(s) # x
      OBVIOUS
    <3>1. x \notin Keys /\ x \in Relays(n.made)
      BY <1>1
    <3>2. (\A k \in slots : Key(k) # x) /\ \A s \in SignalSet : Key(s) # x
      BY <1>1, <3>1
    <3> QED BY <1>4, <3>1, <3>2
  <2>4. ASSUME NEW l \in v
        PROVE  Contains(m.out[l[2]], l[1]) /\ m.hold[l[1]] = {l[3]}
    BY <1>7, <2>1, <2>3
  <2>5. ASSUME NEW q \in SignalSet, NEW x \in OwnRelays(n.made), NEW p \in m.hold[x], Contains(m.out[q], x)
        PROVE  \E l \in v : l[1] = x /\ l[2] = q /\ l[3] = p
    <3>1. p \in n.hold[x] /\ Contains(n.out[q], x) /\ (q \notin signals \/ IsVoid(q))
      BY <1>7, <2>3, <2>5
    <3>2. PICK l \in u : l[1] = x /\ l[2] = q /\ l[3] = p
      BY <2>1, <3>1
    <3> QED BY <3>1, <3>2
  <2>6. \A l \in v : l \in OwnRelays(m.made) \X SignalSet \X SlotSet \X BOOLEAN /\ l[2][3] = l[3][3]
    BY <1>2, <2>1, <2>2
  <2>7. \A l, y \in v : l[1] = y[1] => l = y
    BY <2>1, <2>2
  <2>8. \A q \in SignalSet : \A x \in OwnRelays(m.made) : \A p \in m.hold[x] :
          Contains(m.out[q], x) => \E l \in v : l[1] = x /\ l[2] = q /\ l[3] = p
    <3>1. m.made = n.made
      BY <1>2
    <3> QED BY <2>5, <3>1
  <2> QED BY <2>2, <2>4, <2>6, <2>7, <2>8 DEF LinksKnown
<1>11. m.keep \in [SlotSet -> Seq(Relays(m.made))]
  <2>1. \A k \in SlotSet : m.keep[k] \in Seq(Relays(n.made))
    BY <1>6
  <2> QED BY <1>2, <2>1
<1>12. m.out \in [SignalSet -> Seq(Relays(m.made))] /\ \A s \in SignalSet : Orderly(m.out[s], s)
  <2>1. \A s \in SignalSet : m.out[s] \in Seq(Relays(n.made)) /\ Orderly(m.out[s], s)
    BY <1>7
  <2>2. DOMAIN m.out = SignalSet /\ m.out = [s \in SignalSet |-> m.out[s]]
    BY <1>2
  <2> QED BY <1>2, <2>1, <2>2
<1> QED BY <1>1, <1>2, <1>5, <1>8, <1>9, <1>10, <1>11, <1>12, IsWired

(* A slot disconnects from a relay. *)
PartSlot(j, k, r) == [j EXCEPT !.slots = IF r = ManagerRelay(k) THEN @ \ {k} ELSE @]

LEMMA LeftIsWired ==
  ASSUME NEW n, NEW u, NEW j, NEW here, Wired(n, u, j, here),
         NEW k \in SlotSet, NEW r \in Relays(n.made),
         NEW m, m = Leave(n, k, r),
         NEW i, i = PartSlot(j, k, r),
         NEW v, v = {l \in u : l[1] # r \/ l[3] # k}
  PROVE  Wired(m, v, i, here)
<1>1. /\ n = [hold |-> n.hold, keep |-> n.keep, out |-> n.out, made |-> n.made]
      /\ n.made \in Nat /\ n.hold \in [Relays(n.made) -> SUBSET SlotSet]
      /\ n.keep \in [SlotSet -> Seq(Relays(n.made))]
      /\ n.out \in [SignalSet -> Seq(Relays(n.made))]
      /\ \A s \in SignalSet : Orderly(n.out[s], s)
      /\ Relays(n.made) = Keys \cup OwnRelays(n.made) /\ (\A x \in OwnRelays(n.made) : x \notin Keys)
      /\ \A e \in SignalSet \cup SlotSet : Key(e) \in Keys
  BY WiredIs
<1>2. \A x \in Relays(n.made) : \A q \in n.hold[x] :
        /\ q \in SlotSet /\ q[1] \in here /\ Contains(n.keep[q], x)
        /\ ~IsVoid(q) => n.hold[x] = {q}
        /\ x \in Keys => x = Key(q)
  BY HoldsAre
<1>3. /\ m = [hold |-> m.hold, keep |-> m.keep, out |-> m.out, made |-> m.made]
      /\ m.made = n.made /\ m.out = n.out
      /\ m.hold = [n.hold EXCEPT ![r] = RelayDisconnect(@, k)]
      /\ m.keep = [n.keep EXCEPT ![k] = RemoveFirst(@, r)]
  BY <1>1 DEF Leave
<1>4. RelayDisconnect(n.hold[r], k) = n.hold[r] \ {k}
  <2>1. CASE IsVoid(k)
    BY <2>1 DEF RelayDisconnect, EraseSlot
  <2>2. CASE ~IsVoid(k)
    <3>1. k \in n.hold[r] => n.hold[r] = {k}
      BY <1>2, <2>2
    <3> QED BY <2>2, <3>1 DEF RelayDisconnect, UnsetSlot
  <2> QED BY <2>1, <2>2
<1>5. /\ m.hold \in [Relays(n.made) -> SUBSET SlotSet] /\ m.hold[r] = n.hold[r] \ {k}
      /\ \A x \in Relays(n.made) : x # r => m.hold[x] = n.hold[x]
  BY <1>1, <1>3, <1>4
<1>6. /\ m.keep \in [SlotSet -> Seq(Relays(n.made))]
      /\ \A q \in SlotSet : \A x : (q # k \/ x # r) /\ Contains(n.keep[q], x) => Contains(m.keep[q], x)
  <2>1. n.keep[k] \in Seq(Relays(n.made))
    BY <1>1
  <2>2. /\ RemoveFirst(n.keep[k], r) \in Seq(Relays(n.made))
        /\ \A x : x # r => (Contains(RemoveFirst(n.keep[k], r), x) <=> Contains(n.keep[k], x))
    BY <2>1, RemovedHas
  <2>3. /\ m.keep[k] = RemoveFirst(n.keep[k], r)
        /\ \A q \in SlotSet : q # k => m.keep[q] = n.keep[q]
    BY <1>1, <1>3
  <2>4. m.keep \in [SlotSet -> Seq(Relays(n.made))]
    BY <1>1, <1>3, <2>2
  <2> QED BY <2>2, <2>3, <2>4
<1>7. Kept(m, here)
  <2> SUFFICES ASSUME NEW x \in Relays(n.made), NEW q \in m.hold[x]
               PROVE  /\ q[1] \in here /\ Contains(m.keep[q], x)
                      /\ ~IsVoid(q) => m.hold[x] = {q}
                      /\ x \in Keys => x = Key(q)
    BY <1>3 DEF Kept
  <2>1. q \in n.hold[x] /\ (q # k \/ x # r)
    BY <1>5
  <2>2. /\ q \in SlotSet /\ q[1] \in here /\ Contains(n.keep[q], x)
        /\ ~IsVoid(q) => n.hold[x] = {q}
        /\ x \in Keys => x = Key(q)
    BY <1>2, <2>1
  <2>3. Contains(m.keep[q], x)
    BY <1>6, <2>1, <2>2
  <2>4. m.hold[x] = {q} \/ m.hold[x] # n.hold[x] \/ IsVoid(q)
    BY <2>2
  <2>5. ~IsVoid(q) => m.hold[x] = {q}
    BY <1>5, <2>1, <2>2
  <2> QED BY <2>2, <2>3, <2>5
<1>8. Managed(m, i)
  <2>1. /\ j = [signals |-> j.signals, slots |-> j.slots]
        /\ j.signals \subseteq SignalSet /\ j.slots \subseteq SlotSet
        /\ \A q \in SignalSet : \A x \in Keys : Contains(n.out[q], x) => x = Key(q) /\ q \in j.signals
        /\ \A q \in j.signals : IsVoid(q) => Contains(n.out[q], Key(q))
        /\ \A q \in SlotSet : IsVoid(q) => (q \in j.slots <=> q \in n.hold[Key(q)])
    BY JoinsAre
  <2>2. /\ i = [signals |-> i.signals, slots |-> i.slots] /\ i.signals = j.signals
        /\ i.slots = IF r = Key(k) THEN j.slots \ {k} ELSE j.slots
    BY <2>1 DEF PartSlot, ManagerRelay
  <2>3. ASSUME NEW q \in SlotSet, IsVoid(q) PROVE q \in i.slots <=> q \in m.hold[Key(q)]
    <3>1. Key(q) \in Relays(n.made) /\ (q \in j.slots <=> q \in n.hold[Key(q)])
      BY <1>1, <2>1, <2>3
    <3>2. CASE q = k
      BY <1>5, <2>2, <3>1, <3>2
    <3>3. CASE q # k
      BY <1>5, <2>2, <3>1, <3>3
    <3> QED BY <3>2, <3>3
  <2> QED BY <1>3, <2>1, <2>2, <2>3 DEF Managed
<1>9. LinksKnown(m, v)
  <2>1. /\ IsFiniteSet(u)
        /\ \A l \in u :
             /\ l \in OwnRelays(n.made) \X SignalSet \X SlotSet \X BOOLEAN
             /\ l[1] \in OwnRelays(n.made) /\ l[2] \in SignalSet /\ l[3] \in SlotSet
             /\ Contains(n.out[l[2]], l[1]) /\ n.hold[l[1]] = {l[3]} /\ l[2][3] = l[3][3]
        /\ \A l, y \in u : l[1] = y[1] => l = y
        /\ \A q \in SignalSet : \A x \in OwnRelays(n.made) : \A p \in n.hold[x] :
             Contains(n.out[q], x) => \E l \in u : l[1] = x /\ l[2] = q /\ l[3] = p
    BY LinksAre
  <2>2. IsFiniteSet(v) /\ v \subseteq u
    <3>1. v \subseteq u
      OBVIOUS
    <3> QED BY <2>1, <3>1, FS_Subset
  <2>3. ASSUME NEW l \in v PROVE m.hold[l[1]] = {l[3]}
    <3>1. l \in u /\ l[1] \in Relays(n.made) /\ n.hold[l[1]] = {l[3]} /\ (l[1] # r \/ l[3] # k)
      BY <1>1, <2>1
    <3> QED BY <1>5, <3>1
  <2>4. ASSUME NEW q \in SignalSet, NEW x \in OwnRelays(n.made), NEW p \in m.hold[x], Contains(n.out[q], x)
        PROVE  \E l \in v : l[1] = x /\ l[2] = q /\ l[3] = p
    <3>1. p \in n.hold[x] /\ (x # r \/ p # k)
      BY <1>1, <1>5
    <3>2. PICK l \in u : l[1] = x /\ l[2] = q /\ l[3] = p
      BY <2>1, <2>4, <3>1
    <3> QED BY <3>1, <3>2
  <2>5. \A l \in v : /\ l \in OwnRelays(m.made) \X SignalSet \X SlotSet \X BOOLEAN
                     /\ Contains(m.out[l[2]], l[1]) /\ l[2][3] = l[3][3]
                     /\ \A y \in v : l[1] = y[1] => l = y
    <3>1. m.made = n.made /\ m.out = n.out
      BY <1>3
    <3> QED BY <2>1, <2>2, <3>1
  <2>6. m.made = n.made /\ m.out = n.out
    BY <1>3
  <2>7. \A q \in SignalSet : \A x \in OwnRelays(m.made) : \A p \in m.hold[x] :
          Contains(m.out[q], x) => \E l \in v : l[1] = x /\ l[2] = q /\ l[3] = p
    BY <2>4, <2>6
  <2> QED BY <2>2, <2>3, <2>5, <2>7 DEF LinksKnown
<1> QED BY <1>1, <1>3, <1>5, <1>6, <1>7, <1>8, <1>9, IsWired

(* A signal lets go of a relay. *)
LetsGo(n, s, r) == [n EXCEPT !.out[s] = Detach(@, s, r)]
PartSignal(j, s, r) == [j EXCEPT !.signals = IF r = ManagerRelay(s) THEN @ \ {s} ELSE @]

LEMMA DetachedIsWired ==
  ASSUME NEW n, NEW u, NEW j, NEW here, Wired(n, u, j, here),
         NEW s \in SignalSet, NEW r \in Relays(n.made), Contains(n.out[s], r),
         NEW m, m = LetsGo(n, s, r),
         NEW i, i = PartSignal(j, s, r),
         NEW v, v = {l \in u : l[1] # r}
  PROVE  Wired(m, v, i, here)
<1>1. /\ n = [hold |-> n.hold, keep |-> n.keep, out |-> n.out, made |-> n.made]
      /\ n.made \in Nat /\ n.hold \in [Relays(n.made) -> SUBSET SlotSet]
      /\ n.keep \in [SlotSet -> Seq(Relays(n.made))]
      /\ n.out \in [SignalSet -> Seq(Relays(n.made))]
      /\ \A q \in SignalSet : Orderly(n.out[q], q)
      /\ Relays(n.made) = Keys \cup OwnRelays(n.made) /\ (\A x \in OwnRelays(n.made) : x \notin Keys)
      /\ \A e \in SignalSet \cup SlotSet : Key(e) \in Keys
  BY WiredIs
<1>2. /\ m = [hold |-> m.hold, keep |-> m.keep, out |-> m.out, made |-> m.made]
      /\ m.made = n.made /\ m.hold = n.hold /\ m.keep = n.keep
      /\ m.out = [n.out EXCEPT ![s] = Detach(@, s, r)]
  BY <1>1 DEF LetsGo
<1>3. n.out[s] \in Seq(Relays(n.made)) /\ Orderly(n.out[s], s)
  BY <1>1
<1>4. /\ Detach(n.out[s], s, r) \in Seq(Relays(n.made)) /\ Orderly(Detach(n.out[s], s, r), s)
      /\ \A x : Contains(Detach(n.out[s], s, r), x) <=> x # r /\ Contains(n.out[s], x)
  BY <1>3, DetachedHas
<1>5. /\ m.out[s] = Detach(n.out[s], s, r) /\ \A q \in SignalSet : q # s => m.out[q] = n.out[q]
      /\ m.out \in [SignalSet -> Seq(Relays(m.made))]
  BY <1>1, <1>2, <1>4
<1>6. \A q \in SignalSet : Orderly(m.out[q], q)
  BY <1>1, <1>4, <1>5
<1>7. \A q \in SignalSet : \A x : Contains(m.out[q], x) <=> (q # s \/ x # r) /\ Contains(n.out[q], x)
  BY <1>4, <1>5
<1>8. Kept(m, here)
  BY <1>2 DEF Wired, Kept
<1>9. Managed(m, i)
  <2>1. /\ j = [signals |-> j.signals, slots |-> j.slots]
        /\ j.signals \subseteq SignalSet /\ j.slots \subseteq SlotSet
        /\ \A q \in SignalSet : \A x \in Keys : Contains(n.out[q], x) => x = Key(q) /\ q \in j.signals
        /\ \A q \in j.signals : IsVoid(q) => Contains(n.out[q], Key(q))
        /\ \A q \in SlotSet : IsVoid(q) => (q \in j.slots <=> q \in n.hold[Key(q)])
    BY JoinsAre
  <2>2. /\ i = [signals |-> i.signals, slots |-> i.slots] /\ i.slots = j.slots
        /\ i.signals = IF r = Key(s) THEN j.signals \ {s} ELSE j.signals
    BY <2>1 DEF PartSignal, ManagerRelay
  <2>3. ASSUME NEW q \in SignalSet, NEW x \in Keys, Contains(m.out[q], x)
        PROVE  x = Key(q) /\ q \in i.signals
    <3>1. Contains(n.out[q], x) /\ (q # s \/ x # r)
      BY <1>7, <2>3
    <3>2. x = Key(q) /\ q \in j.signals
      BY <2>1, <3>1
    <3> QED BY <2>2, <3>1, <3>2
  <2>4. ASSUME NEW q \in i.signals, IsVoid(q) PROVE Contains(m.out[q], Key(q))
    <3>1. q \in j.signals /\ q \in SignalSet /\ (q # s \/ r # Key(q))
      BY <2>1, <2>2
    <3>2. Contains(n.out[q], Key(q))
      BY <2>1, <2>4, <3>1
    <3> QED BY <1>7, <3>1, <3>2
  <2>5. m.hold = n.hold /\ i.signals \subseteq SignalSet
    BY <1>2, <2>1, <2>2
  <2> QED BY <2>1, <2>2, <2>3, <2>4, <2>5 DEF Managed
<1>10. LinksKnown(m, v)
  <2>1. /\ IsFiniteSet(u)
        /\ \A l \in u :
             /\ l \in OwnRelays(n.made) \X SignalSet \X SlotSet \X BOOLEAN
             /\ l[1] \in OwnRelays(n.made) /\ l[2] \in SignalSet /\ l[3] \in SlotSet
             /\ Contains(n.out[l[2]], l[1]) /\ n.hold[l[1]] = {l[3]} /\ l[2][3] = l[3][3]
        /\ \A l, y \in u : l[1] = y[1] => l = y
        /\ \A q \in SignalSet : \A x \in OwnRelays(n.made) : \A p \in n.hold[x] :
             Contains(n.out[q], x) => \E l \in u : l[1] = x /\ l[2] = q /\ l[3] = p
    BY LinksAre
  <2>2. IsFiniteSet(v) /\ v \subseteq u
    <3>1. v \subseteq u
      OBVIOUS
    <3> QED BY <2>1, <3>1, FS_Subset
  <2>3. ASSUME NEW l \in v PROVE Contains(m.out[l[2]], l[1])
    BY <1>7, <2>1, <2>2
  <2>4. ASSUME NEW q \in SignalSet, NEW x \in OwnRelays(n.made), NEW p \in n.hold[x], Contains(m.out[q], x)
        PROVE  \E l \in v : l[1] = x /\ l[2] = q /\ l[3] = p
    <3>1. Contains(n.out[q], x) /\ (q # s \/ x # r)
      BY <1>7, <2>4
    <3>2. PICK l \in u : l[1] = x /\ l[2] = q /\ l[3] = p
      BY <2>1, <3>1
    <3>3. CASE x # r
      BY <3>2, <3>3
    <3>4. CASE x = r
      <4>1. PICK y \in u : y[1] = r /\ y[2] = s /\ y[3] = p
        BY <2>1, <3>4
      <4>2. y = l
        BY <2>1, <3>2, <3>4, <4>1
      <4> QED BY <3>1, <3>2, <3>4, <4>1, <4>2
    <3> QED BY <3>3, <3>4
  <2>5. m.made = n.made /\ m.hold = n.hold
    BY <1>2
  <2>6. \A l \in v : /\ l \in OwnRelays(m.made) \X SignalSet \X SlotSet \X BOOLEAN
                     /\ m.hold[l[1]] = {l[3]} /\ l[2][3] = l[3][3]
                     /\ \A y \in v : l[1] = y[1] => l = y
    BY <2>1, <2>2, <2>5
  <2>7. \A q \in SignalSet : \A x \in OwnRelays(m.made) : \A p \in m.hold[x] :
          Contains(m.out[q], x) => \E l \in v : l[1] = x /\ l[2] = q /\ l[3] = p
    BY <2>4, <2>5
  <2> QED BY <2>2, <2>3, <2>6, <2>7 DEF LinksKnown
<1> QED BY <1>1, <1>2, <1>5, <1>6, <1>8, <1>9, <1>10, IsWired

(* Signals let go of all their relays. *)
PartSignals(j, signals) == [j EXCEPT !.signals = @ \ signals]

LEMMA LetGoIsWired ==
  ASSUME NEW n, NEW u, NEW j, NEW here, Wired(n, u, j, here),
         NEW signals, signals \subseteq SignalSet,
         NEW m, m = LetGo(n, signals),
         NEW i, i = PartSignals(j, signals),
         NEW v, v = {l \in u : l[2] \notin signals}
  PROVE  Wired(m, v, i, here)
<1>1. /\ n = [hold |-> n.hold, keep |-> n.keep, out |-> n.out, made |-> n.made]
      /\ n.made \in Nat /\ n.hold \in [Relays(n.made) -> SUBSET SlotSet]
      /\ n.keep \in [SlotSet -> Seq(Relays(n.made))]
      /\ n.out \in [SignalSet -> Seq(Relays(n.made))]
      /\ \A q \in SignalSet : Orderly(n.out[q], q)
  BY WiredIs
<1>2. /\ m = [hold |-> m.hold, keep |-> m.keep, out |-> m.out, made |-> m.made]
      /\ m.made = n.made /\ m.hold = n.hold /\ m.keep = n.keep
      /\ m.out = [q \in SignalSet |-> IF q \in signals THEN <<>> ELSE n.out[q]]
  BY <1>1 DEF LetGo
<1>3. \A q \in SignalSet : /\ q \in signals => m.out[q] = <<>>
                           /\ q \notin signals => m.out[q] = n.out[q]
  BY <1>2
<1>4. m.out \in [SignalSet -> Seq(Relays(m.made))]
  <2>1. <<>> \in Seq(Relays(n.made))
    BY EmptyHas
  <2> QED BY <1>1, <1>2, <2>1
<1>5. \A q \in SignalSet : Orderly(m.out[q], q)
  BY <1>1, <1>3, EmptyHas
<1>6. \A q \in SignalSet : \A x : Contains(m.out[q], x) <=> q \notin signals /\ Contains(n.out[q], x)
  BY <1>3, EmptyHas
<1>7. Kept(m, here)
  BY <1>2 DEF Wired, Kept
<1>8. Managed(m, i)
  <2>1. /\ j = [signals |-> j.signals, slots |-> j.slots]
        /\ j.signals \subseteq SignalSet /\ j.slots \subseteq SlotSet
        /\ \A q \in SignalSet : \A x \in Keys : Contains(n.out[q], x) => x = Key(q) /\ q \in j.signals
        /\ \A q \in j.signals : IsVoid(q) => Contains(n.out[q], Key(q))
        /\ \A q \in SlotSet : IsVoid(q) => (q \in j.slots <=> q \in n.hold[Key(q)])
    BY JoinsAre
  <2>2. /\ i = [signals |-> i.signals, slots |-> i.slots] /\ i.slots = j.slots
        /\ i.signals = j.signals \ signals
    BY <2>1 DEF PartSignals
  <2>3. ASSUME NEW q \in SignalSet, NEW x \in Keys, Contains(m.out[q], x)
        PROVE  x = Key(q) /\ q \in i.signals
    <3>1. Contains(n.out[q], x) /\ q \notin signals
      BY <1>6, <2>3
    <3> QED BY <2>1, <2>2, <3>1
  <2>4. ASSUME NEW q \in i.signals, IsVoid(q) PROVE Contains(m.out[q], Key(q))
    <3>1. q \in j.signals /\ q \in SignalSet /\ q \notin signals
      BY <2>1, <2>2
    <3>2. Contains(n.out[q], Key(q))
      BY <2>1, <2>4, <3>1
    <3> QED BY <1>6, <3>1, <3>2
  <2>5. m.hold = n.hold /\ i.signals \subseteq SignalSet
    BY <1>2, <2>1, <2>2
  <2> QED BY <2>1, <2>2, <2>3, <2>4, <2>5 DEF Managed
<1>9. LinksKnown(m, v)
  <2>1. /\ IsFiniteSet(u)
        /\ \A l \in u :
             /\ l \in OwnRelays(n.made) \X SignalSet \X SlotSet \X BOOLEAN
             /\ l[1] \in OwnRelays(n.made) /\ l[2] \in SignalSet /\ l[3] \in SlotSet
             /\ Contains(n.out[l[2]], l[1]) /\ n.hold[l[1]] = {l[3]} /\ l[2][3] = l[3][3]
        /\ \A l, y \in u : l[1] = y[1] => l = y
        /\ \A q \in SignalSet : \A x \in OwnRelays(n.made) : \A p \in n.hold[x] :
             Contains(n.out[q], x) => \E l \in u : l[1] = x /\ l[2] = q /\ l[3] = p
    BY LinksAre
  <2>2. IsFiniteSet(v) /\ v \subseteq u
    <3>1. v \subseteq u
      OBVIOUS
    <3> QED BY <2>1, <3>1, FS_Subset
  <2>3. ASSUME NEW l \in v PROVE Contains(m.out[l[2]], l[1])
    BY <1>6, <2>1, <2>2
  <2>4. ASSUME NEW q \in SignalSet, NEW x \in OwnRelays(n.made), NEW p \in n.hold[x], Contains(m.out[q], x)
        PROVE  \E l \in v : l[1] = x /\ l[2] = q /\ l[3] = p
    <3>1. Contains(n.out[q], x) /\ q \notin signals
      BY <1>6, <2>4
    <3>2. PICK l \in u : l[1] = x /\ l[2] = q /\ l[3] = p
      BY <2>1, <3>1
    <3> QED BY <3>1, <3>2
  <2>5. m.made = n.made /\ m.hold = n.hold
    BY <1>2
  <2>6. \A l \in v : /\ l \in OwnRelays(m.made) \X SignalSet \X SlotSet \X BOOLEAN
                     /\ m.hold[l[1]] = {l[3]} /\ l[2][3] = l[3][3]
                     /\ \A y \in v : l[1] = y[1] => l = y
    BY <2>1, <2>2, <2>5
  <2>7. \A q \in SignalSet : \A x \in OwnRelays(m.made) : \A p \in m.hold[x] :
          Contains(m.out[q], x) => \E l \in v : l[1] = x /\ l[2] = q /\ l[3] = p
    BY <2>4, <2>5
  <2> QED BY <2>2, <2>3, <2>6, <2>7 DEF LinksKnown
<1> QED BY <1>1, <1>2, <1>4, <1>5, <1>7, <1>8, <1>9, IsWired

(* The slots of some objects are destroyed: no relay has them any more. *)
Unheld(n, objs) ==
  [n EXCEPT
    !.hold = [r \in DOMAIN @ |-> {k \in @[r] : k[1] \notin objs \/ ~Contains(n.keep[k], r)}],
    !.keep = [k \in SlotSet |-> IF k[1] \in objs THEN <<>> ELSE @[k]]]
PartSlots(j, objs) == [j EXCEPT !.slots = {k \in @ : k[1] \notin objs}]

LEMMA ForgetIsWired ==
  ASSUME NEW n, NEW u, NEW j, NEW here, Wired(n, u, j, here), NEW objs,
         NEW m, m = Unheld(n, objs), NEW i, i = PartSlots(j, objs),
         NEW v, v = {l \in u : l[3][1] \notin objs}
  PROVE  Wired(m, v, i, here \ objs)
<1>1. /\ n = [hold |-> n.hold, keep |-> n.keep, out |-> n.out, made |-> n.made]
      /\ n.made \in Nat /\ n.hold \in [Relays(n.made) -> SUBSET SlotSet]
      /\ n.keep \in [SlotSet -> Seq(Relays(n.made))]
      /\ n.out \in [SignalSet -> Seq(Relays(n.made))]
      /\ \A q \in SignalSet : Orderly(n.out[q], q)
      /\ Relays(n.made) = Keys \cup OwnRelays(n.made) /\ (\A x \in OwnRelays(n.made) : x \notin Keys)
      /\ \A e \in SignalSet \cup SlotSet : Key(e) \in Keys
  BY WiredIs
<1>2. \A x \in Relays(n.made) : \A q \in n.hold[x] :
        /\ q \in SlotSet /\ q[1] \in here /\ Contains(n.keep[q], x)
        /\ ~IsVoid(q) => n.hold[x] = {q}
        /\ x \in Keys => x = Key(q)
  BY HoldsAre
<1>3. /\ m = [hold |-> m.hold, keep |-> m.keep, out |-> m.out, made |-> m.made]
      /\ m.made = n.made /\ m.out = n.out
      /\ m.hold = [r \in Relays(n.made) |-> {k \in n.hold[r] : k[1] \notin objs \/ ~Contains(n.keep[k], r)}]
      /\ m.keep = [k \in SlotSet |-> IF k[1] \in objs THEN <<>> ELSE n.keep[k]]
  BY <1>1 DEF Unheld
<1>4. ASSUME NEW x \in Relays(n.made) PROVE m.hold[x] = {k \in n.hold[x] : k[1] \notin objs}
  <2>1. m.hold[x] = {k \in n.hold[x] : k[1] \notin objs \/ ~Contains(n.keep[k], x)}
    BY <1>3
  <2> QED BY <1>2, <2>1
<1>5. m.hold \in [Relays(m.made) -> SUBSET SlotSet]
  BY <1>1, <1>3
<1>6. m.keep \in [SlotSet -> Seq(Relays(m.made))]
  <2>1. <<>> \in Seq(Relays(n.made))
    BY EmptyHas
  <2> QED BY <1>1, <1>3, <2>1
<1>7. Kept(m, here \ objs)
  <2> SUFFICES ASSUME NEW x \in Relays(n.made), NEW q \in m.hold[x]
               PROVE  /\ q[1] \in here \ objs /\ Contains(m.keep[q], x)
                      /\ ~IsVoid(q) => m.hold[x] = {q}
                      /\ x \in Keys => x = Key(q)
    BY <1>3 DEF Kept
  <2>1. q \in n.hold[x] /\ q[1] \notin objs /\ m.hold[x] \subseteq n.hold[x]
    BY <1>4
  <2>2. /\ q \in SlotSet /\ q[1] \in here /\ Contains(n.keep[q], x)
        /\ ~IsVoid(q) => n.hold[x] = {q}
        /\ x \in Keys => x = Key(q)
    BY <1>2, <2>1
  <2>3. m.keep[q] = n.keep[q]
    BY <1>3, <2>1, <2>2
  <2>4. ~IsVoid(q) => m.hold[x] = {q}
    BY <2>1, <2>2
  <2> QED BY <2>1, <2>2, <2>3, <2>4
<1>8. Managed(m, i)
  <2>1. /\ j = [signals |-> j.signals, slots |-> j.slots]
        /\ j.signals \subseteq SignalSet /\ j.slots \subseteq SlotSet
        /\ \A q \in SignalSet : \A x \in Keys : Contains(n.out[q], x) => x = Key(q) /\ q \in j.signals
        /\ \A q \in j.signals : IsVoid(q) => Contains(n.out[q], Key(q))
        /\ \A q \in SlotSet : IsVoid(q) => (q \in j.slots <=> q \in n.hold[Key(q)])
    BY JoinsAre
  <2>2. /\ i = [signals |-> i.signals, slots |-> i.slots] /\ i.signals = j.signals
        /\ i.slots = {k \in j.slots : k[1] \notin objs}
    BY <2>1 DEF PartSlots
  <2>3. ASSUME NEW q \in SlotSet, IsVoid(q) PROVE q \in i.slots <=> q \in m.hold[Key(q)]
    <3>1. Key(q) \in Relays(n.made) /\ (q \in j.slots <=> q \in n.hold[Key(q)])
      BY <1>1, <2>1, <2>3
    <3>2. m.hold[Key(q)] = {k \in n.hold[Key(q)] : k[1] \notin objs}
      BY <1>4, <3>1
    <3> QED BY <2>2, <3>1, <3>2
  <2>4. m.out = n.out /\ i.slots \subseteq SlotSet
    BY <1>3, <2>1, <2>2
  <2> QED BY <2>1, <2>2, <2>3, <2>4 DEF Managed
<1>9. LinksKnown(m, v)
  <2>1. /\ IsFiniteSet(u)
        /\ \A l \in u :
             /\ l \in OwnRelays(n.made) \X SignalSet \X SlotSet \X BOOLEAN
             /\ l[1] \in OwnRelays(n.made) /\ l[2] \in SignalSet /\ l[3] \in SlotSet
             /\ Contains(n.out[l[2]], l[1]) /\ n.hold[l[1]] = {l[3]} /\ l[2][3] = l[3][3]
        /\ \A l, y \in u : l[1] = y[1] => l = y
        /\ \A q \in SignalSet : \A x \in OwnRelays(n.made) : \A p \in n.hold[x] :
             Contains(n.out[q], x) => \E l \in u : l[1] = x /\ l[2] = q /\ l[3] = p
    BY LinksAre
  <2>2. IsFiniteSet(v) /\ v \subseteq u
    <3>1. v \subseteq u
      OBVIOUS
    <3> QED BY <2>1, <3>1, FS_Subset
  <2>3. ASSUME NEW l \in v PROVE m.hold[l[1]] = {l[3]}
    <3>1. l \in u /\ l[1] \in Relays(n.made) /\ n.hold[l[1]] = {l[3]} /\ l[3][1] \notin objs
      BY <1>1, <2>1
    <3>2. m.hold[l[1]] = {k \in n.hold[l[1]] : k[1] \notin objs}
      BY <1>4, <3>1
    <3> QED BY <3>1, <3>2
  <2>4. ASSUME NEW q \in SignalSet, NEW x \in OwnRelays(n.made), NEW p \in m.hold[x], Contains(n.out[q], x)
        PROVE  \E l \in v : l[1] = x /\ l[2] = q /\ l[3] = p
    <3>1. x \in Relays(n.made)
      BY <1>1
    <3>2. p \in n.hold[x] /\ p[1] \notin objs
      BY <1>4, <3>1
    <3>3. PICK l \in u : l[1] = x /\ l[2] = q /\ l[3] = p
      BY <2>1, <2>4, <3>2
    <3> QED BY <3>2, <3>3
  <2>5. m.made = n.made /\ m.out = n.out
    BY <1>3
  <2>6. \A l \in v : /\ l \in OwnRelays(m.made) \X SignalSet \X SlotSet \X BOOLEAN
                     /\ Contains(m.out[l[2]], l[1]) /\ l[2][3] = l[3][3]
                     /\ \A y \in v : l[1] = y[1] => l = y
    BY <2>1, <2>2, <2>5
  <2>7. ASSUME NEW q \in SignalSet, NEW x \in OwnRelays(m.made), NEW p \in m.hold[x], Contains(m.out[q], x)
        PROVE  \E l \in v : l[1] = x /\ l[2] = q /\ l[3] = p
    <3>1. x \in OwnRelays(n.made) /\ Contains(n.out[q], x)
      BY <2>5, <2>7
    <3> QED BY <2>4, <3>1
  <2> QED BY <2>2, <2>3, <2>6, <2>7 DEF LinksKnown
<1>10. m.out = n.out /\ m.made = n.made /\ m.out \in [SignalSet -> Seq(Relays(m.made))]
       /\ \A q \in SignalSet : Orderly(m.out[q], q)
  BY <1>1, <1>3
<1> QED BY <1>1, <1>3, <1>5, <1>6, <1>7, <1>8, <1>9, <1>10, IsWired

LEMMA PartSignalsIs ==
  ASSUME NEW a, NEW b, NEW x, NEW r, r = [signals |-> a, slots |-> b]
  PROVE  PartSignals(r, x) = [signals |-> a \ x, slots |-> b]
<1>1. PartSignals(r, x) = [r EXCEPT !.signals = a \ x]
  BY DEF PartSignals
<1> QED BY <1>1

LEMMA PartSlotsIs ==
  ASSUME NEW a, NEW b, NEW x, NEW r, r = [signals |-> a, slots |-> b]
  PROVE  PartSlots(r, x) = [signals |-> a, slots |-> {k \in b : k[1] \notin x}]
<1>1. PartSlots(r, x) = [r EXCEPT !.slots = {k \in b : k[1] \notin x}]
  BY DEF PartSlots
<1> QED BY <1>1

(* The objects themselves are. *)
Remaining(j, objs) == [signals |-> {s \in j.signals : s[1] \notin objs},
                       slots |-> {k \in j.slots : k[1] \notin objs}]
Spared(u, objs) == {l \in u : l[2][1] \notin objs /\ l[3][1] \notin objs}

LEMMA WithoutIsWired ==
  ASSUME NEW n, NEW u, NEW j, NEW here, Wired(n, u, j, here), NEW objs,
         NEW i, i = Remaining(j, objs), NEW v, v = Spared(u, objs)
  PROVE  Wired(Without(n, objs), v, i, here \ objs)
<1>1. PICK m : m = Unheld(n, objs)
  OBVIOUS
<1>2. PICK h : h = PartSlots(j, objs)
  OBVIOUS
<1>3. PICK w : w = {l \in u : l[3][1] \notin objs}
  OBVIOUS
<1>4. Wired(m, w, h, here \ objs)
  BY <1>1, <1>2, <1>3, ForgetIsWired
<1>5. PICK signals : signals = {s \in SignalSet : s[1] \in objs}
  OBVIOUS
<1>6. Without(n, objs) = LetGo(m, signals)
  BY <1>1, <1>5 DEF Without, Unheld
<1>7. /\ j = [signals |-> j.signals, slots |-> j.slots] /\ j.signals \subseteq SignalSet
      /\ \A l \in u : l[2] \in SignalSet
  BY JoinsAre, LinksAre
<1>8. j.signals \ signals = {s \in j.signals : s[1] \notin objs}
  BY <1>5, <1>7
<1>9. i = PartSignals(h, signals)
  <2>1. h = [signals |-> j.signals, slots |-> {k \in j.slots : k[1] \notin objs}]
    <3>1. PICK a : a = j.signals
      OBVIOUS
    <3>2. PICK b : b = j.slots
      OBVIOUS
    <3>3. j = [signals |-> a, slots |-> b]
      BY <1>7, <3>1, <3>2
    <3>4. PartSlots(j, objs) = [signals |-> a, slots |-> {k \in b : k[1] \notin objs}]
      BY <3>3, PartSlotsIs
    <3> QED BY <1>2, <3>1, <3>2, <3>4
  <2>2. PartSignals(h, signals) = [signals |-> j.signals \ signals, slots |-> {k \in j.slots : k[1] \notin objs}]
    <3>1. PICK b : b = {k \in j.slots : k[1] \notin objs}
      OBVIOUS
    <3>2. h = [signals |-> j.signals, slots |-> b]
      BY <2>1, <3>1
    <3>3. PartSignals(h, signals) = [signals |-> j.signals \ signals, slots |-> b]
      BY <3>2, PartSignalsIs
    <3> QED BY <3>1, <3>3
  <2> QED BY <1>8, <2>2 DEF Remaining
<1>12. v = {l \in w : l[2] \notin signals}
  BY <1>3, <1>5, <1>7 DEF Spared
<1>13. signals \subseteq SignalSet
  BY <1>5
<1>14. PICK x : x = LetGo(m, signals)
  OBVIOUS
<1>15. Wired(x, v, i, here \ objs)
  <2>1. PICK y : y = here \ objs
    OBVIOUS
  <2>2. Wired(m, w, h, y)
    BY <1>4, <2>1
  <2>3. Wired(x, v, i, y)
    BY <1>9, <1>12, <1>13, <1>14, <2>2, LetGoIsWired
  <2> QED BY <2>1, <2>3
<1> QED BY <1>6, <1>14, <1>15

(* The objects are finitely many, and the list of a set of them has each    *)
(* once.                                                                   *)
LEMMA ObjectsFinite == WireAssumption => IsFiniteSet(Objects)
<1> SUFFICES ASSUME WireAssumption PROVE IsFiniteSet(Objects)
  OBVIOUS
<1> DEFINE E == SignalSet \cup SlotSet
           f == [e \in E |-> e[1]]
<1>1. IsFiniteSet(E)
  BY FS_Union DEF WireAssumption
<1>2. f \in Surjection(E, Objects)
  BY DEF Surjection, Objects
<1> QED BY <1>1, <1>2, FS_Surjection

LEMMA ListIs ==
  ASSUME NEW T, IsFiniteSet(T), NEW q, q = SetToSeq(T)
  PROVE  /\ Cardinality(T) \in Nat /\ q \in [1..Cardinality(T) -> T]
         /\ \A i, j \in 1..Cardinality(T) : q[i] = q[j] => i = j
         /\ \A x \in T : \E i \in 1..Cardinality(T) : q[i] = x
<1>1. PICK n : n = Cardinality(T)
  OBVIOUS
<1>2. n \in Nat /\ ExistsBijection(1..n, T)
  BY <1>1, FS_CardinalityType
<1>3. PICK b \in [1..n -> T] : \A i, j \in 1..n : b[i] = b[j] => i = j
  BY <1>2 DEF ExistsBijection, Bijection, Injection, IsInjective
<1>4. q \in [1..n -> T] /\ \A i, j \in 1..n : q[i] = q[j] => i = j
  <2>1. \E f \in [1..n -> T] : IsInjective(f)
    BY <1>3 DEF IsInjective
  <2>2. q = CHOOSE f \in [1..n -> T] : IsInjective(f)
    BY <1>1 DEF SetToSeq
  <2>3. q \in [1..n -> T] /\ IsInjective(q)
    BY <2>1, <2>2
  <2> QED BY <2>3 DEF IsInjective
<1>5. IsFiniteSet(1..n) /\ Cardinality(1..n) = n
  BY <1>2, FS_Interval
<1>6. q \in Injection(1..n, T)
  BY <1>4 DEF Injection, IsInjective
<1>7. q \in Surjection(1..n, T)
  BY <1>1, <1>5, <1>6, FS_Injection
<1> QED BY <1>1, <1>2, <1>4, <1>7 DEF Surjection

(* The links between a signal and a slot. *)
Between(u, s, k) == {l \in u : l[2] = s /\ l[3] = k}
RecordedBetween(u, s, k) == {l \in u : l[2] = s /\ l[3] = k /\ l[4]}

(* An emission reaches a slot by each link, and by the relay both joined. *)
LEMMA ReachedIs ==
  ASSUME NEW n, NEW u, NEW j, NEW here, Wired(n, u, j, here), NEW s \in SignalSet, NEW k \in SlotSet, IsVoid(s)
  PROVE  /\ IsFiniteSet(Between(u, s, k)) /\ Cardinality(Between(u, s, k)) \in Nat
         /\ Cardinality(RelaysTo(n, s, k))
              = Cardinality(Between(u, s, k))
                + (IF s \in j.signals /\ k \in j.slots /\ Key(s) = Key(k) THEN 1 ELSE 0)
<1>1. PICK q : q = n.out[s]
  OBVIOUS
<1>2. /\ q \in Seq(Relays(n.made)) /\ Orderly(q, s)
      /\ Relays(n.made) = Keys \cup OwnRelays(n.made) /\ (\A x \in OwnRelays(n.made) : x \notin Keys)
      /\ Key(s) \in Keys /\ Key(k) \in Keys
  BY <1>1, WiredIs
<1>3. /\ DOMAIN q = 1..Len(q) /\ Len(q) \in Nat /\ (\A i \in 1..Len(q) : q[i] \in Relays(n.made))
      /\ \A i, x \in 1..Len(q) : q[i] = q[x] => i = x
  BY <1>2, LenProperties DEF Orderly
<1> DEFINE R == {i \in 1..Len(q) : k \in n.hold[q[i]]}
           D == {i \in R : q[i] \notin Keys}
           M == {i \in R : q[i] \in Keys}
           B == Between(u, s, k)
           g == [i \in D |-> CHOOSE l \in u : l[1] = q[i] /\ l[2] = s /\ l[3] = k]
<1>4. RelaysTo(n, s, k) = R
  BY <1>1, <1>3 DEF RelaysTo
<1>5. /\ IsFiniteSet(u)
      /\ \A l \in u : l[1] \in OwnRelays(n.made) /\ Contains(n.out[l[2]], l[1]) /\ n.hold[l[1]] = {l[3]}
      /\ \A l, y \in u : l[1] = y[1] => l = y
      /\ \A x \in OwnRelays(n.made) : \A p \in n.hold[x] :
           Contains(q, x) => \E l \in u : l[1] = x /\ l[2] = s /\ l[3] = p
  BY <1>1, LinksAre
<1>6. IsFiniteSet(B) /\ Cardinality(B) \in Nat
  BY <1>5, FS_Subset, FS_CardinalityType DEF Between
<1>7. IsFiniteSet(D) /\ IsFiniteSet(M) /\ R = D \cup M /\ D \cap M = {}
  <2>1. IsFiniteSet(1..Len(q))
    BY <1>3, FS_Interval
  <2> QED BY <2>1, FS_Subset
<1>8. ASSUME NEW i \in D
      PROVE  g[i] \in u /\ g[i][1] = q[i] /\ g[i][2] = s /\ g[i][3] = k
  <2>1. q[i] \in OwnRelays(n.made) /\ k \in n.hold[q[i]] /\ Contains(q, q[i])
    BY <1>2, <1>3 DEF Contains
  <2>2. \E l \in u : l[1] = q[i] /\ l[2] = s /\ l[3] = k
    BY <1>5, <2>1
  <2>3. g[i] = CHOOSE l \in u : l[1] = q[i] /\ l[2] = s /\ l[3] = k
    OBVIOUS
  <2> HIDE DEF g, D
  <2> QED BY <2>2, <2>3
<1>9. Cardinality(B) = Cardinality(D)
  <2>1. DOMAIN g = D /\ g = [i \in D |-> g[i]]
    OBVIOUS
  <2>2. \A i \in D : i \in 1..Len(q)
    OBVIOUS
  <2>3. ASSUME NEW l \in B PROVE \E i \in D : g[i] = l
    <3>1. l \in u /\ l[2] = s /\ l[3] = k
      BY DEF Between
    <3>2. l[1] \in OwnRelays(n.made) /\ Contains(q, l[1]) /\ k \in n.hold[l[1]]
      BY <1>1, <1>5, <3>1
    <3>3. PICK i \in 1..Len(q) : q[i] = l[1]
      BY <3>2 DEF Contains
    <3>4. i \in D
      BY <1>2, <3>2, <3>3
    <3> HIDE DEF g, D
    <3> QED BY <1>5, <1>8, <3>1, <3>3, <3>4
  <2> HIDE DEF g, D
  <2>4. g \in [D -> B]
    BY <1>8, <2>1 DEF Between
  <2>5. \A i, x \in D : g[i] = g[x] => i = x
    BY <1>3, <1>8, <2>2
  <2>6. g \in Bijection(D, B)
    BY <2>3, <2>4, <2>5 DEF Bijection, Injection, Surjection, IsInjective
  <2> HIDE DEF B
  <2> QED BY <1>7, <2>6, FS_Bijection DEF ExistsBijection
<1>10. Cardinality(M) = IF s \in j.signals /\ k \in j.slots /\ Key(s) = Key(k) THEN 1 ELSE 0
  <2>1. /\ \A x \in Keys : Contains(q, x) => x = Key(s) /\ s \in j.signals
        /\ s \in j.signals => Contains(q, Key(s))
        /\ IsVoid(k) => (k \in j.slots <=> k \in n.hold[Key(k)])
    BY <1>1, JoinsAre
  <2>2. ASSUME NEW i \in M
        PROVE  q[i] = Key(s) /\ s \in j.signals /\ k \in j.slots /\ Key(s) = Key(k)
    <3>1. i \in 1..Len(q) /\ q[i] \in Keys /\ k \in n.hold[q[i]] /\ q[i] \in Relays(n.made)
      BY <1>3
    <3>2. Contains(q, q[i])
      BY <3>1 DEF Contains
    <3>3. q[i] = Key(s) /\ s \in j.signals
      BY <2>1, <3>1, <3>2
    <3>4. q[i] = Key(k)
      BY <3>1, HoldsAre
    <3>5. IsVoid(k)
      <4>1. k[3] = s[3]
        BY <3>3, <3>4 DEF Key
      <4> QED BY <4>1 DEF IsVoid
    <3> QED BY <2>1, <3>1, <3>3, <3>4, <3>5
  <2>3. CASE s \in j.signals /\ k \in j.slots /\ Key(s) = Key(k)
    <3>1. PICK i \in 1..Len(q) : q[i] = Key(s)
      BY <2>1, <2>3 DEF Contains
    <3>2. IsVoid(k)
      <4>1. k[3] = s[3]
        BY <2>3 DEF Key
      <4> QED BY <4>1 DEF IsVoid
    <3>3. k \in n.hold[q[i]] /\ q[i] \in Keys
      BY <1>2, <2>1, <2>3, <3>1, <3>2
    <3>4. M = {i}
      BY <1>3, <2>2, <3>1, <3>3
    <3> QED BY <2>3, <3>4, FS_Singleton
  <2>4. CASE ~(s \in j.signals /\ k \in j.slots /\ Key(s) = Key(k))
    <3>1. M = {}
      BY <2>2, <2>4
    <3> QED BY <2>4, <3>1, FS_EmptySet
  <2> QED BY <2>3, <2>4
<1>11. Cardinality(R) = Cardinality(D) + Cardinality(M)
  <2> HIDE DEF R, D, M
  <2>1. Cardinality(D \cup M) = Cardinality(D) + Cardinality(M) - Cardinality(D \cap M)
    BY <1>7, FS_Union
  <2>2. Cardinality(D \cap M) = 0 /\ Cardinality(D) \in Nat /\ Cardinality(M) \in Nat
    BY <1>7, FS_EmptySet, FS_CardinalityType
  <2> QED BY <1>7, <2>1, <2>2
<1> HIDE DEF R, D, M, B, g
<1> QED BY <1>4, <1>6, <1>9, <1>10, <1>11 DEF B

LEMMA BetweenFinite ==
  ASSUME NEW u, IsFiniteSet(u), NEW s, NEW k
  PROVE  /\ IsFiniteSet(Between(u, s, k)) /\ Cardinality(Between(u, s, k)) \in Nat
         /\ IsFiniteSet(RecordedBetween(u, s, k)) /\ Cardinality(RecordedBetween(u, s, k)) \in Nat
BY FS_Subset, FS_CardinalityType DEF Between, RecordedBetween

(* What a connection adds to the links. *)
Grew(u, v, s, k, recorded) ==
  /\ \A q \in SignalSet, p \in SlotSet : q # s => Between(v, q, p) = Between(u, q, p)
  /\ \A p \in SlotSet : Cardinality(RecordedBetween(v, s, p))
                          <= Cardinality(RecordedBetween(u, s, p)) + (IF recorded /\ p = k THEN 1 ELSE 0)
  /\ IsVoid(s) => \A p \in SlotSet : Cardinality(Between(v, s, p))
                                       = Cardinality(Between(u, s, p)) + (IF p = k THEN 1 ELSE 0)

LEMMA LinkedGrows ==
  ASSUME NEW n, NEW u, NEW j, NEW here, Wired(n, u, j, here), NEW s \in SignalSet, NEW k \in SlotSet,
         NEW recorded \in BOOLEAN, NEW v,
         v = {l \in u : IsVoid(s) \/ l[2] # s} \cup {<<OwnRelay(n.made + 1), s, k, recorded>>}
  PROVE  Grew(u, v, s, k, recorded)
<1>1. PICK a : a = <<OwnRelay(n.made + 1), s, k, recorded>>
  OBVIOUS
<1>2. a[2] = s /\ a[3] = k /\ a[4] = recorded /\ a[1] = OwnRelay(n.made + 1)
  BY <1>1
<1>3. PICK w : w = {l \in u : IsVoid(s) \/ l[2] # s}
  OBVIOUS
<1>4. v = w \cup {a} /\ w \subseteq u
  BY <1>1, <1>3
<1>5. IsFiniteSet(u) /\ IsFiniteSet(w) /\ a \notin u
  <2>1. IsFiniteSet(u) /\ \A l \in u : l[1] \in OwnRelays(n.made)
    BY LinksAre
  <2>2. n.made \in Nat
    BY WiredIs
  <2>3. OwnRelay(n.made + 1) \notin OwnRelays(n.made)
    BY <2>2, RelaysSplit
  <2> QED BY <1>2, <1>3, <2>1, <2>3, FS_Subset
<1>6. ASSUME NEW q \in SignalSet, NEW p \in SlotSet, q # s PROVE Between(v, q, p) = Between(u, q, p)
  <2>1. ASSUME NEW l PROVE l \in Between(v, q, p) <=> l \in Between(u, q, p)
    BY <1>2, <1>3, <1>4, <1>6 DEF Between
  <2> QED BY <2>1
<1>7. ASSUME NEW p \in SlotSet
      PROVE  Cardinality(RecordedBetween(v, s, p))
               <= Cardinality(RecordedBetween(u, s, p)) + (IF recorded /\ p = k THEN 1 ELSE 0)
  <2>1. PICK b : b = RecordedBetween(u, s, p)
    OBVIOUS
  <2>2. IsFiniteSet(b) /\ Cardinality(b) \in Nat
    BY <1>5, <2>1, BetweenFinite
  <2>3. CASE recorded /\ p = k
    <3>1. RecordedBetween(v, s, p) \subseteq b \cup {a}
      BY <1>4, <2>1 DEF RecordedBetween
    <3>2. IsFiniteSet(b \cup {a}) /\ Cardinality(b \cup {a}) <= Cardinality(b) + 1
          /\ Cardinality(b \cup {a}) \in Nat
      BY <2>2, FS_AddElement, SMTT(30)
    <3>3. Cardinality(RecordedBetween(v, s, p)) <= Cardinality(b \cup {a})
          /\ Cardinality(RecordedBetween(v, s, p)) \in Nat
      BY <3>1, <3>2, FS_Subset, FS_CardinalityType
    <3> QED BY <2>1, <2>2, <2>3, <3>2, <3>3
  <2>4. CASE ~(recorded /\ p = k)
    <3>1. RecordedBetween(v, s, p) \subseteq b
      BY <1>2, <1>4, <2>1, <2>4 DEF RecordedBetween
    <3>2. Cardinality(RecordedBetween(v, s, p)) <= Cardinality(b)
          /\ Cardinality(RecordedBetween(v, s, p)) \in Nat
      BY <2>2, <3>1, FS_Subset, FS_CardinalityType
    <3> QED BY <2>1, <2>2, <2>4, <3>2
  <2> QED BY <2>3, <2>4
<1>8. ASSUME IsVoid(s), NEW p \in SlotSet
      PROVE  Cardinality(Between(v, s, p)) = Cardinality(Between(u, s, p)) + (IF p = k THEN 1 ELSE 0)
  <2>1. v = u \cup {a}
    BY <1>3, <1>4, <1>8
  <2>2. PICK b : b = Between(u, s, p)
    OBVIOUS
  <2>3. IsFiniteSet(b) /\ Cardinality(b) \in Nat /\ a \notin b
    <3>1. IsFiniteSet(b) /\ Cardinality(b) \in Nat
      BY <1>5, <2>2, BetweenFinite
    <3>2. b \subseteq u
      BY <2>2 DEF Between
    <3> QED BY <1>5, <3>1, <3>2
  <2>4. CASE p = k
    <3>1. Between(v, s, p) = b \cup {a}
      BY <1>2, <2>1, <2>2, <2>4 DEF Between
    <3>2. Cardinality(b \cup {a}) = Cardinality(b) + 1
      BY <2>3, FS_AddElement
    <3> QED BY <2>2, <2>4, <3>1, <3>2
  <2>5. CASE p # k
    <3>1. Between(v, s, p) = b
      BY <1>2, <2>1, <2>2, <2>5 DEF Between
    <3> QED BY <2>2, <2>3, <2>5, <3>1
  <2> QED BY <2>4, <2>5
<1> QED BY <1>6, <1>7, <1>8 DEF Grew

(* The connections that objects recorded, and where a pair is among them. *)
Pairs == {p \in SignalSet \X SlotSet : p[1][3] = p[2][3]}
PlacesTo(q, i, s, k) == {x \in 1..i : q[x] = <<s, k>>}

LEMMA PlacesGrow ==
  ASSUME NEW q, NEW i \in Nat, NEW s, NEW k
  PROVE  /\ IsFiniteSet(PlacesTo(q, i, s, k)) /\ Cardinality(PlacesTo(q, i, s, k)) \in Nat
         /\ Cardinality(PlacesTo(q, i + 1, s, k))
              = Cardinality(PlacesTo(q, i, s, k)) + (IF q[i + 1] = <<s, k>> THEN 1 ELSE 0)
<1>1. 1..(i + 1) = 1..i \cup {i + 1} /\ i + 1 \notin 1..i
  OBVIOUS
<1>2. PICK b : b = PlacesTo(q, i, s, k)
  OBVIOUS
<1>3. IsFiniteSet(b) /\ Cardinality(b) \in Nat /\ i + 1 \notin b
  <2>1. IsFiniteSet(1..i)
    BY FS_Interval
  <2>2. b \subseteq 1..i
    BY <1>2 DEF PlacesTo
  <2> QED BY <1>1, <2>1, <2>2, FS_Subset, FS_CardinalityType
<1>4. Cardinality(PlacesTo(q, i + 1, s, k)) = Cardinality(b) + (IF q[i + 1] = <<s, k>> THEN 1 ELSE 0)
  <2>1. CASE q[i + 1] = <<s, k>>
    <3>1. PlacesTo(q, i + 1, s, k) = b \cup {i + 1}
      BY <1>1, <1>2, <2>1 DEF PlacesTo
    <3>2. Cardinality(b \cup {i + 1}) = Cardinality(b) + 1
      BY <1>3, FS_AddElement
    <3> QED BY <2>1, <3>1, <3>2
  <2>2. CASE q[i + 1] # <<s, k>>
    <3>1. PlacesTo(q, i + 1, s, k) = b
      BY <1>1, <1>2, <2>2 DEF PlacesTo
    <3> QED BY <1>3, <2>2, <3>1
  <2> QED BY <2>1, <2>2
<1> QED BY <1>2, <1>3, <1>4

LEMMA NoPlaces ==
  ASSUME NEW q, NEW s, NEW k
  PROVE  Cardinality(PlacesTo(q, 0, s, k)) = 0
<1>1. 1..0 = {}
  OBVIOUS
<1>2. PlacesTo(q, 0, s, k) = {}
  BY <1>1 DEF PlacesTo
<1> QED BY <1>2, FS_EmptySet

(* The states that a walk through the records passes.                      *)
Nets == [hold : UNION {[Relays(m) -> SUBSET SlotSet] : m \in Nat},
         keep : UNION {[SlotSet -> Seq(Relays(m))] : m \in Nat},
         out : UNION {[SignalSet -> Seq(Relays(m))] : m \in Nat}, made : Nat]
UpLinks == UNION {OwnRelays(m) \X SignalSet \X SlotSet \X BOOLEAN : m \in Nat}
WireStates(j, here) == {e \in [net : Nets, up : SUBSET UpLinks] : Wired(e.net, e.up, j, here)}

LEMMA InWireStates ==
  ASSUME NEW n, NEW u, NEW j, NEW here, Wired(n, u, j, here)
  PROVE  [net |-> n, up |-> u] \in WireStates(j, here)
<1>1. n \in Nets
  <2>1. /\ n = [hold |-> n.hold, keep |-> n.keep, out |-> n.out, made |-> n.made]
        /\ n.made \in Nat /\ n.hold \in [Relays(n.made) -> SUBSET SlotSet]
        /\ n.keep \in [SlotSet -> Seq(Relays(n.made))]
        /\ n.out \in [SignalSet -> Seq(Relays(n.made))]
    BY WiredIs
  <2>2. /\ n.hold \in UNION {[Relays(m) -> SUBSET SlotSet] : m \in Nat}
        /\ n.keep \in UNION {[SlotSet -> Seq(Relays(m))] : m \in Nat}
        /\ n.out \in UNION {[SignalSet -> Seq(Relays(m))] : m \in Nat}
    BY <2>1
  <2> QED BY <2>1, <2>2 DEF Nets
<1>2. u \in SUBSET UpLinks
  <2>1. n.made \in Nat
    BY WiredIs
  <2>2. \A l \in u : l \in OwnRelays(n.made) \X SignalSet \X SlotSet \X BOOLEAN
    BY LinksAre
  <2> QED BY <2>1, <2>2 DEF UpLinks
<1> QED BY <1>1, <1>2 DEF WireStates

(* One record is connected again, if its receiver exists.                  *)
LEMMA OneRelinked ==
  ASSUME WireAssumption, NEW j, NEW e \in WireStates(j, present), NEW p \in Pairs, NEW f, f = Relink(e, p)
  PROVE  /\ f \in WireStates(j, present)
         /\ Alive(p[2]) => Grew(e.up, f.up, p[1], p[2], TRUE)
         /\ ~Alive(p[2]) => f = e
<1>1. PICK n : n = e.net
  OBVIOUS
<1>2. PICK u : u = e.up
  OBVIOUS
<1>3. e = [net |-> n, up |-> u] /\ Wired(n, u, j, present)
  BY <1>1, <1>2 DEF WireStates
<1>4. PICK s \in SignalSet, k \in SlotSet : p = <<s, k>>
  BY DEF Pairs
<1>5. s[3] = k[3] /\ p[1] = s /\ p[2] = k
  BY <1>4 DEF Pairs
<1>6. CASE Alive(k)
  <2>1. f = Linked(e, s, k, TRUE) /\ k[1] \in present
    BY <1>5, <1>6 DEF Relink, Alive
  <2>2. /\ f = [net |-> f.net, up |-> f.up] /\ Wired(f.net, f.up, j, present)
        /\ f.up = {l \in u : IsVoid(s) \/ l[2] # s} \cup {<<OwnRelay(n.made + 1), s, k, TRUE>>}
    <3>1. PICK t \in BOOLEAN : t = TRUE
      OBVIOUS
    <3>2. f = Linked(e, s, k, t)
      BY <2>1, <3>1
    <3>3. /\ f = [net |-> f.net, up |-> f.up] /\ Wired(f.net, f.up, j, present)
          /\ f.up = {l \in u : IsVoid(s) \/ l[2] # s} \cup {<<OwnRelay(n.made + 1), s, k, t>>}
      <4>1. e = [net |-> n, up |-> u] /\ Wired(n, u, j, present) /\ s[3] = k[3] /\ k[1] \in present
        BY <1>3, <1>5, <2>1
      <4> QED BY <3>2, <4>1, LinkedIsWired
    <3> QED BY <3>1, <3>3
  <2>3. f \in WireStates(j, present)
    <3>1. PICK a : a = f.net
      OBVIOUS
    <3>2. PICK b : b = f.up
      OBVIOUS
    <3>3. Wired(a, b, j, present) /\ f = [net |-> a, up |-> b]
      BY <2>2, <3>1, <3>2
    <3>4. [net |-> a, up |-> b] \in WireStates(j, present)
      BY <3>3, InWireStates
    <3> QED BY <3>3, <3>4
  <2>4. Grew(u, f.up, s, k, TRUE)
    BY <1>3, <2>2, LinkedGrows
  <2> QED BY <1>2, <1>5, <1>6, <2>3, <2>4
<1>7. CASE ~Alive(k)
  BY <1>5, <1>7 DEF Relink
<1> QED BY <1>5, <1>6, <1>7

(* The records of an object, one after the other.                          *)
RelinkStays(S, q, n) == \A s \in S, i \in 1..n : Relink(s, q[i]) \in S
RelinkWalk(w, base, o, n) ==
  /\ w[0] = base /\ \A k \in 1..n : w[k] = Relink(w[k - 1], records[o][k])
  /\ Relinked(base, o) = w[n]

LEMMA RelinksRun ==
  ASSUME NEW n \in Nat, NEW o, NEW q, q = records[o], DOMAIN q = 1..n,
         NEW S, NEW base \in S, RelinkStays(S, q, n)
  PROVE  \E w : RelinkWalk(w, base, o, n) /\ \A k \in 0..n : w[k] \in S
<1> DEFINE step == [p \in S \X (1..n) |-> Relink(p[1], q[p[2]])]
           Eq(f) == f = [s \in SUBSET (1..n) |-> IF s = {} THEN base
                                                ELSE Relink(f[s \ {Max(s)}], q[Max(s)])]
           iter == CHOOSE f : Eq(f)
           w == [k \in 0..n |-> iter[1..k]]
<1>1. Relinked(base, o) = iter[1..n]
  BY DEF Relinked, FoldLeft, MapThenFoldSet
<1>2. step \in [S \X (1..n) -> S]
  BY DEF RelinkStays
<1>3. PICK f : Folds(f, n, S, base, step)
  BY <1>2, FoldExists
<1>4. Eq(f)
  <2>1. /\ f \in [SUBSET (1..n) -> S]
        /\ \A s \in SUBSET (1..n) : f[s] = IF s = {} THEN base ELSE step[<<f[s \ {Max(s)}], Max(s)>>]
    BY <1>3 DEF Folds
  <2>2. ASSUME NEW s \in SUBSET (1..n), s # {}
        PROVE  f[s] = Relink(f[s \ {Max(s)}], q[Max(s)])
    <3>1. Max(s) \in 1..n /\ s \ {Max(s)} \in SUBSET (1..n)
      BY <2>2, MaxIn
    <3>2. <<f[s \ {Max(s)}], Max(s)>> \in S \X (1..n)
      BY <2>1, <3>1
    <3> QED BY <2>1, <2>2, <3>2
  <2> QED BY <2>1, <2>2
<1> HIDE DEF step
<1>5. Eq(iter)
  BY <1>4
<1> HIDE DEF iter
<1>6. w[0] = base
  <2>1. 1..0 = {} /\ 0 \in 0..n /\ {} \in SUBSET (1..n)
    OBVIOUS
  <2> QED BY <1>5, <2>1
<1>7. ASSUME NEW k \in 1..n PROVE w[k] = Relink(w[k - 1], q[k])
  <2>1. Max(1..k) = k /\ (1..k) \ {k} = 1..k - 1 /\ 1..k \in SUBSET (1..n) /\ 1..k # {}
    BY MaxOfPrefix
  <2>2. k \in 0..n /\ k - 1 \in 0..n
    OBVIOUS
  <2> QED BY <1>5, <2>1, <2>2
<1>8. w[n] = iter[1..n]
  OBVIOUS
<1> HIDE DEF w
<1>9. RelinkWalk(w, base, o, n)
  BY <1>1, <1>6, <1>7, <1>8 DEF RelinkWalk
<1> DEFINE Good == {k \in 0..n : w[k] \in S}
<1>10. 0 \in Good
  BY <1>6
<1>11. ASSUME NEW k \in 1..n, k - 1 \in Good PROVE k \in Good
  BY <1>7, <1>11 DEF RelinkStays
<1>12. 0..n \subseteq Good
  <2> HIDE DEF Good
  <2> QED BY <1>10, <1>11, UpTo
<1> QED BY <1>9, <1>12

(* What the walk through the first i records of an object has made of the  *)
(* links u: those of other signals are as they were, a signal of its own   *)
(* has at most what was recorded and at least that if the slot is there.   *)
Walked(u, v, o, q, i) ==
  /\ \A s \in SignalSet, k \in SlotSet : s[1] # o => Between(v, s, k) = Between(u, s, k)
  /\ \A s \in SignalSet, k \in SlotSet :
       Cardinality(RecordedBetween(v, s, k))
         <= Cardinality(RecordedBetween(u, s, k)) + Cardinality(PlacesTo(q, i, s, k))
  /\ \A s \in SignalSet, k \in SlotSet : IsVoid(s) /\ Alive(k) =>
       Cardinality(Between(v, s, k)) >= Cardinality(PlacesTo(q, i, s, k))

(* A record is connected again: its slot is there, or nothing changes.     *)
Reconnected(v, w, a, b) == (Alive(b) => Grew(v, w, a, b, TRUE)) /\ (~Alive(b) => w = v)

LEMMA OneMoreWalked ==
  ASSUME NEW u, NEW v, NEW w, IsFiniteSet(u), IsFiniteSet(v), IsFiniteSet(w), NEW o, NEW q, NEW i \in Nat,
         Walked(u, v, o, q, i), NEW a \in SignalSet, NEW b \in SlotSet, q[i + 1] = <<a, b>>, a[1] = o,
         Reconnected(v, w, a, b)
  PROVE  Walked(u, w, o, q, i + 1)
<1>1. ASSUME NEW s \in SignalSet, NEW k \in SlotSet
      PROVE  /\ s[1] # o => Between(w, s, k) = Between(u, s, k)
             /\ Cardinality(RecordedBetween(w, s, k))
                  <= Cardinality(RecordedBetween(u, s, k)) + Cardinality(PlacesTo(q, i + 1, s, k))
             /\ IsVoid(s) /\ Alive(k) => Cardinality(Between(w, s, k)) >= Cardinality(PlacesTo(q, i + 1, s, k))
  <2>1. /\ s[1] # o => Between(v, s, k) = Between(u, s, k)
        /\ Cardinality(RecordedBetween(v, s, k))
             <= Cardinality(RecordedBetween(u, s, k)) + Cardinality(PlacesTo(q, i, s, k))
        /\ IsVoid(s) /\ Alive(k) => Cardinality(Between(v, s, k)) >= Cardinality(PlacesTo(q, i, s, k))
    BY DEF Walked
  <2>2. /\ Cardinality(PlacesTo(q, i, s, k)) \in Nat
        /\ Cardinality(PlacesTo(q, i + 1, s, k))
             = Cardinality(PlacesTo(q, i, s, k)) + (IF s = a /\ k = b THEN 1 ELSE 0)
    <3>1. q[i + 1] = <<s, k>> <=> s = a /\ k = b
      OBVIOUS
    <3> QED BY <3>1, PlacesGrow
  <2>3. /\ Cardinality(RecordedBetween(u, s, k)) \in Nat /\ Cardinality(RecordedBetween(v, s, k)) \in Nat
        /\ Cardinality(RecordedBetween(w, s, k)) \in Nat
        /\ Cardinality(Between(v, s, k)) \in Nat /\ Cardinality(Between(w, s, k)) \in Nat
    BY BetweenFinite
  <2>4. CASE ~Alive(b)
    <3>1. w = v /\ (k = b => ~Alive(k))
      BY <2>4 DEF Reconnected
    <3>2. Cardinality(PlacesTo(q, i, s, k)) <= Cardinality(PlacesTo(q, i + 1, s, k))
      BY <2>2
    <3>3. k # b => Cardinality(PlacesTo(q, i + 1, s, k)) = Cardinality(PlacesTo(q, i, s, k))
      BY <2>2
    <3> QED BY <2>1, <2>2, <2>3, <3>1, <3>2, <3>3
  <2>5. CASE Alive(b) /\ s # a
    <3>1. Between(w, s, k) = Between(v, s, k)
      BY <2>5 DEF Grew, Reconnected
    <3>2. RecordedBetween(w, s, k) = RecordedBetween(v, s, k)
      <4>1. \A l : l \in RecordedBetween(w, s, k) <=> l \in Between(w, s, k) /\ l[4]
        BY DEF RecordedBetween, Between
      <4>2. \A l : l \in RecordedBetween(v, s, k) <=> l \in Between(v, s, k) /\ l[4]
        BY DEF RecordedBetween, Between
      <4> QED BY <3>1, <4>1, <4>2
    <3>3. Cardinality(PlacesTo(q, i + 1, s, k)) = Cardinality(PlacesTo(q, i, s, k))
      BY <2>2, <2>5
    <3> QED BY <2>1, <3>1, <3>2, <3>3
  <2>6. CASE Alive(b) /\ s = a
    <3>1. PICK d \in {0, 1} : d = IF k = b THEN 1 ELSE 0
      OBVIOUS
    <3>2. /\ Cardinality(RecordedBetween(w, s, k)) <= Cardinality(RecordedBetween(v, s, k)) + d
          /\ IsVoid(s) => Cardinality(Between(w, s, k)) = Cardinality(Between(v, s, k)) + d
      BY <2>6, <3>1 DEF Grew, Reconnected
    <3>3. Cardinality(PlacesTo(q, i + 1, s, k)) = Cardinality(PlacesTo(q, i, s, k)) + d
      BY <2>2, <2>6, <3>1
    <3>4. Cardinality(RecordedBetween(w, s, k))
            <= Cardinality(RecordedBetween(u, s, k)) + Cardinality(PlacesTo(q, i + 1, s, k))
      BY <2>1, <2>2, <2>3, <3>1, <3>2, <3>3
    <3>5. IsVoid(s) /\ Alive(k) => Cardinality(Between(w, s, k)) >= Cardinality(PlacesTo(q, i + 1, s, k))
      BY <2>1, <2>2, <2>3, <3>1, <3>2, <3>3
    <3> QED BY <2>6, <3>4, <3>5
  <2> QED BY <2>4, <2>5, <2>6
<1> QED BY <1>1 DEF Walked

(* The links of a replaced object, after Init(false).                      *)
LEMMA RelinkedCounts ==
  ASSUME WireAssumption, NEW j, NEW e \in WireStates(j, present), NEW o,
         NEW q, q = records[o], NEW n \in Nat, DOMAIN q = 1..n,
         \A i \in 1..n : q[i] \in Pairs /\ q[i][1][1] = o,
         NEW f, f = Relinked(e, o)
  PROVE  f \in WireStates(j, present) /\ Walked(e.up, f.up, o, q, n)
<1> DEFINE S == WireStates(j, present)
<1>1. RelinkStays(S, q, n)
  BY OneRelinked DEF RelinkStays
<1> HIDE DEF S
<1>2. PICK w : RelinkWalk(w, e, o, n) /\ \A k \in 0..n : w[k] \in S
  BY <1>1, RelinksRun DEF S
<1>3. w[0] = e /\ (\A k \in 1..n : w[k] = Relink(w[k - 1], q[k])) /\ f = w[n]
  BY <1>2 DEF RelinkWalk
<1>4. ASSUME NEW x \in S PROVE IsFiniteSet(x.up)
  <2>1. Wired(x.net, x.up, j, present)
    BY DEF S, WireStates
  <2> QED BY <2>1, LinksAre
<1> DEFINE Good == {k \in 0..n : Walked(e.up, w[k].up, o, q, k)}
<1>5. 0 \in Good
  <2>1. IsFiniteSet(e.up)
    BY <1>4 DEF S
  <2>2. ASSUME NEW s \in SignalSet, NEW k \in SlotSet
        PROVE  /\ Cardinality(PlacesTo(q, 0, s, k)) = 0
               /\ Cardinality(RecordedBetween(e.up, s, k)) \in Nat /\ Cardinality(Between(e.up, s, k)) \in Nat
    <3>2. Cardinality(PlacesTo(q, 0, s, k)) = 0
      BY NoPlaces
    <3>3. Cardinality(RecordedBetween(e.up, s, k)) \in Nat /\ Cardinality(Between(e.up, s, k)) \in Nat
      BY <2>1, BetweenFinite
    <3> QED BY <3>2, <3>3
  <2>3. ASSUME NEW s \in SignalSet, NEW k \in SlotSet
        PROVE  /\ Cardinality(RecordedBetween(e.up, s, k))
                    <= Cardinality(RecordedBetween(e.up, s, k)) + Cardinality(PlacesTo(q, 0, s, k))
               /\ Cardinality(Between(e.up, s, k)) >= Cardinality(PlacesTo(q, 0, s, k))
    BY <2>2
  <2>4. Walked(e.up, e.up, o, q, 0)
    BY <2>3 DEF Walked
  <2> QED BY <1>3, <2>4
<1>6. ASSUME NEW k \in 1..n, k - 1 \in Good PROVE k \in Good
  <2>1. k - 1 \in Nat /\ (k - 1) + 1 = k /\ k - 1 \in 0..n /\ k \in 0..n
    OBVIOUS
  <2>2. PICK v : v = w[k - 1]
    OBVIOUS
  <2>3. PICK x : x = w[k]
    OBVIOUS
  <2>4. Walked(e.up, v.up, o, q, k - 1) /\ v \in S /\ x \in S /\ x = Relink(v, q[k])
    BY <1>2, <1>3, <1>6, <2>1, <2>2, <2>3
  <2>5. PICK a \in SignalSet, b \in SlotSet : q[k] = <<a, b>>
    BY DEF Pairs
  <2>6. q[k] \in Pairs /\ q[k][1] = a /\ q[k][2] = b /\ a[1] = o
    BY <2>5
  <2>7. Reconnected(v.up, x.up, a, b)
    <3>1. (Alive(b) => Grew(v.up, x.up, a, b, TRUE)) /\ (~Alive(b) => x = v)
      BY <2>4, <2>6, OneRelinked DEF S
    <3> QED BY <3>1 DEF Reconnected
  <2>8. IsFiniteSet(e.up) /\ IsFiniteSet(v.up) /\ IsFiniteSet(x.up)
    BY <1>4, <2>4 DEF S
  <2>9. PICK i \in Nat : i = k - 1
    BY <2>1
  <2>10. q[i + 1] = <<a, b>> /\ Walked(e.up, v.up, o, q, i) /\ i + 1 = k
    BY <2>1, <2>4, <2>5, <2>9
  <2>11. Walked(e.up, x.up, o, q, i + 1)
    <3>1. a \in SignalSet /\ b \in SlotSet /\ i \in Nat /\ a[1] = o
      BY <2>5, <2>6, <2>9
    <3> HIDE DEF Good
    <3> QED BY <2>7, <2>8, <2>10, <3>1, OneMoreWalked
  <2> QED BY <2>1, <2>3, <2>10, <2>11
<1>7. 0..n \subseteq Good
  <2> HIDE DEF Good
  <2> QED BY <1>5, <1>6, UpTo
<1>8. n \in 0..n
  OBVIOUS
<1>9. Walked(e.up, f.up, o, q, n)
  BY <1>3, <1>7, <1>8
<1>10. f \in S
  BY <1>2, <1>3, <1>8
<1> QED BY <1>9, <1>10 DEF S

(* The replaced objects, one after the other.                              *)
RelinkedStays(S, q, n) == \A s \in S, i \in 1..n : Relinked(s, q[i]) \in S
RelinkedWalk(w, base, q, n) ==
  /\ w[0] = base /\ \A k \in 1..n : w[k] = Relinked(w[k - 1], q[k])
  /\ FoldLeft(Relinked, base, q) = w[n]

LEMMA RelinkedsRun ==
  ASSUME NEW n \in Nat, NEW q, DOMAIN q = 1..n, NEW S, NEW base \in S, RelinkedStays(S, q, n)
  PROVE  \E w : RelinkedWalk(w, base, q, n) /\ \A k \in 0..n : w[k] \in S
<1> DEFINE step == [p \in S \X (1..n) |-> Relinked(p[1], q[p[2]])]
           Eq(f) == f = [s \in SUBSET (1..n) |-> IF s = {} THEN base
                                                ELSE Relinked(f[s \ {Max(s)}], q[Max(s)])]
           iter == CHOOSE f : Eq(f)
           w == [k \in 0..n |-> iter[1..k]]
<1>1. FoldLeft(Relinked, base, q) = iter[1..n]
  BY DEF FoldLeft, MapThenFoldSet
<1>2. step \in [S \X (1..n) -> S]
  BY DEF RelinkedStays
<1>3. PICK f : Folds(f, n, S, base, step)
  BY <1>2, FoldExists
<1>4. Eq(f)
  <2>1. /\ f \in [SUBSET (1..n) -> S]
        /\ \A s \in SUBSET (1..n) : f[s] = IF s = {} THEN base ELSE step[<<f[s \ {Max(s)}], Max(s)>>]
    BY <1>3 DEF Folds
  <2>2. ASSUME NEW s \in SUBSET (1..n), s # {}
        PROVE  f[s] = Relinked(f[s \ {Max(s)}], q[Max(s)])
    <3>1. Max(s) \in 1..n /\ s \ {Max(s)} \in SUBSET (1..n)
      BY <2>2, MaxIn
    <3>2. <<f[s \ {Max(s)}], Max(s)>> \in S \X (1..n)
      BY <2>1, <3>1
    <3> QED BY <2>1, <2>2, <3>2
  <2> QED BY <2>1, <2>2
<1> HIDE DEF step
<1>5. Eq(iter)
  BY <1>4
<1> HIDE DEF iter
<1>6. w[0] = base
  <2>1. 1..0 = {} /\ 0 \in 0..n /\ {} \in SUBSET (1..n)
    OBVIOUS
  <2> QED BY <1>5, <2>1
<1>7. ASSUME NEW k \in 1..n PROVE w[k] = Relinked(w[k - 1], q[k])
  <2>1. Max(1..k) = k /\ (1..k) \ {k} = 1..k - 1 /\ 1..k \in SUBSET (1..n) /\ 1..k # {}
    BY MaxOfPrefix
  <2>2. k \in 0..n /\ k - 1 \in 0..n
    OBVIOUS
  <2> QED BY <1>5, <2>1, <2>2
<1>8. w[n] = iter[1..n]
  OBVIOUS
<1> HIDE DEF w
<1>9. RelinkedWalk(w, base, q, n)
  BY <1>1, <1>6, <1>7, <1>8 DEF RelinkedWalk
<1> DEFINE Good == {k \in 0..n : w[k] \in S}
<1>10. 0 \in Good
  BY <1>6
<1>11. ASSUME NEW k \in 1..n, k - 1 \in Good PROVE k \in Good
  BY <1>7, <1>11 DEF RelinkedStays
<1>12. 0..n \subseteq Good
  <2> HIDE DEF Good
  <2> QED BY <1>10, <1>11, UpTo
<1> QED BY <1>9, <1>12

(* What objects record: their own signals, and slots of the same signature. *)
Recorded(rs) ==
  /\ rs \in [Objects -> Seq(SignalSet \X SlotSet)]
  /\ \A o \in Objects : \A i \in DOMAIN rs[o] : rs[o][i] \in Pairs /\ rs[o][i][1][1] = o
Places(rs, s, k) == PlacesTo(rs[s[1]], Len(rs[s[1]]), s, k)

(* What the replaced objects of a list have of the links that they had in u. *)
LinksRestored(u, v, q, i) ==
  /\ \A s \in SignalSet, k \in SlotSet :
       (\A x \in 1..i : q[x] # s[1]) => Between(v, s, k) = Between(u, s, k)
  /\ \A s \in SignalSet, k \in SlotSet : (\E x \in 1..i : q[x] = s[1]) =>
       /\ Cardinality(RecordedBetween(v, s, k)) <= Cardinality(Places(records, s, k))
       /\ IsVoid(s) /\ Alive(k) => Cardinality(Between(v, s, k)) >= Cardinality(Places(records, s, k))

LEMMA AllRelinked ==
  ASSUME WireAssumption, Recorded(records), NEW j, NEW e \in WireStates(j, present),
         NEW n \in Nat, NEW q \in [1..n -> Objects], \A i, x \in 1..n : q[i] = q[x] => i = x,
         \A i \in 1..n : \A s \in SignalSet, k \in SlotSet : s[1] = q[i] => Between(e.up, s, k) = {},
         NEW f, f = FoldLeft(Relinked, e, q)
  PROVE  f \in WireStates(j, present) /\ LinksRestored(e.up, f.up, q, n)
<1> DEFINE S == WireStates(j, present)
<1>1. ASSUME NEW v \in S, NEW i \in 1..n, NEW x, x = Relinked(v, q[i])
      PROVE  x \in S /\ Walked(v.up, x.up, q[i], records[q[i]], Len(records[q[i]]))
  <2>1. PICK o \in Objects : o = q[i]
    OBVIOUS
  <2>2. PICK r : r = records[o]
    OBVIOUS
  <2>3. r \in Seq(SignalSet \X SlotSet)
    BY <2>2 DEF Recorded
  <2>4. DOMAIN r = 1..Len(r) /\ Len(r) \in Nat
    BY <2>3, LenProperties
  <2>5. \A k \in 1..Len(r) : r[k] \in Pairs /\ r[k][1][1] = o
    BY <2>2, <2>4 DEF Recorded
  <2>6. x \in S /\ Walked(v.up, x.up, o, r, Len(r))
    <3>1. PICK m \in Nat : m = Len(r)
      BY <2>4
    <3>2. x = Relinked(v, o)
      BY <1>1, <2>1
    <3> QED BY <2>2, <2>4, <2>5, <3>1, <3>2, RelinkedCounts
  <2> QED BY <2>1, <2>2, <2>6
<1>2. RelinkedStays(S, q, n)
  BY <1>1 DEF RelinkedStays
<1>3. DOMAIN q = 1..n
  OBVIOUS
<1> HIDE DEF S
<1>4. PICK w : RelinkedWalk(w, e, q, n) /\ \A k \in 0..n : w[k] \in S
  BY <1>2, <1>3, RelinkedsRun DEF S
<1>5. w[0] = e /\ (\A k \in 1..n : w[k] = Relinked(w[k - 1], q[k])) /\ f = w[n]
  BY <1>4 DEF RelinkedWalk
<1> DEFINE Good == {k \in 0..n : LinksRestored(e.up, w[k].up, q, k)}
<1>6. 0 \in Good
  <2>1. 1..0 = {}
    OBVIOUS
  <2>2. LinksRestored(e.up, e.up, q, 0)
    BY <2>1 DEF LinksRestored
  <2> QED BY <1>5, <2>2
<1>7. ASSUME NEW i \in 1..n, i - 1 \in Good PROVE i \in Good
  <2>1. i - 1 \in 0..n /\ i \in 0..n /\ 1..i = (1..(i - 1)) \cup {i} /\ \A x \in 1..(i - 1) : x \in 1..n /\ x # i
    OBVIOUS
  <2>2. PICK v : v = w[i - 1]
    OBVIOUS
  <2>3. PICK x : x = w[i]
    OBVIOUS
  <2>4. PICK o \in Objects : o = q[i]
    OBVIOUS
  <2>5. LinksRestored(e.up, v.up, q, i - 1) /\ v \in S /\ x \in S /\ x = Relinked(v, o)
    BY <1>4, <1>5, <1>7, <2>1, <2>2, <2>3, <2>4
  <2>6. Walked(v.up, x.up, o, records[o], Len(records[o]))
    BY <1>1, <2>4, <2>5
  <2>7. \A y \in 1..(i - 1) : q[y] # o
    BY <2>1, <2>4
  <2>8. ASSUME NEW s \in SignalSet, NEW k \in SlotSet, \A y \in 1..i : q[y] # s[1]
        PROVE  Between(x.up, s, k) = Between(e.up, s, k)
    <3>1. s[1] # o /\ \A y \in 1..(i - 1) : q[y] # s[1]
      BY <2>1, <2>4, <2>8
    <3>2. Between(x.up, s, k) = Between(v.up, s, k)
      BY <2>6, <3>1 DEF Walked
    <3> QED BY <2>5, <3>1, <3>2 DEF LinksRestored
  <2>9. ASSUME NEW s \in SignalSet, NEW k \in SlotSet, \E y \in 1..i : q[y] = s[1]
        PROVE  /\ Cardinality(RecordedBetween(x.up, s, k)) <= Cardinality(Places(records, s, k))
               /\ IsVoid(s) /\ Alive(k) => Cardinality(Between(x.up, s, k)) >= Cardinality(Places(records, s, k))
    <3>1. CASE s[1] = o
      <4>1. Between(v.up, s, k) = {}
        <5>1. Between(v.up, s, k) = Between(e.up, s, k)
          BY <2>5, <2>7, <3>1 DEF LinksRestored
        <5> QED BY <2>4, <3>1, <5>1
      <4>2. Cardinality(RecordedBetween(v.up, s, k)) = 0
        <5>1. RecordedBetween(v.up, s, k) = {}
          BY <4>1 DEF Between, RecordedBetween
        <5> QED BY <5>1, FS_EmptySet
      <4>3. Places(records, s, k) = PlacesTo(records[o], Len(records[o]), s, k)
        BY <3>1 DEF Places
      <4>4. Cardinality(Places(records, s, k)) \in Nat
        <5>1. records[o] \in Seq(SignalSet \X SlotSet)
          BY DEF Recorded
        <5>2. Len(records[o]) \in Nat
          BY <5>1, LenProperties
        <5>3. PICK m \in Nat : m = Len(records[o])
          BY <5>2
        <5>4. Cardinality(PlacesTo(records[o], m, s, k)) \in Nat
          BY PlacesGrow
        <5> QED BY <4>3, <5>3, <5>4
      <4>5. /\ Cardinality(RecordedBetween(x.up, s, k))
                 <= Cardinality(RecordedBetween(v.up, s, k)) + Cardinality(Places(records, s, k))
            /\ IsVoid(s) /\ Alive(k) => Cardinality(Between(x.up, s, k)) >= Cardinality(Places(records, s, k))
        BY <2>6, <4>3 DEF Walked
      <4> QED BY <4>2, <4>4, <4>5
    <3>2. CASE s[1] # o
      <4>1. \E y \in 1..(i - 1) : q[y] = s[1]
        BY <2>1, <2>4, <2>9, <3>2
      <4>2. Between(x.up, s, k) = Between(v.up, s, k)
        BY <2>6, <3>2 DEF Walked
      <4>3. RecordedBetween(x.up, s, k) = RecordedBetween(v.up, s, k)
        <5>1. \A l : l \in RecordedBetween(x.up, s, k) <=> l \in Between(x.up, s, k) /\ l[4]
          BY DEF RecordedBetween, Between
        <5>2. \A l : l \in RecordedBetween(v.up, s, k) <=> l \in Between(v.up, s, k) /\ l[4]
          BY DEF RecordedBetween, Between
        <5> QED BY <4>2, <5>1, <5>2
      <4> QED BY <2>5, <4>1, <4>2, <4>3 DEF LinksRestored
    <3> QED BY <3>1, <3>2
  <2>10. LinksRestored(e.up, x.up, q, i)
    BY <2>8, <2>9 DEF LinksRestored
  <2> QED BY <2>1, <2>3, <2>10
<1>8. 0..n \subseteq Good
  <2> HIDE DEF Good
  <2> QED BY <1>6, <1>7, UpTo
<1>9. n \in 0..n
  OBVIOUS
<1>10. LinksRestored(e.up, f.up, q, n)
  BY <1>5, <1>8, <1>9
<1>11. f \in S
  BY <1>4, <1>5, <1>9
<1> QED BY <1>10, <1>11 DEF S

(* More objects are there than the relays need. *)
LEMMA MoreAreWired ==
  ASSUME NEW n, NEW u, NEW j, NEW here, NEW there, Wired(n, u, j, here), here \subseteq there
  PROVE  Wired(n, u, j, there)
<1>1. Kept(n, there)
  <2>1. ASSUME NEW r \in Relays(n.made), NEW k \in n.hold[r]
        PROVE  /\ k[1] \in there /\ Contains(n.keep[k], r)
               /\ ~IsVoid(k) => n.hold[r] = {k}
               /\ r \in Keys => r = Key(k)
    BY HoldsAre
  <2> QED BY <2>1 DEF Kept
<1> QED BY <1>1 DEF Wired

(* The links after a recompile: those of other signals are the ones that   *)
(* the recompile spared, those of the replaced objects are what they       *)
(* recorded.                                                               *)
Rewired(objs, v) ==
  /\ \A s \in SignalSet, k \in SlotSet : s[1] \notin objs => Between(v, s, k) = Between(Spared(up, objs), s, k)
  /\ \A s \in SignalSet, k \in SlotSet : s[1] \in objs =>
       /\ Cardinality(RecordedBetween(v, s, k)) <= Cardinality(Places(records, s, k))
       /\ IsVoid(s) /\ Alive(k) => Cardinality(Between(v, s, k)) >= Cardinality(Places(records, s, k))

LEMMA RewiredIs ==
  ASSUME WireAssumption, Recorded(records), Wired(net, up, joined, present), present \subseteq Objects,
         NEW objs, objs \subseteq present, NEW f,
         f = FoldLeft(Relinked, [net |-> Without(net, objs), up |-> Untouched(objs)], SetToSeq(objs))
  PROVE  Wired(f.net, f.up, StillJoined(objs), present) /\ Rewired(objs, f.up)
<1>1. PICK v : v = Spared(up, objs)
  OBVIOUS
<1>2. PICK i : i = StillJoined(objs)
  OBVIOUS
<1>3. PICK n : n = Without(net, objs)
  OBVIOUS
<1>4. Untouched(objs) = v
  BY <1>1 DEF Untouched, Spared
<1>5. Wired(n, v, i, present)
  <2>1. i = Remaining(joined, objs)
    BY <1>2 DEF StillJoined, Remaining
  <2>2. Wired(Without(net, objs), v, i, present \ objs)
    BY <1>1, <2>1, WithoutIsWired
  <2>3. PICK here : here = present \ objs
    OBVIOUS
  <2>4. Wired(n, v, i, here) /\ here \subseteq present
    BY <1>3, <2>2, <2>3
  <2> QED BY <2>4, MoreAreWired
<1>6. PICK e : e = [net |-> n, up |-> v]
  OBVIOUS
<1>7. e \in WireStates(i, present) /\ e.up = v
  BY <1>5, <1>6, InWireStates
<1>8. IsFiniteSet(objs)
  BY ObjectsFinite, FS_Subset
<1>9. PICK q : q = SetToSeq(objs)
  OBVIOUS
<1>10. PICK m : m = Cardinality(objs)
  OBVIOUS
<1>11. /\ m \in Nat /\ q \in [1..m -> objs]
       /\ \A y, x \in 1..m : q[y] = q[x] => y = x
       /\ \A x \in objs : \E y \in 1..m : q[y] = x
  BY <1>8, <1>9, <1>10, ListIs
<1>12. q \in [1..m -> Objects]
  BY <1>11
<1>13. ASSUME NEW y \in 1..m, NEW s \in SignalSet, NEW k \in SlotSet, s[1] = q[y]
       PROVE  Between(e.up, s, k) = {}
  <2>1. s[1] \in objs
    BY <1>11, <1>13
  <2> QED BY <1>1, <1>7, <2>1 DEF Between, Spared
<1>14. f = FoldLeft(Relinked, e, q)
  BY <1>3, <1>4, <1>6, <1>9
<1>15. f \in WireStates(i, present) /\ LinksRestored(e.up, f.up, q, m)
  BY <1>7, <1>11, <1>12, <1>13, <1>14, AllRelinked
<1>16. Wired(f.net, f.up, i, present)
  BY <1>15 DEF WireStates
<1>17. \A x : x \in objs <=> \E y \in 1..m : q[y] = x
  BY <1>11
<1>18. Rewired(objs, f.up)
  BY <1>1, <1>7, <1>15, <1>17 DEF LinksRestored, Rewired
<1> QED BY <1>2, <1>16, <1>18

(* Every link that is recorded has a record. *)
LinksWritten(rs, u) ==
  /\ Recorded(rs)
  /\ \A s \in SignalSet, k \in SlotSet :
       Cardinality(RecordedBetween(u, s, k)) <= Cardinality(Places(rs, s, k))

LEMMA PlacesFinite ==
  ASSUME NEW rs, Recorded(rs), NEW o \in Objects
  PROVE  /\ rs[o] \in Seq(SignalSet \X SlotSet) /\ Len(rs[o]) \in Nat /\ DOMAIN rs[o] = 1..Len(rs[o])
         /\ \A s \in SignalSet, k \in SlotSet : s[1] = o => Cardinality(Places(rs, s, k)) \in Nat
<1>1. rs[o] \in Seq(SignalSet \X SlotSet)
  BY DEF Recorded
<1>2. PICK m : m = Len(rs[o])
  OBVIOUS
<1>3. m \in Nat /\ DOMAIN rs[o] = 1..m
  BY <1>1, <1>2, LenProperties
<1>4. ASSUME NEW s \in SignalSet, NEW k \in SlotSet, s[1] = o PROVE Cardinality(Places(rs, s, k)) \in Nat
  <2>1. Cardinality(PlacesTo(rs[o], m, s, k)) \in Nat
    BY <1>3, PlacesGrow
  <2> QED BY <1>2, <1>4, <2>1 DEF Places
<1> QED BY <1>1, <1>2, <1>3, <1>4

LEMMA FewerWritten ==
  ASSUME NEW rs, NEW u, IsFiniteSet(u), LinksWritten(rs, u), NEW v, v \subseteq u
  PROVE  LinksWritten(rs, v)
<1>1. ASSUME NEW s \in SignalSet, NEW k \in SlotSet
      PROVE  Cardinality(RecordedBetween(v, s, k)) <= Cardinality(Places(rs, s, k))
  <2>1. PICK a : a = RecordedBetween(v, s, k)
    OBVIOUS
  <2>2. PICK b : b = RecordedBetween(u, s, k)
    OBVIOUS
  <2>3. a \subseteq b
    BY <2>1, <2>2 DEF RecordedBetween
  <2>4. IsFiniteSet(b) /\ Cardinality(b) \in Nat
    BY <2>2, BetweenFinite
  <2>5. Cardinality(a) <= Cardinality(b) /\ Cardinality(a) \in Nat
    BY <2>3, <2>4, FS_Subset, FS_CardinalityType
  <2>6. Cardinality(b) <= Cardinality(Places(rs, s, k))
    BY <2>2 DEF LinksWritten
  <2>7. Cardinality(Places(rs, s, k)) \in Nat
    <3>1. s[1] \in Objects /\ Recorded(rs)
      BY DEF Objects, LinksWritten
    <3> QED BY <3>1, PlacesFinite
  <2> QED BY <2>1, <2>4, <2>5, <2>6, <2>7
<1> QED BY <1>1 DEF LinksWritten

(* One more record, for a link that is recorded. *)
LEMMA OneMoreWritten ==
  ASSUME NEW rs, NEW u, NEW v, IsFiniteSet(u), IsFiniteSet(v), LinksWritten(rs, u),
         NEW s \in SignalSet, NEW k \in SlotSet, s[3] = k[3], Grew(u, v, s, k, TRUE),
         NEW ts, ts = AddConnection(rs, s, k)
  PROVE  LinksWritten(ts, v)
<1>1. PICK o \in Objects : o = s[1]
  BY DEF Objects
<1>2. PICK r : r = rs[o]
  OBVIOUS
<1>3. Recorded(rs) /\ rs \in [Objects -> Seq(SignalSet \X SlotSet)]
  BY DEF LinksWritten, Recorded
<1>4. r \in Seq(SignalSet \X SlotSet) /\ Len(r) \in Nat /\ DOMAIN r = 1..Len(r)
  BY <1>2, <1>3, PlacesFinite
<1>5. PICK m \in Nat : m = Len(r)
  BY <1>4
<1>6. PICK a : a = Append(r, <<s, k>>)
  OBVIOUS
<1>7. /\ a \in Seq(SignalSet \X SlotSet) /\ Len(a) = m + 1 /\ DOMAIN a = 1..(m + 1)
      /\ (\A i \in 1..m : a[i] = r[i]) /\ a[m + 1] = <<s, k>>
  <2>1. <<s, k>> \in SignalSet \X SlotSet
    OBVIOUS
  <2> QED BY <1>4, <1>5, <1>6, <2>1, AppendProperties, LenProperties
<1>8. ts \in [Objects -> Seq(SignalSet \X SlotSet)] /\ ts[o] = a /\ \A x \in Objects : x # o => ts[x] = rs[x]
  BY <1>1, <1>2, <1>3, <1>6, <1>7 DEF AddConnection
<1>9. Recorded(ts)
  <2>1. ASSUME NEW x \in Objects, NEW i \in DOMAIN ts[x] PROVE ts[x][i] \in Pairs /\ ts[x][i][1][1] = x
    <3>1. CASE x # o
      BY <1>3, <1>8, <3>1 DEF Recorded
    <3>2. CASE x = o /\ i \in 1..m
      BY <1>2, <1>3, <1>4, <1>5, <1>7, <1>8, <3>2 DEF Recorded
    <3>3. CASE x = o /\ i = m + 1
      <4>1. <<s, k>> \in Pairs /\ <<s, k>>[1][1] = o
        BY <1>1 DEF Pairs
      <4> QED BY <1>7, <1>8, <3>3, <4>1
    <3>4. x = o => i \in 1..m \/ i = m + 1
      BY <1>5, <1>7, <1>8
    <3> QED BY <3>1, <3>2, <3>3, <3>4
  <2> QED BY <1>8, <2>1 DEF Recorded
<1>10. ASSUME NEW q \in SignalSet, NEW p \in SlotSet
       PROVE  Cardinality(RecordedBetween(v, q, p)) <= Cardinality(Places(ts, q, p))
  <2>1. q[1] \in Objects
    BY DEF Objects
  <2>2. Cardinality(RecordedBetween(u, q, p)) <= Cardinality(Places(rs, q, p))
    BY DEF LinksWritten
  <2>3. Cardinality(Places(rs, q, p)) \in Nat
    BY <1>3, <2>1, PlacesFinite
  <2>4. Cardinality(RecordedBetween(u, q, p)) \in Nat /\ Cardinality(RecordedBetween(v, q, p)) \in Nat
    BY BetweenFinite
  <2>5. q # s => RecordedBetween(v, q, p) = RecordedBetween(u, q, p)
    <3>1. q # s => Between(v, q, p) = Between(u, q, p)
      BY DEF Grew
    <3>2. \A l : l \in RecordedBetween(v, q, p) <=> l \in Between(v, q, p) /\ l[4]
      BY DEF RecordedBetween, Between
    <3>3. \A l : l \in RecordedBetween(u, q, p) <=> l \in Between(u, q, p) /\ l[4]
      BY DEF RecordedBetween, Between
    <3> QED BY <3>1, <3>2, <3>3
  <2>6. PICK d \in {0, 1} : d = IF q = s /\ p = k THEN 1 ELSE 0
    OBVIOUS
  <2>7. Cardinality(RecordedBetween(v, q, p)) <= Cardinality(RecordedBetween(u, q, p)) + d
    <3>1. CASE q = s
      BY <2>6, <3>1 DEF Grew
    <3>2. CASE q # s
      BY <2>4, <2>5, <2>6, <3>2
    <3> QED BY <3>1, <3>2
  <2>8. Cardinality(Places(ts, q, p)) = Cardinality(Places(rs, q, p)) + d
    <3>1. CASE q[1] # o
      <4>1. Places(ts, q, p) = Places(rs, q, p) /\ d = 0
        BY <1>1, <1>8, <2>1, <2>6, <3>1 DEF Places
      <4> QED BY <2>3, <4>1
    <3>2. CASE q[1] = o
      <4>1. Places(rs, q, p) = PlacesTo(r, m, q, p) /\ Places(ts, q, p) = PlacesTo(a, m + 1, q, p)
        BY <1>2, <1>5, <1>7, <1>8, <3>2 DEF Places
      <4>2. PlacesTo(a, m, q, p) = PlacesTo(r, m, q, p)
        BY <1>7 DEF PlacesTo
      <4>3. Cardinality(PlacesTo(a, m + 1, q, p))
              = Cardinality(PlacesTo(a, m, q, p)) + (IF a[m + 1] = <<q, p>> THEN 1 ELSE 0)
        BY PlacesGrow
      <4>4. d = IF a[m + 1] = <<q, p>> THEN 1 ELSE 0
        BY <1>7, <2>6
      <4> QED BY <4>1, <4>2, <4>3, <4>4
    <3> QED BY <3>1, <3>2
  <2> QED BY <2>2, <2>3, <2>4, <2>6, <2>7, <2>8
<1> QED BY <1>9, <1>10 DEF LinksWritten

(* A link that nothing records. *)
LEMMA UnrecordedWritten ==
  ASSUME NEW rs, NEW u, NEW v, IsFiniteSet(u), IsFiniteSet(v), LinksWritten(rs, u),
         NEW s \in SignalSet, NEW k \in SlotSet, NEW t, ~t, Grew(u, v, s, k, t)
  PROVE  LinksWritten(rs, v)
<1>1. ASSUME NEW q \in SignalSet, NEW p \in SlotSet
      PROVE  Cardinality(RecordedBetween(v, q, p)) <= Cardinality(Places(rs, q, p))
  <2>1. Cardinality(RecordedBetween(u, q, p)) <= Cardinality(Places(rs, q, p))
    BY DEF LinksWritten
  <2>2. Cardinality(Places(rs, q, p)) \in Nat
    <3>1. q[1] \in Objects /\ Recorded(rs)
      BY DEF Objects, LinksWritten
    <3> QED BY <3>1, PlacesFinite
  <2>3. Cardinality(RecordedBetween(u, q, p)) \in Nat /\ Cardinality(RecordedBetween(v, q, p)) \in Nat
    BY BetweenFinite
  <2>4. CASE q = s
    <3>1. Cardinality(RecordedBetween(v, s, p)) <= Cardinality(RecordedBetween(u, s, p)) + 0
      BY DEF Grew
    <3> QED BY <2>1, <2>2, <2>3, <2>4, <3>1
  <2>5. CASE q # s
    <3>1. Between(v, q, p) = Between(u, q, p)
      BY <2>5 DEF Grew
    <3>2. \A l : l \in RecordedBetween(v, q, p) <=> l \in Between(v, q, p) /\ l[4]
      BY DEF RecordedBetween, Between
    <3>3. \A l : l \in RecordedBetween(u, q, p) <=> l \in Between(u, q, p) /\ l[4]
      BY DEF RecordedBetween, Between
    <3>4. RecordedBetween(v, q, p) = RecordedBetween(u, q, p)
      BY <3>1, <3>2, <3>3
    <3> QED BY <2>1, <3>4
  <2> QED BY <2>4, <2>5
<1> QED BY <1>1 DEF LinksWritten

(* Objects are gone, and their records with them.                           *)
LEMMA SparedWritten ==
  ASSUME NEW rs, NEW u, IsFiniteSet(u), LinksWritten(rs, u), NEW objs,
         NEW v, v = Spared(u, objs),
         NEW ts, \A o \in Objects : o \notin objs => ts[o] = rs[o], \A o \in Objects : o \in objs => ts[o] = <<>>,
         ts \in [Objects -> Seq(SignalSet \X SlotSet)]
  PROVE  LinksWritten(ts, v)
<1>1. Recorded(ts)
  <2>1. ASSUME NEW o \in Objects, NEW i \in DOMAIN ts[o]
        PROVE  ts[o][i] \in Pairs /\ ts[o][i][1][1] = o
    <3>1. ts[o] # <<>>
      OBVIOUS
    <3>2. ts[o] = rs[o]
      BY <3>1
    <3> QED BY <3>2 DEF LinksWritten, Recorded
  <2> QED BY <2>1 DEF Recorded
<1>2. LinksWritten(rs, v)
  <2>1. v \subseteq u
    BY DEF Spared
  <2> QED BY <2>1, FewerWritten
<1>3. ASSUME NEW s \in SignalSet, NEW k \in SlotSet
      PROVE  Cardinality(RecordedBetween(v, s, k)) <= Cardinality(Places(ts, s, k))
  <2>1. s[1] \in Objects
    BY DEF Objects
  <2>2. CASE s[1] \notin objs
    <3>1. Places(ts, s, k) = Places(rs, s, k)
      BY <2>1, <2>2 DEF Places
    <3> QED BY <1>2, <3>1 DEF LinksWritten
  <2>3. CASE s[1] \in objs
    <3>1. RecordedBetween(v, s, k) = {}
      BY <2>3 DEF RecordedBetween, Spared
    <3>2. Cardinality(RecordedBetween(v, s, k)) = 0
      BY <3>1, FS_EmptySet
    <3>3. Cardinality(Places(ts, s, k)) \in Nat
      BY <1>1, <2>1, PlacesFinite
    <3> QED BY <3>2, <3>3
  <2> QED BY <2>2, <2>3
<1> QED BY <1>1, <1>3 DEF LinksWritten

(* Objects were replaced, and their records were walked.                   *)
LEMMA RewiredWritten ==
  ASSUME NEW objs, NEW v, IsFiniteSet(up), IsFiniteSet(v), LinksWritten(records, up), Rewired(objs, v)
  PROVE  LinksWritten(records, v)
<1>1. LinksWritten(records, Spared(up, objs))
  <2>1. PICK w : w = Spared(up, objs)
    OBVIOUS
  <2>2. w \subseteq up
    BY <2>1 DEF Spared
  <2>3. LinksWritten(records, w)
    BY <2>2, FewerWritten
  <2> QED BY <2>1, <2>3
<1>2. ASSUME NEW s \in SignalSet, NEW k \in SlotSet
      PROVE  Cardinality(RecordedBetween(v, s, k)) <= Cardinality(Places(records, s, k))
  <2>1. CASE s[1] \in objs
    BY <2>1 DEF Rewired
  <2>2. CASE s[1] \notin objs
    <3>1. Between(v, s, k) = Between(Spared(up, objs), s, k)
      BY <2>2 DEF Rewired
    <3>2. \A l : l \in RecordedBetween(v, s, k) <=> l \in Between(v, s, k) /\ l[4]
      BY DEF RecordedBetween, Between
    <3>3. \A l : l \in RecordedBetween(Spared(up, objs), s, k) <=> l \in Between(Spared(up, objs), s, k) /\ l[4]
      BY DEF RecordedBetween, Between
    <3>4. RecordedBetween(v, s, k) = RecordedBetween(Spared(up, objs), s, k)
      BY <3>1, <3>2, <3>3
    <3> QED BY <1>1, <3>4 DEF LinksWritten
  <2> QED BY <2>1, <2>2
<1> QED BY <1>2 DEF LinksWritten

(* The inductive invariant: the relays, the slots, the links and the        *)
(* manager agree with each other, and every link that an object would have  *)
(* to rebuild is among its records.                                        *)
WireInv == present \subseteq Objects /\ Wired(net, up, joined, present) /\ LinksWritten(records, up)

LEMMA WireStarts == WireInit => WireInv
<1> SUFFICES ASSUME WireInit PROVE WireInv
  OBVIOUS
<1>1. /\ net = [hold |-> [y \in Keys |-> {}], keep |-> [k \in SlotSet |-> <<>>],
                out |-> [s \in SignalSet |-> <<>>], made |-> 0]
      /\ present = Objects /\ records = [o \in Objects |-> <<>>]
      /\ up = {} /\ joined = [signals |-> {}, slots |-> {}]
  BY DEF WireInit
<1>2. /\ net.hold = [y \in Keys |-> {}] /\ net.keep = [k \in SlotSet |-> <<>>]
      /\ net.out = [s \in SignalSet |-> <<>>] /\ net.made = 0 /\ joined.signals = {} /\ joined.slots = {}
      /\ net = [hold |-> net.hold, keep |-> net.keep, out |-> net.out, made |-> net.made]
      /\ joined = [signals |-> joined.signals, slots |-> joined.slots]
  BY <1>1
<1>3. 1..0 = {}
  OBVIOUS
<1>4. Relays(net.made) = Keys /\ OwnRelays(net.made) = {} /\ \A e \in SignalSet \cup SlotSet : Key(e) \in Keys
  BY <1>2, <1>3 DEF Relays, OwnRelays, Keys
<1>5. /\ \A X : <<>> \in Seq(X)
      /\ \A x : ~Contains(<<>>, x)
      /\ \A s : Orderly(<<>>, s)
  BY EmptyHas
<1>6. Kept(net, present)
  BY <1>2, <1>4 DEF Kept
<1>7. Managed(net, joined)
  BY <1>2, <1>4, <1>5 DEF Managed
<1>8. LinksKnown(net, up)
  BY <1>1, <1>2, <1>4, FS_EmptySet DEF LinksKnown
<1>9. Wired(net, up, joined, present)
  <2>1. /\ net.hold \in [Relays(net.made) -> SUBSET SlotSet]
        /\ net.keep \in [SlotSet -> Seq(Relays(net.made))]
        /\ net.out \in [SignalSet -> Seq(Relays(net.made))]
        /\ \A s \in SignalSet : Orderly(net.out[s], s)
    BY <1>2, <1>4, <1>5
  <2>2. net.made \in Nat
    BY <1>2
  <2>3. net = [hold |-> net.hold, keep |-> net.keep, out |-> net.out, made |-> net.made]
    BY <1>2
  <2> QED BY <1>6, <1>7, <1>8, <2>1, <2>2, <2>3 DEF Wired, Shaped
<1>10. LinksWritten(records, up)
  <2>1. Recorded(records)
    BY <1>1, <1>5 DEF Recorded
  <2>2. ASSUME NEW s \in SignalSet, NEW k \in SlotSet
        PROVE  Cardinality(RecordedBetween(up, s, k)) <= Cardinality(Places(records, s, k))
    <3>1. RecordedBetween(up, s, k) = {}
      BY <1>1 DEF RecordedBetween
    <3>2. Cardinality(RecordedBetween(up, s, k)) = 0
      BY <3>1, FS_EmptySet
    <3>3. s[1] \in Objects
      BY DEF Objects
    <3>4. Cardinality(Places(records, s, k)) \in Nat
      BY <2>1, <3>3, PlacesFinite
    <3> QED BY <3>2, <3>4
  <2> QED BY <2>1, <2>2 DEF LinksWritten
<1> QED BY <1>1, <1>9, <1>10 DEF WireInv

LEMMA PairConnects ==
  ASSUME WireInv, NEW s \in SignalSet, NEW k \in SlotSet, ConnectPair(s, k)
  PROVE  WireInv'
<1>1. Wired(net, up, joined, present) /\ LinksWritten(records, up) /\ present \subseteq Objects
  BY DEF WireInv
<1>2. PICK t \in BOOLEAN : t = TRUE
  OBVIOUS
<1>3. PICK e : e = [net |-> net, up |-> up]
  OBVIOUS
<1>4. PICK f : f = Linked(e, s, k, t)
  OBVIOUS
<1>5. /\ k[1] \in present /\ s[3] = k[3] /\ net' = f.net /\ up' = f.up
      /\ present' = present /\ joined' = joined /\ records' = AddConnection(records, s, k)
  BY <1>2, <1>3, <1>4 DEF ConnectPair, Alive, Matching, SlotFor, Become, Links
<1>6. /\ Wired(f.net, f.up, joined, present)
      /\ f.up = {l \in up : IsVoid(s) \/ l[2] # s} \cup {<<OwnRelay(net.made + 1), s, k, t>>}
  BY <1>1, <1>3, <1>4, <1>5, LinkedIsWired
<1>7. IsFiniteSet(up) /\ IsFiniteSet(f.up)
  BY <1>1, <1>6, LinksAre
<1>8. Grew(up, f.up, s, k, t)
  BY <1>1, <1>6, LinkedGrows
<1>9. LinksWritten(records', f.up)
  BY <1>1, <1>2, <1>5, <1>7, <1>8, OneMoreWritten
<1> QED BY <1>1, <1>5, <1>6, <1>9 DEF WireInv

LEMMA BareConnects ==
  ASSUME WireInv, NEW s \in SignalSet, NEW k \in SlotSet, ConnectBare(s, k)
  PROVE  WireInv'
<1>1. Wired(net, up, joined, present) /\ LinksWritten(records, up) /\ present \subseteq Objects
  BY DEF WireInv
<1>2. PICK t \in BOOLEAN : t = FALSE
  OBVIOUS
<1>3. PICK e : e = [net |-> net, up |-> up]
  OBVIOUS
<1>4. PICK f : f = Linked(e, s, k, t)
  OBVIOUS
<1>5. /\ k[1] \in present /\ s[3] = k[3] /\ net' = f.net /\ up' = f.up
      /\ present' = present /\ joined' = joined /\ records' = records
  BY <1>2, <1>3, <1>4 DEF ConnectBare, Alive, SignalFor, Become, Links
<1>6. /\ Wired(f.net, f.up, joined, present)
      /\ f.up = {l \in up : IsVoid(s) \/ l[2] # s} \cup {<<OwnRelay(net.made + 1), s, k, t>>}
  BY <1>1, <1>3, <1>4, <1>5, LinkedIsWired
<1>7. IsFiniteSet(up) /\ IsFiniteSet(f.up)
  BY <1>1, <1>6, LinksAre
<1>8. Grew(up, f.up, s, k, t)
  BY <1>1, <1>6, LinkedGrows
<1>9. ~t
  BY <1>2
<1>10. LinksWritten(records, f.up)
  BY <1>1, <1>7, <1>8, <1>9, UnrecordedWritten
<1> QED BY <1>1, <1>5, <1>6, <1>10 DEF WireInv

(* A step that makes no link and writes no record. *)
LEMMA WiredInv ==
  ASSUME WireInv, Wired(net', up', joined', present'), present' \subseteq present,
         up' \subseteq up, records' = records
  PROVE  WireInv'
<1>1. Wired(net, up, joined, present) /\ LinksWritten(records, up) /\ present \subseteq Objects
  BY DEF WireInv
<1>2. IsFiniteSet(up)
  BY <1>1, LinksAre
<1>3. LinksWritten(records, up')
  BY <1>1, <1>2, FewerWritten
<1> QED BY <1>1, <1>3 DEF WireInv

LEMMA ManagerConnects ==
  ASSUME WireInv, NEW slots, slots \subseteq SlotSet, NEW signals, signals \subseteq SignalSet,
         \A k \in slots : k[1] \in present,
         \A k, q \in slots : Key(k) = Key(q) => k = q,
         ManagerJoins(slots, signals)
  PROVE  WireInv'
<1>1. Wired(net, up, joined, present)
  BY DEF WireInv
<1>2. /\ net' = ManagerJoined(net, slots, signals)
      /\ joined' = [signals |-> joined.signals \cup signals, slots |-> joined.slots \cup slots]
      /\ up' = {l \in up : IsVoid(l[2]) \/ l[2] \notin signals}
      /\ present' = present /\ records' = records
  BY DEF ManagerJoins
<1>3. Wired(net', up', joined', present)
  BY <1>1, <1>2, JoinedIsWired
<1> QED BY <1>2, <1>3, WiredInv

LEMMA SlotCuts ==
  ASSUME WireInv, NEW k \in SlotSet, NEW r, CutSlot(k, r)
  PROVE  WireInv'
<1>1. Wired(net, up, joined, present)
  BY DEF WireInv
<1>2. /\ Contains(net.keep[k], r) /\ net' = Leave(net, k, r)
      /\ up' = {l \in up : l[1] # r \/ l[3] # k}
      /\ joined' = PartSlot(joined, k, r)
      /\ present' = present /\ records' = records
  BY DEF CutSlot, PartSlot
<1>3. r \in Relays(net.made)
  <2>1. net.keep[k] \in Seq(Relays(net.made))
    BY <1>1, WiredIs
  <2> QED BY <1>2, <2>1, ContainedIs
<1>4. Wired(net', up', joined', present)
  BY <1>1, <1>2, <1>3, LeftIsWired
<1> QED BY <1>2, <1>4, WiredInv

LEMMA SignalCuts ==
  ASSUME WireInv, NEW s \in SignalSet, NEW r, CutSignal(s, r)
  PROVE  WireInv'
<1>1. Wired(net, up, joined, present)
  BY DEF WireInv
<1>2. /\ Contains(net.out[s], r) /\ net' = LetsGo(net, s, r)
      /\ up' = {l \in up : l[1] # r}
      /\ joined' = PartSignal(joined, s, r)
      /\ present' = present /\ records' = records
  BY DEF CutSignal, LetsGo, PartSignal
<1>3. r \in Relays(net.made)
  <2>1. net.out[s] \in Seq(Relays(net.made))
    BY <1>1, WiredIs
  <2> QED BY <1>2, <2>1, ContainedIs
<1>4. Wired(net', up', joined', present)
  BY <1>1, <1>2, <1>3, DetachedIsWired
<1> QED BY <1>2, <1>4, WiredInv

LEMMA NameCuts ==
  ASSUME WireInv, NEW o, NEW n, DisconnectByName(o, n)
  PROVE  WireInv'
<1>1. Wired(net, up, joined, present)
  BY DEF WireInv
<1>2. PICK signals : signals = SignalsNamed(o, n)
  OBVIOUS
<1>3. /\ net' = LetGo(net, signals) /\ up' = {l \in up : l[2] \notin signals}
      /\ joined' = PartSignals(joined, signals)
      /\ present' = present /\ records' = records /\ signals \subseteq SignalSet
  BY <1>2 DEF DisconnectByName, SignalsNamed, PartSignals
<1>4. Wired(net', up', joined', present)
  BY <1>1, <1>3, LetGoIsWired
<1> QED BY <1>3, <1>4, WiredInv

LEMMA ObjectUnlinks ==
  ASSUME WireInv, NEW o \in Objects, Unlink(o)
  PROVE  WireInv'
<1>1. Wired(net, up, joined, present) /\ LinksWritten(records, up) /\ present \subseteq Objects
  BY DEF WireInv
<1>2. PICK objs : objs = {o}
  OBVIOUS
<1>3. /\ present' = present \ objs /\ net' = Without(net, objs) /\ records' = [records EXCEPT ![o] = <<>>]
      /\ up' = Spared(up, objs) /\ joined' = Remaining(joined, objs)
  BY <1>2 DEF Unlink, Untouched, StillJoined, Spared, Remaining
<1>4. Wired(net', up', joined', present')
  BY <1>1, <1>3, WithoutIsWired
<1>5. records \in [Objects -> Seq(SignalSet \X SlotSet)]
  BY <1>1 DEF LinksWritten, Recorded
<1>6. /\ records' \in [Objects -> Seq(SignalSet \X SlotSet)]
      /\ \A q \in Objects : q \notin objs => records'[q] = records[q]
      /\ \A q \in Objects : q \in objs => records'[q] = <<>>
  <2>1. <<>> \in Seq(SignalSet \X SlotSet)
    BY EmptyHas
  <2> QED BY <1>2, <1>3, <1>5, <2>1
<1>7. IsFiniteSet(up)
  BY <1>1, LinksAre
<1>8. LinksWritten(records', up')
  <2>1. PICK v : v = Spared(up, objs)
    OBVIOUS
  <2>2. PICK ts : ts = records'
    OBVIOUS
  <2>3. /\ ts \in [Objects -> Seq(SignalSet \X SlotSet)]
        /\ \A q \in Objects : q \notin objs => ts[q] = records[q]
        /\ \A q \in Objects : q \in objs => ts[q] = <<>>
    BY <1>6, <2>2
  <2>4. LinksWritten(ts, v)
    BY <1>1, <1>7, <2>1, <2>3, SparedWritten
  <2> QED BY <1>3, <2>1, <2>2, <2>4
<1> QED BY <1>1, <1>3, <1>4, <1>8 DEF WireInv

(* What a recompile makes of the relays and the links. *)
LEMMA RewireIs ==
  ASSUME WireAssumption, WireInv, NEW objs, Rewire(objs)
  PROVE  /\ objs \subseteq present /\ present' = present /\ records' = records /\ joined' = StillJoined(objs)
         /\ Wired(net', up', joined', present) /\ Rewired(objs, up')
<1>1. Wired(net, up, joined, present) /\ LinksWritten(records, up) /\ present \subseteq Objects
  BY DEF WireInv
<1>2. PICK f : f = FoldLeft(Relinked, [net |-> Without(net, objs), up |-> Untouched(objs)], SetToSeq(objs))
  OBVIOUS
<1>3. /\ objs \subseteq present /\ present' = present /\ records' = records /\ joined' = StillJoined(objs)
      /\ net' = f.net /\ up' = f.up
  BY <1>2 DEF Rewire, Become
<1>4. Recorded(records)
  BY <1>1 DEF LinksWritten
<1>5. Wired(f.net, f.up, StillJoined(objs), present) /\ Rewired(objs, f.up)
  BY <1>1, <1>2, <1>3, <1>4, RewiredIs
<1> QED BY <1>3, <1>5

LEMMA RewireKeepsInv ==
  ASSUME WireAssumption, WireInv, NEW objs, Rewire(objs)
  PROVE  WireInv'
<1>1. Wired(net, up, joined, present) /\ LinksWritten(records, up) /\ present \subseteq Objects
  BY DEF WireInv
<1>2. /\ present' = present /\ records' = records
      /\ Wired(net', up', joined', present) /\ Rewired(objs, up')
  BY RewireIs
<1>3. IsFiniteSet(up) /\ IsFiniteSet(up')
  BY <1>1, <1>2, LinksAre
<1>4. LinksWritten(records, up')
  BY <1>1, <1>2, <1>3, RewiredWritten
<1> QED BY <1>1, <1>2, <1>4 DEF WireInv

LEMMA WireSteps ==
  ASSUME WireAssumption, WireInv, WireNext
  PROVE  WireInv'
<1>1. ASSUME NEW s \in SignalSet, NEW k \in SlotSet, ConnectPair(s, k) \/ ConnectBare(s, k) \/ CutSignalFrom(s, k)
      PROVE  WireInv'
  BY <1>1, PairConnects, BareConnects, SignalCuts DEF CutSignalFrom
<1>2. ASSUME NEW k \in SlotSet, ConnectSlotToManager(k) \/ \E r \in DOMAIN net.hold : CutSlot(k, r)
      PROVE  WireInv'
  <2>1. CASE ConnectSlotToManager(k)
    <3>1. ManagerJoins({k}, {}) /\ k[1] \in present
      BY <2>1 DEF ConnectSlotToManager, Alive
    <3> QED BY <3>1, ManagerConnects
  <2> QED BY <1>2, <2>1, SlotCuts
<1>3. ASSUME NEW s \in SignalSet, ConnectSignalToManager(s) \/ \E r \in DOMAIN net.hold : CutSignal(s, r)
      PROVE  WireInv'
  <2>1. CASE ConnectSignalToManager(s)
    <3>1. ManagerJoins({}, {s})
      BY <2>1 DEF ConnectSignalToManager
    <3> QED BY <3>1, ManagerConnects
  <2> QED BY <1>3, <2>1, SignalCuts
<1>4. ASSUME NEW o \in Objects,
             SetupSignals(o) \/ Unlink(o) \/ \E n \in {y[1] : y \in Keys} : DisconnectByName(o, n)
      PROVE  WireInv'
  <2>1. CASE SetupSignals(o)
    <3>1. PICK slots : slots = SlotsOf(o)
      OBVIOUS
    <3>2. PICK signals : signals = SignalsOf(o)
      OBVIOUS
    <3>3. ManagerJoins(slots, signals) /\ o \in present
      BY <2>1, <3>1, <3>2 DEF SetupSignals
    <3>4. slots \subseteq SlotSet /\ signals \subseteq SignalSet /\ \A k \in slots : k[1] = o
      BY <3>1, <3>2 DEF SlotsOf, SignalsOf
    <3>5. ASSUME NEW k \in slots, NEW q \in slots, Key(k) = Key(q) PROVE k = q
      <4>1. k = <<k[1], k[2], k[3]>> /\ q = <<q[1], q[2], q[3]>>
        BY <3>4 DEF WireAssumption
      <4>2. k[1] = q[1] /\ k[2] = q[2] /\ k[3] = q[3]
        BY <3>4, <3>5 DEF Key
      <4> QED BY <4>1, <4>2
    <3> QED BY <3>3, <3>4, <3>5, ManagerConnects
  <2> QED BY <1>4, <2>1, ObjectUnlinks, NameCuts
<1>5. ASSUME NEW objs \in SUBSET Objects, Rewire(objs) PROVE WireInv'
  BY <1>5, RewireKeepsInv
<1> QED BY <1>1, <1>2, <1>3, <1>4, <1>5 DEF WireNext

LEMMA WireInvHolds == WireSpec => []WireInv
<1>1. WireInv /\ UNCHANGED wireVars => WireInv'
  BY DEF WireInv, wireVars
<1> QED BY <1>1, WireAssumption, WireStarts, WireSteps, PTL DEF WireSpec

LEMMA WiredLinksSound == WireInv => LinksSound
<1> SUFFICES ASSUME WireInv PROVE LinksSound
  OBVIOUS
<1>1. Wired(net, up, joined, present) /\ LinksWritten(records, up) /\ present \subseteq Objects
  BY DEF WireInv
<1>2. /\ net = [hold |-> net.hold, keep |-> net.keep, out |-> net.out, made |-> net.made]
      /\ net.made \in Nat /\ net.hold \in [Relays(net.made) -> SUBSET SlotSet]
      /\ net.keep \in [SlotSet -> Seq(Relays(net.made))]
      /\ net.out \in [SignalSet -> Seq(Relays(net.made))]
      /\ (\A s \in SignalSet : Orderly(net.out[s], s))
      /\ Relays(net.made) = Keys \cup OwnRelays(net.made) /\ (\A r \in OwnRelays(net.made) : r \notin Keys)
  BY <1>1, WiredIs
<1>3. /\ \A l \in up :
           /\ l \in OwnRelays(net.made) \X SignalSet \X SlotSet \X BOOLEAN
           /\ l[1] \in OwnRelays(net.made) /\ Contains(net.out[l[2]], l[1]) /\ net.hold[l[1]] = {l[3]}
      /\ \A q \in SignalSet : \A x \in OwnRelays(net.made) : \A p \in net.hold[x] :
           Contains(net.out[q], x) => \E l \in up : l[1] = x /\ l[2] = q /\ l[3] = p
  BY <1>1, LinksAre
<1>4. WireTypeOK
  <2>1. records \in [Objects -> Seq(SignalSet \X SlotSet)]
    BY <1>1 DEF LinksWritten, Recorded
  <2>2. \A l \in up : l \in Relays(net.made) \X SignalSet \X SlotSet \X BOOLEAN
    BY <1>2, <1>3
  <2> QED BY <1>2, <2>1, <2>2 DEF WireTypeOK
<1>5. RelaysForgetSlots
  <2>1. ASSUME NEW r \in DOMAIN net.hold, NEW k \in net.hold[r]
        PROVE  Alive(k) /\ Contains(net.keep[k], r)
    <3>1. r \in Relays(net.made)
      BY <1>2
    <3> QED BY <1>1, <3>1, HoldsAre DEF Alive
  <2> QED BY <2>1 DEF RelaysForgetSlots
<1>6. ReachesOncePerLink
  <2>1. ASSUME NEW s \in SignalSet, NEW k \in SlotSet, IsVoid(s)
        PROVE  Reached(s, k) = Cardinality({l \in up : l[2] = s /\ l[3] = k})
                 + (IF s \in joined.signals /\ k \in joined.slots /\ Key(s) = Key(k) THEN 1 ELSE 0)
    <3>1. Cardinality(RelaysTo(net, s, k)) = Cardinality(Between(up, s, k))
            + (IF s \in joined.signals /\ k \in joined.slots /\ Key(s) = Key(k) THEN 1 ELSE 0)
      BY <1>1, <2>1, ReachedIs
    <3> QED BY <3>1 DEF Reached, Between
  <2> QED BY <2>1 DEF ReachesOncePerLink
<1>7. ASSUME NEW s \in SignalSet, ~IsVoid(s), NEW mine, mine = {l \in up : l[2] = s}
      PROVE  /\ s \notin joined.signals => Answers(s) = {l[3] : l \in mine}
             /\ mine # {} => Answers(s) = {l[3] : l \in mine}
  <2>1. PICK q : q = net.out[s]
    OBVIOUS
  <2>2. q \in Seq(Relays(net.made)) /\ Len(q) <= 1
    BY <1>2, <1>7, <2>1 DEF Orderly
  <2>3. DOMAIN q = 1..Len(q) /\ Len(q) \in Nat /\ \A i \in 1..Len(q) : q[i] \in Relays(net.made)
    BY <2>2, LenProperties
  <2>4. \A l \in mine : l \in up /\ l[2] = s /\ l[1] \in OwnRelays(net.made) /\ Contains(q, l[1]) /\ net.hold[l[1]] = {l[3]}
    BY <1>3, <1>7, <2>1
  <2>5. CASE q = <<>>
    <3>1. Answers(s) = {}
      BY <2>1, <2>5 DEF Answers
    <3>2. mine = {}
      BY <2>4, <2>5, EmptyHas
    <3> QED BY <3>1, <3>2
  <2>6. CASE q # <<>>
    <3>1. Len(q) = 1 /\ q[1] \in Relays(net.made)
      BY <2>2, <2>3, <2>6
    <3>2. PICK r : r = q[1]
      OBVIOUS
    <3>3. Answers(s) = net.hold[r]
      BY <2>1, <2>6, <3>2 DEF Answers, RelayAnswers
    <3>4. \A x : Contains(q, x) <=> x = r
      BY <2>3, <3>1, <3>2 DEF Contains
    <3>5. CASE r \in Keys
      <4>1. s \in joined.signals
        <5>1. Contains(net.out[s], r)
          BY <2>1, <3>4
        <5> QED BY <1>1, <3>5, <5>1, JoinsAre
      <4>2. mine = {}
        BY <1>2, <2>4, <3>4, <3>5
      <4> QED BY <4>1, <4>2
    <3>6. CASE r \in OwnRelays(net.made)
      <4>1. \A l \in mine : net.hold[r] = {l[3]}
        BY <2>4, <3>4
      <4>2. ASSUME NEW k \in net.hold[r] PROVE \E l \in mine : l[3] = k
        <5>1. Contains(net.out[s], r)
          BY <2>1, <3>4
        <5>2. PICK l \in up : l[1] = r /\ l[2] = s /\ l[3] = k
          BY <1>3, <3>6, <5>1
        <5> QED BY <1>7, <5>2
      <4>3. net.hold[r] = {l[3] : l \in mine}
        BY <4>1, <4>2
      <4> QED BY <3>3, <4>3
    <3> QED BY <1>2, <3>1, <3>2, <3>5, <3>6
  <2> QED BY <2>5, <2>6
<1>8. LastAnswers
  BY <1>7 DEF LastAnswers
<1> QED BY <1>4, <1>5, <1>6, <1>8 DEF LinksSound

(* Whatever is connected, cut, destroyed or replaced, however many objects, *)
(* signals, slots and connections: LinksSound.                              *)
THEOREM WiresAreSound == WireSpec => []LinksSound
BY WireInvHolds, WiredLinksSound, PTL

LEMMA RewiredLinksKept ==
  ASSUME WireAssumption, WireInv
  PROVE  LinksKept
<1>1. Wired(net, up, joined, present) /\ LinksWritten(records, up) /\ present \subseteq Objects
  BY DEF WireInv
<1>2. ASSUME NEW objs \in SUBSET present, Rewire(objs), NEW s \in SignalSet, NEW k \in SlotSet, IsVoid(s)
      PROVE  /\ s[1] \in objs =>
                  Reached(s, k)' >= Cardinality({l \in up : l[2] = s /\ l[3] = k /\ l[4]})
             /\ {s[1], k[1]} \cap objs = {} => Reached(s, k)' = Reached(s, k)
  <2>1. joined' = StillJoined(objs) /\ Wired(net', up', joined', present) /\ Rewired(objs, up')
    BY <1>2, RewireIs
  <2>2. PICK d \in {0, 1} : d = IF s \in joined'.signals /\ k \in joined'.slots /\ Key(s) = Key(k) THEN 1 ELSE 0
    OBVIOUS
  <2>3. Cardinality(Between(up', s, k)) \in Nat /\ Reached(s, k)' = Cardinality(Between(up', s, k)) + d
    <3>1. /\ Cardinality(Between(up', s, k)) \in Nat
          /\ Cardinality(RelaysTo(net', s, k)) = Cardinality(Between(up', s, k))
               + (IF s \in joined'.signals /\ k \in joined'.slots /\ Key(s) = Key(k) THEN 1 ELSE 0)
      BY <1>2, <2>1, ReachedIs
    <3> QED BY <2>2, <3>1 DEF Reached
  <2>4. Cardinality(Between(up, s, k)) \in Nat /\ Cardinality(RecordedBetween(up, s, k)) \in Nat
    <3>1. IsFiniteSet(up)
      BY <1>1, LinksAre
    <3> QED BY <3>1, BetweenFinite
  <2>5. ASSUME s[1] \in objs
        PROVE  Reached(s, k)' >= Cardinality(RecordedBetween(up, s, k))
    <3>1. CASE Alive(k)
      <4>1. Cardinality(Between(up', s, k)) >= Cardinality(Places(records, s, k))
        BY <1>2, <2>1, <2>5, <3>1 DEF Rewired
      <4>2. Cardinality(RecordedBetween(up, s, k)) <= Cardinality(Places(records, s, k))
        BY <1>1 DEF LinksWritten
      <4>3. Cardinality(Places(records, s, k)) \in Nat
        <5>1. s[1] \in Objects /\ Recorded(records)
          BY <1>1 DEF Objects, LinksWritten
        <5> QED BY <5>1, PlacesFinite
      <4> QED BY <2>2, <2>3, <2>4, <4>1, <4>2, <4>3
    <3>2. CASE ~Alive(k)
      <4>1. RecordedBetween(up, s, k) = {}
        <5> SUFFICES ASSUME NEW l \in RecordedBetween(up, s, k) PROVE FALSE
          OBVIOUS
        <5>1. l \in up /\ l[3] = k
          BY DEF RecordedBetween
        <5>2. l[1] \in OwnRelays(net.made) /\ net.hold[l[1]] = {k}
          BY <1>1, <5>1, LinksAre
        <5>3. l[1] \in Relays(net.made)
          BY <1>1, <5>2, WiredIs
        <5>4. k[1] \in present
          BY <1>1, <5>2, <5>3, HoldsAre
        <5> QED BY <3>2, <5>4 DEF Alive
      <4>2. Cardinality(RecordedBetween(up, s, k)) = 0
        BY <4>1, FS_EmptySet
      <4> QED BY <2>2, <2>3, <4>2
    <3> QED BY <3>1, <3>2
  <2>6. ASSUME {s[1], k[1]} \cap objs = {}
        PROVE  Reached(s, k)' = Reached(s, k)
    <3>1. s[1] \notin objs /\ k[1] \notin objs
      BY <2>6
    <3>2. Between(up', s, k) = Between(up, s, k)
      <4>1. Between(up', s, k) = Between(Spared(up, objs), s, k)
        BY <2>1, <3>1 DEF Rewired
      <4>2. Between(Spared(up, objs), s, k) = Between(up, s, k)
        BY <3>1 DEF Between, Spared
      <4> QED BY <4>1, <4>2
    <3>3. (s \in joined'.signals <=> s \in joined.signals) /\ (k \in joined'.slots <=> k \in joined.slots)
      BY <2>1, <3>1 DEF StillJoined
    <3>4. Reached(s, k) = Cardinality(Between(up, s, k)) + d
      <4>1. Cardinality(RelaysTo(net, s, k)) = Cardinality(Between(up, s, k))
              + (IF s \in joined.signals /\ k \in joined.slots /\ Key(s) = Key(k) THEN 1 ELSE 0)
        BY <1>1, <1>2, ReachedIs
      <4> QED BY <2>2, <3>3, <4>1 DEF Reached
    <3> QED BY <2>3, <3>2, <3>4
  <2>7. RecordedBetween(up, s, k) = {l \in up : l[2] = s /\ l[3] = k /\ l[4]}
    BY DEF RecordedBetween
  <2> QED BY <2>5, <2>6, <2>7
<1> QED BY <1>2 DEF LinksKept

(* A recompile, of whatever objects: LinksKept.                             *)
THEOREM LinksAreKept == WireSpec => RecompileKeepsLinks
<1>1. WireInv => [wireVars' # wireVars => LinksKept]_wireVars
  BY WireAssumption, RewiredLinksKept
<1> QED BY <1>1, WireInvHolds, PTL DEF RecompileKeepsLinks

================================================================================
