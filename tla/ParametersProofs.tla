---------------------------- MODULE ParametersProofs ----------------------------
(***************************************************************************)
(* For any parameters, inputs, objects and threads, and any wiring in which*)
(* data flows one way between objects: updates and readers never wait for  *)
(* each other in a circle, no input is left with a source that is gone, a  *)
(* reader gets the value of the stamp, an input keeps its source until that*)
(* dies, and has the stamp of the source that it follows.                  *)
(***************************************************************************)
EXTENDS Parameters, FiniteSetTheorems, SequenceTheorems, WellFoundedInduction, TLAPS

----------------------------------------------------------------------------
(* The inductive invariant                                                 *)

(* Frames of an emission and what it calls, frames of the destructors, and *)
(* frames of the threads that run.                                         *)
CallOps == {"commit", "emit", "assign", "return"}
EndOps == {"destroy", "delete"}
SetOps == {"wire", "update"}
RunOps == {"stamp", "read", "commit", "emit", "assign"}
LockOps == {"stamp", "emit", "wire", "update", "return"}

FrameSet ==
  [op : CallOps \cup EndOps \cup SetOps \cup RunOps, par : Params, src : Params \cup {None},
   todo : SUBSET Inputs, stamp : Int, ctx : Threads \cup {None},
   holds : Objects \cup {None}]

(* What a frame is about, and the mutex it holds.                          *)
FrameOK(f) ==
  /\ f.op \in LockOps => f.holds = Object[f.par]
  /\ f.op \notin LockOps => f.holds = None
  /\ f.op = "stamp" => f.par \in Outputs \ Typed
  /\ f.op = "commit" => f.par \in Typed \cup Inputs
  /\ f.op = "read" => f.par \in Outputs
  /\ f.op \in {"assign", "wire", "update", "return"} => f.par \in Inputs
  /\ f.op = "emit" => \A i \in f.todo : <<i, f.par>> \in MayFeed
  /\ f.op = "wire" => <<f.par, f.src>> \in MayFeed

(* Calls and destructors never share a stack; a commit is always on top.   *)
Calls(t) == \A k \in DOMAIN stack[t] :
              stack[t][k].op \in CallOps /\ (stack[t][k].op = "commit" => k = 1)
Ends(t) == \A k \in DOMAIN stack[t] :
             \/ stack[t][k].op \in EndOps
             \/ stack[t][k].op \in SetOps /\ k = Len(stack[t])
Alone(t) == Len(stack[t]) = 1 /\ stack[t][1].op \in {"stamp", "read"}

Cells ==
  /\ data \in [Outputs -> Nat] /\ ts \in [Params -> Int]
  /\ raw \in [Inputs -> Params \cup {None}]
  /\ shared \in [Inputs -> Params \cup {None}]
  /\ user \in [Inputs -> Outputs \cup {None}]
  /\ wired \in [Params -> SUBSET Inputs]
  /\ life \in [Params -> {"owned", "released", "dying", "dead"}]
  /\ running \in BOOLEAN /\ clock \in 0..MaxUpdates /\ changes \in 0..MaxChanges

Typing == Cells /\ stack \in [Threads -> Seq(FrameSet)]

(* Stamps were given by UpdateData.                                        *)
Stamps ==
  /\ \A p \in Outputs : data[p] <= clock
  /\ \A p \in Params : -1 <= ts[p] /\ ts[p] <= clock
  /\ \A t \in Threads : \A f \in Frames(t) : -1 <= f.stamp /\ f.stamp <= clock

Stacks ==
  \A t \in Threads :
    /\ \A f \in Frames(t) : FrameOK(f)
    /\ Calls(t) \/ Ends(t) \/ Alone(t)

(* Sources and wires follow MayFeed.                                       *)
Feeding ==
  /\ \A i \in Inputs : \A p \in {raw[i], shared[i]} \ {None} : <<i, p>> \in MayFeed
  /\ \A p \in Params : \A i \in wired[p] : <<i, p>> \in MayFeed

(* The main thread is alone until all threads run, and does nothing but    *)
(* update and read from then on.                                           *)
Phases ==
  /\ ~running => \A t \in Threads \ {Main} : stack[t] = <<>>
  /\ running => \A t \in Threads : \A f \in Frames(t) : f.op \in RunOps

Exclusive ==
  \A o \in Objects : \A t, u \in Threads : Holds(t, o) /\ Holds(u, o) => t = u

(* A thread takes mutexes upwards: what is inner in its stack belongs to an*)
(* object above those it has locked further out.                           *)
Upwards ==
  running =>
    \A t \in Threads : \A k, l \in DOMAIN stack[t] :
      k < l /\ stack[t][l].holds # None =>
        Level[stack[t][l].holds] < Level[Object[stack[t][k].par]]

Structure == Typing /\ Stamps /\ Stacks /\ Feeding /\ Phases /\ Exclusive /\ Upwards

----------------------------------------------------------------------------
(* An input is wired to what it points to, or about to be.                 *)
Attached ==
  \A i \in Inputs : \A p \in {raw[i], shared[i]} \ {None} :
    /\ life[p] # "dead"
    /\ \/ i \in wired[p]
       \/ \E f \in Frames(Main) : f.op = "wire" /\ f.par = i /\ f.src = p

(* What the frames are about exists; a destructor runs once.               *)
Living ==
  \A t \in Threads : \A f \in Frames(t) :
    /\ f.op \in EndOps => life[f.par] = "dying"
    /\ f.op \in SetOps => life[f.par] = "owned"
    /\ f.op = "wire" => life[f.src] = "owned"
    /\ f.op \notin EndOps \cup SetOps => life[f.par] # "dead"
    /\ f.op = "emit" => \A i \in f.todo : i \in wired[f.par] /\ life[i] # "dead"

Distinct ==
  \A k, l \in DOMAIN stack[Main] :
    k # l /\ stack[Main][k].op \in EndOps /\ stack[Main][l].op \in EndOps =>
      stack[Main][k].par # stack[Main][l].par

(* What is wired exists until its destructor begins.                       *)
Connected ==
  \A p \in Params : \A i \in wired[p] :
    \/ life[i] \in {"owned", "released"}
    \/ \E f \in Frames(Main) : f.op = "destroy" /\ f.par = i

(* A death is announced to everybody who points to the parameter.          *)
Announced ==
  \A f \in Frames(Main) : f.op = "delete" =>
    /\ \A i \in Inputs : f.par \in {raw[i], shared[i]} => i \in f.todo
    /\ \A i \in wired[f.par] \ f.todo : raw[i] = None /\ shared[i] = None
    /\ \A i \in f.todo : i \in wired[f.par] \/ life[i] \in {"dying", "dead"}

Lives == Attached /\ Living /\ Distinct /\ Connected /\ Announced

(* The value of an output is that of its stamp, but for an update that is  *)
(* between the two.                                                        *)
Matching ==
  /\ \A t \in Threads : \A f \in Frames(t) : f.op = "stamp" => data[f.par] = f.stamp
  /\ \A p \in Outputs \ Typed :
       \/ ts[p] = -1 \/ data[p] = ts[p]
       \/ \E t \in Threads : \E f \in Frames(t) : f.op = "stamp" /\ f.par = p

(* A frame that will still give i the stamp of its source p.               *)
Pends(f, i, p) ==
  \/ f.op = "emit" /\ f.par = p /\ i \in f.todo
  \/ f.op = "commit" /\ f.par = i
  \/ f.op \in SetOps /\ f.par = p
  \/ f.op = "wire" /\ f.par = i

Pending(i, p) == \E t \in Threads : \E f \in Frames(t) : Pends(f, i, p)

Followed ==
  \A i \in Inputs :
    Feed(i) # None /\ ~Rewired(i) =>
      ts[Feed(i)] = -1 \/ ts[i] = ts[Feed(i)] \/ Pending(i, Feed(i))

(* The stamp that onInputUpdate has read is still that of the source: the  *)
(* emission that called it holds the source's mutex.                       *)
Committing ==
  \A t \in Threads : \A f \in Frames(t) :
    f.op = "commit" /\ f.par \in Inputs =>
      /\ \E g \in Frames(t) : g.op = "emit" /\ f.par \in wired[g.par]
      /\ Feed(f.par) # None /\ ~Rewired(f.par) => f.stamp = ts[Feed(f.par)]

(* SetInput took the stamp of the source that it will be wired to.         *)
Taken ==
  \A f \in Frames(Main) :
    f.op = "wire" => ts[f.src] = -1 \/ ts[f.par] = ts[f.src]

Following == Followed /\ Committing /\ Taken

----------------------------------------------------------------------------
(* Least elements                                                          *)

LEMMA LeastNumber ==
  ASSUME NEW S, S \subseteq Nat, S # {}
  PROVE  \E m \in S : \A n \in S : m <= n
<1> DEFINE R == StrictSubsetOrdering(Nat)
           T == {0..n : n \in S}
<1>1. IsWellFoundedOn(R, FiniteSubsetsOf(Nat))
  BY FS_StrictSubsetOrderingWellFounded
<1>2. T \subseteq FiniteSubsetsOf(Nat)
  <2>1. ASSUME NEW n \in S PROVE 0..n \in FiniteSubsetsOf(Nat)
    <3>1. n \in Int /\ 0 \in Int
      OBVIOUS
    <3>2. IsFiniteSet(0..n)
      BY <3>1, FS_Interval
    <3>3. 0..n \in SUBSET Nat
      BY <3>1
    <3> QED BY <3>2, <3>3 DEF FiniteSubsetsOf
  <2> QED BY <2>1
<1>3. T # {}
  OBVIOUS
<1>4. ASSUME NEW x \in Nat, NEW y \in Nat, x < y PROVE <<0..x, 0..y>> \in R
  <2>1. 0..x \subseteq 0..y /\ 0..x # 0..y
    BY <1>4
  <2> QED BY <2>1 DEF StrictSubsetOrdering
<1> HIDE DEF R, T
<1>5. PICK U \in T : \A V \in T : <<V, U>> \notin R
  BY <1>1, <1>2, <1>3, WFMin
<1>6. PICK m \in S : U = 0..m
  BY DEF T
<1>7. \A n \in S : <<0..n, 0..m>> \notin R
  BY <1>5, <1>6 DEF T
<1>8. ASSUME NEW n \in S PROVE ~ (n < m)
  BY <1>4, <1>7
<1> QED BY <1>8

(* Among some of the objects, one has none of them above it.               *)
LEMMA HighestObject ==
  ASSUME NEW S, S \subseteq Objects, S # {}
  PROVE  \E m \in S : \A o \in S : Level[o] <= Level[m]
<1> DEFINE Above(o) == {q \in Objects : Level[q] > Level[o]}
           R == StrictSubsetOrdering(Objects)
           T == {Above(o) : o \in S}
<1>1. IsWellFoundedOn(R, FiniteSubsetsOf(Objects))
  BY FS_StrictSubsetOrderingWellFounded
<1>2. T \subseteq FiniteSubsetsOf(Objects)
  <2>1. ASSUME NEW o \in S PROVE Above(o) \in FiniteSubsetsOf(Objects)
    <3>1. IsFiniteSet(Objects) /\ Above(o) \in SUBSET Objects
      BY ParametersAssumption
    <3>2. IsFiniteSet(Above(o))
      BY <3>1, FS_Subset
    <3> QED BY <3>1, <3>2 DEF FiniteSubsetsOf
  <2> QED BY <2>1
<1>3. T # {}
  OBVIOUS
<1>4. ASSUME NEW x \in S, NEW y \in S, Level[y] < Level[x]
      PROVE  <<Above(x), Above(y)>> \in R
  <2>1. Level \in [Objects -> Nat]
    BY ParametersAssumption
  <2>2. Above(x) \subseteq Above(y) /\ x \in Above(y) /\ x \notin Above(x)
    BY <1>4, <2>1
  <2>3. Above(x) # Above(y) /\ Above(x) \in SUBSET Objects /\ Above(y) \in SUBSET Objects
    BY <2>2
  <2> HIDE DEF Above
  <2> QED BY <2>2, <2>3 DEF StrictSubsetOrdering
<1> HIDE DEF R, T
<1>5. PICK U \in T : \A V \in T : <<V, U>> \notin R
  BY <1>1, <1>2, <1>3, WFMin
<1>6. PICK m \in S : U = Above(m)
  BY DEF T
<1>7. \A o \in S : <<Above(o), Above(m)>> \notin R
  BY <1>5, <1>6 DEF T
<1>8. Level \in [Objects -> Nat]
  BY ParametersAssumption
<1>9. ASSUME NEW o \in S PROVE ~ (Level[m] < Level[o])
  BY <1>4, <1>7
<1> QED BY <1>8, <1>9

----------------------------------------------------------------------------
(* A step of a thread puts frames fs in place of the top of its stack      *)

Below(t) == IF Busy(t) THEN Tail(stack[t]) ELSE <<>>
Rest(t) == {stack[t][k] : k \in 2..Len(stack[t])}
Among(fs) == {fs[k] : k \in DOMAIN fs}

Replace(t, fs) == stack' = [stack EXCEPT ![t] = fs \o Below(t)]

LEMMA BelowType ==
  ASSUME Typing, NEW t \in Threads
  PROVE  /\ Below(t) \in Seq(FrameSet)
         /\ Busy(t) => /\ Len(stack[t]) = Len(Below(t)) + 1
                       /\ Top(t) = stack[t][1] /\ Top(t) \in FrameSet
         /\ ~Busy(t) => Len(stack[t]) = 0 /\ Len(Below(t)) = 0
         /\ \A k \in DOMAIN Below(t) : Below(t)[k] = stack[t][k + 1]
<1>1. stack[t] \in Seq(FrameSet)
  BY DEF Typing
<1> QED BY <1>1 DEF Below, Busy, Top

LEMMA ReplaceFacts ==
  ASSUME Typing, NEW t \in Threads, NEW fs \in Seq(FrameSet), Replace(t, fs)
  PROVE  /\ stack' \in [Threads -> Seq(FrameSet)]
         /\ \A u \in Threads : u # t => stack'[u] = stack[u]
         /\ Len(stack'[t]) = Len(fs) + Len(Below(t))
         /\ \A k \in 1..Len(fs) : stack'[t][k] = fs[k]
         /\ \A k \in 1..Len(Below(t)) : stack'[t][Len(fs) + k] = stack[t][k + 1]
<1>1. stack \in [Threads -> Seq(FrameSet)]
  BY DEF Typing
<1>2. Below(t) \in Seq(FrameSet) /\ \A k \in DOMAIN Below(t) : Below(t)[k] = stack[t][k + 1]
  BY BelowType
<1>3. fs \o Below(t) \in Seq(FrameSet)
  BY <1>2
<1>4. stack'[t] = fs \o Below(t)
  BY <1>1, <1>3 DEF Replace
<1>5. stack' \in [Threads -> Seq(FrameSet)]
      /\ \A u \in Threads : u # t => stack'[u] = stack[u]
  BY <1>1, <1>3 DEF Replace
<1> HIDE DEF Replace
<1> QED BY <1>2, <1>4, <1>5

(* The frames of a thread, before and after.                               *)
LEMMA ReplaceFrames ==
  ASSUME Typing, NEW t \in Threads, NEW fs \in Seq(FrameSet), Replace(t, fs)
  PROVE  /\ \A u \in Threads : u # t => Frames(u)' = Frames(u)
         /\ Frames(t)' = Among(fs) \cup Rest(t)
         /\ Busy(t) => Frames(t) = {Top(t)} \cup Rest(t)
         /\ ~Busy(t) => Frames(t) = {} /\ Rest(t) = {}
<1>1. /\ stack' \in [Threads -> Seq(FrameSet)]
      /\ \A u \in Threads : u # t => stack'[u] = stack[u]
      /\ Len(stack'[t]) = Len(fs) + Len(Below(t))
      /\ \A k \in 1..Len(fs) : stack'[t][k] = fs[k]
      /\ \A k \in 1..Len(Below(t)) : stack'[t][Len(fs) + k] = stack[t][k + 1]
  BY ReplaceFacts
<1>2. /\ Below(t) \in Seq(FrameSet)
      /\ Busy(t) => Len(stack[t]) = Len(Below(t)) + 1 /\ Top(t) = stack[t][1]
      /\ ~Busy(t) => Len(stack[t]) = 0 /\ Len(Below(t)) = 0
  BY BelowType
<1>3. stack[t] \in Seq(FrameSet)
  BY DEF Typing
<1>4. \A u \in Threads : u # t => Frames(u)' = Frames(u)
  BY <1>1 DEF Frames
<1>5. Len(stack[t]) <= 1 => Rest(t) = {}
  BY <1>3 DEF Rest
<1>6. Busy(t) => Frames(t) = {Top(t)} \cup Rest(t)
  <2> SUFFICES ASSUME Busy(t) PROVE Frames(t) = {Top(t)} \cup Rest(t)
    OBVIOUS
  <2>1. DOMAIN stack[t] = {1} \cup (2..Len(stack[t]))
    BY <1>2, <1>3
  <2> QED BY <1>2, <2>1 DEF Frames, Rest
<1>7. ~Busy(t) => Frames(t) = {} /\ Rest(t) = {}
  BY <1>2, <1>3, <1>5 DEF Frames
<1>9. /\ Len(fs) \in Nat /\ Len(Below(t)) \in Nat /\ DOMAIN fs = 1..Len(fs)
      /\ DOMAIN stack'[t] = 1..(Len(fs) + Len(Below(t)))
  <2>1. stack'[t] \in Seq(FrameSet)
    BY <1>1
  <2> QED BY <1>1, <1>2, <2>1
<1>8. Frames(t)' = Among(fs) \cup Rest(t)
  <2>1. ASSUME NEW f \in Frames(t)' PROVE f \in Among(fs) \cup Rest(t)
    <3>1. PICK k \in DOMAIN stack'[t] : f = stack'[t][k]
      BY <2>1 DEF Frames
    <3>2. k \in 1..(Len(fs) + Len(Below(t)))
      BY <1>1, <3>1
    <3>3. CASE k <= Len(fs)
      <4>1. k \in DOMAIN fs /\ f = fs[k]
        BY <1>1, <3>1, <3>2, <3>3
      <4> QED BY <4>1 DEF Among
    <3>4. CASE k > Len(fs)
      <4> DEFINE j == k - Len(fs)
      <4>1. j \in 1..Len(Below(t)) /\ k = Len(fs) + j
        BY <1>2, <3>2, <3>4
      <4>2. f = stack[t][j + 1]
        BY <1>1, <3>1, <4>1
      <4>3. j + 1 \in 2..Len(stack[t])
        BY <1>2, <1>3, <4>1
      <4> QED BY <4>2, <4>3 DEF Rest
    <3> QED BY <3>2, <3>3, <3>4
  <2>2. ASSUME NEW f \in Among(fs) PROVE f \in Frames(t)'
    <3>1. PICK k \in DOMAIN fs : f = fs[k]
      BY <2>2 DEF Among
    <3>2. k \in DOMAIN stack'[t] /\ stack'[t][k] = f
      BY <1>1, <1>9, <3>1
    <3> QED BY <3>2 DEF Frames
  <2>3. ASSUME NEW f \in Rest(t) PROVE f \in Frames(t)'
    <3>1. PICK k \in 2..Len(stack[t]) : f = stack[t][k]
      BY <2>3 DEF Rest
    <3> DEFINE j == k - 1
    <3>2. j \in 1..Len(Below(t)) /\ k = j + 1
      BY <1>2, <1>3, <3>1
    <3> HIDE DEF j
    <3>4. Len(fs) + j \in DOMAIN stack'[t]
      BY <1>9, <3>2
    <3>5. stack'[t][Len(fs) + j] = f
      BY <1>1, <3>1, <3>2
    <3>3. Len(fs) + j \in DOMAIN stack'[t] /\ stack'[t][Len(fs) + j] = f
      BY <3>4, <3>5
    <3> QED BY <3>3 DEF Frames
  <2> QED BY <2>1, <2>2, <2>3
<1> QED BY <1>4, <1>6, <1>7, <1>8

LEMMA FramesType == ASSUME Typing, NEW t \in Threads PROVE Frames(t) \subseteq FrameSet
<1>1. stack[t] \in Seq(FrameSet)
  BY DEF Typing
<1> QED BY <1>1 DEF Frames

(* A frame of the new stack is new, or was elsewhere in the old one.       *)
LEMMA ReplaceAt ==
  ASSUME Typing, NEW t \in Threads, NEW fs \in Seq(FrameSet), Replace(t, fs)
  PROVE  /\ Len(fs) \in Nat /\ Len(Below(t)) \in Nat /\ DOMAIN fs = 1..Len(fs)
         /\ DOMAIN stack[t] = 1..Len(stack[t]) /\ Len(stack[t]) \in Nat
         /\ DOMAIN stack'[t] = 1..(Len(fs) + Len(Below(t)))
         /\ \A k \in DOMAIN stack'[t] :
              \/ k \in DOMAIN fs /\ stack'[t][k] = fs[k]
              \/ \E j \in 2..Len(stack[t]) :
                   /\ Len(Below(t)) # 0 /\ k = Len(fs) + j - 1
                   /\ stack'[t][k] = stack[t][j]
<1>1. /\ \A u \in Threads : u # t => stack'[u] = stack[u]
      /\ Len(stack'[t]) = Len(fs) + Len(Below(t))
      /\ \A k \in 1..Len(fs) : stack'[t][k] = fs[k]
      /\ \A k \in 1..Len(Below(t)) : stack'[t][Len(fs) + k] = stack[t][k + 1]
      /\ stack' \in [Threads -> Seq(FrameSet)]
  BY ReplaceFacts
<1>2. /\ Below(t) \in Seq(FrameSet)
      /\ Busy(t) => Len(stack[t]) = Len(Below(t)) + 1
      /\ ~Busy(t) => Len(stack[t]) = 0 /\ Len(Below(t)) = 0
  BY BelowType
<1>6. /\ Len(fs) \in Nat /\ Len(Below(t)) \in Nat /\ DOMAIN fs = 1..Len(fs)
      /\ DOMAIN stack[t] = 1..Len(stack[t]) /\ Len(stack[t]) \in Nat
      /\ DOMAIN stack'[t] = 1..(Len(fs) + Len(Below(t)))
  <2>1. stack'[t] \in Seq(FrameSet) /\ stack[t] \in Seq(FrameSet)
    BY <1>1 DEF Typing
  <2> QED BY <1>1, <1>2, <2>1
<1>7. \A k \in DOMAIN stack'[t] :
        \/ k \in DOMAIN fs /\ stack'[t][k] = fs[k]
        \/ \E j \in 2..Len(stack[t]) :
             /\ Len(Below(t)) # 0 /\ k = Len(fs) + j - 1 /\ stack'[t][k] = stack[t][j]
  <2> SUFFICES ASSUME NEW k \in DOMAIN stack'[t], ~(k \in DOMAIN fs)
               PROVE  \E j \in 2..Len(stack[t]) :
                        /\ Len(Below(t)) # 0 /\ k = Len(fs) + j - 1
                        /\ stack'[t][k] = stack[t][j]
    BY <1>1, <1>6
  <2> DEFINE j == k - Len(fs) + 1
  <2>1. j - 1 \in 1..Len(Below(t)) /\ k = Len(fs) + (j - 1)
    BY <1>6
  <2>2. Busy(t)
    BY <1>2, <2>1
  <2>3. j \in 2..Len(stack[t]) /\ k = Len(fs) + j - 1 /\ Len(Below(t)) # 0
    BY <1>2, <1>6, <2>1, <2>2
  <2>4. stack'[t][k] = stack[t][j]
    BY <1>1, <2>1
  <2> QED BY <2>3, <2>4
<1> QED BY <1>6, <1>7

(* What is asked of the new frames so that the stacks keep their shape: the*)
(* kind of call, the mutexes, the phase and the levels.                    *)
ShapeFits(t, fs) ==
  /\ \A k \in DOMAIN fs : FrameOK(fs[k])
  /\ \/ /\ Calls(t) \/ Len(Below(t)) = 0
        /\ \A k \in DOMAIN fs : fs[k].op \in CallOps /\ (fs[k].op = "commit" => k = 1)
     \/ /\ Ends(t) \/ Len(Below(t)) = 0
        /\ \A k \in DOMAIN fs :
             \/ fs[k].op \in EndOps
             \/ fs[k].op \in SetOps /\ k = Len(fs) /\ Len(Below(t)) = 0
     \/ Len(Below(t)) = 0 /\ Len(fs) = 1 /\ fs[1].op \in {"stamp", "read"}

LockFits(t, fs) ==
  \A k \in DOMAIN fs :
    \/ fs[k].holds = None
    \/ Holds(t, fs[k].holds)
    \/ \A u \in Threads \ {t} : ~Holds(u, fs[k].holds)

PhaseFits(t, fs) ==
  /\ ~running => t = Main
  /\ running => \A k \in DOMAIN fs : fs[k].op \in RunOps

LevelFits(t, fs) ==
  running =>
    /\ \A k, l \in DOMAIN fs :
         k < l /\ fs[l].holds # None => Level[fs[l].holds] < Level[Object[fs[k].par]]
    /\ Busy(t) => \A k \in DOMAIN fs : Level[Object[Top(t).par]] <= Level[Object[fs[k].par]]

LEMMA HoldsFrames ==
  \A t \in Threads, o \in Objects : Holds(t, o) <=> \E f \in Frames(t) : f.holds = o
BY DEF Holds, Frames

LEMMA StacksStep ==
  ASSUME Typing, Stacks, NEW t \in Threads, NEW fs \in Seq(FrameSet), Replace(t, fs),
         ShapeFits(t, fs)
  PROVE  Stacks'
<1>1. /\ \A u \in Threads : u # t => stack'[u] = stack[u]
      /\ Len(stack'[t]) = Len(fs) + Len(Below(t))
      /\ \A k \in 1..Len(fs) : stack'[t][k] = fs[k]
      /\ \A k \in 1..Len(Below(t)) : stack'[t][Len(fs) + k] = stack[t][k + 1]
      /\ stack' \in [Threads -> Seq(FrameSet)]
  BY ReplaceFacts
<1>2. /\ Below(t) \in Seq(FrameSet)
      /\ Busy(t) => Len(stack[t]) = Len(Below(t)) + 1
      /\ ~Busy(t) => Len(stack[t]) = 0 /\ Len(Below(t)) = 0
  BY BelowType
<1>3. /\ \A u \in Threads : u # t => Frames(u)' = Frames(u)
      /\ Frames(t)' = Among(fs) \cup Rest(t)
      /\ Rest(t) \subseteq Frames(t)
  <2>1. /\ \A u \in Threads : u # t => Frames(u)' = Frames(u)
        /\ Frames(t)' = Among(fs) \cup Rest(t)
        /\ Busy(t) => Frames(t) = {Top(t)} \cup Rest(t)
        /\ ~Busy(t) => Frames(t) = {} /\ Rest(t) = {}
    BY ReplaceFrames
  <2> QED BY <2>1
<1>4. \A u \in Threads : \A f \in Frames(u)' : FrameOK(f)
  <2>1. \A f \in Among(fs) : FrameOK(f)
    BY DEF Among, ShapeFits
  <2> QED BY <1>3, <2>1 DEF Stacks
<1>5. \A u \in Threads : u # t => (Calls(u) \/ Ends(u) \/ Alone(u))'
  BY <1>1 DEF Stacks, Calls, Ends, Alone
<1>6. /\ Len(fs) \in Nat /\ Len(Below(t)) \in Nat /\ DOMAIN fs = 1..Len(fs)
      /\ DOMAIN stack[t] = 1..Len(stack[t]) /\ Len(stack[t]) \in Nat
      /\ DOMAIN stack'[t] = 1..(Len(fs) + Len(Below(t)))
  BY ReplaceAt
<1>7. \A k \in DOMAIN stack'[t] :
        \/ k \in DOMAIN fs /\ stack'[t][k] = fs[k]
        \/ \E j \in 2..Len(stack[t]) :
             /\ Len(Below(t)) # 0 /\ k = Len(fs) + j - 1 /\ stack'[t][k] = stack[t][j]
  BY ReplaceAt
<1>8. CASE /\ Calls(t) \/ Len(Below(t)) = 0
           /\ \A k \in DOMAIN fs : fs[k].op \in CallOps /\ (fs[k].op = "commit" => k = 1)
  <2>1. ASSUME NEW k \in DOMAIN stack'[t]
        PROVE  stack'[t][k].op \in CallOps /\ (stack'[t][k].op = "commit" => k = 1)
    <3>1. CASE k \in DOMAIN fs /\ stack'[t][k] = fs[k]
      BY <1>8, <3>1
    <3>2. ASSUME NEW j \in 2..Len(stack[t]), Len(Below(t)) # 0, stack'[t][k] = stack[t][j]
          PROVE  stack'[t][k].op \in CallOps /\ (stack'[t][k].op = "commit" => k = 1)
      <4>1. j \in DOMAIN stack[t] /\ j # 1
        BY <1>6
      <4>2. stack[t][j].op \in CallOps /\ stack[t][j].op # "commit"
        BY <1>8, <3>2, <4>1 DEF Calls
      <4> QED BY <3>2, <4>2
    <3> QED BY <1>7, <3>1, <3>2
  <2> QED BY <1>4, <1>5, <2>1 DEF Stacks, Calls
<1>9. CASE /\ Ends(t) \/ Len(Below(t)) = 0
           /\ \A k \in DOMAIN fs :
                \/ fs[k].op \in EndOps
                \/ fs[k].op \in SetOps /\ k = Len(fs) /\ Len(Below(t)) = 0
  <2>1. \A k \in DOMAIN stack'[t] :
          \/ stack'[t][k].op \in EndOps
          \/ stack'[t][k].op \in SetOps /\ k = Len(stack'[t])
    <3> SUFFICES ASSUME NEW k \in DOMAIN stack'[t]
                 PROVE  \/ stack'[t][k].op \in EndOps
                        \/ stack'[t][k].op \in SetOps /\ k = Len(stack'[t])
      OBVIOUS
    <3>1. CASE k \in DOMAIN fs /\ stack'[t][k] = fs[k]
      BY <1>1, <1>6, <1>9, <3>1
    <3>2. ASSUME NEW j \in 2..Len(stack[t]), Len(Below(t)) # 0, k = Len(fs) + j - 1,
                 stack'[t][k] = stack[t][j]
          PROVE  \/ stack'[t][k].op \in EndOps
                 \/ stack'[t][k].op \in SetOps /\ k = Len(stack'[t])
      <4>1. Ends(t) /\ j \in DOMAIN stack[t] /\ Len(stack[t]) = Len(Below(t)) + 1
        BY <1>2, <1>6, <1>9, <3>2
      <4>2. \/ stack[t][j].op \in EndOps
            \/ stack[t][j].op \in SetOps /\ j = Len(stack[t])
        BY <4>1 DEF Ends
      <4> QED BY <1>1, <1>6, <3>2, <4>1, <4>2
    <3> QED BY <1>7, <3>1, <3>2
  <2> QED BY <1>4, <1>5, <2>1 DEF Stacks, Ends
<1>10. CASE Len(Below(t)) = 0 /\ Len(fs) = 1 /\ fs[1].op \in {"stamp", "read"}
  <2>1. Len(stack'[t]) = 1 /\ stack'[t][1] = fs[1]
    BY <1>1, <1>6, <1>10
  <2> QED BY <1>4, <1>5, <1>10, <2>1 DEF Stacks, Alone
<1> QED BY <1>8, <1>9, <1>10 DEF ShapeFits

LEMMA ExclusiveStep ==
  ASSUME Typing, Exclusive, NEW t \in Threads, NEW fs \in Seq(FrameSet), Replace(t, fs),
         LockFits(t, fs)
  PROVE  Exclusive'
<1>1. /\ \A u \in Threads : u # t => Frames(u)' = Frames(u)
      /\ Frames(t)' = Among(fs) \cup Rest(t)
      /\ Rest(t) \subseteq Frames(t)
  <2>1. /\ \A u \in Threads : u # t => Frames(u)' = Frames(u)
        /\ Frames(t)' = Among(fs) \cup Rest(t)
        /\ Busy(t) => Frames(t) = {Top(t)} \cup Rest(t)
        /\ ~Busy(t) => Frames(t) = {} /\ Rest(t) = {}
    BY ReplaceFrames
  <2> QED BY <2>1
<1>2. \A u \in Threads, o \in Objects : Holds(u, o)' <=> \E f \in Frames(u)' : f.holds = o
  BY DEF Holds, Frames
<1>3. \A u \in Threads, o \in Objects : u # t => (Holds(u, o)' <=> Holds(u, o))
  BY <1>1, <1>2, HoldsFrames
<1>4. \A o \in Objects : Holds(t, o)' =>
        Holds(t, o) \/ \A u \in Threads \ {t} : ~Holds(u, o)
  <2> SUFFICES ASSUME NEW o \in Objects, Holds(t, o)'
               PROVE  Holds(t, o) \/ \A u \in Threads \ {t} : ~Holds(u, o)
    OBVIOUS
  <2>1. PICK f \in Frames(t)' : f.holds = o
    BY <1>2
  <2>2. CASE f \in Rest(t)
    BY <1>1, <2>1, <2>2, HoldsFrames
  <2>3. CASE f \in Among(fs)
    <3>1. o # None
      BY ParametersAssumption
    <3> QED BY <2>1, <2>3, <3>1 DEF Among, LockFits
  <2> QED BY <1>1, <2>2, <2>3
<1> QED BY <1>3, <1>4 DEF Exclusive

LEMMA PhasesStep ==
  ASSUME Typing, Phases, NEW t \in Threads, NEW fs \in Seq(FrameSet), Replace(t, fs),
         PhaseFits(t, fs), running' = running
  PROVE  Phases'
<1>1. /\ \A u \in Threads : u # t => Frames(u)' = Frames(u) /\ stack'[u] = stack[u]
      /\ Frames(t)' = Among(fs) \cup Rest(t)
      /\ Rest(t) \subseteq Frames(t)
  <2>1. /\ \A u \in Threads : u # t => Frames(u)' = Frames(u)
        /\ Frames(t)' = Among(fs) \cup Rest(t)
        /\ Busy(t) => Frames(t) = {Top(t)} \cup Rest(t)
        /\ ~Busy(t) => Frames(t) = {} /\ Rest(t) = {}
    BY ReplaceFrames
  <2>2. \A u \in Threads : u # t => stack'[u] = stack[u]
    BY ReplaceFacts
  <2> QED BY <2>1, <2>2
<1>2. running => \A f \in Among(fs) : f.op \in RunOps
  BY DEF Among, PhaseFits
<1> QED BY <1>1, <1>2 DEF Phases, PhaseFits

LEMMA UpwardsStep ==
  ASSUME Typing, Upwards, NEW t \in Threads, NEW fs \in Seq(FrameSet), Replace(t, fs),
         LevelFits(t, fs), running' = running
  PROVE  Upwards'
<1> SUFFICES ASSUME running,
                    NEW u \in Threads, NEW k \in DOMAIN stack'[u], NEW l \in DOMAIN stack'[u],
                    k < l, stack'[u][l].holds # None
             PROVE  Level[stack'[u][l].holds] < Level[Object[stack'[u][k].par]]
  BY DEF Upwards
<1>1. CASE u # t
  <2>1. stack'[u] = stack[u]
    BY <1>1, ReplaceFacts
  <2> QED BY <2>1 DEF Upwards
<1>2. CASE u = t
  <2>1. /\ Len(fs) \in Nat /\ Len(Below(t)) \in Nat /\ DOMAIN fs = 1..Len(fs)
        /\ DOMAIN stack[t] = 1..Len(stack[t]) /\ Len(stack[t]) \in Nat
        /\ DOMAIN stack'[t] = 1..(Len(fs) + Len(Below(t)))
    BY ReplaceAt
  <2>2. \A n \in DOMAIN stack'[t] :
          \/ n \in DOMAIN fs /\ stack'[t][n] = fs[n]
          \/ \E j \in 2..Len(stack[t]) :
               /\ Len(Below(t)) # 0 /\ n = Len(fs) + j - 1 /\ stack'[t][n] = stack[t][j]
    BY ReplaceAt
  <2>3. /\ Busy(t) => Top(t) = stack[t][1] /\ Top(t) \in FrameSet
        /\ ~Busy(t) => Len(stack[t]) = 0
    BY BelowType
  <2>4. k \in DOMAIN stack'[t] /\ l \in DOMAIN stack'[t]
    BY <1>2
  <2>5. CASE l \in DOMAIN fs /\ stack'[t][l] = fs[l]
    <3>1. k \in DOMAIN fs
      BY <2>1, <2>4, <2>5
    <3>2. stack'[t][k] = fs[k]
      BY <2>1, <2>2, <2>4, <3>1
    <3> QED BY <1>2, <2>5, <3>1, <3>2 DEF LevelFits
  <2>6. ASSUME NEW j \in 2..Len(stack[t]), l = Len(fs) + j - 1, stack'[t][l] = stack[t][j]
        PROVE  Level[stack'[t][l].holds] < Level[Object[stack'[t][k].par]]
    <3>1. CASE k \in DOMAIN fs /\ stack'[t][k] = fs[k]
      <4>1. Busy(t) /\ 1 \in DOMAIN stack[t] /\ j \in DOMAIN stack[t] /\ 1 < j
        BY <2>1, <2>3, <2>6
      <4>2. Level[stack[t][j].holds] < Level[Object[Top(t).par]]
        BY <1>2, <2>3, <2>6, <4>1 DEF Upwards
      <4>3. Level[Object[Top(t).par]] <= Level[Object[fs[k].par]]
        BY <3>1, <4>1 DEF LevelFits
      <4>4. stack[t][j] \in FrameSet /\ fs[k] \in FrameSet
        BY <3>1, <4>1 DEF Typing
      <4>5. /\ Level[stack[t][j].holds] \in Nat /\ Level[Object[fs[k].par]] \in Nat
            /\ Level[Object[Top(t).par]] \in Nat
        BY <1>2, <2>3, <2>6, <4>1, <4>4, ParametersAssumption DEF FrameSet
      <4> QED BY <2>6, <3>1, <4>2, <4>3, <4>5
    <3>2. ASSUME NEW i \in 2..Len(stack[t]), k = Len(fs) + i - 1, stack'[t][k] = stack[t][i]
          PROVE  Level[stack'[t][l].holds] < Level[Object[stack'[t][k].par]]
      <4>1. i < j /\ i \in DOMAIN stack[t] /\ j \in DOMAIN stack[t]
        BY <2>1, <2>6, <3>2
      <4> QED BY <1>2, <2>6, <3>2, <4>1 DEF Upwards
    <3> QED BY <2>2, <2>4, <3>1, <3>2
  <2>7. \/ l \in DOMAIN fs /\ stack'[t][l] = fs[l]
        \/ \E j \in 2..Len(stack[t]) : l = Len(fs) + j - 1 /\ stack'[t][l] = stack[t][j]
    BY <2>2, <2>4
  <2>8. Level[stack'[t][l].holds] < Level[Object[stack'[t][k].par]]
    <3>1. CASE l \in DOMAIN fs /\ stack'[t][l] = fs[l]
      BY <1>2, <2>5, <3>1
    <3>2. CASE \E j \in 2..Len(stack[t]) : l = Len(fs) + j - 1 /\ stack'[t][l] = stack[t][j]
      <4>1. PICK j \in 2..Len(stack[t]) : l = Len(fs) + j - 1 /\ stack'[t][l] = stack[t][j]
        BY <3>2
      <4> QED BY <2>6, <4>1
    <3> QED BY <2>7, <3>1, <3>2
  <2> QED BY <1>2, <2>8
<1> QED BY <1>1, <1>2

(* What the top of a stack says of the rest.                               *)
LEMMA TopFacts ==
  ASSUME Typing, Stacks, Phases, NEW t \in Threads, Busy(t)
  PROVE  /\ Top(t) \in Frames(t) /\ Top(t) \in FrameSet /\ FrameOK(Top(t))
         /\ Top(t).op \in CallOps => Calls(t)
         /\ Top(t).op \in EndOps => Ends(t)
         /\ Top(t).op \in SetOps => Len(Below(t)) = 0
         /\ Top(t).op \in {"stamp", "read"} => Len(Below(t)) = 0
         /\ ~running => t = Main
         /\ running => Top(t).op \in RunOps
<1>1. /\ Len(stack[t]) = Len(Below(t)) + 1 /\ Len(Below(t)) \in Nat
      /\ Top(t) = stack[t][1] /\ Top(t) \in FrameSet /\ 1 \in DOMAIN stack[t]
  <2>1. stack[t] \in Seq(FrameSet) /\ Below(t) \in Seq(FrameSet)
    BY BelowType DEF Typing
  <2>2. Len(stack[t]) = Len(Below(t)) + 1 /\ Top(t) = stack[t][1] /\ Top(t) \in FrameSet
    BY BelowType
  <2> QED BY <2>1, <2>2
<1>2. Top(t) \in Frames(t)
  BY <1>1 DEF Frames
<1>3. Calls(t) \/ Ends(t) \/ Alone(t)
  BY DEF Stacks
<1>4. Calls(t) => Top(t).op \in CallOps
  BY <1>1 DEF Calls
<1>5. Ends(t) => Top(t).op \in EndOps \/ (Top(t).op \in SetOps /\ Len(Below(t)) = 0)
  BY <1>1 DEF Ends
<1>6. ASSUME Alone(t) PROVE Top(t).op \in {"stamp", "read"} /\ Len(Below(t)) = 0
  <2>1. Len(stack[t]) = 1 /\ stack[t][1].op \in {"stamp", "read"}
    BY <1>6 DEF Alone
  <2> DEFINE n == Len(Below(t))  m == Len(stack[t])
  <2>2. n \in Nat /\ m = n + 1 /\ m = 1
    BY <1>1, <2>1
  <2> HIDE DEF n, m
  <2>3. n = 0
    BY <2>2
  <2>4. Len(Below(t)) = 0
    BY <2>3 DEF n
  <2> QED BY <1>1, <2>1, <2>4
<1>7. /\ Top(t).op \in CallOps => Calls(t)
      /\ Top(t).op \in EndOps => Ends(t)
      /\ Top(t).op \in SetOps => Len(Below(t)) = 0
      /\ Top(t).op \in {"stamp", "read"} => Len(Below(t)) = 0
  BY <1>3, <1>4, <1>5, <1>6 DEF CallOps, EndOps, SetOps
<1>8. ~running => t = Main
  BY DEF Phases, Busy
<1> QED BY <1>1, <1>2, <1>7, <1>8 DEF Stacks, Phases
----------------------------------------------------------------------------
(* Following the sources of an input comes to an output or to nothing      *)

(* Sources, wires and what depends on them have their types.              *)
WiringOK ==
  /\ raw \in [Inputs -> Params \cup {None}]
  /\ shared \in [Inputs -> Params \cup {None}]
  /\ wired \in [Params -> SUBSET Inputs]
  /\ life \in [Params -> {"owned", "released", "dying", "dead"}]
  /\ user \in [Inputs -> Outputs \cup {None}]
  /\ Feeding

Nodes == Params \cup {None}
Rank(p) == IF p \in Params THEN Level[Object[p]] + 1 ELSE 0
Onward(g) == [p \in Nodes |-> IF p \in Inputs THEN g[Feed(p)] ELSE p]

LEMMA FeedFacts ==
  ASSUME WiringOK, NEW i \in Inputs
  PROVE  /\ Feed(i) \in Nodes /\ Rank(i) \in Nat /\ Rank(Feed(i)) \in Nat
         /\ Rank(Feed(i)) < Rank(i)
         /\ Feed(i) # None => <<i, Feed(i)>> \in MayFeed
         /\ Feed(i) # None => Feed(i) \in {raw[i], shared[i]}
<1>1. /\ Feed(i) \in {raw[i], shared[i]} /\ raw[i] \in Nodes /\ shared[i] \in Nodes
      /\ i \in Params /\ None \notin Params
      /\ Object \in [Params -> Objects] /\ Level \in [Objects -> Nat]
  BY ParametersAssumption DEF Feed, WiringOK, Nodes, Params
<1>2. Feed(i) # None => <<i, Feed(i)>> \in MayFeed
  BY <1>1 DEF WiringOK, Feeding
<1>3. CASE Feed(i) = None
  BY <1>1, <1>3 DEF Rank, Nodes
<1>4. CASE Feed(i) # None
  <2>1. Level[Object[Feed(i)]] < Level[Object[i]]
    BY <1>2, <1>4, ParametersAssumption
  <2>2. Feed(i) \in Params
    BY <1>1, <1>4 DEF Nodes
  <2> QED BY <1>1, <1>2, <1>4, <2>1, <2>2 DEF Rank, Nodes
<1> QED BY <1>3, <1>4

LEMMA RankType == \A p \in Nodes : Rank(p) \in Nat
BY ParametersAssumption DEF Rank, Nodes

(* A function that follows the sources exists: one level after the other.  *)
LEMMA OnwardHasFixpoint ==
  ASSUME WiringOK
  PROVE  \E g \in [Nodes -> Outputs \cup {None}] : g = Onward(g)
<1> DEFINE Good(n) == \E g \in [Nodes -> Outputs \cup {None}] :
                        \A p \in Nodes : Rank(p) < n => g[p] = Onward(g)[p]
           Bad == {n \in Nat : ~Good(n)}
<1>1. Good(0)
  <2>1. [p \in Nodes |-> None] \in [Nodes -> Outputs \cup {None}]
    OBVIOUS
  <2>2. \A p \in Nodes : ~(Rank(p) < 0)
    BY RankType
  <2> QED BY <2>1, <2>2
<1>2. ASSUME NEW n \in Nat, Good(n) PROVE Good(n + 1)
  <2>1. PICK g \in [Nodes -> Outputs \cup {None}] :
          \A p \in Nodes : Rank(p) < n => g[p] = Onward(g)[p]
    BY <1>2
  <2> DEFINE h == Onward(g)
  <2>2. \A i \in Inputs : Feed(i) \in Nodes /\ i \in Nodes
    BY FeedFacts DEF Nodes, Params
  <2>3. h \in [Nodes -> Outputs \cup {None}]
    BY <2>1, <2>2 DEF Onward, Nodes, Params
  <2>4. ASSUME NEW p \in Nodes, Rank(p) < n + 1 PROVE h[p] = Onward(h)[p]
    <3>1. CASE p \notin Inputs
      BY <3>1 DEF Onward
    <3>2. CASE p \in Inputs
      <4>1. Rank(Feed(p)) \in Nat /\ Rank(p) \in Nat /\ Rank(Feed(p)) < Rank(p) /\ Feed(p) \in Nodes
        BY <3>2, FeedFacts
      <4>2. Rank(Feed(p)) < n
        BY <1>2, <2>4, <4>1
      <4>3. g[Feed(p)] = h[Feed(p)]
        BY <2>1, <4>1, <4>2
      <4>4. h[p] = g[Feed(p)] /\ Onward(h)[p] = h[Feed(p)]
        BY <3>2 DEF Onward
      <4> QED BY <4>3, <4>4
    <3> QED BY <3>1, <3>2
  <2> HIDE DEF h
  <2> QED BY <2>3, <2>4
<1> HIDE DEF Good
<1>3. Bad = {}
  <2> SUFFICES ASSUME Bad # {} PROVE FALSE
    OBVIOUS
  <2>1. PICK m \in Bad : \A n \in Bad : m <= n
    BY LeastNumber
  <2>2. m \in Nat /\ m # 0 /\ ~Good(m)
    BY <1>1, <2>1
  <2>3. m - 1 \in Nat /\ (m - 1) + 1 = m /\ ~(m <= m - 1)
    BY <2>2
  <2>4. Good(m - 1)
    BY <2>1, <2>3
  <2>5. Good((m - 1) + 1)
    BY <1>2, <2>3, <2>4
  <2> QED BY <2>2, <2>3, <2>5
(* No object is above some level.                                          *)
<1>4. \E n \in Nat : \A p \in Nodes : Rank(p) < n
  <2>1. Object \in [Params -> Objects] /\ Level \in [Objects -> Nat]
    BY ParametersAssumption
  <2>2. CASE Objects = {}
    <3>1. \A p \in Nodes : Rank(p) = 0
      BY <2>1, <2>2 DEF Rank
    <3> QED BY <3>1
  <2>3. CASE Objects # {}
    <3>1. PICK m \in Objects : \A o \in Objects : Level[o] <= Level[m]
      BY <2>3, HighestObject
    <3>2. Level[m] + 2 \in Nat /\ \A p \in Nodes : Rank(p) < Level[m] + 2
      BY <2>1, <3>1 DEF Rank
    <3> QED BY <3>2
  <2> QED BY <2>2, <2>3
<1>5. PICK n \in Nat : \A p \in Nodes : Rank(p) < n
  BY <1>4
<1>6. Good(n)
  BY <1>3
<1>7. PICK g \in [Nodes -> Outputs \cup {None}] :
        \A p \in Nodes : Rank(p) < n => g[p] = Onward(g)[p]
  BY <1>6 DEF Good
<1>8. g = [p \in Nodes |-> g[p]]
  OBVIOUS
<1>9. g = Onward(g)
  BY <1>5, <1>7, <1>8 DEF Onward
<1> QED BY <1>9

(* What is reached this way is what is reached from the source, and is an  *)
(* output or nothing.                                                      *)
LEMMA DataPtrFacts ==
  ASSUME WiringOK
  PROVE  /\ \A i \in Inputs : DataPtr[i] = DataPtr[Feed(i)]
         /\ \A p \in Nodes \ Inputs : DataPtr[p] = p
         /\ \A p \in Nodes : DataPtr[p] \in Outputs \cup {None}
<1>1. PICK g \in [Nodes -> Outputs \cup {None}] : g = Onward(g)
  BY OnwardHasFixpoint
<1>2. DataPtr = CHOOSE f : f = Onward(f)
  BY DEF DataPtr, Onward, Nodes
<1>3. DataPtr = Onward(DataPtr)
  BY <1>1, <1>2
<1>4. /\ \A i \in Inputs : DataPtr[i] = DataPtr[Feed(i)]
      /\ \A p \in Nodes \ Inputs : DataPtr[p] = p
  BY <1>3 DEF Onward, Nodes, Params
<1> DEFINE Bad == {Rank(p) : p \in {q \in Nodes : DataPtr[q] \notin Outputs \cup {None}}}
<1>5. ASSUME Bad # {} PROVE FALSE
  <2>1. Bad \subseteq Nat
    BY RankType
  <2>2. PICK m \in Bad : \A n \in Bad : m <= n
    BY <1>5, <2>1, LeastNumber
  <2>3. PICK p \in Nodes : DataPtr[p] \notin Outputs \cup {None} /\ m = Rank(p)
    BY <2>2
  <2>4. p \in Inputs
    BY <1>4, <2>3 DEF Nodes, Params
  <2>5. /\ Feed(p) \in Nodes /\ Rank(p) \in Nat /\ Rank(Feed(p)) \in Nat
        /\ Rank(Feed(p)) < Rank(p)
    BY <2>4, FeedFacts
  <2>6. Rank(Feed(p)) \in Bad
    BY <1>4, <2>3, <2>4, <2>5
  <2> QED BY <2>2, <2>3, <2>5, <2>6
<1> QED BY <1>4, <1>5

----------------------------------------------------------------------------
(* Structure is invariant                                                  *)

StampFits(fs) == \A k \in DOMAIN fs : -1 <= fs[k].stamp /\ fs[k].stamp <= clock'

LEMMA StructureStep ==
  ASSUME Structure, NEW t \in Threads, NEW fs \in Seq(FrameSet), Replace(t, fs),
         ShapeFits(t, fs), LockFits(t, fs), PhaseFits(t, fs), LevelFits(t, fs),
         StampFits(fs), running' = running, Cells', Feeding', clock <= clock',
         \A p \in Outputs : data'[p] <= clock',
         \A p \in Params : -1 <= ts'[p] /\ ts'[p] <= clock'
  PROVE  Structure'
<1>1. Typing /\ Stamps /\ Stacks /\ Feeding /\ Phases /\ Exclusive /\ Upwards
  BY DEF Structure
<1>2. Typing'
  BY <1>1, ReplaceFacts DEF Typing
<1>3. Stacks' /\ Phases' /\ Exclusive' /\ Upwards'
  BY <1>1, StacksStep, PhasesStep, ExclusiveStep, UpwardsStep
<1>4. Stamps'
  <2>1. /\ \A u \in Threads : u # t => Frames(u)' = Frames(u)
        /\ Frames(t)' = Among(fs) \cup Rest(t)
        /\ Busy(t) => Frames(t) = {Top(t)} \cup Rest(t)
        /\ ~Busy(t) => Frames(t) = {} /\ Rest(t) = {}
    BY <1>1, ReplaceFrames
  <2>2. \A f \in Among(fs) : -1 <= f.stamp /\ f.stamp <= clock'
    BY DEF Among, StampFits
  <2>3. \A u \in Threads : \A f \in Frames(u) : -1 <= f.stamp /\ f.stamp <= clock'
    <3>1. \A u \in Threads : \A f \in Frames(u) : f.stamp \in Int
      BY <1>1, FramesType DEF FrameSet
    <3>2. clock \in Int /\ clock' \in Int
      BY <1>1, <1>2 DEF Typing, Cells
    <3> QED BY <1>1, <3>1, <3>2 DEF Stamps
  <2>4. \A u \in Threads : \A f \in Frames(u)' : -1 <= f.stamp /\ f.stamp <= clock'
    <3>1. \A f \in Frames(t)' : f \in Among(fs) \/ f \in Frames(t)
      BY <2>1
    <3> QED BY <2>1, <2>2, <2>3, <3>1
  <2> QED BY <2>4 DEF Stamps
<1> QED BY <1>2, <1>3, <1>4 DEF Structure

LEMMA WiringKept ==
  /\ Structure => WiringOK
  /\ Structure /\ UNCHANGED <<wiring, user>> => WiringOK'
<1>1. Structure => WiringOK
  BY DEF Structure, Typing, Cells, WiringOK
<1>2. WiringOK /\ UNCHANGED <<wiring, user>> => WiringOK'
  BY DEF WiringOK, wiring, Feeding
<1> QED BY <1>1, <1>2

(* The step leaves the values and the clock alone.                         *)
LEMMA StructureStackStep ==
  ASSUME Structure, NEW t \in Threads, NEW fs \in Seq(FrameSet), Replace(t, fs),
         ShapeFits(t, fs), LockFits(t, fs), PhaseFits(t, fs), LevelFits(t, fs),
         \A k \in DOMAIN fs : -1 <= fs[k].stamp /\ fs[k].stamp <= clock,
         UNCHANGED <<data, ts, control>>, WiringOK'
  PROVE  Structure'
<1>1. Cells /\ Stamps
  BY DEF Structure, Typing
<1>2. Cells' /\ Feeding'
  BY <1>1 DEF Cells, control, WiringOK
<1>4. running' = running /\ clock' = clock /\ clock \in Int
  BY <1>1 DEF control, Cells
<1>5. StampFits(fs)
  BY <1>4 DEF StampFits
<1>6. /\ \A p \in Outputs : data'[p] <= clock'
      /\ \A p \in Params : -1 <= ts'[p] /\ ts'[p] <= clock'
  BY <1>1, <1>4 DEF Stamps
<1>7. clock <= clock'
  BY <1>4
<1> QED BY <1>2, <1>4, <1>5, <1>6, <1>7, StructureStep

LEMMA LeaveStructure ==
  ASSUME Structure, NEW t \in Threads, Busy(t), Leave(t),
         UNCHANGED <<data, ts, control>>, WiringOK'
  PROVE  Structure'
<1> DEFINE fs == <<>>
<1>1. Typing /\ Stacks /\ Phases /\ stack \in [Threads -> Seq(FrameSet)]
  BY DEF Structure, Typing
<1>2. fs \in Seq(FrameSet) /\ DOMAIN fs = {}
  OBVIOUS
<1>3. Replace(t, fs)
  <2>1. Below(t) \in Seq(FrameSet) /\ Below(t) = Tail(stack[t])
    BY <1>1, BelowType DEF Below
  <2>2. <<>> \o Below(t) = Tail(stack[t])
    BY <2>1
  <2> QED BY <2>2 DEF Replace, Leave
<1>4. (Calls(t) \/ Len(Below(t)) = 0) \/ (Ends(t) \/ Len(Below(t)) = 0)
  <2>1. Top(t) \in FrameSet
    BY <1>1, BelowType
  <2>2. Top(t).op \in CallOps \cup EndOps \cup SetOps \cup {"stamp", "read"}
    BY <2>1 DEF FrameSet, CallOps, RunOps
  <2> QED BY <1>1, <2>2, TopFacts
<1> HIDE DEF fs
<1>5. ShapeFits(t, fs) /\ LockFits(t, fs) /\ LevelFits(t, fs)
  BY <1>2, <1>4 DEF ShapeFits, LockFits, LevelFits
<1>6. PhaseFits(t, fs)
  BY <1>1, <1>2, TopFacts DEF PhaseFits
<1>7. \A k \in DOMAIN fs : -1 <= fs[k].stamp /\ fs[k].stamp <= clock
  BY <1>2
<1> QED BY <1>2, <1>3, <1>5, <1>6, <1>7, StructureStackStep
(* One frame comes in place of the top, or onto an empty stack.            *)
LEMMA OneFrame ==
  ASSUME NEW f \in FrameSet
  PROVE  /\ <<f>> \in Seq(FrameSet) /\ Len(<<f>>) = 1 /\ DOMAIN <<f>> = {1} /\ <<f>>[1] = f
         /\ Among(<<f>>) = {f}
<1>1. <<f>> \in Seq(FrameSet) /\ Len(<<f>>) = 1 /\ DOMAIN <<f>> = {1} /\ <<f>>[1] = f
  OBVIOUS
<1> QED BY <1>1 DEF Among

LEMMA TwoFrames ==
  ASSUME NEW f \in FrameSet, NEW g \in FrameSet
  PROVE  /\ <<f, g>> \in Seq(FrameSet) /\ Len(<<f, g>>) = 2 /\ DOMAIN <<f, g>> = {1, 2}
         /\ <<f, g>>[1] = f /\ <<f, g>>[2] = g
         /\ Among(<<f, g>>) = {f, g} /\ <<f>> \o <<g>> = <<f, g>> /\ <<>> \o <<g>> = <<g>>
<1>1. /\ <<f, g>> \in Seq(FrameSet) /\ Len(<<f, g>>) = 2 /\ DOMAIN <<f, g>> = {1, 2}
      /\ <<f, g>>[1] = f /\ <<f, g>>[2] = g
  OBVIOUS
<1>2. <<>> \o <<g>> = <<g>>
  OBVIOUS
<1>3. <<f>> \o <<g>> = <<f, g>>
  <2> DEFINE a == <<f>>  b == <<g>>  c == <<f, g>>
  <2>1. /\ a \in Seq(FrameSet) /\ b \in Seq(FrameSet) /\ Len(a) = 1 /\ Len(b) = 1
        /\ a[1] = f /\ b[1] = g /\ c \in Seq(FrameSet) /\ Len(c) = 2 /\ c[1] = f /\ c[2] = g
    OBVIOUS
  <2> HIDE DEF a, b, c
  <2>2. a \o b \in Seq(FrameSet) /\ Len(a \o b) = 2 /\ (a \o b)[1] = f /\ (a \o b)[2] = g
    <3>1. /\ a \o b \in Seq(FrameSet) /\ Len(a \o b) = Len(a) + Len(b)
          /\ \A k \in 1..(Len(a) + Len(b)) :
               (a \o b)[k] = IF k <= Len(a) THEN a[k] ELSE b[k - Len(a)]
      BY <2>1, ConcatProperties
    <3>2. 1 \in 1..(Len(a) + Len(b)) /\ 2 \in 1..(Len(a) + Len(b))
      BY <2>1
    <3> QED BY <2>1, <3>1, <3>2
  <2>3. \A k \in 1..Len(a \o b) : (a \o b)[k] = c[k]
    BY <2>1, <2>2
  <2>4. a \o b = c
    BY <2>1, <2>2, <2>3, SeqEqual
  <2> QED BY <2>4 DEF a, b, c
<1> QED BY <1>1, <1>2, <1>3 DEF Among

LEMMA ThreeFrames ==
  ASSUME NEW f \in FrameSet, NEW g \in FrameSet, NEW h \in FrameSet
  PROVE  /\ <<f, g, h>> \in Seq(FrameSet) /\ Len(<<f, g, h>>) = 3
         /\ DOMAIN <<f, g, h>> = {1, 2, 3}
         /\ <<f, g, h>>[1] = f /\ <<f, g, h>>[2] = g /\ <<f, g, h>>[3] = h
         /\ Among(<<f, g, h>>) = {f, g, h}
<1>1. /\ <<f, g, h>> \in Seq(FrameSet) /\ Len(<<f, g, h>>) = 3
      /\ DOMAIN <<f, g, h>> = {1, 2, 3}
      /\ <<f, g, h>>[1] = f /\ <<f, g, h>>[2] = g /\ <<f, g, h>>[3] = h
  OBVIOUS
<1> QED BY <1>1 DEF Among

LEMMA BecomeReplaces ==
  ASSUME Typing, NEW t \in Threads, NEW fs
  PROVE  /\ Busy(t) /\ Become(t, fs) => Replace(t, fs)
         /\ ~Busy(t) /\ fs \in Seq(FrameSet) /\ Enter(t, fs) => Replace(t, fs)
<1>1. ~Busy(t) /\ fs \in Seq(FrameSet) => fs \o stack[t] = fs \o <<>>
  BY DEF Busy
<1>2. Busy(t) => Below(t) = Tail(stack[t])
  BY DEF Below
<1>3. ~Busy(t) => Below(t) = <<>>
  BY DEF Below
<1> QED BY <1>1, <1>2, <1>3 DEF Become, Enter, Replace

LEMMA OneFits ==
  ASSUME NEW t \in Threads, NEW f \in FrameSet, FrameOK(f),
         \/ f.op \in CallOps /\ (Calls(t) \/ Len(Below(t)) = 0)
         \/ f.op \in EndOps /\ (Ends(t) \/ Len(Below(t)) = 0)
         \/ f.op \in SetOps \cup {"stamp", "read"} /\ Len(Below(t)) = 0,
         \/ f.holds = None \/ Holds(t, f.holds)
         \/ \A u \in Threads \ {t} : ~Holds(u, f.holds),
         ~running => t = Main,
         running => f.op \in RunOps,
         running /\ Busy(t) => Level[Object[Top(t).par]] <= Level[Object[f.par]]
  PROVE  ShapeFits(t, <<f>>) /\ LockFits(t, <<f>>) /\ PhaseFits(t, <<f>>) /\ LevelFits(t, <<f>>)
<1> DEFINE fs == <<f>>
<1>1. Len(fs) = 1 /\ DOMAIN fs = {1} /\ fs[1] = f
  BY OneFrame
<1> HIDE DEF fs
<1>2. ShapeFits(t, fs)
  BY <1>1 DEF ShapeFits
<1>3. LockFits(t, fs)
  BY <1>1 DEF LockFits
<1>4. PhaseFits(t, fs)
  BY <1>1 DEF PhaseFits
<1>5. LevelFits(t, fs)
  BY <1>1 DEF LevelFits
<1> QED BY <1>2, <1>3, <1>4, <1>5 DEF fs

(* An idle thread.                                                         *)
LEMMA IdleFacts ==
  ASSUME Structure, NEW t \in Threads, ~Busy(t)
  PROVE  Len(Below(t)) = 0 /\ Calls(t) /\ Frames(t) = {}
<1>1. stack[t] = <<>> /\ Below(t) = <<>>
  BY DEF Busy, Below
<1> QED BY <1>1 DEF Calls, Frames

LEMMA UpdateStructure ==
  ASSUME Structure, NEW t \in Threads, NEW p \in Outputs, UpdateData(t, p) \/ UpdateTyped(t, p)
  PROVE  Structure'
<1>1. /\ Cells /\ Stamps /\ Feeding /\ Typing
      /\ p \in Params /\ Object[p] \in Objects /\ t \in Threads
  BY ParametersAssumption DEF Structure, Typing, Params
<1>2. /\ ~Busy(t) /\ (running \/ t = Main)
      /\ clock < MaxUpdates /\ clock' = clock + 1
      /\ data' = [data EXCEPT ![p] = clock']
      /\ UNCHANGED <<ts, wiring, user, running, changes>>
  BY DEF UpdateData, UpdateTyped, Acts
<1>3. clock \in Nat /\ clock' \in 0..MaxUpdates /\ clock' \in Nat /\ clock <= clock'
  BY <1>1, <1>2, ParametersAssumption DEF Cells
<1>4. Cells' /\ Feeding'
  BY <1>1, <1>2, <1>3 DEF Cells, Feeding, wiring
<1>5. /\ \A q \in Outputs : data'[q] <= clock'
      /\ \A q \in Params : -1 <= ts'[q] /\ ts'[q] <= clock'
  <2>1. data \in [Outputs -> Nat] /\ ts \in [Params -> Int]
    BY <1>1 DEF Cells
  <2> QED BY <1>1, <1>2, <1>3, <2>1 DEF Stamps
<1>6. Len(Below(t)) = 0
  BY <1>2, IdleFacts
<1>7. CASE UpdateData(t, p)
  <2> DEFINE f == Frame("stamp", p, None, {}, clock', t, Object[p])
  <2>1. /\ f \in FrameSet /\ f.op = "stamp" /\ f.par = p /\ f.todo = {} /\ f.stamp = clock'
        /\ f.holds = Object[p]
    BY <1>1, <1>3 DEF Frame, FrameSet, RunOps
  <2>2. Enter(t, <<f>>) /\ MayLock(t, p) /\ p \notin Typed
    BY <1>7 DEF UpdateData
  <2> HIDE DEF f
  <2>3. FrameOK(f)
    BY <2>1, <2>2 DEF FrameOK, LockOps
  <2>4. <<f>> \in Seq(FrameSet) /\ Replace(t, <<f>>)
    BY <1>1, <1>2, <2>1, <2>2, OneFrame, BecomeReplaces
  <2>5. ShapeFits(t, <<f>>) /\ LockFits(t, <<f>>) /\ PhaseFits(t, <<f>>) /\ LevelFits(t, <<f>>)
    <3>1. \A u \in Threads \ {t} : ~Holds(u, f.holds)
      BY <2>1, <2>2 DEF MayLock
    <3> QED BY <1>2, <1>6, <2>1, <2>3, <3>1, OneFits DEF RunOps
  <2>6. StampFits(<<f>>)
    BY <1>3, <2>1, OneFrame DEF StampFits
  <2> QED BY <1>2, <1>3, <1>4, <1>5, <2>4, <2>5, <2>6, StructureStep
<1>8. CASE UpdateTyped(t, p)
  <2> DEFINE f == Frame("commit", p, None, {}, clock', t, None)
  <2>1. /\ f \in FrameSet /\ f.op = "commit" /\ f.par = p /\ f.todo = {} /\ f.stamp = clock'
        /\ f.holds = None
    BY <1>1, <1>3 DEF Frame, FrameSet, RunOps
  <2>2. Enter(t, <<f>>) /\ p \in Typed
    BY <1>8 DEF UpdateTyped
  <2> HIDE DEF f
  <2>3. FrameOK(f)
    BY <2>1, <2>2 DEF FrameOK, LockOps
  <2>4. <<f>> \in Seq(FrameSet) /\ Replace(t, <<f>>)
    BY <1>1, <1>2, <2>1, <2>2, OneFrame, BecomeReplaces
  <2>5. ShapeFits(t, <<f>>) /\ LockFits(t, <<f>>) /\ PhaseFits(t, <<f>>) /\ LevelFits(t, <<f>>)
    BY <1>2, <1>6, <2>1, <2>3, OneFits DEF RunOps, CallOps
  <2>6. StampFits(<<f>>)
    BY <1>3, <2>1, OneFrame DEF StampFits
  <2> QED BY <1>2, <1>3, <1>4, <1>5, <2>4, <2>5, <2>6, StructureStep
<1> QED BY <1>7, <1>8

LEMMA EmissionFacts ==
  ASSUME Structure, NEW p \in Params, NEW ctx \in Threads \cup {None}
  PROVE  LET f == Emission(p, ctx) IN
         /\ f \in FrameSet /\ FrameOK(f)
         /\ f.op = "emit" /\ f.par = p /\ f.src = None /\ f.todo = wired[p] /\ f.stamp = 0
         /\ f.ctx = ctx /\ f.holds = Object[p]
<1> DEFINE f == Emission(p, ctx)
<1>1. wired[p] \in SUBSET Inputs /\ Object[p] \in Objects /\ Feeding
  BY ParametersAssumption DEF Structure, Typing, Cells
<1>2. /\ f \in FrameSet
      /\ f.op = "emit" /\ f.par = p /\ f.src = None /\ f.todo = wired[p] /\ f.stamp = 0
      /\ f.ctx = ctx /\ f.holds = Object[p]
  BY <1>1 DEF Emission, Frame, FrameSet, RunOps
<1> HIDE DEF f
<1>3. FrameOK(f)
  BY <1>1, <1>2 DEF FrameOK, LockOps, Feeding
<1> QED BY <1>2, <1>3 DEF f

(* Stamp and Commit replace the top by the emission of its parameter, whose*)
(* mutex they hold or take.                                                *)
LEMMA EmitStructure ==
  ASSUME Structure, NEW t \in Threads, Stamp(t) \/ Commit(t)
  PROVE  Structure'
<1>1. /\ Cells /\ Stamps /\ Feeding /\ Typing /\ Stacks /\ Phases
  BY DEF Structure, Typing
<1> DEFINE f == Top(t)  e == Emission(f.par, f.ctx)
<1>2. /\ Busy(t) /\ f.op \in {"stamp", "commit"} /\ Become(t, <<e>>)
      /\ ts' = [ts EXCEPT ![f.par] = f.stamp]
      /\ UNCHANGED <<data, wiring, user, control>>
      /\ f.op = "commit" => MayLock(t, f.par)
  BY DEF Stamp, Commit, At
<1>3. /\ f \in Frames(t) /\ f \in FrameSet /\ FrameOK(f)
      /\ f.op = "commit" => Calls(t)
      /\ f.op = "stamp" => Len(Below(t)) = 0
      /\ ~running => t = Main
  BY <1>1, <1>2, TopFacts DEF CallOps
<1>4. /\ f.par \in Params /\ f.ctx \in Threads \cup {None} /\ f.stamp \in Int
      /\ Object[f.par] \in Objects
  BY <1>3, ParametersAssumption DEF FrameSet
<1>5. /\ e \in FrameSet /\ FrameOK(e) /\ e.op = "emit" /\ e.par = f.par /\ e.stamp = 0
      /\ e.holds = Object[f.par]
  BY <1>4, EmissionFacts
<1>6. f.op = "stamp" => Holds(t, Object[f.par])
  BY <1>3, <1>4, HoldsFrames DEF FrameOK, LockOps
<1>7. <<e>> \in Seq(FrameSet) /\ Replace(t, <<e>>)
  BY <1>1, <1>2, <1>5, OneFrame, BecomeReplaces
<1>8. running' = running /\ clock' = clock /\ clock \in Nat
  BY <1>1, <1>2, ParametersAssumption DEF control, Cells
<1>9. Cells' /\ Feeding'
  BY <1>1, <1>2, <1>4, <1>8 DEF Cells, Feeding, wiring, control
<1>10. /\ \A q \in Outputs : data'[q] <= clock'
       /\ \A q \in Params : -1 <= ts'[q] /\ ts'[q] <= clock'
  <2>1. -1 <= f.stamp /\ f.stamp <= clock
    BY <1>1, <1>3 DEF Stamps
  <2>2. ts \in [Params -> Int]
    BY <1>1 DEF Cells
  <2> QED BY <1>1, <1>2, <1>8, <2>1, <2>2 DEF Stamps
<1>11. Level[Object[f.par]] \in Nat
  BY <1>4, ParametersAssumption
<1> HIDE DEF e
<1>12. ShapeFits(t, <<e>>) /\ LockFits(t, <<e>>) /\ PhaseFits(t, <<e>>) /\ LevelFits(t, <<e>>)
  <2>1. e.holds = None \/ Holds(t, e.holds) \/ \A u \in Threads \ {t} : ~Holds(u, e.holds)
    BY <1>2, <1>5, <1>6 DEF MayLock
  <2>2. e.op \in CallOps /\ (Calls(t) \/ Len(Below(t)) = 0)
    BY <1>2, <1>3, <1>5 DEF CallOps
  <2>3. running => e.op \in RunOps
    BY <1>5 DEF RunOps
  <2>4. running /\ Busy(t) => Level[Object[Top(t).par]] <= Level[Object[e.par]]
    BY <1>5, <1>11
  <2> QED BY <1>3, <1>5, <2>1, <2>2, <2>3, <2>4, OneFits
<1>13. StampFits(<<e>>)
  BY <1>5, <1>8, OneFrame DEF StampFits
<1>14. clock <= clock'
  BY <1>8
<1> QED BY <1>7, <1>8, <1>9, <1>10, <1>12, <1>13, <1>14, StructureStep

(* The input that is notified is above the emitting parameter.             *)
LEMMA NotifyStructure ==
  ASSUME Structure, NEW t \in Threads, Notify(t)
  PROVE  Structure'
<1>1. /\ Cells /\ Stamps /\ Feeding /\ Typing /\ Stacks /\ Phases
  BY DEF Structure, Typing
<1> DEFINE f == Top(t)
<1>2. /\ Busy(t) /\ f.op = "emit" /\ UNCHANGED <<data, ts, wiring, user, control>>
  BY DEF Notify, At
<1>3. PICK i \in f.todo :
        LET rest == [f EXCEPT !.todo = @ \ {i}] IN
        IF Feed(i) = None
          THEN Become(t, <<rest>>)
          ELSE Become(t, <<Frame("commit", i, None, {}, ts[Feed(i)], f.ctx, None),
                           Frame("assign", i, None, {}, 0, f.ctx, None), rest>>)
  BY DEF Notify
<1> DEFINE rest == [f EXCEPT !.todo = f.todo \ {i}]
           c == Frame("commit", i, None, {}, ts[Feed(i)], f.ctx, None)
           a == Frame("assign", i, None, {}, 0, f.ctx, None)
<1>4. /\ f \in Frames(t) /\ f \in FrameSet /\ FrameOK(f) /\ Calls(t)
      /\ ~running => t = Main
      /\ running => f.op \in RunOps
  BY <1>1, <1>2, TopFacts DEF CallOps
<1>5. /\ f.par \in Params /\ f.ctx \in Threads \cup {None} /\ i \in Inputs /\ i \in Params
      /\ f.holds = Object[f.par] /\ <<i, f.par>> \in MayFeed
      /\ Object[f.par] \in Objects /\ Object[i] \in Objects
  BY <1>2, <1>4, ParametersAssumption DEF FrameSet, FrameOK, LockOps, Params
<1>6. /\ rest \in FrameSet /\ rest.op = "emit" /\ rest.par = f.par /\ rest.holds = f.holds
      /\ rest.stamp = f.stamp /\ rest.todo \subseteq f.todo
  BY <1>2, <1>4 DEF FrameSet
<1>7. FrameOK(rest)
  BY <1>2, <1>4, <1>5, <1>6 DEF FrameOK, LockOps
<1>8. Holds(t, f.holds)
  BY <1>4, <1>5, HoldsFrames
<1>9. WiringOK'
  BY <1>2, WiringKept
<1>10. -1 <= f.stamp /\ f.stamp <= clock /\ clock \in Nat /\ -1 <= 0 /\ 0 <= clock
  BY <1>1, <1>4, ParametersAssumption DEF Stamps, Cells
<1>11. /\ Level[Object[f.par]] \in Nat /\ Level[Object[i]] \in Nat
       /\ Level[Object[f.par]] < Level[Object[i]]
  BY <1>5, ParametersAssumption
<1>12. CASE Feed(i) = None
  <2>1. Become(t, <<rest>>)
    BY <1>3, <1>12
  <2> HIDE DEF rest
  <2>2. <<rest>> \in Seq(FrameSet) /\ Replace(t, <<rest>>)
    BY <1>1, <1>2, <1>6, <2>1, OneFrame, BecomeReplaces
  <2>3. ShapeFits(t, <<rest>>) /\ LockFits(t, <<rest>>) /\ PhaseFits(t, <<rest>>)
        /\ LevelFits(t, <<rest>>)
    <3>1. rest.op \in CallOps /\ (running => rest.op \in RunOps)
      BY <1>6 DEF CallOps, RunOps
    <3>2. Level[Object[Top(t).par]] <= Level[Object[rest.par]]
      BY <1>6, <1>11
    <3> QED BY <1>4, <1>6, <1>7, <1>8, <3>1, <3>2, OneFits
  <2>4. \A k \in DOMAIN <<rest>> : -1 <= <<rest>>[k].stamp /\ <<rest>>[k].stamp <= clock
    BY <1>6, <1>10, OneFrame
  <2>5. UNCHANGED <<data, ts, control>>
    BY <1>2
  <2> QED BY <1>9, <2>2, <2>3, <2>4, <2>5, StructureStackStep
<1>13. CASE Feed(i) # None
  <2> DEFINE fs == <<c, a, rest>>
  <2>1. Become(t, fs)
    BY <1>3, <1>13
  <2>2. Feed(i) \in Params /\ ts[Feed(i)] \in Int /\ -1 <= ts[Feed(i)] /\ ts[Feed(i)] <= clock
    <3>1. WiringOK
      BY WiringKept
    <3>2. Feed(i) \in Params
      BY <1>5, <1>13, <3>1, FeedFacts DEF Nodes
    <3> QED BY <1>1, <3>2 DEF Cells, Stamps
  <2>3. /\ c \in FrameSet /\ c.op = "commit" /\ c.par = i /\ c.stamp = ts[Feed(i)]
        /\ c.holds = None
    BY <1>5, <2>2 DEF Frame, FrameSet, RunOps
  <2>4. a \in FrameSet /\ a.op = "assign" /\ a.par = i /\ a.stamp = 0 /\ a.holds = None
    BY <1>5 DEF Frame, FrameSet, RunOps
  <2> HIDE DEF rest, c, a
  <2>5. FrameOK(c) /\ FrameOK(a)
    BY <1>5, <2>3, <2>4 DEF FrameOK, LockOps
  <2>6. fs \in Seq(FrameSet) /\ Len(fs) = 3 /\ DOMAIN fs = {1, 2, 3}
        /\ fs[1] = c /\ fs[2] = a /\ fs[3] = rest
    BY <1>6, <2>3, <2>4, ThreeFrames
  <2>7. Replace(t, fs)
    BY <1>1, <1>2, <2>1, BecomeReplaces
  <2> HIDE DEF fs
  <2>8. ShapeFits(t, fs)
    <3>1. \A k \in DOMAIN fs : FrameOK(fs[k])
      BY <1>7, <2>5, <2>6
    <3>2. \A k \in DOMAIN fs : fs[k].op \in CallOps /\ (fs[k].op = "commit" => k = 1)
      BY <1>6, <2>3, <2>4, <2>6 DEF CallOps
    <3> QED BY <1>4, <3>1, <3>2 DEF ShapeFits
  <2>9. LockFits(t, fs)
    BY <1>6, <1>8, <2>3, <2>4, <2>6 DEF LockFits
  <2>10. PhaseFits(t, fs)
    BY <1>4, <1>6, <2>3, <2>4, <2>6 DEF PhaseFits, RunOps
  <2>11. LevelFits(t, fs)
    <3>1. \A k, l \in DOMAIN fs :
            k < l /\ fs[l].holds # None => Level[fs[l].holds] < Level[Object[fs[k].par]]
      BY <1>5, <1>6, <1>11, <2>3, <2>4, <2>6
    <3>2. \A k \in DOMAIN fs : Level[Object[f.par]] <= Level[Object[fs[k].par]]
      BY <1>6, <1>11, <2>3, <2>4, <2>6
    <3> QED BY <3>1, <3>2 DEF LevelFits
  <2>12. \A k \in DOMAIN fs : -1 <= fs[k].stamp /\ fs[k].stamp <= clock
    BY <1>6, <1>10, <2>2, <2>3, <2>4, <2>6
  <2>13. UNCHANGED <<data, ts, control>>
    BY <1>2
  <2> QED BY <1>9, <2>6, <2>7, <2>8, <2>9, <2>10, <2>11, <2>12, <2>13, StructureStackStep
<1> QED BY <1>12, <1>13

LEMMA UserStep ==
  ASSUME Structure, NEW i \in Inputs, NEW p \in Nodes,
         \/ user' = user
         \/ user' = [user EXCEPT ![i] = DataPtr[p]]
         \/ user' = [user EXCEPT ![i] = None],
         UNCHANGED wiring
  PROVE  WiringOK'
<1>1. WiringOK
  BY WiringKept
<1>2. DataPtr[p] \in Outputs \cup {None}
  BY <1>1, DataPtrFacts
<1>3. user' \in [Inputs -> Outputs \cup {None}]
  BY <1>1, <1>2 DEF WiringOK
<1> QED BY <1>1, <1>3 DEF WiringOK, wiring, Feeding

(* Calls that return.                                                      *)
LEMMA ReturnStructure ==
  ASSUME Structure, NEW t \in Threads,
         EmitReturn(t) \/ AssignUser(t) \/ DeleteReturn(t) \/ SetReturn(t) \/ Read(t)
  PROVE  Structure'
<1>1. /\ Cells /\ Typing /\ Stacks /\ Phases /\ WiringOK
  BY WiringKept DEF Structure, Typing
<1>2. Busy(t) /\ Leave(t) /\ UNCHANGED <<data, ts, control>>
  BY DEF EmitReturn, AssignUser, DeleteReturn, SetReturn, Read, CanRead, At
<1>3. Top(t) \in FrameSet /\ FrameOK(Top(t))
  BY <1>1, <1>2, TopFacts
<1>4. CASE EmitReturn(t) \/ Read(t)
  <2>1. UNCHANGED <<wiring, user>>
    BY <1>4 DEF EmitReturn, Read
  <2> QED BY <1>2, <2>1, WiringKept, LeaveStructure
<1>5. CASE AssignUser(t)
  <2>1. Top(t).par \in Inputs
    BY <1>3, <1>5 DEF AssignUser, At, FrameOK
  <2>2. Feed(Top(t).par) \in Nodes
    BY <1>1, <2>1, FeedFacts
  <2>3. /\ UNCHANGED wiring
        /\ user' = user \/ user' = [user EXCEPT ![Top(t).par] = DataPtr[Feed(Top(t).par)]]
    BY <1>5 DEF AssignUser
  <2>4. WiringOK'
    BY <2>1, <2>2, <2>3, UserStep
  <2> QED BY <1>2, <2>4, LeaveStructure
<1>6. CASE SetReturn(t)
  <2> DEFINE i == Top(t).par
             src == IF shared[i] # None THEN shared[i] ELSE raw[i]
  <2>1. i \in Inputs
    BY <1>3, <1>6 DEF SetReturn, At, FrameOK
  <2>2. src \in Nodes
    BY <1>1, <2>1 DEF WiringOK, Nodes
  <2>3. UNCHANGED wiring /\ (user' = user \/ user' = [user EXCEPT ![i] = DataPtr[src]])
    BY <1>6 DEF SetReturn
  <2> HIDE DEF src
  <2>4. WiringOK'
    BY <2>1, <2>2, <2>3, UserStep
  <2> QED BY <1>2, <2>4, LeaveStructure
<1>7. CASE DeleteReturn(t)
  <2>1. /\ life' = [life EXCEPT ![Top(t).par] = "dead"]
        /\ wired' = [wired EXCEPT ![Top(t).par] = {}]
        /\ UNCHANGED <<raw, shared, user>>
    BY <1>7 DEF DeleteReturn
  <2>2. WiringOK'
    BY <1>1, <2>1 DEF WiringOK, Feeding
  <2> QED BY <1>2, <2>2, LeaveStructure
<1> QED BY <1>4, <1>5, <1>6, <1>7

(* The second half of SetInput.                                            *)
LEMMA WireStructure ==
  ASSUME Structure, NEW t \in Threads, Wire(t)
  PROVE  Structure'
<1>1. /\ Cells /\ Stamps /\ Typing /\ Stacks /\ Phases /\ WiringOK
  BY WiringKept DEF Structure, Typing
<1> DEFINE f == Top(t)  g == [f EXCEPT !.op = "update"]
<1>2. /\ Busy(t) /\ f.op = "wire" /\ Become(t, <<g>>)
      /\ wired' = [wired EXCEPT ![f.src] = @ \cup {f.par}]
      /\ UNCHANGED <<data, ts, raw, shared, life, user, control>>
  BY DEF Wire, At
<1>3. /\ f \in Frames(t) /\ f \in FrameSet /\ FrameOK(f) /\ Len(Below(t)) = 0
      /\ ~running => t = Main
      /\ running => f.op \in RunOps
  BY <1>1, <1>2, TopFacts DEF SetOps
<1>4. /\ f.par \in Inputs /\ <<f.par, f.src>> \in MayFeed /\ f.src \in Params
      /\ f.holds = Object[f.par] /\ Object[f.par] \in Objects /\ ~running
  BY <1>2, <1>3, ParametersAssumption DEF FrameOK, LockOps, FrameSet, RunOps, Params
<1>5. /\ g \in FrameSet /\ g.op = "update" /\ g.par = f.par /\ g.holds = f.holds
      /\ g.stamp = f.stamp
  BY <1>3 DEF FrameSet, SetOps
<1>6. FrameOK(g)
  BY <1>4, <1>5 DEF FrameOK, LockOps
<1>7. WiringOK'
  BY <1>1, <1>2, <1>4 DEF WiringOK, Feeding
<1>8. Holds(t, g.holds)
  BY <1>3, <1>4, <1>5, HoldsFrames
<1>9. -1 <= f.stamp /\ f.stamp <= clock
  BY <1>1, <1>3 DEF Stamps
<1> HIDE DEF g
<1>10. <<g>> \in Seq(FrameSet) /\ Replace(t, <<g>>)
  BY <1>1, <1>2, <1>5, OneFrame, BecomeReplaces
<1>11. ShapeFits(t, <<g>>) /\ LockFits(t, <<g>>) /\ PhaseFits(t, <<g>>) /\ LevelFits(t, <<g>>)
  BY <1>3, <1>4, <1>5, <1>6, <1>8, OneFits DEF SetOps
<1>12. \A k \in DOMAIN <<g>> : -1 <= <<g>>[k].stamp /\ <<g>>[k].stamp <= clock
  BY <1>5, <1>9, OneFrame
<1>13. UNCHANGED <<data, ts, control>>
  BY <1>2
<1> QED BY <1>7, <1>10, <1>11, <1>12, <1>13, StructureStackStep

LEMMA SetUpdateStructure ==
  ASSUME Structure, NEW t \in Threads, Update(t)
  PROVE  Structure'
<1>1. /\ Cells /\ Stamps /\ Typing /\ Stacks /\ Phases
  BY DEF Structure, Typing
<1> DEFINE f == Top(t)  e == Emission(f.par, f.ctx)  g == [f EXCEPT !.op = "return"]
           fs == <<e, g>>
<1>2. /\ Busy(t) /\ f.op = "update" /\ Become(t, fs)
      /\ UNCHANGED <<data, ts, wiring, user, control>>
  BY DEF Update, At
<1>3. /\ f \in Frames(t) /\ f \in FrameSet /\ FrameOK(f) /\ Len(Below(t)) = 0
      /\ ~running => t = Main
      /\ running => f.op \in RunOps
  BY <1>1, <1>2, TopFacts DEF SetOps
<1>4. /\ f.par \in Inputs /\ f.par \in Params /\ f.ctx \in Threads \cup {None}
      /\ f.holds = Object[f.par] /\ Object[f.par] \in Objects /\ ~running
  BY <1>2, <1>3, ParametersAssumption DEF FrameOK, LockOps, FrameSet, RunOps, Params
<1>5. /\ g \in FrameSet /\ g.op = "return" /\ g.par = f.par /\ g.holds = f.holds
      /\ g.stamp = f.stamp
  BY <1>3 DEF FrameSet, CallOps
<1>6. /\ e \in FrameSet /\ FrameOK(e) /\ e.op = "emit" /\ e.par = f.par /\ e.stamp = 0
      /\ e.holds = Object[f.par]
  BY <1>4, EmissionFacts
<1>7. FrameOK(g)
  BY <1>4, <1>5 DEF FrameOK, LockOps
<1>8. WiringOK'
  BY <1>2, WiringKept
<1>9. Holds(t, f.holds)
  BY <1>3, <1>4, HoldsFrames
<1>10. -1 <= f.stamp /\ f.stamp <= clock /\ -1 <= 0 /\ 0 <= clock
  BY <1>1, <1>3, ParametersAssumption DEF Stamps, Cells
<1> HIDE DEF e, g
<1>11. fs \in Seq(FrameSet) /\ Len(fs) = 2 /\ DOMAIN fs = {1, 2} /\ fs[1] = e /\ fs[2] = g
  BY <1>5, <1>6, TwoFrames
<1>12. Replace(t, fs)
  BY <1>1, <1>2, BecomeReplaces
<1> HIDE DEF fs
<1>13. ShapeFits(t, fs)
  BY <1>3, <1>5, <1>6, <1>7, <1>11 DEF ShapeFits, CallOps
<1>14. LockFits(t, fs)
  BY <1>4, <1>5, <1>6, <1>9, <1>11 DEF LockFits
<1>15. PhaseFits(t, fs) /\ LevelFits(t, fs)
  BY <1>3, <1>4 DEF PhaseFits, LevelFits
<1>16. \A k \in DOMAIN fs : -1 <= fs[k].stamp /\ fs[k].stamp <= clock
  BY <1>5, <1>6, <1>10, <1>11
<1>17. UNCHANGED <<data, ts, control>>
  BY <1>2
<1> QED BY <1>8, <1>11, <1>12, <1>13, <1>14, <1>15, <1>16, <1>17, StructureStackStep

(* Frames of the destructors, and what a reset of a shared_ptr begins.     *)
LEMMA ResetFacts ==
  ASSUME Structure, NEW i \in Inputs
  PROVE  /\ Orphan(shared[i], i) => shared[i] \in Params /\ life[shared[i]] = "released"
         /\ Doom(i) \in [Params -> {"owned", "released", "dying", "dead"}]
         /\ \A p \in Params : Doom(i)[p] # life[p] =>
              p = shared[i] /\ Orphan(p, i) /\ life[p] = "released" /\ Doom(i)[p] = "dying"
         /\ Orphan(shared[i], i) => Doom(i)[shared[i]] = "dying"
<1>1. /\ shared[i] \in Params \cup {None}
      /\ life \in [Params -> {"owned", "released", "dying", "dead"}]
  BY DEF Structure, Typing, Cells
<1>2. Orphan(shared[i], i) => shared[i] \in Params /\ life[shared[i]] = "released"
  BY <1>1 DEF Orphan
<1> QED BY <1>1, <1>2 DEF Doom

LEMMA DestroyFrame ==
  ASSUME NEW p \in Params
  PROVE  LET f == Frame("destroy", p, None, {}, 0, None, None) IN
         /\ f \in FrameSet /\ FrameOK(f) /\ f.op = "destroy" /\ f.par = p /\ f.src = None
         /\ f.todo = {} /\ f.stamp = 0 /\ f.ctx = None /\ f.holds = None
<1> DEFINE f == Frame("destroy", p, None, {}, 0, None, None)
<1>1. /\ f \in FrameSet /\ f.op = "destroy" /\ f.par = p /\ f.src = None
      /\ f.todo = {} /\ f.stamp = 0 /\ f.ctx = None /\ f.holds = None
  BY DEF Frame, FrameSet, EndOps
<1> HIDE DEF f
<1>2. FrameOK(f)
  BY <1>1 DEF FrameOK, LockOps
<1> QED BY <1>1, <1>2 DEF f

LEMMA DeletionFacts ==
  ASSUME Structure, NEW p \in Params
  PROVE  /\ Deletion(p) \in FrameSet /\ FrameOK(Deletion(p)) /\ Deletion(p).op = "delete"
         /\ Deletion(p).par = p /\ Deletion(p).src = None /\ Deletion(p).todo = wired[p]
         /\ Deletion(p).stamp = 0 /\ Deletion(p).holds = None
<1> DEFINE f == Deletion(p)
<1>1. wired[p] \in SUBSET Inputs
  BY DEF Structure, Typing, Cells
<1>2. /\ f \in FrameSet /\ f.op = "delete" /\ f.par = p /\ f.src = None
      /\ f.todo = wired[p] /\ f.stamp = 0 /\ f.holds = None
  BY <1>1 DEF Deletion, Frame, FrameSet, EndOps
<1> HIDE DEF f
<1>3. FrameOK(f)
  BY <1>2 DEF FrameOK, LockOps
<1> QED BY <1>2, <1>3 DEF f

(* The frames that a reset and what follows it put on the stack.           *)
LEMMA ResetFrames ==
  ASSUME Structure, NEW i \in Inputs, NEW g \in FrameSet
  PROVE  /\ Reset(i) \o <<g>> \in Seq(FrameSet)
         /\ ~Orphan(shared[i], i) => Reset(i) \o <<g>> = <<g>>
         /\ Orphan(shared[i], i) =>
              Reset(i) \o <<g>> = <<Frame("destroy", shared[i], None, {}, 0, None, None), g>>
<1>1. CASE Orphan(shared[i], i)
  <2> DEFINE f == Frame("destroy", shared[i], None, {}, 0, None, None)
  <2>1. f \in FrameSet
    BY <1>1, ResetFacts, DestroyFrame
  <2>2. Reset(i) = <<f>>
    BY <1>1 DEF Reset
  <2> HIDE DEF f
  <2>3. <<f>> \o <<g>> = <<f, g>> /\ <<f, g>> \in Seq(FrameSet)
    BY <2>1, TwoFrames
  <2>4. Reset(i) \o <<g>> = <<f, g>>
    BY <2>2, <2>3
  <2> QED BY <1>1, <2>3, <2>4 DEF f
<1>2. CASE ~Orphan(shared[i], i)
  <2>1. Reset(i) = <<>>
    BY <1>2 DEF Reset
  <2>2. <<>> \o <<g>> = <<g>> /\ <<g>> \in Seq(FrameSet)
    BY TwoFrames, OneFrame
  <2> QED BY <1>2, <2>1, <2>2
<1> QED BY <1>1, <1>2

LEMMA ResetStructure ==
  ASSUME Structure, NEW t \in Threads, NEW i \in Inputs, NEW g \in FrameSet,
         Replace(t, Reset(i) \o <<g>>), ~running, t = Main,
         running' = running, clock' = clock, FrameOK(g),
         \/ g.op \in EndOps /\ (Ends(t) \/ Len(Below(t)) = 0)
         \/ g.op \in SetOps /\ Len(Below(t)) = 0,
         \/ g.holds = None \/ Holds(t, g.holds)
         \/ \A u \in Threads \ {t} : ~Holds(u, g.holds),
         -1 <= g.stamp, g.stamp <= clock, Cells', Feeding',
         \A p \in Outputs : data'[p] <= clock',
         \A p \in Params : -1 <= ts'[p] /\ ts'[p] <= clock'
  PROVE  Structure'
<1>1. clock \in Nat /\ clock <= clock' /\ -1 <= 0 /\ 0 <= clock
  BY ParametersAssumption DEF Structure, Typing, Cells
<1>2. CASE ~Orphan(shared[i], i)
  <2>1. <<g>> \in Seq(FrameSet) /\ Replace(t, <<g>>)
    BY <1>2, ResetFrames, OneFrame
  <2>2. ShapeFits(t, <<g>>) /\ LockFits(t, <<g>>) /\ PhaseFits(t, <<g>>) /\ LevelFits(t, <<g>>)
    BY OneFits
  <2>3. StampFits(<<g>>)
    BY OneFrame DEF StampFits
  <2> QED BY <1>1, <2>1, <2>2, <2>3, StructureStep
<1>3. CASE Orphan(shared[i], i)
  <2> DEFINE f == Frame("destroy", shared[i], None, {}, 0, None, None)
             fs == <<f, g>>
  <2>1. /\ f \in FrameSet /\ FrameOK(f) /\ f.op = "destroy" /\ f.holds = None
        /\ f.stamp = 0
    BY <1>3, ResetFacts, DestroyFrame
  <2>2. Replace(t, fs)
    BY <1>3, ResetFrames
  <2> HIDE DEF f
  <2>3. fs \in Seq(FrameSet) /\ Len(fs) = 2 /\ DOMAIN fs = {1, 2} /\ fs[1] = f /\ fs[2] = g
    BY <2>1, TwoFrames
  <2> HIDE DEF fs
  <2>4. ShapeFits(t, fs)
    <3>1. \A k \in DOMAIN fs : FrameOK(fs[k])
      BY <2>1, <2>3
    <3>2. \A k \in DOMAIN fs :
            \/ fs[k].op \in EndOps
            \/ fs[k].op \in SetOps /\ k = Len(fs) /\ Len(Below(t)) = 0
      BY <2>1, <2>3 DEF EndOps
    <3> QED BY <3>1, <3>2 DEF ShapeFits
  <2>5. LockFits(t, fs)
    BY <2>1, <2>3 DEF LockFits
  <2>6. PhaseFits(t, fs) /\ LevelFits(t, fs)
    BY DEF PhaseFits, LevelFits
  <2>7. StampFits(fs)
    BY <1>1, <2>1, <2>3 DEF StampFits
  <2> QED BY <1>1, <2>2, <2>3, <2>4, <2>5, <2>6, <2>7, StructureStep
<1> QED BY <1>2, <1>3

(* What a call of the main thread finds, and leaves of the counters.       *)
LEMMA ChangeFacts ==
  ASSUME Structure, NEW t \in Threads, Change(t)
  PROVE  /\ t = Main /\ ~running /\ ~Busy(t) /\ Len(Below(t)) = 0 /\ Frames(t) = {}
         /\ running' = running /\ clock' = clock /\ clock \in Nat
         /\ running' \in BOOLEAN /\ clock' \in 0..MaxUpdates /\ changes' \in 0..MaxChanges
         /\ \A p \in Outputs : data[p] <= clock'
         /\ \A p \in Params : -1 <= ts[p] /\ ts[p] <= clock' /\ ts[p] \in Int
<1>1. /\ t = Main /\ ~running /\ ~Busy(t) /\ changes < MaxChanges /\ changes' = changes + 1
      /\ running' = running /\ clock' = clock
  BY DEF Change
<1>2. Len(Below(t)) = 0 /\ Frames(t) = {}
  BY <1>1, IdleFacts
<1>3. Cells /\ Stamps
  BY DEF Structure, Typing
<1>4. /\ running' \in BOOLEAN /\ clock' \in 0..MaxUpdates /\ changes' \in 0..MaxChanges
      /\ clock \in Nat
  BY <1>1, <1>3, ParametersAssumption DEF Cells
<1>5. \A p \in Params : ts[p] \in Int
  BY <1>3 DEF Cells
<1> QED BY <1>1, <1>2, <1>3, <1>4, <1>5 DEF Stamps

LEMMA ReleaseStructure ==
  ASSUME Structure, NEW t \in Threads, NEW p \in Params, Release(t, p)
  PROVE  Structure'
<1>1. /\ t = Main /\ ~running /\ ~Busy(t) /\ Len(Below(t)) = 0
      /\ running' = running /\ clock' = clock /\ clock \in Nat /\ clock <= clock'
      /\ running' \in BOOLEAN /\ clock' \in 0..MaxUpdates /\ changes' \in 0..MaxChanges
      /\ \A q \in Outputs : data[q] <= clock'
      /\ \A q \in Params : -1 <= ts[q] /\ ts[q] <= clock'
  <2>1. Change(t)
    BY DEF Release
  <2> QED BY <2>1, ChangeFacts
<1>2. Cells /\ Typing /\ Feeding
  BY DEF Structure, Typing
<1> DEFINE kept == \E k \in Inputs : shared[k] = p
           f == Frame("destroy", p, None, {}, 0, None, None)
<1>3. /\ life' = [life EXCEPT ![p] = IF kept THEN "released" ELSE "dying"]
      /\ Enter(t, IF kept THEN <<>> ELSE <<f>>)
      /\ UNCHANGED <<data, ts, raw, shared, wired, user>>
  BY DEF Release
<1> HIDE DEF kept
<1>4. Cells' /\ Feeding'
  BY <1>1, <1>2, <1>3 DEF Cells, Feeding
<1>5. /\ \A q \in Outputs : data'[q] <= clock'
      /\ \A q \in Params : -1 <= ts'[q] /\ ts'[q] <= clock'
  BY <1>1, <1>3
<1>6. f \in FrameSet /\ FrameOK(f) /\ f.op = "destroy" /\ f.holds = None /\ f.stamp = 0
  BY DestroyFrame
<1> HIDE DEF f
<1>7. CASE kept
  <2> DEFINE fs == <<>>
  <2>1. fs \in Seq(FrameSet) /\ DOMAIN fs = {}
    OBVIOUS
  <2>2. Enter(t, fs)
    BY <1>3, <1>7
  <2>3. Replace(t, fs)
    BY <1>1, <1>2, <2>1, <2>2, BecomeReplaces
  <2> HIDE DEF fs
  <2>4. /\ ShapeFits(t, fs) /\ LockFits(t, fs) /\ PhaseFits(t, fs) /\ LevelFits(t, fs)
        /\ StampFits(fs)
    BY <1>1, <2>1 DEF ShapeFits, LockFits, PhaseFits, LevelFits, StampFits
  <2> QED BY <1>1, <1>4, <1>5, <2>1, <2>3, <2>4, StructureStep
<1>8. CASE ~kept
  <2>1. <<f>> \in Seq(FrameSet) /\ Replace(t, <<f>>)
    BY <1>1, <1>2, <1>3, <1>6, <1>8, OneFrame, BecomeReplaces
  <2>2. ShapeFits(t, <<f>>) /\ LockFits(t, <<f>>) /\ PhaseFits(t, <<f>>) /\ LevelFits(t, <<f>>)
    BY <1>1, <1>6, OneFits DEF EndOps
  <2>3. StampFits(<<f>>)
    BY <1>1, <1>6, OneFrame DEF StampFits
  <2> QED BY <1>1, <1>4, <1>5, <2>1, <2>2, <2>3, StructureStep
<1> QED BY <1>7, <1>8

(* Destructors and delete_signal.                                          *)
LEMMA EndStructure ==
  ASSUME Structure, NEW t \in Threads, Destroy(t) \/ ForgetInput(t)
  PROVE  Structure'
<1>1. Cells /\ Stamps /\ Typing /\ Stacks /\ Phases /\ Feeding
  BY DEF Structure, Typing
<1>2. Busy(t) /\ Top(t).op \in EndOps /\ UNCHANGED <<data, ts, user, control>>
  BY DEF Destroy, ForgetInput, At, EndOps
<1> DEFINE f == Top(t)
<1>3. /\ f \in Frames(t) /\ f \in FrameSet /\ FrameOK(f) /\ Ends(t)
      /\ ~running => t = Main
      /\ running => f.op \in RunOps
  BY <1>1, <1>2, TopFacts
<1>4. ~running /\ t = Main /\ f.par \in Params /\ f.holds = None
  BY <1>2, <1>3 DEF EndOps, RunOps, FrameSet, FrameOK, LockOps
<1>5. /\ running' = running /\ clock' = clock /\ clock \in Nat /\ -1 <= 0 /\ 0 <= clock
      /\ \A q \in Outputs : data'[q] <= clock'
      /\ \A q \in Params : -1 <= ts'[q] /\ ts'[q] <= clock'
  BY <1>1, <1>2, ParametersAssumption DEF Cells, Stamps, control
<1>6. -1 <= f.stamp /\ f.stamp <= clock
  BY <1>1, <1>3 DEF Stamps
<1>7. CASE Destroy(t)
  <2> DEFINE g == Deletion(f.par)
  <2>1. g \in FrameSet /\ FrameOK(g) /\ g.op = "delete" /\ g.stamp = 0 /\ g.holds = None
    BY <1>4, DeletionFacts
  <2> HIDE DEF g
  <2>2. CASE f.par \in Inputs
    <3>1. /\ wired' = [q \in Params |-> wired[q] \ {f.par}]
          /\ raw' = [raw EXCEPT ![f.par] = None]
          /\ shared' = [shared EXCEPT ![f.par] = None]
          /\ life' = Doom(f.par)
          /\ Become(t, Reset(f.par) \o <<g>>)
      BY <1>7, <2>2 DEF Destroy, g
    <3>2. Doom(f.par) \in [Params -> {"owned", "released", "dying", "dead"}]
      BY <2>2, ResetFacts
    <3>3. Cells'
      BY <1>1, <1>2, <2>2, <3>1, <3>2 DEF Cells, control
    <3>4. Feeding'
      BY <1>1, <2>2, <3>1 DEF Cells, Feeding
    <3>5. Replace(t, Reset(f.par) \o <<g>>)
      BY <1>1, <1>2, <3>1, BecomeReplaces
    <3> QED BY <1>3, <1>4, <1>5, <2>1, <2>2, <3>3, <3>4, <3>5, ResetStructure DEF EndOps
  <2>3. CASE f.par \notin Inputs
    <3>1. Become(t, <<g>>) /\ UNCHANGED wiring
      BY <1>7, <2>3 DEF Destroy, g
    <3>2. <<g>> \in Seq(FrameSet) /\ Replace(t, <<g>>)
      BY <1>1, <1>2, <2>1, <3>1, OneFrame, BecomeReplaces
    <3>3. ShapeFits(t, <<g>>) /\ LockFits(t, <<g>>) /\ PhaseFits(t, <<g>>) /\ LevelFits(t, <<g>>)
      BY <1>3, <1>4, <2>1, OneFits DEF EndOps
    <3>4. \A k \in DOMAIN <<g>> : -1 <= <<g>>[k].stamp /\ <<g>>[k].stamp <= clock
      BY <1>5, <2>1, OneFrame
    <3>5. WiringOK'
      BY <1>2, <3>1, WiringKept
    <3> QED BY <1>2, <3>2, <3>3, <3>4, <3>5, StructureStackStep
  <2> QED BY <2>2, <2>3
<1>8. CASE ForgetInput(t)
  <2>1. PICK i \in f.todo :
          /\ raw' = [raw EXCEPT ![i] = None]
          /\ shared' = [shared EXCEPT ![i] = None]
          /\ life' = Doom(i)
          /\ Become(t, Reset(i) \o <<[f EXCEPT !.todo = @ \ {i}]>>)
    BY <1>8 DEF ForgetInput
  <2> DEFINE g == [f EXCEPT !.todo = f.todo \ {i}]
  <2>2. i \in Inputs /\ UNCHANGED wired /\ f.op = "delete"
    BY <1>3, <1>8 DEF ForgetInput, At, FrameSet
  <2>3. /\ g \in FrameSet /\ g.op = "delete" /\ g.par = f.par /\ g.holds = None
        /\ g.stamp = f.stamp
    BY <1>3, <1>4, <2>2 DEF FrameSet
  <2> HIDE DEF g
  <2>4. FrameOK(g)
    BY <2>3 DEF FrameOK, LockOps
  <2>5. Doom(i) \in [Params -> {"owned", "released", "dying", "dead"}]
    BY <2>2, ResetFacts
  <2>6. Cells'
    BY <1>1, <1>2, <2>1, <2>2, <2>5 DEF Cells, control
  <2>7. Feeding'
    BY <1>1, <2>1, <2>2 DEF Cells, Feeding
  <2>8. Replace(t, Reset(i) \o <<g>>)
    BY <1>1, <1>2, <2>1, BecomeReplaces DEF g
  <2> QED BY <1>3, <1>4, <1>5, <1>6, <2>2, <2>3, <2>4, <2>6, <2>7, <2>8, ResetStructure DEF EndOps
<1> QED BY <1>2, <1>7, <1>8

(* The first half of SetInput.                                             *)
LEMMA SetStructure ==
  ASSUME Structure, NEW t \in Threads, NEW i \in Inputs,
         ClearInput(t, i) \/ \E p \in Params : SetRaw(t, i, p) \/ SetShared(t, i, p)
  PROVE  Structure'
<1>1. Cells /\ Stamps /\ Typing /\ Stacks /\ Phases /\ Feeding
  BY DEF Structure, Typing
<1>2. /\ t = Main /\ ~running /\ ~Busy(t) /\ Len(Below(t)) = 0
      /\ running' = running /\ clock' = clock /\ clock \in Nat /\ clock <= clock'
      /\ running' \in BOOLEAN /\ clock' \in 0..MaxUpdates /\ changes' \in 0..MaxChanges
      /\ \A p \in Outputs : data[p] <= clock'
      /\ \A p \in Params : -1 <= ts[p] /\ ts[p] <= clock' /\ ts[p] \in Int
  <2>1. Change(t)
    BY DEF ClearInput, SetRaw, SetShared
  <2> QED BY <2>1, ChangeFacts
<1>3. i \in Params /\ Object[i] \in Objects /\ -1 <= 0 /\ 0 <= clock
  BY <1>2, ParametersAssumption DEF Params
<1>4. Doom(i) \in [Params -> {"owned", "released", "dying", "dead"}]
  BY ResetFacts
<1>5. CASE ClearInput(t, i)
  <2> DEFINE f == Frame("update", i, None, {}, 0, None, Object[i])
  <2>1. /\ raw' = [raw EXCEPT ![i] = None] /\ shared' = [shared EXCEPT ![i] = None]
        /\ life' = Doom(i) /\ Enter(t, Reset(i) \o <<f>>)
        /\ MayLock(t, i) /\ UNCHANGED <<data, ts, wired, user>>
    BY <1>5 DEF ClearInput
  <2>2. f \in FrameSet /\ f.op = "update" /\ f.par = i /\ f.stamp = 0 /\ f.holds = Object[i]
    BY <1>3 DEF Frame, FrameSet, SetOps
  <2> HIDE DEF f
  <2>3. FrameOK(f) /\ \A u \in Threads \ {t} : ~Holds(u, f.holds)
    BY <2>1, <2>2 DEF FrameOK, LockOps, MayLock
  <2>4. Cells'
    BY <1>1, <1>2, <1>4, <2>1 DEF Cells
  <2>5. Feeding'
    BY <1>1, <2>1 DEF Cells, Feeding
  <2>6. Replace(t, Reset(i) \o <<f>>)
    BY <1>1, <1>2, <2>1, <2>2, ResetFrames, BecomeReplaces
  <2>7. /\ \A q \in Outputs : data'[q] <= clock'
        /\ \A q \in Params : -1 <= ts'[q] /\ ts'[q] <= clock'
    BY <1>2, <2>1
  <2> QED BY <1>2, <1>3, <2>2, <2>3, <2>4, <2>5, <2>6, <2>7, ResetStructure DEF SetOps
<1>6. ASSUME NEW p \in Params, SetRaw(t, i, p) \/ SetShared(t, i, p) PROVE Structure'
  <2> DEFINE f == Frame("wire", i, p, {}, 0, Home[p], Object[i])
  <2>1. /\ <<i, p>> \in MayFeed /\ MayLock(t, i) /\ UNCHANGED <<data, wired, user>>
        /\ ts' = IF ts[p] # -1 THEN [ts EXCEPT ![i] = ts[p]] ELSE ts
    BY <1>6 DEF SetRaw, SetShared
  <2>2. /\ f \in FrameSet /\ f.op = "wire" /\ f.par = i /\ f.src = p /\ f.stamp = 0
        /\ f.holds = Object[i]
    BY <1>3, ParametersAssumption DEF Frame, FrameSet, SetOps
  <2> HIDE DEF f
  <2>3. FrameOK(f) /\ \A u \in Threads \ {t} : ~Holds(u, f.holds)
    BY <2>1, <2>2 DEF FrameOK, LockOps, MayLock
  <2>4. ts' \in [Params -> Int]
    BY <1>1, <1>2, <2>1 DEF Cells
  <2>5. /\ \A q \in Outputs : data'[q] <= clock'
        /\ \A q \in Params : -1 <= ts'[q] /\ ts'[q] <= clock'
    <3>1. ts \in [Params -> Int]
      BY <1>1 DEF Cells
    <3> QED BY <1>2, <2>1, <3>1
  <2>6. CASE SetRaw(t, i, p)
    <3>1. raw' = [raw EXCEPT ![i] = p] /\ Enter(t, <<f>>) /\ UNCHANGED <<shared, life>>
      BY <2>6 DEF SetRaw, f
    <3>2. Cells'
      BY <1>1, <1>2, <2>1, <2>4, <3>1 DEF Cells
    <3>3. Feeding'
      BY <1>1, <2>1, <3>1 DEF Cells, Feeding
    <3>4. <<f>> \in Seq(FrameSet) /\ Replace(t, <<f>>)
      BY <1>1, <1>2, <2>2, <3>1, OneFrame, BecomeReplaces
    <3>5. ShapeFits(t, <<f>>) /\ LockFits(t, <<f>>) /\ PhaseFits(t, <<f>>) /\ LevelFits(t, <<f>>)
      BY <1>2, <2>2, <2>3, OneFits DEF SetOps
    <3>6. StampFits(<<f>>)
      BY <1>2, <1>3, <2>2, OneFrame DEF StampFits
    <3> QED BY <1>2, <2>5, <3>2, <3>3, <3>4, <3>5, <3>6, StructureStep
  <2>7. CASE SetShared(t, i, p)
    <3>1. /\ shared' = [shared EXCEPT ![i] = p] /\ Enter(t, Reset(i) \o <<f>>)
          /\ life' = Doom(i) /\ UNCHANGED raw
      BY <2>7 DEF SetShared, f
    <3>2. Cells'
      BY <1>1, <1>2, <1>4, <2>1, <2>4, <3>1 DEF Cells
    <3>3. Feeding'
      BY <1>1, <2>1, <3>1 DEF Cells, Feeding
    <3>4. Replace(t, Reset(i) \o <<f>>)
      BY <1>1, <1>2, <2>2, <3>1, ResetFrames, BecomeReplaces
    <3> QED BY <1>2, <1>3, <2>2, <2>3, <2>5, <3>2, <3>3, <3>4, ResetStructure DEF SetOps
  <2> QED BY <1>6, <2>6, <2>7
<1> QED BY <1>5, <1>6

LEMMA ReadStructure ==
  ASSUME Structure, NEW t \in Threads, NEW i \in Inputs, GetInput(t, i) \/ GetData(t, i)
  PROVE  Structure'
<1>1. Cells /\ Stamps /\ Typing /\ Stacks /\ Phases /\ Feeding /\ WiringOK
  BY WiringKept DEF Structure, Typing
<1>2. ~Busy(t) /\ (running \/ t = Main) /\ UNCHANGED <<data, ts, wiring, control>>
  BY DEF GetInput, GetData, Acts
<1>3. CASE GetInput(t, i)
  <2> DEFINE src == IF shared[i] # None THEN shared[i] ELSE raw[i]
  <2>1. stack' = stack /\ \E p \in {DataPtr[src], None} : user' = [user EXCEPT ![i] = p]
    BY <1>3 DEF GetInput
  <2>2. src \in Nodes
    BY <1>1 DEF WiringOK, Nodes
  <2> HIDE DEF src
  <2>3. WiringOK'
    BY <1>2, <2>1, <2>2, UserStep
  <2>4. Cells' /\ Typing'
    BY <1>1, <1>2, <2>1, <2>3 DEF Cells, Typing, WiringOK, control
  <2>5. \A u \in Threads : Frames(u)' = Frames(u)
    BY <2>1 DEF Frames
  <2>6. Stamps' /\ Stacks' /\ Phases'
    BY <1>1, <1>2, <2>1, <2>5 DEF Stamps, Stacks, Phases, Calls, Ends, Alone, control
  <2>7. Exclusive' /\ Upwards'
    BY <1>2, <2>1 DEF Structure, Exclusive, Upwards, Holds, control
  <2> QED BY <2>3, <2>4, <2>6, <2>7 DEF Structure, WiringOK
<1>4. CASE GetData(t, i)
  <2> DEFINE f == Frame("read", DataPtr[i], None, {}, 0, None, None)
  <2>1. DataPtr[i] \in Outputs /\ Enter(t, <<f>>) /\ user' = user
    <3>1. DataPtr[i] # None /\ Enter(t, <<f>>) /\ user' = user
      BY <1>4 DEF GetData
    <3>2. i \in Nodes
      BY DEF Nodes, Params
    <3> QED BY <1>1, <3>1, <3>2, DataPtrFacts
  <2>2. /\ f \in FrameSet /\ f.op = "read" /\ f.par = DataPtr[i] /\ f.stamp = 0
        /\ f.holds = None
    BY <2>1 DEF Frame, FrameSet, RunOps, Params
  <2> HIDE DEF f
  <2>3. FrameOK(f)
    BY <2>1, <2>2 DEF FrameOK, LockOps
  <2>4. <<f>> \in Seq(FrameSet) /\ Replace(t, <<f>>)
    BY <1>1, <1>2, <2>1, <2>2, OneFrame, BecomeReplaces
  <2>5. ShapeFits(t, <<f>>) /\ LockFits(t, <<f>>) /\ PhaseFits(t, <<f>>) /\ LevelFits(t, <<f>>)
    <3>1. Len(Below(t)) = 0
      BY <1>2, IdleFacts
    <3> QED BY <1>2, <2>2, <2>3, <3>1, OneFits DEF RunOps
  <2>6. \A k \in DOMAIN <<f>> : -1 <= <<f>>[k].stamp /\ <<f>>[k].stamp <= clock
    <3>1. -1 <= 0 /\ 0 <= clock
      BY <1>1, ParametersAssumption DEF Cells
    <3> QED BY <2>2, <3>1, OneFrame
  <2>7. WiringOK'
    BY <1>2, <2>1, WiringKept
  <2> QED BY <1>2, <2>4, <2>5, <2>6, <2>7, StructureStackStep
<1> QED BY <1>3, <1>4

LEMMA StructureInit == Init => Structure
<1> SUFFICES ASSUME Init PROVE Structure
  OBVIOUS
<1>1. \A t \in Threads : stack[t] = <<>>
  BY DEF Init
<1>2. \A t \in Threads : Frames(t) = {} /\ DOMAIN stack[t] = {}
  BY <1>1 DEF Frames
<1>3. Typing
  <2>1. <<>> \in Seq(FrameSet)
    OBVIOUS
  <2>2. stack \in [Threads -> Seq(FrameSet)]
    BY <2>1 DEF Init
  <2>3. 0 \in 0..MaxUpdates /\ 0 \in 0..MaxChanges /\ -1 \in Int
    BY ParametersAssumption
  <2>4. Cells
    BY <2>3 DEF Init, Cells
  <2> QED BY <2>2, <2>4 DEF Typing
<1>4. Stamps
  BY <1>2 DEF Init, Stamps
<1>5. Stacks
  BY <1>2 DEF Stacks, Calls
<1>6. Feeding
  BY DEF Init, Feeding
<1>7. Phases /\ Exclusive /\ Upwards
  BY <1>1, <1>2 DEF Init, Phases, Exclusive, Upwards, Holds
<1> QED BY <1>3, <1>4, <1>5, <1>6, <1>7 DEF Structure

(* Until the threads run, only the main thread has calls.                  *)
LEMMA GoStructure == Structure /\ Go => Structure'
<1> SUFFICES ASSUME Structure, Go PROVE Structure'
  OBVIOUS
<1>1. /\ ~running /\ stack[Main] = <<>> /\ running' = TRUE /\ stack' = stack
      /\ UNCHANGED <<data, ts, wiring, user, clock, changes>>
  BY DEF Go, Busy
<1>2. \A t \in Threads : stack[t] = <<>>
  BY <1>1 DEF Structure, Phases
<1>3. \A t \in Threads : DOMAIN stack[t] = {} /\ Frames(t)' = {} /\ Frames(t) = {}
  BY <1>1, <1>2 DEF Frames
<1>4. Typing' /\ Stamps' /\ Feeding'
  BY <1>1, <1>3 DEF Structure, Typing, Cells, Stamps, Feeding, wiring
<1>5. Stacks' /\ Phases' /\ Exclusive' /\ Upwards'
  BY <1>1, <1>2, <1>3 DEF Stacks, Calls, Phases, Exclusive, Holds, Upwards
<1> QED BY <1>4, <1>5 DEF Structure

LEMMA StructureStutter == Structure /\ UNCHANGED vars => Structure'
<1> SUFFICES ASSUME Structure, UNCHANGED vars PROVE Structure'
  OBVIOUS
<1>1. UNCHANGED <<data, ts, raw, shared, wired, life, user, stack, running, clock, changes>>
  BY DEF vars, wiring, control
<1>2. \A t \in Threads : Frames(t)' = Frames(t)
  BY <1>1 DEF Frames
<1>3. Typing' /\ Stamps' /\ Feeding'
  BY <1>1, <1>2 DEF Structure, Typing, Cells, Stamps, Feeding
<1>4. Stacks' /\ Phases'
  BY <1>1, <1>2 DEF Structure, Stacks, Calls, Ends, Alone, Phases
<1>5. Exclusive' /\ Upwards'
  BY <1>1 DEF Structure, Exclusive, Holds, Upwards
<1> QED BY <1>3, <1>4, <1>5 DEF Structure

LEMMA StructureNext == Structure /\ [Next]_vars => Structure'
<1> SUFFICES ASSUME Structure, [Next]_vars PROVE Structure'
  OBVIOUS
<1>1. CASE Go
  BY <1>1, GoStructure
<1>2. ASSUME NEW t \in Threads, Step(t) PROVE Structure'
  <2>1. CASE Stamp(t) \/ Commit(t)
    BY <2>1, EmitStructure
  <2>2. CASE Notify(t)
    BY <2>2, NotifyStructure
  <2>3. CASE EmitReturn(t) \/ AssignUser(t) \/ DeleteReturn(t) \/ SetReturn(t) \/ Read(t)
    BY <2>3, ReturnStructure
  <2>4. CASE Destroy(t) \/ ForgetInput(t)
    BY <2>4, EndStructure
  <2>5. CASE Wire(t)
    BY <2>5, WireStructure
  <2>6. CASE Update(t)
    BY <2>6, SetUpdateStructure
  <2> QED BY <1>2, <2>1, <2>2, <2>3, <2>4, <2>5, <2>6 DEF Step
<1>3. ASSUME NEW t \in Threads, Call(t) PROVE Structure'
  <2>1. ASSUME NEW p \in Outputs, UpdateData(t, p) \/ UpdateTyped(t, p) PROVE Structure'
    BY <2>1, UpdateStructure
  <2>2. ASSUME NEW p \in Params, Release(t, p) PROVE Structure'
    BY <2>2, ReleaseStructure
  <2>3. ASSUME NEW i \in Inputs, ClearInput(t, i) \/ GetInput(t, i) \/ GetData(t, i)
        PROVE  Structure'
    BY <2>3, SetStructure, ReadStructure
  <2>4. ASSUME NEW i \in Inputs, NEW p \in Params, SetRaw(t, i, p) \/ SetShared(t, i, p)
        PROVE  Structure'
    BY <2>4, SetStructure
  <2> QED BY <1>3, <2>1, <2>2, <2>3, <2>4 DEF Call
<1>4. CASE UNCHANGED vars
  BY <1>4, StructureStutter
<1> QED BY <1>1, <1>2, <1>3, <1>4 DEF Next

(* Stacks, mutexes and wires have their shape in every reachable state.    *)
THEOREM StructureInvariant == Spec => []Structure
BY StructureInit, StructureNext, PTL DEF Spec

(* A stamp, and a type, of every cell and frame.                           *)
LEMMA StructureTypes == Structure => TypeOK
<1> SUFFICES ASSUME Structure PROVE TypeOK
  OBVIOUS
<1>1. Cells /\ Stamps /\ Typing /\ Exclusive
  BY DEF Structure, Typing
<1>2. data \in [Outputs -> 0..clock]
  <2>1. \A p \in Outputs : data[p] \in 0..clock
    BY <1>1 DEF Cells, Stamps
  <2> QED BY <1>1, <2>1 DEF Cells
<1>3. ts \in [Params -> -1..clock]
  <2>1. \A p \in Params : ts[p] \in -1..clock
    BY <1>1 DEF Cells, Stamps
  <2> QED BY <1>1, <2>1 DEF Cells
<1>4. \A t \in Threads : \A f \in Frames(t) :
        f.par \in Params /\ f.todo \subseteq Inputs /\ f.holds \in Objects \cup {None}
  BY <1>1, FramesType DEF FrameSet
<1> QED BY <1>1, <1>2, <1>3, <1>4 DEF TypeOK, Cells, Exclusive

(* Values, stamps, sources and calls have their types, and a mutex has one *)
(* owner.                                                                  *)
THEOREM ParameterTypes == Spec => []TypeOK
BY StructureInvariant, StructureTypes, PTL

(* What a thread waits for while the threads run: a mutex above all that it*)
(* holds.  It is the one of its commit or its read.                        *)
LEMMA WaitingIsUpwards ==
  ASSUME Structure, running, NEW t \in Threads, Busy(t), Waits(t)
  PROVE  /\ Object[Top(t).par] \in Objects
         /\ \E u \in Threads : Holds(u, Object[Top(t).par])
         /\ \A o \in Objects : Holds(t, o) => Level[o] < Level[Object[Top(t).par]]
<1>1. Cells /\ Stacks /\ Typing /\ Phases /\ Upwards
  BY DEF Structure, Typing
<1>2. /\ Top(t) \in FrameSet /\ FrameOK(Top(t)) /\ Top(t).op \in RunOps
  BY <1>1, TopFacts
<1>3. Wants(t) # {} => At(t, "commit") \/ At(t, "read")
  BY <1>2 DEF Wants, At, RunOps
<1>4. /\ Top(t).op \in {"commit", "read"} /\ Wants(t) = {Top(t).par}
      /\ ~MayLock(t, Top(t).par)
  BY <1>3 DEF Waits, Wants, At
<1>5. Top(t).par \in Params /\ Object[Top(t).par] \in Objects /\ Top(t).holds = None
  BY <1>2, <1>4, ParametersAssumption DEF FrameSet, FrameOK, LockOps
<1>6. ASSUME NEW o \in Objects, Holds(t, o) PROVE Level[o] < Level[Object[Top(t).par]]
  <2>1. PICK k \in DOMAIN stack[t] : stack[t][k].holds = o
    BY <1>6 DEF Holds
  <2>2. stack[t] \in Seq(FrameSet) /\ Top(t) = stack[t][1] /\ 1 \in DOMAIN stack[t]
    <3>1. stack[t] \in Seq(FrameSet)
      BY <1>1 DEF Typing
    <3>2. Top(t) = stack[t][1] /\ Len(stack[t]) = Len(Below(t)) + 1 /\ Below(t) \in Seq(FrameSet)
      BY <1>1, BelowType
    <3> QED BY <3>1, <3>2
  <2>3. o # None
    BY ParametersAssumption
  <2>4. 1 < k
    BY <1>5, <2>1, <2>2, <2>3
  <2> QED BY <1>1, <2>1, <2>2, <2>3, <2>4 DEF Upwards
<1> QED BY <1>4, <1>5, <1>6 DEF MayLock

(* A thread that waits holds nothing above what it waits for: a thread that*)
(* holds the highest mutex of all goes on.  While the main thread is alone *)
(* it waits for nobody.                                                    *)
LEMMA StructureNoDeadlock == Structure => NoDeadlock
<1> SUFFICES ASSUME Structure, NEW b \in Threads, Busy(b),
                    \A t \in Threads : Busy(t) => Waits(t)
             PROVE  FALSE
  BY DEF NoDeadlock
<1>1. CASE ~running
  <2>1. \A t \in Threads \ {Main} : stack[t] = <<>>
    BY <1>1 DEF Structure, Phases
  <2>2. b = Main
    BY <2>1 DEF Busy
  <2>3. \A p : MayLock(b, p)
    <3>1. \A u \in Threads \ {b} : DOMAIN stack[u] = {}
      BY <2>1, <2>2
    <3> QED BY <3>1 DEF MayLock, Holds
  <2> QED BY <2>3 DEF Waits
<1>2. CASE running
  <2> DEFINE S == {o \in Objects : \E t \in Threads : Holds(t, o)}
  <2>1. \A t \in Threads, o \in Objects : Holds(t, o) => Busy(t)
    <3>1. \A t \in Threads : ~Busy(t) => Frames(t) = {}
      BY IdleFacts
    <3> QED BY <3>1, HoldsFrames
  <2>2. Object[Top(b).par] \in S
    BY <1>2, WaitingIsUpwards
  <2>3. PICK m \in S : \A o \in S : Level[o] <= Level[m]
    BY <2>2, HighestObject
  <2>4. PICK t \in Threads : Holds(t, m)
    BY <2>3
  <2>5. Busy(t) /\ Waits(t)
    BY <2>1, <2>3, <2>4
  <2>6. /\ Object[Top(t).par] \in S
        /\ Level[m] < Level[Object[Top(t).par]]
    BY <1>2, <2>3, <2>4, <2>5, WaitingIsUpwards
  <2>7. Level[Object[Top(t).par]] <= Level[m]
    BY <2>3, <2>6
  <2>8. Level[m] \in Nat /\ Level[Object[Top(t).par]] \in Nat
    BY <2>3, <2>6, ParametersAssumption
  <2> QED BY <2>6, <2>7, <2>8
<1> QED BY <1>1, <1>2

(* Updates, readers and the calls that wire never all wait for each other, *)
(* whatever the wiring, provided that data flows one way between objects.  *)
THEOREM NobodyWaitsInACircle == Spec => []NoDeadlock
BY StructureInvariant, StructureNoDeadlock, PTL

----------------------------------------------------------------------------
(* Sources live                                                            *)

(* What an input leads to lives if the input does.                         *)
LEMMA SourceLives ==
  ASSUME WiringOK, Attached, NEW q \in Nodes, q # None => life[q] # "dead"
  PROVE  DataPtr[q] # None => life[DataPtr[q]] # "dead"
<1> DEFINE Good(p) == /\ p # None => life[p] # "dead"
                      /\ DataPtr[p] # None /\ life[DataPtr[p]] = "dead"
           Bad == {Rank(p) : p \in {r \in Nodes : Good(r)}}
<1>1. ASSUME Bad # {} PROVE FALSE
  <2>1. Bad \subseteq Nat
    BY RankType
  <2>2. PICK m \in Bad : \A n \in Bad : m <= n
    BY <1>1, <2>1, LeastNumber
  <2>3. PICK p \in Nodes : Good(p) /\ m = Rank(p)
    BY <2>2
  <2>4. p \in Inputs
    BY <2>3, DataPtrFacts DEF Nodes, Params
  <2>5. /\ Feed(p) \in Nodes /\ Rank(p) \in Nat /\ Rank(Feed(p)) \in Nat
        /\ Rank(Feed(p)) < Rank(p)
        /\ Feed(p) # None => Feed(p) \in {raw[p], shared[p]}
    BY <2>4, FeedFacts
  <2>6. Feed(p) # None => life[Feed(p)] # "dead"
    BY <2>4, <2>5 DEF Attached
  <2>7. DataPtr[Feed(p)] = DataPtr[p]
    BY <2>4, DataPtrFacts
  <2>8. Rank(Feed(p)) \in Bad
    BY <2>3, <2>5, <2>6, <2>7
  <2> QED BY <2>2, <2>3, <2>5, <2>8
<1>2. q \in Nodes /\ ~Good(q)
  BY <1>1
<1> QED BY <1>2

(* The frames of destructors stay apart.                                   *)
LEMMA DistinctStep ==
  ASSUME Typing, Distinct, NEW t \in Threads, NEW fs \in Seq(FrameSet), Replace(t, fs),
         t = Main =>
           \A k \in DOMAIN fs : fs[k].op \in EndOps =>
             /\ \A j \in 2..Len(stack[t]) :
                  stack[t][j].op \in EndOps => stack[t][j].par # fs[k].par
             /\ \A l \in DOMAIN fs : k # l /\ fs[l].op \in EndOps => fs[k].par # fs[l].par
  PROVE  Distinct'
<1>1. CASE t # Main
  <2>1. stack'[Main] = stack[Main]
    BY <1>1, ReplaceFacts, ParametersAssumption
  <2> QED BY <2>1 DEF Distinct
<1>2. CASE t = Main
  <2>1. /\ Len(fs) \in Nat /\ DOMAIN fs = 1..Len(fs)
        /\ DOMAIN stack[t] = 1..Len(stack[t]) /\ Len(stack[t]) \in Nat
        /\ \A k \in DOMAIN stack'[t] :
             \/ k \in DOMAIN fs /\ stack'[t][k] = fs[k]
             \/ \E j \in 2..Len(stack[t]) :
                  /\ Len(Below(t)) # 0 /\ k = Len(fs) + j - 1
                  /\ stack'[t][k] = stack[t][j]
    BY ReplaceAt
  <2> SUFFICES ASSUME NEW k \in DOMAIN stack'[t], NEW l \in DOMAIN stack'[t], k # l,
                      stack'[t][k].op \in EndOps, stack'[t][l].op \in EndOps
               PROVE  stack'[t][k].par # stack'[t][l].par
    BY <1>2 DEF Distinct
  <2>2. CASE k \in DOMAIN fs /\ stack'[t][k] = fs[k]
    BY <1>2, <2>1, <2>2
  <2>3. CASE l \in DOMAIN fs /\ stack'[t][l] = fs[l]
    BY <1>2, <2>1, <2>3
  <2>4. ASSUME NEW i \in 2..Len(stack[t]), k = Len(fs) + i - 1, stack'[t][k] = stack[t][i],
               NEW j \in 2..Len(stack[t]), l = Len(fs) + j - 1, stack'[t][l] = stack[t][j]
        PROVE  stack'[t][k].par # stack'[t][l].par
    <3>1. i \in DOMAIN stack[t] /\ j \in DOMAIN stack[t] /\ i # j
      BY <2>1, <2>4
    <3> QED BY <1>2, <2>4, <3>1 DEF Distinct
  <2> QED BY <2>1, <2>2, <2>3, <2>4
<1> QED BY <1>1, <1>2

(* Updates, what they call, and readers leave the wiring alone.            *)
LEMMA CallLives ==
  ASSUME Structure, Lives, NEW t \in Threads, NEW fs \in Seq(FrameSet), Replace(t, fs),
         UNCHANGED wiring,
         Busy(t) => Top(t).op \notin {"wire", "destroy"},
         \A f \in Among(fs) :
           /\ f.op \notin EndOps \cup SetOps /\ life[f.par] # "dead"
           /\ f.op = "emit" => \A i \in f.todo : i \in wired[f.par] /\ life[i] # "dead"
  PROVE  Lives'
<1>1. Typing /\ Attached /\ Living /\ Distinct /\ Connected /\ Announced
  BY DEF Structure, Lives
<1>2. UNCHANGED <<raw, shared, wired, life>> /\ Main \in Threads
  BY ParametersAssumption DEF wiring
<1>3. /\ \A u \in Threads : u # t => Frames(u)' = Frames(u)
      /\ Frames(t)' = Among(fs) \cup Rest(t)
      /\ Busy(t) => Frames(t) = {Top(t)} \cup Rest(t)
      /\ ~Busy(t) => Frames(t) = {} /\ Rest(t) = {}
  BY <1>1, ReplaceFrames
<1>4. \A u \in Threads : \A f \in Frames(u)' : f \in Frames(u) \/ (u = t /\ f \in Among(fs))
  BY <1>3
<1>5. \A u \in Threads : \A f \in Frames(u) : f.op \in {"wire", "destroy"} => f \in Frames(u)'
  BY <1>3
<1>6. Attached'
  BY <1>1, <1>2, <1>5 DEF Attached
<1>7. Living'
  <2> SUFFICES ASSUME NEW u \in Threads, NEW f \in Frames(u)'
               PROVE  /\ f.op \in EndOps => life[f.par] = "dying"
                      /\ f.op \in SetOps => life[f.par] = "owned"
                      /\ f.op = "wire" => life[f.src] = "owned"
                      /\ f.op \notin EndOps \cup SetOps => life[f.par] # "dead"
                      /\ f.op = "emit" => \A i \in f.todo : i \in wired[f.par] /\ life[i] # "dead"
    BY <1>2 DEF Living
  <2>1. CASE f \in Frames(u)
    BY <1>1, <2>1 DEF Living
  <2>2. CASE f \in Among(fs)
    BY <2>2 DEF SetOps
  <2> QED BY <1>4, <2>1, <2>2
<1>8. Distinct'
  <2>1. \A k \in DOMAIN fs : fs[k].op \notin EndOps
    BY DEF Among
  <2> QED BY <1>1, <2>1, DistinctStep
<1>9. Connected'
  BY <1>1, <1>2, <1>5 DEF Connected
<1>10. Announced'
  <2>1. \A f \in Frames(Main)' : f.op = "delete" => f \in Frames(Main)
    BY <1>2, <1>4 DEF EndOps
  <2> QED BY <1>1, <1>2, <2>1 DEF Announced
<1> QED BY <1>6, <1>7, <1>8, <1>9, <1>10 DEF Lives

(* The frames that each step of an update or a reader puts on its stack.   *)
UpdateEffect(t, p, f) ==
  /\ ~Busy(t) /\ Replace(t, <<f>>)
  /\ f.par = p /\ f.todo = {} /\ f.stamp = clock'
  /\ f.op = IF p \in Typed THEN "commit" ELSE "stamp"

LEMMA UpdateShape ==
  ASSUME Structure, NEW t \in Threads, NEW p \in Outputs, UpdateData(t, p) \/ UpdateTyped(t, p)
  PROVE  \E f \in FrameSet : UpdateEffect(t, p, f)
<1>1. Cells /\ Typing /\ p \in Params /\ Object[p] \in Objects
  BY ParametersAssumption DEF Structure, Typing, Params
<1>2. ~Busy(t) /\ clock' \in Int
  BY <1>1, ParametersAssumption DEF UpdateData, UpdateTyped, Acts, Cells
<1>3. CASE UpdateData(t, p)
  <2> DEFINE f == Frame("stamp", p, None, {}, clock', t, Object[p])
  <2>1. f \in FrameSet /\ f.op = "stamp" /\ f.par = p /\ f.todo = {} /\ f.stamp = clock'
    BY <1>1, <1>2 DEF Frame, FrameSet, RunOps
  <2>2. Enter(t, <<f>>) /\ p \notin Typed
    BY <1>3 DEF UpdateData
  <2> HIDE DEF f
  <2>3. Replace(t, <<f>>)
    BY <1>1, <1>2, <2>1, <2>2, OneFrame, BecomeReplaces
  <2> QED BY <1>2, <2>1, <2>2, <2>3 DEF UpdateEffect
<1>4. CASE UpdateTyped(t, p)
  <2> DEFINE f == Frame("commit", p, None, {}, clock', t, None)
  <2>1. f \in FrameSet /\ f.op = "commit" /\ f.par = p /\ f.todo = {} /\ f.stamp = clock'
    BY <1>1, <1>2 DEF Frame, FrameSet, RunOps
  <2>2. Enter(t, <<f>>) /\ p \in Typed
    BY <1>4 DEF UpdateTyped
  <2> HIDE DEF f
  <2>3. Replace(t, <<f>>)
    BY <1>1, <1>2, <2>1, <2>2, OneFrame, BecomeReplaces
  <2> QED BY <1>2, <2>1, <2>2, <2>3 DEF UpdateEffect
<1> QED BY <1>3, <1>4

LEMMA EmitShape ==
  ASSUME Structure, NEW t \in Threads, Stamp(t) \/ Commit(t)
  PROVE  \E e \in FrameSet :
           /\ Busy(t) /\ Replace(t, <<e>>)
           /\ e.op = "emit" /\ e.par = Top(t).par /\ e.todo = wired[Top(t).par]
<1> DEFINE f == Top(t)  e == Emission(f.par, f.ctx)
<1>1. Typing /\ Stacks /\ Phases
  BY DEF Structure
<1>2. Busy(t) /\ Become(t, <<e>>)
  BY DEF Stamp, Commit, At
<1>3. f.par \in Params /\ f.ctx \in Threads \cup {None}
  BY <1>1, <1>2, TopFacts DEF FrameSet
<1>4. e \in FrameSet /\ e.op = "emit" /\ e.par = f.par /\ e.todo = wired[f.par]
  BY <1>3, EmissionFacts
<1> HIDE DEF e
<1>5. Replace(t, <<e>>)
  BY <1>1, <1>2, <1>4, OneFrame, BecomeReplaces
<1> QED BY <1>2, <1>4, <1>5

LEMMA NotifyShape ==
  ASSUME Structure, NEW t \in Threads, Notify(t)
  PROVE  \E i \in Inputs, r \in FrameSet, c \in FrameSet, a \in FrameSet :
           /\ Busy(t) /\ i \in Top(t).todo
           /\ r.op = "emit" /\ r.par = Top(t).par /\ r.todo = Top(t).todo \ {i}
           /\ c.op = "commit" /\ c.par = i /\ (Feed(i) # None => c.stamp = ts[Feed(i)])
           /\ a.op = "assign" /\ a.par = i
           /\ \/ Feed(i) = None /\ Replace(t, <<r>>)
              \/ Feed(i) # None /\ Replace(t, <<c, a, r>>)
<1> DEFINE f == Top(t)
<1>1. Typing /\ Stacks /\ Phases /\ WiringOK /\ ts \in [Params -> Int]
  BY WiringKept DEF Structure, Typing, Cells
<1>2. Busy(t) /\ f.op = "emit"
  BY DEF Notify, At
<1>3. PICK i \in f.todo :
        LET rest == [f EXCEPT !.todo = @ \ {i}] IN
        IF Feed(i) = None
          THEN Become(t, <<rest>>)
          ELSE Become(t, <<Frame("commit", i, None, {}, ts[Feed(i)], f.ctx, None),
                           Frame("assign", i, None, {}, 0, f.ctx, None), rest>>)
  BY DEF Notify
<1> DEFINE r == [f EXCEPT !.todo = f.todo \ {i}]
           stamp == IF Feed(i) = None THEN 0 ELSE ts[Feed(i)]
           c == Frame("commit", i, None, {}, stamp, f.ctx, None)
           a == Frame("assign", i, None, {}, 0, f.ctx, None)
<1>4. f \in FrameSet /\ i \in Inputs /\ i \in Params /\ f.ctx \in Threads \cup {None}
  BY <1>1, <1>2, TopFacts DEF FrameSet, Params
<1>5. r \in FrameSet /\ r.op = "emit" /\ r.par = f.par /\ r.todo = f.todo \ {i}
  BY <1>2, <1>4 DEF FrameSet
<1>6. stamp \in Int
  <2>1. Feed(i) \in Nodes
    BY <1>1, <1>4, FeedFacts
  <2> QED BY <1>1, <2>1 DEF Nodes
<1>7. Feed(i) # None => stamp = ts[Feed(i)]
  OBVIOUS
<1> HIDE DEF stamp
<1>8. c \in FrameSet /\ c.op = "commit" /\ c.par = i /\ c.stamp = stamp
  BY <1>4, <1>6 DEF Frame, FrameSet, RunOps
<1>9. a \in FrameSet /\ a.op = "assign" /\ a.par = i
  BY <1>4 DEF Frame, FrameSet, RunOps
<1>10. \/ Feed(i) = None /\ Become(t, <<r>>)
       \/ Feed(i) # None /\ Become(t, <<c, a, r>>)
  BY <1>3, <1>7
<1> HIDE DEF r, c, a
<1>11. \/ Feed(i) = None /\ Replace(t, <<r>>)
       \/ Feed(i) # None /\ Replace(t, <<c, a, r>>)
  BY <1>1, <1>2, <1>10, BecomeReplaces
<1> QED BY <1>2, <1>4, <1>5, <1>7, <1>8, <1>9, <1>11

LEMMA LeaveShape ==
  ASSUME Structure, NEW t \in Threads, Busy(t), Leave(t)
  PROVE  <<>> \in Seq(FrameSet) /\ Replace(t, <<>>) /\ Among(<<>>) = {}
<1>1. Below(t) \in Seq(FrameSet) /\ Below(t) = Tail(stack[t])
  BY BelowType DEF Below, Structure
<1>2. <<>> \o Below(t) = Tail(stack[t])
  BY <1>1
<1>3. <<>> \in Seq(FrameSet) /\ DOMAIN <<>> = {}
  OBVIOUS
<1>4. Among(<<>>) = {}
  BY <1>3 DEF Among
<1>5. Replace(t, <<>>)
  BY <1>2 DEF Replace, Leave
<1> QED BY <1>3, <1>4, <1>5

LEMMA SetUpdateShape ==
  ASSUME Structure, NEW t \in Threads, Update(t)
  PROVE  \E e \in FrameSet, g \in FrameSet :
           /\ Busy(t) /\ Top(t).op = "update" /\ Replace(t, <<e, g>>)
           /\ e.op = "emit" /\ e.par = Top(t).par /\ e.todo = wired[Top(t).par]
           /\ g.op = "return" /\ g.par = Top(t).par
<1> DEFINE f == Top(t)  e == Emission(f.par, f.ctx)  g == [f EXCEPT !.op = "return"]
<1>1. Typing /\ Stacks /\ Phases
  BY DEF Structure
<1>2. Busy(t) /\ f.op = "update" /\ Become(t, <<e, g>>)
  BY DEF Update, At
<1>3. f \in FrameSet /\ f.par \in Params /\ f.ctx \in Threads \cup {None}
  BY <1>1, <1>2, TopFacts DEF FrameSet
<1>4. e \in FrameSet /\ e.op = "emit" /\ e.par = f.par /\ e.todo = wired[f.par]
  BY <1>3, EmissionFacts
<1>5. g \in FrameSet /\ g.op = "return" /\ g.par = f.par
  BY <1>3 DEF FrameSet, CallOps
<1> HIDE DEF e, g
<1>6. Replace(t, <<e, g>>)
  BY <1>1, <1>2, BecomeReplaces
<1> QED BY <1>2, <1>4, <1>5, <1>6

LEMMA GetDataShape ==
  ASSUME Structure, NEW t \in Threads, NEW i \in Inputs, GetData(t, i)
  PROVE  \E f \in FrameSet :
           ~Busy(t) /\ Replace(t, <<f>>) /\ f.op = "read" /\ f.par = DataPtr[i]
<1> DEFINE f == Frame("read", DataPtr[i], None, {}, 0, None, None)
<1>1. Typing /\ WiringOK /\ i \in Nodes
  BY WiringKept DEF Structure, Nodes, Params
<1>2. ~Busy(t) /\ DataPtr[i] # None /\ Enter(t, <<f>>)
  BY DEF GetData, Acts
<1>3. DataPtr[i] \in Params
  BY <1>1, <1>2, DataPtrFacts DEF Params
<1>4. f \in FrameSet /\ f.op = "read" /\ f.par = DataPtr[i]
  BY <1>3 DEF Frame, FrameSet, RunOps
<1> HIDE DEF f
<1>5. Replace(t, <<f>>)
  BY <1>1, <1>2, <1>4, OneFrame, BecomeReplaces
<1> QED BY <1>2, <1>4, <1>5

(* Updates, what they call and readers keep what lives.                    *)
LEMMA ConnectedLives ==
  ASSUME Lives, Structure, NEW p \in Params
  PROVE  \A i \in wired[p] : life[i] # "dead"
<1> SUFFICES ASSUME NEW i \in wired[p] PROVE life[i] # "dead"
  OBVIOUS
<1>1. CASE life[i] \in {"owned", "released"}
  BY <1>1
<1>2. CASE \E f \in Frames(Main) : f.op = "destroy" /\ f.par = i
  <2>1. Main \in Threads
    BY ParametersAssumption
  <2> QED BY <1>2, <2>1 DEF Lives, Living, EndOps
<1> QED BY <1>1, <1>2 DEF Lives, Connected

LEMMA UpdateLives ==
  ASSUME Structure, Lives, NEW t \in Threads,
         \/ \E p \in Outputs : UpdateData(t, p) \/ UpdateTyped(t, p)
         \/ Stamp(t) \/ Commit(t) \/ Notify(t) \/ Update(t)
  PROVE  Lives'
<1>1. /\ Typing /\ Stacks /\ Phases /\ Living
      /\ \A f \in FrameSet : f.par \in Params
  BY DEF Structure, Lives, FrameSet
<1>2. ASSUME Busy(t), Top(t).op \notin EndOps
      PROVE  /\ life[Top(t).par] # "dead" /\ Top(t).par \in Params /\ Top(t).todo \subseteq Inputs
             /\ \A i \in wired[Top(t).par] : life[i] # "dead"
             /\ Top(t).op = "emit" =>
                  \A i \in Top(t).todo : i \in wired[Top(t).par] /\ life[i] # "dead"
  <2>1. Top(t) \in Frames(t) /\ Top(t).par \in Params /\ Top(t).todo \subseteq Inputs
    BY <1>1, <1>2, TopFacts DEF FrameSet
  <2>2. life[Top(t).par] # "dead"
    BY <1>1, <1>2, <2>1 DEF Living
  <2>3. Top(t).op = "emit" =>
          \A i \in Top(t).todo : i \in wired[Top(t).par] /\ life[i] # "dead"
    BY <1>1, <2>1 DEF Living
  <2> QED BY <2>1, <2>2, <2>3, ConnectedLives
<1>3. ASSUME NEW p \in Outputs, UpdateData(t, p) \/ UpdateTyped(t, p) PROVE Lives'
  <2>1. life[p] = "owned" /\ UNCHANGED wiring
    BY <1>3 DEF UpdateData, UpdateTyped
  <2>2. PICK f \in FrameSet :
          /\ ~Busy(t) /\ Replace(t, <<f>>)
          /\ f.par = p /\ f.op = IF p \in Typed THEN "commit" ELSE "stamp"
    <3>1. PICK f \in FrameSet : UpdateEffect(t, p, f)
      BY <1>3, UpdateShape
    <3> QED BY <3>1 DEF UpdateEffect
  <2>3. <<f>> \in Seq(FrameSet) /\ Among(<<f>>) = {f}
    BY OneFrame
  <2>4. f.op \notin EndOps \cup SetOps /\ f.op # "emit"
    BY <2>2 DEF EndOps, SetOps
  <2> QED BY <2>1, <2>2, <2>3, <2>4, CallLives
<1>4. CASE Stamp(t) \/ Commit(t)
  <2>1. Top(t).op \in {"stamp", "commit"} /\ UNCHANGED wiring
    BY <1>4 DEF Stamp, Commit, At
  <2>2. PICK e \in FrameSet :
          /\ Busy(t) /\ Replace(t, <<e>>)
          /\ e.op = "emit" /\ e.par = Top(t).par /\ e.todo = wired[Top(t).par]
    BY <1>4, EmitShape
  <2>3. <<e>> \in Seq(FrameSet) /\ Among(<<e>>) = {e}
    BY OneFrame
  <2> QED BY <1>2, <2>1, <2>2, <2>3, CallLives DEF EndOps, SetOps
<1>5. CASE Update(t)
  <2>1. UNCHANGED wiring
    BY <1>5 DEF Update
  <2>2. PICK e \in FrameSet, g \in FrameSet :
          /\ Busy(t) /\ Top(t).op = "update" /\ Replace(t, <<e, g>>)
          /\ e.op = "emit" /\ e.par = Top(t).par /\ e.todo = wired[Top(t).par]
          /\ g.op = "return" /\ g.par = Top(t).par
    BY <1>5, SetUpdateShape
  <2>3. <<e, g>> \in Seq(FrameSet) /\ Among(<<e, g>>) = {e, g}
    BY TwoFrames
  <2> QED BY <1>2, <2>1, <2>2, <2>3, CallLives DEF EndOps, SetOps
<1>6. CASE Notify(t)
  <2>1. UNCHANGED wiring /\ Top(t).op = "emit"
    BY <1>6 DEF Notify, At
  <2>2. PICK i \in Inputs, r \in FrameSet, c \in FrameSet, a \in FrameSet :
          /\ Busy(t) /\ i \in Top(t).todo
          /\ r.op = "emit" /\ r.par = Top(t).par /\ r.todo = Top(t).todo \ {i}
          /\ c.op = "commit" /\ c.par = i /\ (Feed(i) # None => c.stamp = ts[Feed(i)])
          /\ a.op = "assign" /\ a.par = i
          /\ \/ Feed(i) = None /\ Replace(t, <<r>>)
             \/ Feed(i) # None /\ Replace(t, <<c, a, r>>)
    BY <1>6, NotifyShape
  <2>3. /\ <<r>> \in Seq(FrameSet) /\ Among(<<r>>) = {r}
        /\ <<c, a, r>> \in Seq(FrameSet) /\ Among(<<c, a, r>>) = {c, a, r}
    BY OneFrame, ThreeFrames
  <2>4. \A f \in {c, a, r} :
          /\ f.op \notin EndOps \cup SetOps /\ life[f.par] # "dead"
          /\ f.op = "emit" => \A j \in f.todo : j \in wired[f.par] /\ life[j] # "dead"
    BY <1>2, <2>1, <2>2 DEF EndOps, SetOps
  <2>5. CASE Replace(t, <<r>>)
    BY <2>1, <2>3, <2>4, <2>5, CallLives
  <2>6. CASE Replace(t, <<c, a, r>>)
    BY <2>1, <2>3, <2>4, <2>6, CallLives
  <2> QED BY <2>2, <2>5, <2>6
<1> QED BY <1>3, <1>4, <1>5, <1>6

LEMMA ReturnLives ==
  ASSUME Structure, Lives, NEW t \in Threads,
         \/ EmitReturn(t) \/ AssignUser(t) \/ SetReturn(t) \/ Read(t)
         \/ \E i \in Inputs : GetInput(t, i) \/ GetData(t, i)
  PROVE  Lives'
<1>1. CASE EmitReturn(t) \/ AssignUser(t) \/ SetReturn(t) \/ Read(t)
  <2>1. Busy(t) /\ Leave(t) /\ UNCHANGED wiring /\ Top(t).op \notin {"wire", "destroy"}
    BY <1>1 DEF EmitReturn, AssignUser, SetReturn, Read, CanRead, At
  <2>2. <<>> \in Seq(FrameSet) /\ Replace(t, <<>>) /\ Among(<<>>) = {}
    BY <2>1, LeaveShape
  <2> DEFINE fs == <<>>
  <2> HIDE DEF fs
  <2>3. fs \in Seq(FrameSet) /\ Replace(t, fs) /\ Among(fs) = {}
    BY <2>2 DEF fs
  <2> QED BY <2>1, <2>3, CallLives
<1>2. ASSUME NEW i \in Inputs, GetInput(t, i) PROVE Lives'
  <2>1. UNCHANGED <<raw, shared, wired, life, stack>>
    BY <1>2 DEF GetInput, wiring
  <2>2. \A u \in Threads : Frames(u)' = Frames(u)
    BY <2>1 DEF Frames
  <2>3. Main \in Threads
    BY ParametersAssumption
  <2>4. Attached' /\ Living' /\ Connected' /\ Announced'
    BY <2>1, <2>2, <2>3 DEF Lives, Attached, Living, Connected, Announced
  <2>5. Distinct'
    BY <2>1 DEF Lives, Distinct
  <2> QED BY <2>4, <2>5 DEF Lives
<1>3. ASSUME NEW i \in Inputs, GetData(t, i) PROVE Lives'
  <2>1. UNCHANGED wiring /\ Alive(i) /\ DataPtr[i] # None
    BY <1>3 DEF GetData
  <2>2. PICK f \in FrameSet :
          ~Busy(t) /\ Replace(t, <<f>>) /\ f.op = "read" /\ f.par = DataPtr[i]
    BY <1>3, GetDataShape
  <2>3. life[DataPtr[i]] # "dead"
    <3>1. WiringOK /\ Attached /\ i \in Nodes /\ life[i] # "dead"
      BY <2>1, WiringKept DEF Lives, Nodes, Params, Alive
    <3> QED BY <2>1, <3>1, SourceLives
  <2>4. <<f>> \in Seq(FrameSet) /\ Among(<<f>>) = {f}
    BY OneFrame
  <2> QED BY <2>1, <2>2, <2>3, <2>4, CallLives DEF EndOps, SetOps
<1> QED BY <1>1, <1>2, <1>3

(* While the main thread wires and destroys, its stack is all there is.    *)
LEMMA MainFrames ==
  ASSUME Structure, ~running, NEW fs \in Seq(FrameSet), Replace(Main, fs),
         Busy(Main) => Top(Main).op \in EndOps \cup SetOps
  PROVE  /\ \A u \in Threads : u # Main => Frames(u) = {} /\ Frames(u)' = {}
         /\ Frames(Main)' = Among(fs) \cup Rest(Main)
         /\ Busy(Main) => Frames(Main) = {Top(Main)} \cup Rest(Main)
         /\ ~Busy(Main) => Frames(Main) = {} /\ Rest(Main) = {}
         /\ Len(Below(Main)) = 0 => Rest(Main) = {}
         /\ Rest(Main) \subseteq Frames(Main)
         /\ \A f \in Rest(Main) : f.op \in EndOps \cup SetOps
         /\ Busy(Main) => /\ Top(Main) = stack[Main][1] /\ 1 \in DOMAIN stack[Main]
                          /\ Top(Main) \in FrameSet
         /\ DOMAIN stack[Main] = 1..Len(stack[Main]) /\ Len(stack[Main]) \in Nat
<1>1. Typing /\ Stacks /\ Phases /\ Main \in Threads
  BY ParametersAssumption DEF Structure
<1>2. /\ \A u \in Threads : u # Main => Frames(u)' = Frames(u)
      /\ Frames(Main)' = Among(fs) \cup Rest(Main)
      /\ Busy(Main) => Frames(Main) = {Top(Main)} \cup Rest(Main)
      /\ ~Busy(Main) => Frames(Main) = {} /\ Rest(Main) = {}
  BY <1>1, ReplaceFrames
<1>3. \A u \in Threads : u # Main => Frames(u) = {}
  BY <1>1, IdleFacts DEF Phases, Busy
<1>4. stack[Main] \in Seq(FrameSet)
  BY <1>1 DEF Typing
<1>5. /\ Below(Main) \in Seq(FrameSet)
      /\ Busy(Main) => /\ Len(stack[Main]) = Len(Below(Main)) + 1
                       /\ Top(Main) = stack[Main][1] /\ Top(Main) \in FrameSet
  BY <1>1, BelowType
<1>6. Len(Below(Main)) = 0 => Rest(Main) = {}
  <2>1. CASE Busy(Main) /\ Len(Below(Main)) = 0
    <3>1. Len(stack[Main]) = 1
      BY <1>5, <2>1
    <3> QED BY <3>1 DEF Rest
  <2> QED BY <1>2, <2>1
<1>7. \A f \in Rest(Main) : f.op \in EndOps \cup SetOps
  <2>1. CASE Busy(Main)
    <3>1. Ends(Main) \/ Len(Below(Main)) = 0
      BY <1>1, <2>1, TopFacts
    <3>2. CASE Ends(Main)
      BY <1>2, <2>1, <3>2 DEF Ends, Frames
    <3> QED BY <1>6, <3>1, <3>2
  <2> QED BY <1>2, <2>1
<1> QED BY <1>2, <1>3, <1>4, <1>5, <1>6, <1>7

(* A frame of SetInput or of a destructor comes in place of the top, above *)
(* it perhaps the destructor of a source that is let go.                   *)
ResetsTo(i, g) ==
  \/ i \in Inputs /\ Replace(Main, Reset(i) \o <<g>>) /\ life' = Doom(i)
  \/ Replace(Main, <<g>>) /\ life' = life

LEMMA ResetLives ==
  ASSUME Structure, Lives, ~running, NEW i, NEW g \in FrameSet, ResetsTo(i, g),
         Busy(Main) => Top(Main).op \in EndOps \cup SetOps,
         g.op \in EndOps \cup SetOps,
         g.op \in EndOps => /\ Busy(Main) /\ Top(Main).op \in EndOps
                            /\ Top(Main).par = g.par,
         g.op \in SetOps => life[g.par] = "owned",
         g.op = "wire" => g.src \in Params /\ life[g.src] = "owned"
  PROVE  /\ \A f \in Frames(Main)' : f = g \/ f \in Rest(Main) \/ f.op = "destroy"
         /\ g \in Frames(Main)' /\ Rest(Main) \subseteq Frames(Main)'
         /\ Living' /\ Distinct'
         /\ \A p \in Params :
              /\ life'[p] = "dead" <=> life[p] = "dead"
              /\ life[p] = "dying" => life'[p] = "dying"
              /\ life[p] \in {"owned", "released"} =>
                   \/ life'[p] \in {"owned", "released"}
                   \/ \E f \in Frames(Main)' : f.op = "destroy" /\ f.par = p
<1> DEFINE q == shared[i]  d == Frame("destroy", q, None, {}, 0, None, None)
           orphan == i \in Inputs /\ Orphan(q, i) /\ life' = Doom(i) /\ Replace(Main, Reset(i) \o <<g>>)
<1>1. Typing /\ Stacks /\ Phases /\ Main \in Threads /\ Living /\ Distinct
      /\ life \in [Params -> {"owned", "released", "dying", "dead"}]
  BY ParametersAssumption DEF Structure, Lives, Typing, Cells
<1>2. PICK fs \in Seq(FrameSet) :
        /\ Replace(Main, fs)
        /\ orphan => fs = <<d, g>>
        /\ ~orphan => fs = <<g>>
  <2>1. i \in Inputs =>
          /\ Reset(i) \o <<g>> \in Seq(FrameSet)
          /\ ~Orphan(q, i) => Reset(i) \o <<g>> = <<g>>
          /\ Orphan(q, i) => Reset(i) \o <<g>> = <<d, g>>
    BY ResetFrames
  <2>2. <<g>> \in Seq(FrameSet)
    BY OneFrame
  <2>3. CASE i \in Inputs /\ Replace(Main, Reset(i) \o <<g>>) /\ life' = Doom(i)
    <3>1. CASE Orphan(q, i)
      BY <2>1, <2>3, <3>1
    <3>2. CASE ~Orphan(q, i)
      BY <2>1, <2>3, <3>2
    <3> QED BY <3>1, <3>2
  <2>4. CASE Replace(Main, <<g>>) /\ life' = life
    <3>1. CASE orphan
      BY <2>1, <3>1
    <3>2. CASE ~orphan
      BY <2>2, <2>4, <3>2
    <3> QED BY <3>1, <3>2
  <2> QED BY <2>3, <2>4 DEF ResetsTo
<1>3. /\ orphan => q \in Params /\ life[q] = "released" /\ life'[q] = "dying" /\ d \in FrameSet
                   /\ d.op = "destroy" /\ d.par = q
      /\ \A p \in Params : life'[p] # life[p] => orphan /\ p = q
  <2>1. i \in Inputs =>
          /\ Orphan(q, i) => q \in Params /\ life[q] = "released"
          /\ \A p \in Params : Doom(i)[p] # life[p] => p = q /\ Orphan(p, i)
          /\ Orphan(q, i) => Doom(i)[q] = "dying"
    BY ResetFacts
  <2>2. i \in Inputs /\ Orphan(q, i) => d \in FrameSet /\ d.op = "destroy" /\ d.par = q
    BY <2>1, DestroyFrame
  <2>3. \/ i \in Inputs /\ Replace(Main, Reset(i) \o <<g>>) /\ life' = Doom(i)
        \/ Replace(Main, <<g>>) /\ life' = life
    BY DEF ResetsTo
  <2> HIDE DEF d
  <2> QED BY <2>1, <2>2, <2>3
<1> HIDE DEF orphan, d
<1>4. /\ \A u \in Threads : u # Main => Frames(u)' = {}
      /\ Frames(Main)' = Among(fs) \cup Rest(Main)
      /\ Rest(Main) \subseteq Frames(Main)
      /\ \A f \in Rest(Main) : f.op \in EndOps \cup SetOps
      /\ Busy(Main) => /\ Top(Main) = stack[Main][1] /\ 1 \in DOMAIN stack[Main]
                       /\ Top(Main) \in Frames(Main)
      /\ DOMAIN stack[Main] = 1..Len(stack[Main]) /\ Len(stack[Main]) \in Nat
  <2>1. Busy(Main) => Top(Main) \in Frames(Main)
    BY <1>1, TopFacts
  <2> QED BY <1>2, <2>1, MainFrames
<1>5. /\ orphan => Among(fs) = {d, g} /\ Len(fs) = 2 /\ DOMAIN fs = {1, 2}
                   /\ fs[1] = d /\ fs[2] = g
      /\ ~orphan => Among(fs) = {g} /\ Len(fs) = 1 /\ DOMAIN fs = {1} /\ fs[1] = g
  <2>1. CASE orphan
    <3>1. d \in FrameSet /\ fs = <<d, g>>
      BY <1>2, <1>3, <2>1
    <3>2. /\ Among(<<d, g>>) = {d, g} /\ Len(<<d, g>>) = 2 /\ DOMAIN <<d, g>> = {1, 2}
          /\ <<d, g>>[1] = d /\ <<d, g>>[2] = g
      BY <3>1, TwoFrames
    <3> QED BY <2>1, <3>1, <3>2
  <2>2. CASE ~orphan
    BY <1>2, <2>2, OneFrame
  <2> QED BY <2>1, <2>2
<1>6. \A p \in Params :
        /\ life'[p] = "dead" <=> life[p] = "dead"
        /\ life[p] = "dying" => life'[p] = "dying"
        /\ life[p] = "owned" => life'[p] = "owned"
        /\ life[p] \in {"owned", "released"} =>
             \/ life'[p] \in {"owned", "released"}
             \/ \E f \in Frames(Main)' : f.op = "destroy" /\ f.par = p
  BY <1>3, <1>4, <1>5
<1>7. g.op \in EndOps => life[g.par] = "dying"
  BY <1>1, <1>4 DEF Living
<1>8. \A f \in Frames(Main)' : f.par \in Params /\ f.op \in EndOps \cup SetOps
        /\ (f.op = "wire" => f.src \in Params)
  <2>1. \A f \in Frames(Main) : f.par \in Params /\ (f.op = "wire" => f.src \in Params)
    <3>1. Frames(Main) \subseteq FrameSet
      BY <1>1, FramesType
    <3>2. \A f \in Frames(Main) : FrameOK(f)
      BY <1>1 DEF Stacks
    <3> QED BY <3>1, <3>2, ParametersAssumption DEF FrameSet, FrameOK
  <2>2. g.par \in Params /\ (g.op = "wire" => g.src \in Params)
    BY DEF FrameSet
  <2>3. d.op = "destroy" => d.op \in EndOps /\ d.op # "wire"
    BY DEF EndOps
  <2> QED BY <1>3, <1>4, <1>5, <2>1, <2>2, <2>3
<1>9. Living'
  <2>1. ASSUME NEW f \in Frames(Main)'
        PROVE  /\ f.op \in EndOps => life'[f.par] = "dying"
               /\ f.op \in SetOps => life'[f.par] = "owned"
               /\ f.op = "wire" => life'[f.src] = "owned"
               /\ f.op \in EndOps \cup SetOps
    <3>1. CASE f \in Rest(Main)
      BY <1>1, <1>4, <1>6, <1>8, <2>1, <3>1 DEF Living
    <3>2. CASE f = g
      BY <1>6, <1>7, <1>8, <2>1, <3>2 DEF EndOps, SetOps
    <3>3. CASE orphan /\ f = d
      BY <1>3, <3>3 DEF EndOps, SetOps
    <3> QED BY <1>4, <1>5, <3>1, <3>2, <3>3
  <2>2. \A f \in Frames(Main)' : f.op # "emit"
    BY <2>1 DEF EndOps, SetOps
  <2> QED BY <1>4, <2>1, <2>2 DEF Living
<1>10. Distinct'
  <2>1. \A j \in 2..Len(stack[Main]) :
          stack[Main][j] \in Frames(Main) /\ j \in DOMAIN stack[Main] /\ j # 1
    BY <1>4 DEF Frames
  <2>2. ASSUME orphan
        PROVE  /\ \A f \in Frames(Main) : f.op \in EndOps => f.par # q
               /\ g.op \in EndOps => g.par # q
    BY <1>1, <1>3, <1>7, <2>2 DEF Living
  <2>3. ASSUME g.op \in EndOps, NEW j \in 2..Len(stack[Main]), stack[Main][j].op \in EndOps
        PROVE  stack[Main][j].par # g.par
    BY <1>1, <1>4, <2>1, <2>3 DEF Distinct
  <2>4. \A k \in DOMAIN fs : fs[k].op \in EndOps =>
          /\ \A j \in 2..Len(stack[Main]) :
               stack[Main][j].op \in EndOps => stack[Main][j].par # fs[k].par
          /\ \A l \in DOMAIN fs : k # l /\ fs[l].op \in EndOps => fs[k].par # fs[l].par
    <3>1. CASE orphan
      BY <1>3, <1>5, <2>1, <2>2, <2>3, <3>1
    <3>2. CASE ~orphan
      BY <1>5, <2>3, <3>2
    <3> QED BY <3>1, <3>2
  <2> QED BY <1>1, <1>2, <2>4, DistinctStep
<1>11. /\ \A f \in Frames(Main)' : f = g \/ f \in Rest(Main) \/ f.op = "destroy"
       /\ g \in Frames(Main)' /\ Rest(Main) \subseteq Frames(Main)'
  BY <1>3, <1>4, <1>5
<1> QED BY <1>6, <1>9, <1>10, <1>11

(* The main thread's steps.                                                *)
LEMMA EndFacts ==
  ASSUME Structure, Lives, NEW t \in Threads, Busy(t), Top(t).op \in EndOps
  PROVE  /\ t = Main /\ ~running /\ Top(t) \in FrameSet /\ Top(t) \in Frames(Main)
         /\ Top(t).par \in Params /\ life[Top(t).par] = "dying"
         /\ Top(t).todo \subseteq Inputs
<1>1. Typing /\ Stacks /\ Phases /\ Living
  BY DEF Structure, Lives
<1>2. /\ Top(t) \in Frames(t) /\ Top(t) \in FrameSet
      /\ ~running => t = Main
      /\ running => Top(t).op \in RunOps
  BY <1>1, TopFacts
<1>3. t = Main /\ ~running
  BY <1>2 DEF EndOps, RunOps
<1>4. life[Top(t).par] = "dying"
  BY <1>1, <1>2 DEF Living
<1> QED BY <1>2, <1>3, <1>4 DEF FrameSet

LEMMA BusyFrames ==
  ASSUME Typing, NEW t \in Threads, Busy(t)
  PROVE  Frames(t) = {Top(t)} \cup Rest(t)
<1>1. stack[t] \in Seq(FrameSet)
  BY DEF Typing
<1>2. Len(stack[t]) = Len(Below(t)) + 1 /\ Top(t) = stack[t][1] /\ Below(t) \in Seq(FrameSet)
  BY BelowType
<1>3. DOMAIN stack[t] = {1} \cup (2..Len(stack[t]))
  BY <1>1, <1>2
<1> QED BY <1>2, <1>3 DEF Frames, Rest

LEMMA DestroyLives ==
  ASSUME Structure, Lives, NEW t \in Threads, Destroy(t)
  PROVE  Lives'
<1> DEFINE p == Top(Main).par  g == Deletion(p)
<1>1. /\ Typing /\ Attached /\ Living /\ Distinct /\ Connected /\ Announced /\ Main \in Threads
      /\ wired \in [Params -> SUBSET Inputs]
      /\ raw \in [Inputs -> Params \cup {None}] /\ shared \in [Inputs -> Params \cup {None}]
  BY ParametersAssumption DEF Structure, Lives, Typing, Cells
<1>2. /\ t = Main /\ ~running /\ Busy(Main) /\ Top(Main).op = "destroy"
      /\ p \in Params /\ life[p] = "dying" /\ Top(Main) \in Frames(Main)
  <2>1. Busy(t) /\ Top(t).op = "destroy" /\ Top(t).op \in EndOps
    BY DEF Destroy, At, EndOps
  <2> QED BY <2>1, EndFacts
<1>3. /\ g \in FrameSet /\ g.op = "delete" /\ g.par = p /\ g.todo = wired[p]
  BY <1>2, DeletionFacts
<1>4. /\ p \in Inputs => /\ wired' = [q \in Params |-> wired[q] \ {p}]
                         /\ raw' = [raw EXCEPT ![p] = None]
                         /\ shared' = [shared EXCEPT ![p] = None]
                         /\ life' = Doom(p)
                         /\ Become(Main, Reset(p) \o <<g>>)
      /\ p \notin Inputs => Become(Main, <<g>>) /\ UNCHANGED wiring
  BY <1>2 DEF Destroy
<1> HIDE DEF g
<1>5. /\ \A q \in Params : \A i \in Inputs : i \in wired'[q] <=> i \in wired[q] /\ i # p
      /\ \A q \in Params : wired'[q] \subseteq Inputs
      /\ \A i \in Inputs : /\ i # p => raw'[i] = raw[i] /\ shared'[i] = shared[i]
                           /\ i = p => raw'[i] = None /\ shared'[i] = None
  BY <1>1, <1>4 DEF wiring
<1>6. ResetsTo(p, g)
  <2>1. CASE p \in Inputs
    BY <1>1, <1>2, <1>4, <2>1, BecomeReplaces DEF ResetsTo
  <2>2. CASE p \notin Inputs
    BY <1>1, <1>2, <1>4, <2>2, BecomeReplaces DEF ResetsTo, wiring
  <2> QED BY <2>1, <2>2
<1>7. /\ \A f \in Frames(Main)' : f = g \/ f \in Rest(Main) \/ f.op = "destroy"
      /\ g \in Frames(Main)' /\ Rest(Main) \subseteq Frames(Main)'
      /\ Living' /\ Distinct'
      /\ \A q \in Params :
           /\ life'[q] = "dead" <=> life[q] = "dead"
           /\ life[q] = "dying" => life'[q] = "dying"
           /\ life[q] \in {"owned", "released"} =>
                \/ life'[q] \in {"owned", "released"}
                \/ \E f \in Frames(Main)' : f.op = "destroy" /\ f.par = q
  BY <1>2, <1>3, <1>6, ResetLives DEF EndOps, SetOps
<1>8. Frames(Main) = {Top(Main)} \cup Rest(Main)
  BY <1>1, <1>2, BusyFrames
<1>9. Attached'
  <2> SUFFICES ASSUME NEW i \in Inputs, NEW q \in {raw'[i], shared'[i]} \ {None}
               PROVE  /\ life'[q] # "dead"
                      /\ \/ i \in wired'[q]
                         \/ \E f \in Frames(Main)' : f.op = "wire" /\ f.par = i /\ f.src = q
    BY DEF Attached
  <2>1. i # p /\ q \in {raw[i], shared[i]} \ {None} /\ q \in Params
    BY <1>1, <1>5
  <2>2. CASE i \in wired[q]
    BY <1>1, <1>5, <1>7, <2>1, <2>2 DEF Attached
  <2>3. CASE \E f \in Frames(Main) : f.op = "wire" /\ f.par = i /\ f.src = q
    <3>1. PICK f \in Frames(Main) : f.op = "wire" /\ f.par = i /\ f.src = q
      BY <2>3
    <3>2. f \in Rest(Main)
      BY <1>2, <1>8, <3>1
    <3> QED BY <1>1, <1>7, <2>1, <3>1, <3>2 DEF Attached
  <2> QED BY <1>1, <2>1, <2>2, <2>3 DEF Attached
<1>10. Connected'
  <2> SUFFICES ASSUME NEW q \in Params, NEW i \in wired'[q]
               PROVE  \/ life'[i] \in {"owned", "released"}
                      \/ \E f \in Frames(Main)' : f.op = "destroy" /\ f.par = i
    BY DEF Connected
  <2>1. i \in wired[q] /\ i # p /\ i \in Params
    BY <1>5 DEF Params
  <2>2. CASE life[i] \in {"owned", "released"}
    BY <1>7, <2>1, <2>2
  <2>3. CASE \E f \in Frames(Main) : f.op = "destroy" /\ f.par = i
    BY <1>7, <1>8, <2>1, <2>3
  <2> QED BY <1>1, <2>1, <2>2, <2>3 DEF Connected
<1>11. Announced'
  <2> SUFFICES ASSUME NEW f \in Frames(Main)', f.op = "delete"
               PROVE  /\ \A i \in Inputs : f.par \in {raw'[i], shared'[i]} => i \in f.todo
                      /\ \A i \in wired'[f.par] \ f.todo : raw'[i] = None /\ shared'[i] = None
                      /\ \A i \in f.todo : i \in wired'[f.par] \/ life'[i] \in {"dying", "dead"}
    BY DEF Announced
  <2>1. CASE f = g
    <3>1. ASSUME NEW i \in Inputs, p \in {raw'[i], shared'[i]} PROVE i \in wired[p]
      <4>1. p \in {raw[i], shared[i]} \ {None}
        BY <1>2, <1>5, <3>1, ParametersAssumption
      <4>2. \A h \in Frames(Main) : h.op = "wire" => h.src # p
        BY <1>1, <1>2 DEF Living
      <4> QED BY <1>1, <4>1, <4>2 DEF Attached
    <3>2. wired'[p] \ wired[p] = {}
      BY <1>2, <1>5
    <3>3. \A i \in wired[p] : i \in wired'[p] \/ life'[i] \in {"dying", "dead"}
      BY <1>1, <1>2, <1>5, <1>7
    <3> QED BY <1>3, <2>1, <3>1, <3>2, <3>3
  <2>2. CASE f \in Rest(Main)
    <3>1. f \in Frames(Main) /\ f.par \in Params /\ f.todo \subseteq Inputs
      BY <1>1, <1>8, <2>2, FramesType DEF FrameSet
    <3>2. /\ \A i \in Inputs : f.par \in {raw[i], shared[i]} => i \in f.todo
          /\ \A i \in wired[f.par] \ f.todo : raw[i] = None /\ shared[i] = None
          /\ \A i \in f.todo : i \in wired[f.par] \/ life[i] \in {"dying", "dead"}
      BY <1>1, <3>1 DEF Announced
    <3>3. \A i \in Inputs : i \in Params
      BY DEF Params
    <3>4. ASSUME NEW i \in Inputs, f.par \in {raw'[i], shared'[i]} PROVE i \in f.todo
      BY <1>5, <3>1, <3>2, <3>4, ParametersAssumption
    <3>5. ASSUME NEW i \in wired'[f.par] \ f.todo PROVE raw'[i] = None /\ shared'[i] = None
      BY <1>5, <3>1, <3>2
    <3>6. ASSUME NEW i \in f.todo PROVE i \in wired'[f.par] \/ life'[i] \in {"dying", "dead"}
      BY <1>2, <1>5, <1>7, <3>1, <3>2, <3>3
    <3> QED BY <3>4, <3>5, <3>6
  <2> QED BY <1>7, <2>1, <2>2
<1> QED BY <1>7, <1>9, <1>10, <1>11 DEF Lives

LEMMA ForgetLives ==
  ASSUME Structure, Lives, NEW t \in Threads, ForgetInput(t)
  PROVE  Lives'
<1> DEFINE top == Top(Main)
<1>1. /\ Typing /\ Attached /\ Living /\ Distinct /\ Connected /\ Announced /\ Main \in Threads
      /\ raw \in [Inputs -> Params \cup {None}] /\ shared \in [Inputs -> Params \cup {None}]
      /\ wired \in [Params -> SUBSET Inputs]
  BY ParametersAssumption DEF Structure, Lives, Typing, Cells
<1>2. /\ t = Main /\ ~running /\ Busy(Main) /\ top.op = "delete" /\ top.op \in EndOps
      /\ top.par \in Params /\ top \in Frames(Main) /\ top \in FrameSet /\ top.todo \subseteq Inputs
  <2>1. Busy(t) /\ Top(t).op = "delete" /\ Top(t).op \in EndOps
    BY DEF ForgetInput, At, EndOps
  <2> QED BY <2>1, EndFacts
<1>3. PICK i \in top.todo :
        /\ raw' = [raw EXCEPT ![i] = None]
        /\ shared' = [shared EXCEPT ![i] = None]
        /\ life' = Doom(i)
        /\ Become(Main, Reset(i) \o <<[top EXCEPT !.todo = @ \ {i}]>>)
        /\ UNCHANGED wired
  BY <1>2 DEF ForgetInput
<1> DEFINE g == [top EXCEPT !.todo = top.todo \ {i}]
<1>4. /\ i \in Inputs /\ g \in FrameSet /\ g.op = "delete" /\ g.par = top.par
      /\ g.todo = top.todo \ {i}
  BY <1>2 DEF FrameSet
<1>5. ResetsTo(i, g)
  <2>1. Become(Main, Reset(i) \o <<g>>)
    BY <1>3
  <2> QED BY <1>1, <1>2, <1>3, <1>4, <2>1, BecomeReplaces DEF ResetsTo
<1> HIDE DEF g
<1>6. \A j \in Inputs : /\ j # i => raw'[j] = raw[j] /\ shared'[j] = shared[j]
                        /\ j = i => raw'[j] = None /\ shared'[j] = None
  BY <1>1, <1>3
<1>7. /\ \A f \in Frames(Main)' : f = g \/ f \in Rest(Main) \/ f.op = "destroy"
      /\ g \in Frames(Main)' /\ Rest(Main) \subseteq Frames(Main)'
      /\ Living' /\ Distinct'
      /\ \A q \in Params :
           /\ life'[q] = "dead" <=> life[q] = "dead"
           /\ life[q] = "dying" => life'[q] = "dying"
           /\ life[q] \in {"owned", "released"} =>
                \/ life'[q] \in {"owned", "released"}
                \/ \E f \in Frames(Main)' : f.op = "destroy" /\ f.par = q
  BY <1>2, <1>4, <1>5, ResetLives DEF EndOps, SetOps
<1>8. Frames(Main) = {top} \cup Rest(Main)
  BY <1>1, <1>2, BusyFrames
<1>9. Attached'
  <2> SUFFICES ASSUME NEW j \in Inputs, NEW q \in {raw'[j], shared'[j]} \ {None}
               PROVE  /\ life'[q] # "dead"
                      /\ \/ j \in wired'[q]
                         \/ \E f \in Frames(Main)' : f.op = "wire" /\ f.par = j /\ f.src = q
    BY DEF Attached
  <2>1. j # i /\ q \in {raw[j], shared[j]} \ {None} /\ q \in Params
    BY <1>1, <1>6
  <2>2. CASE j \in wired[q]
    BY <1>1, <1>3, <1>7, <2>1, <2>2 DEF Attached
  <2>3. CASE \E f \in Frames(Main) : f.op = "wire" /\ f.par = j /\ f.src = q
    <3>1. PICK f \in Frames(Main) : f.op = "wire" /\ f.par = j /\ f.src = q
      BY <2>3
    <3>2. f \in Rest(Main)
      BY <1>2, <1>8, <3>1
    <3> QED BY <1>1, <1>7, <2>1, <3>1, <3>2 DEF Attached
  <2> QED BY <1>1, <2>1, <2>2, <2>3 DEF Attached
<1>10. Connected'
  <2> SUFFICES ASSUME NEW q \in Params, NEW j \in wired[q]
               PROVE  \/ life'[j] \in {"owned", "released"}
                      \/ \E f \in Frames(Main)' : f.op = "destroy" /\ f.par = j
    BY <1>3 DEF Connected
  <2>1. j \in Params
    BY <1>1 DEF Params
  <2>2. CASE life[j] \in {"owned", "released"}
    BY <1>7, <2>1, <2>2
  <2>3. CASE \E f \in Frames(Main) : f.op = "destroy" /\ f.par = j
    BY <1>2, <1>7, <1>8, <2>3
  <2> QED BY <1>1, <2>2, <2>3 DEF Connected
<1>11. Announced'
  <2> SUFFICES ASSUME NEW f \in Frames(Main)', f.op = "delete"
               PROVE  /\ \A j \in Inputs : f.par \in {raw'[j], shared'[j]} => j \in f.todo
                      /\ \A j \in wired'[f.par] \ f.todo : raw'[j] = None /\ shared'[j] = None
                      /\ \A j \in f.todo : j \in wired'[f.par] \/ life'[j] \in {"dying", "dead"}
    BY DEF Announced
  <2>1. PICK h \in Frames(Main) :
          h.op = "delete" /\ h.par = f.par /\ (f.todo = h.todo \/ f.todo = h.todo \ {i})
    <3>1. CASE f = g
      BY <1>2, <1>4, <3>1
    <3>2. CASE f \in Rest(Main)
      BY <1>8, <3>2
    <3> QED BY <1>7, <3>1, <3>2
  <2>2. h.par \in Params /\ h.todo \subseteq Inputs
    BY <1>1, FramesType DEF FrameSet
  <2>3. /\ \A j \in Inputs : h.par \in {raw[j], shared[j]} => j \in h.todo
        /\ \A j \in wired[h.par] \ h.todo : raw[j] = None /\ shared[j] = None
        /\ \A j \in h.todo : j \in wired[h.par] \/ life[j] \in {"dying", "dead"}
    BY <1>1, <2>1 DEF Announced
  <2>4. ASSUME NEW j \in Inputs, f.par \in {raw'[j], shared'[j]} PROVE j \in f.todo
    <3>1. j # i
      BY <1>6, <2>1, <2>2, <2>4, ParametersAssumption
    <3> QED BY <1>6, <2>1, <2>3, <2>4, <3>1
  <2>5. ASSUME NEW j \in wired[f.par] \ f.todo PROVE raw'[j] = None /\ shared'[j] = None
    <3>1. j \in Inputs
      BY <1>1, <2>1, <2>2, <2>5
    <3>2. CASE j = i
      BY <1>6, <3>1, <3>2
    <3>3. CASE j # i
      BY <1>6, <2>1, <2>3, <2>5, <3>1, <3>3
    <3> QED BY <3>2, <3>3
  <2>6. ASSUME NEW j \in f.todo PROVE j \in wired[f.par] \/ life'[j] \in {"dying", "dead"}
    <3>1. j \in h.todo /\ j \in Params
      BY <2>1, <2>2, <2>6 DEF Params
    <3> QED BY <1>7, <2>1, <2>3, <3>1
  <2> QED BY <1>3, <2>4, <2>5, <2>6
<1> QED BY <1>7, <1>9, <1>10, <1>11 DEF Lives

(* SetInput puts the wires to come, or the update, on an empty stack.      *)
SetsInput(t, i) ==
  \/ ClearInput(t, i)
  \/ \E p \in Params : SetRaw(t, i, p) \/ SetShared(t, i, p)

SetEffect(t, i, g, p) ==
  /\ t = Main /\ ~running /\ ~Busy(Main) /\ ResetsTo(i, g) /\ changes' # changes
  /\ life[i] = "owned" /\ g.par = i /\ UNCHANGED <<data, wired, user>>
  /\ \/ /\ g.op = "update" /\ p = None /\ raw' = [raw EXCEPT ![i] = None]
        /\ shared' = [shared EXCEPT ![i] = None] /\ ts' = ts
     \/ /\ g.op = "wire" /\ g.src = p /\ p \in Params /\ life[p] = "owned"
        /\ <<i, p>> \in MayFeed
        /\ ts' = IF ts[p] # -1 THEN [ts EXCEPT ![i] = ts[p]] ELSE ts
        /\ \/ raw' = [raw EXCEPT ![i] = p] /\ shared' = shared
           \/ shared' = [shared EXCEPT ![i] = p] /\ raw' = raw

LEMMA SetShape ==
  ASSUME Structure, NEW t \in Threads, NEW i \in Inputs, SetsInput(t, i)
  PROVE  \E g \in FrameSet, p \in Params \cup {None} : SetEffect(t, i, g, p)
<1>1. Typing /\ i \in Params /\ Object[i] \in Objects /\ Main \in Threads
      /\ changes \in Nat
  BY ParametersAssumption DEF Structure, Typing, Cells, Params
<1>2. t = Main /\ ~running /\ ~Busy(Main) /\ changes' # changes
  <2>1. Change(t)
    BY DEF SetsInput, ClearInput, SetRaw, SetShared
  <2> QED BY <1>1, <2>1 DEF Change
<1>3. CASE ClearInput(t, i)
  <2> DEFINE g == Frame("update", i, None, {}, 0, None, Object[i])
  <2>1. g \in FrameSet /\ g.op = "update" /\ g.par = i
    BY <1>1 DEF Frame, FrameSet, SetOps
  <2>2. /\ raw' = [raw EXCEPT ![i] = None] /\ shared' = [shared EXCEPT ![i] = None]
        /\ life' = Doom(i) /\ Enter(Main, Reset(i) \o <<g>>) /\ UNCHANGED <<data, ts, wired, user>>
        /\ life[i] = "owned"
    BY <1>2, <1>3 DEF ClearInput
  <2> HIDE DEF g
  <2>3. ResetsTo(i, g)
    BY <1>1, <1>2, <2>1, <2>2, ResetFrames, BecomeReplaces DEF ResetsTo
  <2> QED BY <1>2, <2>1, <2>2, <2>3 DEF SetEffect
<1>4. ASSUME NEW p \in Params, SetRaw(t, i, p) \/ SetShared(t, i, p)
      PROVE  \E g \in FrameSet :
           /\ ResetsTo(i, g)
           /\ life[i] = "owned" /\ g.par = i /\ UNCHANGED <<data, wired, user>>
           /\ g.op = "wire" /\ g.src = p /\ life[p] = "owned" /\ <<i, p>> \in MayFeed
           /\ ts' = IF ts[p] # -1 THEN [ts EXCEPT ![i] = ts[p]] ELSE ts
           /\ \/ raw' = [raw EXCEPT ![i] = p] /\ shared' = shared
              \/ shared' = [shared EXCEPT ![i] = p] /\ raw' = raw
  <2> DEFINE g == Frame("wire", i, p, {}, 0, Home[p], Object[i])
  <2>1. g \in FrameSet /\ g.op = "wire" /\ g.par = i /\ g.src = p
    BY <1>1, ParametersAssumption DEF Frame, FrameSet, SetOps
  <2>2. /\ life[i] = "owned" /\ life[p] = "owned" /\ <<i, p>> \in MayFeed
        /\ ts' = IF ts[p] # -1 THEN [ts EXCEPT ![i] = ts[p]] ELSE ts
        /\ UNCHANGED <<data, wired, user>>
    BY <1>4 DEF SetRaw, SetShared
  <2>3. CASE SetRaw(t, i, p)
    <3>1. raw' = [raw EXCEPT ![i] = p] /\ Enter(Main, <<g>>) /\ UNCHANGED <<shared, life>>
      BY <1>2, <2>3 DEF SetRaw
    <3> HIDE DEF g
    <3>2. ResetsTo(i, g)
      BY <1>1, <1>2, <2>1, <3>1, OneFrame, BecomeReplaces DEF ResetsTo
    <3> QED BY <2>1, <2>2, <3>1, <3>2
  <2>4. CASE SetShared(t, i, p)
    <3>1. /\ shared' = [shared EXCEPT ![i] = p] /\ Enter(Main, Reset(i) \o <<g>>)
          /\ life' = Doom(i) /\ raw' = raw
      BY <1>2, <2>4 DEF SetShared
    <3> HIDE DEF g
    <3>2. ResetsTo(i, g)
      BY <1>1, <1>2, <2>1, <3>1, ResetFrames, BecomeReplaces DEF ResetsTo
    <3> QED BY <2>1, <2>2, <3>1, <3>2
  <2> QED BY <1>4, <2>3, <2>4
<1>5. CASE \E p \in Params : SetRaw(t, i, p) \/ SetShared(t, i, p)
  <2>1. PICK p \in Params : SetRaw(t, i, p) \/ SetShared(t, i, p)
    BY <1>5
  <2>2. PICK g \in FrameSet :
           /\ ResetsTo(i, g)
           /\ life[i] = "owned" /\ g.par = i /\ UNCHANGED <<data, wired, user>>
           /\ g.op = "wire" /\ g.src = p /\ life[p] = "owned" /\ <<i, p>> \in MayFeed
           /\ ts' = IF ts[p] # -1 THEN [ts EXCEPT ![i] = ts[p]] ELSE ts
           /\ \/ raw' = [raw EXCEPT ![i] = p] /\ shared' = shared
              \/ shared' = [shared EXCEPT ![i] = p] /\ raw' = raw
    BY <1>4, <2>1
  <2> QED BY <1>2, <2>2 DEF SetEffect
<1> QED BY <1>3, <1>5 DEF SetsInput

LEMMA SetLives ==
  ASSUME Structure, Lives, NEW t \in Threads, NEW i \in Inputs, SetsInput(t, i)
  PROVE  Lives'
<1>1. /\ Typing /\ Attached /\ Living /\ Distinct /\ Connected /\ Announced /\ Main \in Threads
      /\ raw \in [Inputs -> Params \cup {None}] /\ shared \in [Inputs -> Params \cup {None}]
      /\ wired \in [Params -> SUBSET Inputs] /\ None \notin Params
  BY ParametersAssumption DEF Structure, Lives, Typing, Cells
<1>2. PICK g \in FrameSet, p \in Params \cup {None} :
           /\ t = Main /\ ~running /\ ~Busy(Main) /\ ResetsTo(i, g) /\ changes' # changes
           /\ life[i] = "owned" /\ g.par = i /\ UNCHANGED <<data, wired, user>>
           /\ \/ /\ g.op = "update" /\ p = None /\ raw' = [raw EXCEPT ![i] = None]
                 /\ shared' = [shared EXCEPT ![i] = None] /\ ts' = ts
              \/ /\ g.op = "wire" /\ g.src = p /\ p \in Params /\ life[p] = "owned"
                 /\ <<i, p>> \in MayFeed
                 /\ ts' = IF ts[p] # -1 THEN [ts EXCEPT ![i] = ts[p]] ELSE ts
                 /\ \/ raw' = [raw EXCEPT ![i] = p] /\ shared' = shared
                    \/ shared' = [shared EXCEPT ![i] = p] /\ raw' = raw
  <2>1. PICK g \in FrameSet, p \in Params \cup {None} : SetEffect(t, i, g, p)
    BY SetShape
  <2> QED BY <2>1 DEF SetEffect
<1>3. Frames(Main) = {} /\ Rest(Main) = {}
  <2>1. stack[Main] = <<>>
    BY <1>2 DEF Busy
  <2>2. \A k \in 2..Len(stack[Main]) : FALSE
    BY <2>1
  <2> QED BY <1>1, <1>2, <2>2, IdleFacts DEF Rest
<1>4. /\ \A f \in Frames(Main)' : f = g \/ f.op = "destroy"
      /\ g \in Frames(Main)' /\ Living' /\ Distinct'
      /\ \A q \in Params :
           /\ life'[q] = "dead" <=> life[q] = "dead"
           /\ life[q] \in {"owned", "released"} =>
                \/ life'[q] \in {"owned", "released"}
                \/ \E f \in Frames(Main)' : f.op = "destroy" /\ f.par = q
  BY <1>2, <1>3, ResetLives DEF EndOps, SetOps
<1>5. Attached'
  <2> SUFFICES ASSUME NEW j \in Inputs, NEW q \in {raw'[j], shared'[j]} \ {None}
               PROVE  /\ life'[q] # "dead"
                      /\ \/ j \in wired'[q]
                         \/ \E f \in Frames(Main)' : f.op = "wire" /\ f.par = j /\ f.src = q
    BY DEF Attached
  <2>1. \/ q \in {raw[j], shared[j]} \ {None} /\ q \in Params
        \/ j = i /\ q = p /\ g.op = "wire" /\ g.src = p /\ life[p] = "owned" /\ q \in Params
    BY <1>1, <1>2
  <2>2. CASE q \in {raw[j], shared[j]} \ {None} /\ q \in Params
    BY <1>1, <1>2, <1>3, <1>4, <2>2 DEF Attached
  <2>3. CASE j = i /\ q = p /\ g.op = "wire" /\ g.src = p /\ life[p] = "owned" /\ q \in Params
    BY <1>2, <1>4, <2>3
  <2> QED BY <2>1, <2>2, <2>3
<1>6. Connected'
  <2> SUFFICES ASSUME NEW q \in Params, NEW j \in wired[q]
               PROVE  \/ life'[j] \in {"owned", "released"}
                      \/ \E f \in Frames(Main)' : f.op = "destroy" /\ f.par = j
    BY <1>2 DEF Connected
  <2>1. j \in Params /\ life[j] \in {"owned", "released"}
    BY <1>1, <1>3 DEF Params, Connected
  <2> QED BY <1>4, <2>1
<1>7. Announced'
  <2>1. \A f \in Frames(Main)' : f.op # "delete"
    BY <1>2, <1>4
  <2> QED BY <2>1 DEF Announced
<1> QED BY <1>4, <1>5, <1>6, <1>7 DEF Lives

LEMMA WireShape ==
  ASSUME Structure, NEW t \in Threads, Wire(t)
  PROVE  \E g \in FrameSet :
           /\ t = Main /\ ~running /\ Busy(Main) /\ Top(Main).op = "wire"
           /\ Frames(Main) = {Top(Main)} /\ Rest(Main) = {}
           /\ Replace(Main, <<g>>) /\ g.op = "update" /\ g.par = Top(Main).par
           /\ <<g.par, Top(Main).src>> \in MayFeed
           /\ g.par \in Inputs /\ Top(Main).src \in Params
           /\ wired' = [wired EXCEPT ![Top(Main).src] = @ \cup {g.par}]
           /\ UNCHANGED <<data, ts, raw, shared, life, user, control>>
<1> DEFINE f == Top(t)  g == [f EXCEPT !.op = "update"]
<1>1. Typing /\ Stacks /\ Phases
  BY DEF Structure
<1>2. /\ Busy(t) /\ f.op = "wire" /\ Become(t, <<g>>)
      /\ wired' = [wired EXCEPT ![f.src] = @ \cup {f.par}]
      /\ UNCHANGED <<data, ts, raw, shared, life, user, control>>
  BY DEF Wire, At
<1>3. /\ f \in Frames(t) /\ f \in FrameSet /\ FrameOK(f) /\ Len(Below(t)) = 0
      /\ ~running => t = Main
      /\ running => f.op \in RunOps
  BY <1>1, <1>2, TopFacts DEF SetOps
<1>4. /\ f.par \in Inputs /\ <<f.par, f.src>> \in MayFeed /\ f.src \in Params /\ ~running
      /\ t = Main
  BY <1>2, <1>3, ParametersAssumption DEF FrameOK, RunOps
<1>5. g \in FrameSet /\ g.op = "update" /\ g.par = f.par
  BY <1>3 DEF FrameSet, SetOps
<1> HIDE DEF g
<1>6. Replace(t, <<g>>)
  BY <1>1, <1>2, BecomeReplaces
<1>7. Rest(t) = {}
  <2>1. Len(stack[t]) = Len(Below(t)) + 1
    BY <1>1, <1>2, BelowType
  <2>2. Len(stack[t]) = 1
    BY <1>3, <2>1
  <2> QED BY <2>2 DEF Rest
<1>8. Frames(t) = {f}
  BY <1>1, <1>2, <1>7, BusyFrames
<1> QED BY <1>2, <1>4, <1>5, <1>6, <1>7, <1>8

LEMMA WireLives ==
  ASSUME Structure, Lives, NEW t \in Threads, Wire(t)
  PROVE  Lives'
<1> DEFINE top == Top(Main)
<1>1. /\ Typing /\ Attached /\ Living /\ Distinct /\ Connected /\ Announced /\ Main \in Threads
      /\ raw \in [Inputs -> Params \cup {None}] /\ shared \in [Inputs -> Params \cup {None}]
      /\ wired \in [Params -> SUBSET Inputs]
  BY ParametersAssumption DEF Structure, Lives, Typing, Cells
<1>2. PICK g \in FrameSet :
           /\ t = Main /\ ~running /\ Busy(Main) /\ top.op = "wire"
           /\ Frames(Main) = {top} /\ Rest(Main) = {}
           /\ Replace(Main, <<g>>) /\ g.op = "update" /\ g.par = top.par
           /\ g.par \in Inputs /\ top.src \in Params
           /\ wired' = [wired EXCEPT ![top.src] = @ \cup {g.par}]
           /\ UNCHANGED <<raw, shared, life>>
  BY WireShape
<1>3. life[g.par] = "owned"
  BY <1>1, <1>2 DEF Living, SetOps
<1>4. /\ \A f \in Frames(Main)' : f = g \/ f.op = "destroy"
      /\ Living' /\ Distinct'
  <2>1. ResetsTo(None, g)
    BY <1>2 DEF ResetsTo
  <2> QED BY <1>2, <1>3, <2>1, ResetLives DEF EndOps, SetOps
<1>5. /\ \A q \in Params : wired[q] \subseteq wired'[q]
      /\ \A q \in Params : \A j \in wired'[q] : j \in wired[q] \/ (j = g.par /\ q = top.src)
      /\ g.par \in wired'[top.src]
  BY <1>1, <1>2
<1>6. Attached'
  <2> SUFFICES ASSUME NEW j \in Inputs, NEW q \in {raw[j], shared[j]} \ {None}
               PROVE  life[q] # "dead" /\ j \in wired'[q]
    BY <1>2 DEF Attached
  <2>1. q \in Params
    BY <1>1
  <2> QED BY <1>1, <1>2, <1>5, <2>1 DEF Attached
<1>7. Connected'
  <2>1. \A q \in Params : \A j \in wired[q] : life[j] \in {"owned", "released"}
    BY <1>1, <1>2 DEF Connected
  <2> QED BY <1>2, <1>3, <1>5, <2>1 DEF Connected
<1>8. Announced'
  <2>1. \A f \in Frames(Main)' : f.op # "delete"
    BY <1>2, <1>4
  <2> QED BY <2>1 DEF Announced
<1> QED BY <1>4, <1>6, <1>7, <1>8 DEF Lives

LEMMA ReleaseLives ==
  ASSUME Structure, Lives, NEW t \in Threads, NEW p \in Params, Release(t, p)
  PROVE  Lives'
<1> DEFINE kept == \E k \in Inputs : shared[k] = p
           f == Frame("destroy", p, None, {}, 0, None, None)
           fs == IF kept THEN <<>> ELSE <<f>>
<1>1. /\ Typing /\ Attached /\ Living /\ Connected /\ Distinct /\ Main \in Threads
      /\ life \in [Params -> {"owned", "released", "dying", "dead"}]
      /\ wired \in [Params -> SUBSET Inputs]
      /\ raw \in [Inputs -> Params \cup {None}] /\ shared \in [Inputs -> Params \cup {None}]
  BY ParametersAssumption DEF Structure, Lives, Typing, Cells
<1>2. /\ t = Main /\ ~running /\ ~Busy(Main) /\ life[p] = "owned"
      /\ life' = [life EXCEPT ![p] = IF kept THEN "released" ELSE "dying"]
      /\ Enter(Main, fs)
      /\ UNCHANGED <<raw, shared, wired>>
  BY DEF Release, Change
<1>3. f \in FrameSet /\ f.op = "destroy" /\ f.par = p
  BY DestroyFrame
<1> HIDE DEF kept, f
<1>4. /\ fs \in Seq(FrameSet) /\ (kept => Among(fs) = {}) /\ (~kept => Among(fs) = {f})
      /\ \A k, l \in DOMAIN fs : k = l
  <2>1. CASE kept
    <3> DEFINE e == <<>>
    <3>1. e \in Seq(FrameSet) /\ DOMAIN e = {}
      OBVIOUS
    <3>2. fs = e
      BY <2>1
    <3> HIDE DEF e
    <3> QED BY <2>1, <3>1, <3>2 DEF Among
  <2>2. CASE ~kept
    BY <1>3, <2>2, OneFrame
  <2> QED BY <2>1, <2>2
<1> HIDE DEF fs
<1>5. Replace(Main, fs)
  BY <1>1, <1>2, <1>4, BecomeReplaces
<1>6. /\ \A u \in Threads : u # Main => Frames(u)' = {}
      /\ Frames(Main)' = Among(fs)
      /\ Frames(Main) = {} /\ Len(stack[Main]) = 0
  <2>1. /\ \A u \in Threads : u # Main => Frames(u)' = {}
        /\ Frames(Main)' = Among(fs) \cup Rest(Main)
        /\ Frames(Main) = {} /\ Rest(Main) = {}
    BY <1>2, <1>4, <1>5, MainFrames
  <2>2. Len(stack[Main]) = 0
    BY <1>1, <1>2, BelowType
  <2> QED BY <2>1, <2>2
<1>7. /\ \A f1 \in Frames(Main)' : f1.op = "destroy" /\ f1.par = p /\ life'[p] = "dying"
      /\ \A q \in Params : q # p => life'[q] = life[q]
      /\ life'[p] = "released" \/ (life'[p] = "dying" /\ f \in Frames(Main)')
  BY <1>1, <1>2, <1>3, <1>4, <1>6
<1>8. Living'
  <2>1. \A f1 \in Frames(Main)' : /\ f1.op \in EndOps /\ f1.op \notin SetOps
                                  /\ f1.op # "wire" /\ f1.op # "emit"
                                  /\ life'[f1.par] = "dying"
    BY <1>7 DEF EndOps, SetOps
  <2> QED BY <1>6, <2>1 DEF Living
<1>9. Distinct'
  <2>1. \A j \in 2..Len(stack[Main]) : FALSE
    BY <1>6
  <2> QED BY <1>1, <1>4, <1>5, <2>1, DistinctStep
<1>10. Attached'
  <2> SUFFICES ASSUME NEW j \in Inputs, NEW q \in {raw[j], shared[j]} \ {None}
               PROVE  life'[q] # "dead" /\ j \in wired[q]
    BY <1>2 DEF Attached
  <2>1. q \in Params
    BY <1>1
  <2> QED BY <1>1, <1>6, <1>7, <2>1 DEF Attached
<1>11. Connected'
  <2> SUFFICES ASSUME NEW q \in Params, NEW j \in wired[q]
               PROVE  \/ life'[j] \in {"owned", "released"}
                      \/ \E f1 \in Frames(Main)' : f1.op = "destroy" /\ f1.par = j
    BY <1>2 DEF Connected
  <2>1. j \in Params /\ life[j] \in {"owned", "released"}
    BY <1>1, <1>6 DEF Params, Connected
  <2> QED BY <1>3, <1>7, <2>1
<1>12. Announced'
  BY <1>7 DEF Announced
<1> QED BY <1>8, <1>9, <1>10, <1>11, <1>12 DEF Lives

LEMMA DeleteReturnLives ==
  ASSUME Structure, Lives, NEW t \in Threads, DeleteReturn(t)
  PROVE  Lives'
<1> DEFINE top == Top(Main)  p == top.par
<1>1. /\ Typing /\ Attached /\ Living /\ Connected /\ Distinct /\ Announced /\ Main \in Threads
      /\ life \in [Params -> {"owned", "released", "dying", "dead"}]
      /\ wired \in [Params -> SUBSET Inputs]
      /\ raw \in [Inputs -> Params \cup {None}] /\ shared \in [Inputs -> Params \cup {None}]
  BY ParametersAssumption DEF Structure, Lives, Typing, Cells
<1>2. Busy(t) /\ Top(t).op = "delete" /\ Top(t).op \in EndOps /\ Top(t).todo = {}
  BY DEF DeleteReturn, At, EndOps
<1>3. /\ t = Main /\ ~running /\ Busy(Main) /\ top.op = "delete" /\ top.todo = {}
      /\ p \in Params /\ life[p] = "dying" /\ top \in Frames(Main)
  BY <1>2, EndFacts
<1>4. /\ life' = [life EXCEPT ![p] = "dead"] /\ wired' = [wired EXCEPT ![p] = {}]
      /\ Leave(Main) /\ UNCHANGED <<raw, shared>>
  BY <1>3 DEF DeleteReturn
<1> DEFINE fs == <<>>
<1>5. fs \in Seq(FrameSet) /\ Replace(Main, fs) /\ Among(fs) = {} /\ DOMAIN fs = {}
  BY <1>1, <1>3, <1>4, LeaveShape
<1> HIDE DEF fs
<1>6. /\ \A u \in Threads : u # Main => Frames(u)' = {}
      /\ Frames(Main)' = Rest(Main) /\ Frames(Main) = {top} \cup Rest(Main)
      /\ \A f \in Rest(Main) : f.op \in EndOps \cup SetOps
      /\ top = stack[Main][1] /\ 1 \in DOMAIN stack[Main]
      /\ DOMAIN stack[Main] = 1..Len(stack[Main]) /\ Len(stack[Main]) \in Nat
  BY <1>2, <1>3, <1>5, MainFrames
<1>7. /\ \A q \in Params : q # p => life'[q] = life[q] /\ wired'[q] = wired[q]
      /\ life'[p] = "dead" /\ wired'[p] = {}
  BY <1>1, <1>3, <1>4
(* No other destructor of the parameter is on the stack.                   *)
<1>8. \A f \in Rest(Main) : /\ f.op \in EndOps => f.par # p
                            /\ f.op \in SetOps => f.par # p
                            /\ f.op = "wire" => f.src # p
  <2> SUFFICES ASSUME NEW f \in Rest(Main)
               PROVE  /\ f.op \in EndOps => f.par # p
                      /\ f.op \in SetOps => f.par # p
                      /\ f.op = "wire" => f.src # p
    OBVIOUS
  <2>1. PICK j \in 2..Len(stack[Main]) : f = stack[Main][j]
    BY DEF Rest
  <2>2. j \in DOMAIN stack[Main] /\ j # 1
    BY <1>6, <2>1
  <2>3. f.op \in EndOps => f.par # p
    BY <1>1, <1>2, <1>3, <1>6, <2>1, <2>2 DEF Distinct
  <2>4. f \in Frames(Main)
    BY <1>6
  <2>5. (f.op \in SetOps => f.par # p) /\ (f.op = "wire" => f.src # p)
    BY <1>1, <1>3, <2>4 DEF Living
  <2> QED BY <2>3, <2>5
<1>9. \A f \in Rest(Main) : f \in Frames(Main) /\ f.par \in Params
        /\ (f.op = "wire" => f.src \in Params) /\ f.todo \subseteq Inputs
  <2>1. Frames(Main) \subseteq FrameSet /\ \A f \in Frames(Main) : FrameOK(f)
    BY <1>1, FramesType DEF Structure, Stacks
  <2>2. \A f \in Frames(Main) : f.op = "wire" => f.src \in Params
    BY <2>1, ParametersAssumption DEF FrameOK
  <2>3. \A f \in Frames(Main) : f.par \in Params /\ f.todo \subseteq Inputs
    BY <2>1 DEF FrameSet
  <2> QED BY <1>6, <2>2, <2>3
<1>10. Living'
  <2>1. ASSUME NEW f \in Frames(Main)'
        PROVE  /\ f.op \in EndOps => life'[f.par] = "dying"
               /\ f.op \in SetOps => life'[f.par] = "owned"
               /\ f.op = "wire" => life'[f.src] = "owned"
               /\ f.op \in EndOps \cup SetOps
    BY <1>1, <1>6, <1>7, <1>8, <1>9, <2>1 DEF Living
  <2>2. \A f \in Frames(Main)' : f.op # "emit"
    BY <2>1 DEF EndOps, SetOps
  <2> QED BY <1>6, <2>1, <2>2 DEF Living
<1>11. Distinct'
  BY <1>1, <1>5, DistinctStep
(* Nobody points to what has died.                                         *)
<1>12. \A i \in Inputs : p \notin {raw[i], shared[i]}
  BY <1>1, <1>3 DEF Announced
<1>13. Attached'
  <2> SUFFICES ASSUME NEW j \in Inputs, NEW q \in {raw[j], shared[j]} \ {None}
               PROVE  /\ life'[q] # "dead"
                      /\ \/ j \in wired'[q]
                         \/ \E f \in Frames(Main)' : f.op = "wire" /\ f.par = j /\ f.src = q
    BY <1>4 DEF Attached
  <2>1. q \in Params /\ q # p
    BY <1>1, <1>12
  <2>2. \/ j \in wired[q]
        \/ \E f \in Frames(Main) : f.op = "wire" /\ f.par = j /\ f.src = q
    BY <1>1 DEF Attached
  <2>3. life[q] # "dead"
    BY <1>1 DEF Attached
  <2> QED BY <1>3, <1>6, <1>7, <2>1, <2>2, <2>3
<1>14. Connected'
  <2> SUFFICES ASSUME NEW q \in Params, NEW j \in wired'[q]
               PROVE  \/ life'[j] \in {"owned", "released"}
                      \/ \E f \in Frames(Main)' : f.op = "destroy" /\ f.par = j
    BY DEF Connected
  <2>1. j \in wired[q] /\ j \in Params
    BY <1>1, <1>7 DEF Params
  <2>2. CASE life[j] \in {"owned", "released"}
    BY <1>3, <1>7, <2>1, <2>2
  <2>3. CASE \E f \in Frames(Main) : f.op = "destroy" /\ f.par = j
    BY <1>3, <1>6, <2>3
  <2> QED BY <1>1, <2>1, <2>2, <2>3 DEF Connected
<1>15. Announced'
  <2> SUFFICES ASSUME NEW f \in Rest(Main), f.op = "delete"
               PROVE  /\ \A i \in Inputs : f.par \in {raw[i], shared[i]} => i \in f.todo
                      /\ \A i \in wired'[f.par] \ f.todo : raw[i] = None /\ shared[i] = None
                      /\ \A i \in f.todo : i \in wired'[f.par] \/ life'[i] \in {"dying", "dead"}
    BY <1>4, <1>6 DEF Announced
  <2>1. f \in Frames(Main) /\ f.par \in Params /\ f.par # p /\ f.todo \subseteq Params
    BY <1>8, <1>9 DEF EndOps, Params
  <2>2. wired'[f.par] = wired[f.par]
    BY <1>7, <2>1
  <2>3. \A i \in Params : life[i] \in {"dying", "dead"} => life'[i] \in {"dying", "dead"}
    BY <1>7
  <2> QED BY <1>1, <2>1, <2>2, <2>3 DEF Announced
<1> QED BY <1>10, <1>11, <1>13, <1>14, <1>15 DEF Lives

LEMMA LivesInit == Init => Lives
<1> SUFFICES ASSUME Init PROVE Lives
  OBVIOUS
<1>1. Main \in Threads /\ \A t \in Threads : stack[t] = <<>>
  BY ParametersAssumption DEF Init
<1>2. \A t \in Threads : Frames(t) = {} /\ DOMAIN stack[t] = {}
  BY <1>1 DEF Frames
<1> QED BY <1>1, <1>2 DEF Init, Lives, Attached, Living, Distinct, Connected, Announced

LEMMA LivesSame == Lives /\ UNCHANGED <<wiring, stack>> => Lives'
<1> SUFFICES ASSUME Lives, UNCHANGED <<wiring, stack>> PROVE Lives'
  OBVIOUS
<1>1. UNCHANGED <<raw, shared, wired, life, stack>>
  BY DEF wiring
<1>2. \A t \in Threads : Frames(t)' = Frames(t)
  BY <1>1 DEF Frames
<1>3. Main \in Threads
  BY ParametersAssumption
<1>4. Attached' /\ Living' /\ Connected' /\ Announced'
  BY <1>1, <1>2, <1>3 DEF Lives, Attached, Living, Connected, Announced
<1>5. Distinct'
  BY <1>1 DEF Lives, Distinct
<1> QED BY <1>4, <1>5 DEF Lives

LEMMA LivesNext == Structure /\ Lives /\ [Next]_vars => Lives'
<1> SUFFICES ASSUME Structure, Lives, [Next]_vars PROVE Lives'
  OBVIOUS
<1>1. CASE Go
  BY <1>1, LivesSame DEF Go
<1>2. ASSUME NEW t \in Threads, Step(t) PROVE Lives'
  <2>1. CASE Stamp(t) \/ Commit(t) \/ Notify(t) \/ Update(t)
    BY <2>1, UpdateLives
  <2>2. CASE EmitReturn(t) \/ AssignUser(t) \/ SetReturn(t) \/ Read(t)
    BY <2>2, ReturnLives
  <2>3. CASE Destroy(t) \/ ForgetInput(t) \/ DeleteReturn(t) \/ Wire(t)
    BY <2>3, DestroyLives, ForgetLives, DeleteReturnLives, WireLives
  <2> QED BY <1>2, <2>1, <2>2, <2>3 DEF Step
<1>3. ASSUME NEW t \in Threads, Call(t) PROVE Lives'
  <2>1. ASSUME NEW p \in Outputs, UpdateData(t, p) \/ UpdateTyped(t, p) PROVE Lives'
    BY <2>1, UpdateLives
  <2>2. ASSUME NEW p \in Params, Release(t, p) PROVE Lives'
    BY <2>2, ReleaseLives
  <2>3. ASSUME NEW i \in Inputs, ClearInput(t, i) PROVE Lives'
    BY <2>3, SetLives DEF SetsInput
  <2>4. ASSUME NEW i \in Inputs, GetInput(t, i) \/ GetData(t, i) PROVE Lives'
    BY <2>4, ReturnLives
  <2>5. ASSUME NEW i \in Inputs, NEW p \in Params, SetRaw(t, i, p) \/ SetShared(t, i, p)
        PROVE  Lives'
    BY <2>5, SetLives DEF SetsInput
  <2> QED BY <1>3, <2>1, <2>2, <2>3, <2>4, <2>5 DEF Call
<1>4. CASE UNCHANGED vars
  BY <1>4, LivesSame DEF vars
<1> QED BY <1>1, <1>2, <1>3, <1>4 DEF Next

(* No input points to what has died, and a death is told to all who do.    *)
THEOREM LivesInvariant == Spec => [](Structure /\ Lives)
<1>1. Init => Structure /\ Lives
  BY StructureInit, LivesInit
<1>2. Structure /\ Lives /\ [Next]_vars => Structure' /\ Lives'
  BY StructureNext, LivesNext
<1> QED BY <1>1, <1>2, PTL DEF Spec

----------------------------------------------------------------------------
(* Readers get the value of the stamp                                      *)

(* A step that neither begins nor ends the writing of a stamp.             *)
LEMMA MatchingKept ==
  ASSUME Structure, Matching, NEW t \in Threads, NEW fs \in Seq(FrameSet), Replace(t, fs),
         \A f \in Among(fs) : f.op # "stamp",
         Busy(t) => Top(t).op # "stamp",
         \A p \in Outputs \ Typed : data'[p] = data[p] /\ ts'[p] = ts[p]
  PROVE  Matching'
<1>1. /\ \A u \in Threads : u # t => Frames(u)' = Frames(u)
      /\ Frames(t)' = Among(fs) \cup Rest(t)
      /\ Busy(t) => Frames(t) = {Top(t)} \cup Rest(t)
      /\ ~Busy(t) => Frames(t) = {} /\ Rest(t) = {}
  BY ReplaceFrames DEF Structure
<1>2. \A u \in Threads : \A f \in Frames(u)' : f.op = "stamp" => f \in Frames(u)
  BY <1>1
<1>3. \A u \in Threads : \A f \in Frames(u) : f.op = "stamp" => f \in Frames(u)'
  BY <1>1
<1>4. \A u \in Threads : \A f \in Frames(u) : f.op = "stamp" => f.par \in Outputs \ Typed
  BY DEF Structure, Stacks, FrameOK
<1>5. \A u \in Threads : \A f \in Frames(u)' : f.op = "stamp" => data'[f.par] = f.stamp
  BY <1>2, <1>4 DEF Matching
<1>6. \A p \in Outputs \ Typed :
        \/ ts'[p] = -1 \/ data'[p] = ts'[p]
        \/ \E u \in Threads : \E f \in Frames(u)' : f.op = "stamp" /\ f.par = p
  BY <1>3 DEF Matching
<1> QED BY <1>5, <1>6 DEF Matching

LEMMA MatchingSame == Matching /\ UNCHANGED <<data, ts, stack>> => Matching'
<1> SUFFICES ASSUME Matching, UNCHANGED <<data, ts, stack>> PROVE Matching'
  OBVIOUS
<1>1. \A t \in Threads : Frames(t)' = Frames(t)
  BY DEF Frames
<1> QED BY <1>1 DEF Matching

(* The writer of an output holds its mutex until the stamp is written.     *)
LEMMA UpdateMatches ==
  ASSUME Structure, Matching, NEW t \in Threads, NEW p \in Outputs,
         UpdateData(t, p) \/ UpdateTyped(t, p)
  PROVE  Matching'
<1>1. PICK f \in FrameSet :
           /\ ~Busy(t) /\ Replace(t, <<f>>)
           /\ f.par = p /\ f.todo = {} /\ f.stamp = clock'
           /\ f.op = IF p \in Typed THEN "commit" ELSE "stamp"
  <2>1. PICK f \in FrameSet : UpdateEffect(t, p, f)
    BY UpdateShape
  <2> QED BY <2>1 DEF UpdateEffect
<1>2. <<f>> \in Seq(FrameSet) /\ Among(<<f>>) = {f}
  BY OneFrame
<1>3. data' = [data EXCEPT ![p] = clock'] /\ ts' = ts /\ data \in [Outputs -> Nat]
  BY DEF UpdateData, UpdateTyped, Structure, Typing, Cells
<1>4. CASE p \in Typed
  <2>1. \A q \in Outputs \ Typed : data'[q] = data[q] /\ ts'[q] = ts[q]
    BY <1>3, <1>4
  <2> QED BY <1>1, <1>2, <1>4, <2>1, MatchingKept
<1>5. CASE p \notin Typed
  <2>1. MayLock(t, p) /\ f.op = "stamp"
    BY <1>1, <1>5 DEF UpdateData, UpdateTyped
  <2>2. /\ \A u \in Threads : u # t => Frames(u)' = Frames(u)
        /\ Frames(t)' = {f} /\ Frames(t) = {}
    <3>1. /\ \A u \in Threads : u # t => Frames(u)' = Frames(u)
          /\ Frames(t)' = Among(<<f>>) \cup Rest(t)
          /\ ~Busy(t) => Frames(t) = {} /\ Rest(t) = {}
      BY <1>1, <1>2, ReplaceFrames DEF Structure
    <3> QED BY <1>1, <1>2, <3>1
  <2>3. \A u \in Threads : \A g \in Frames(u) :
          g.op = "stamp" => g.par \in Outputs \ Typed /\ g.par # p
    <3> SUFFICES ASSUME NEW u \in Threads, NEW g \in Frames(u), g.op = "stamp"
                 PROVE  g.par \in Outputs \ Typed /\ g.par # p
      OBVIOUS
    <3>1. g.par \in Outputs \ Typed /\ g.holds = Object[g.par] /\ Object[g.par] \in Objects
      BY ParametersAssumption DEF Structure, Stacks, FrameOK, LockOps, Params
    <3>2. u # t
      BY <2>2
    <3>3. Holds(u, Object[g.par])
      BY <3>1, HoldsFrames
    <3> QED BY <2>1, <3>1, <3>2, <3>3 DEF MayLock
  <2>4. \A u \in Threads : \A g \in Frames(u)' : g.op = "stamp" => data'[g.par] = g.stamp
    <3> SUFFICES ASSUME NEW u \in Threads, NEW g \in Frames(u)', g.op = "stamp"
                 PROVE  data'[g.par] = g.stamp
      OBVIOUS
    <3>1. CASE g = f
      BY <1>1, <1>3, <3>1
    <3>2. CASE g # f
      <4>1. g \in Frames(u) /\ g.par \in Outputs /\ g.par # p
        BY <2>2, <2>3, <3>2
      <4> QED BY <1>3, <4>1 DEF Matching
    <3> QED BY <3>1, <3>2
  <2>5. \A q \in Outputs \ Typed :
          \/ ts'[q] = -1 \/ data'[q] = ts'[q]
          \/ \E u \in Threads : \E g \in Frames(u)' : g.op = "stamp" /\ g.par = q
    <3> SUFFICES ASSUME NEW q \in Outputs \ Typed
                 PROVE  \/ ts'[q] = -1 \/ data'[q] = ts'[q]
                        \/ \E u \in Threads : \E g \in Frames(u)' : g.op = "stamp" /\ g.par = q
      OBVIOUS
    <3>1. CASE q = p
      BY <1>1, <2>1, <2>2, <3>1
    <3>2. CASE q # p
      <4>1. data'[q] = data[q] /\ ts'[q] = ts[q]
        BY <1>3, <3>2
      <4>2. \A u \in Threads : \A g \in Frames(u) : g \in Frames(u)'
        BY <2>2
      <4> QED BY <4>1, <4>2 DEF Matching
    <3> QED BY <3>1, <3>2
  <2> QED BY <2>4, <2>5 DEF Matching
<1> QED BY <1>4, <1>5

LEMMA EmitMatches ==
  ASSUME Structure, Matching, NEW t \in Threads, Stamp(t) \/ Commit(t)
  PROVE  Matching'
<1> DEFINE f == Top(t)
<1>1. PICK e \in FrameSet :
           /\ Busy(t) /\ Replace(t, <<e>>)
           /\ e.op = "emit" /\ e.par = f.par /\ e.todo = wired[f.par]
  BY EmitShape
<1>2. <<e>> \in Seq(FrameSet) /\ Among(<<e>>) = {e}
  BY OneFrame
<1>3. /\ f.op \in {"stamp", "commit"} /\ ts' = [ts EXCEPT ![f.par] = f.stamp] /\ data' = data
      /\ ts \in [Params -> Int]
  BY DEF Stamp, Commit, At, Structure, Typing, Cells
<1>4. /\ f \in Frames(t) /\ f.par \in Params
      /\ f.op = "stamp" => f.par \in Outputs \ Typed
      /\ f.op = "commit" => f.par \notin Outputs \ Typed
  <2>1. f \in Frames(t) /\ FrameOK(f) /\ f \in FrameSet
    BY <1>1, TopFacts DEF Structure
  <2> QED BY <2>1, ParametersAssumption DEF FrameOK, FrameSet
<1>5. CASE f.op = "commit"
  <2>1. \A q \in Outputs \ Typed : data'[q] = data[q] /\ ts'[q] = ts[q]
    BY <1>3, <1>4, <1>5 DEF Params
  <2> QED BY <1>1, <1>2, <1>5, <2>1, MatchingKept
<1>6. CASE f.op = "stamp"
  <2>1. /\ \A u \in Threads : u # t => Frames(u)' = Frames(u)
        /\ Frames(t)' = {e} \cup Rest(t) /\ Frames(t) = {f} \cup Rest(t)
    BY <1>1, <1>2, ReplaceFrames DEF Structure
  <2>2. \A u \in Threads : \A g \in Frames(u)' : g.op = "stamp" => g \in Frames(u)
    BY <1>1, <2>1
  <2>3. \A u \in Threads : \A g \in Frames(u) : g \in Frames(u)' \/ g = f
    BY <2>1
  <2>4. \A q \in Outputs \ Typed :
          \/ ts'[q] = -1 \/ data'[q] = ts'[q]
          \/ \E u \in Threads : \E g \in Frames(u)' : g.op = "stamp" /\ g.par = q
    <3> SUFFICES ASSUME NEW q \in Outputs \ Typed
                 PROVE  \/ ts'[q] = -1 \/ data'[q] = ts'[q]
                        \/ \E u \in Threads : \E g \in Frames(u)' : g.op = "stamp" /\ g.par = q
      OBVIOUS
    <3>1. CASE q = f.par
      <4>1. data[f.par] = f.stamp
        BY <1>4, <1>6 DEF Matching
      <4> QED BY <1>3, <1>4, <3>1, <4>1
    <3>2. CASE q # f.par
      <4>1. ts'[q] = ts[q] /\ q \in Params
        BY <1>3, <3>2 DEF Params
      <4>2. \/ ts[q] = -1 \/ data[q] = ts[q]
            \/ \E u \in Threads : \E g \in Frames(u) : g.op = "stamp" /\ g.par = q
        BY DEF Matching
      <4> QED BY <1>3, <2>3, <3>2, <4>1, <4>2
    <3> QED BY <3>1, <3>2
  <2> QED BY <1>3, <2>2, <2>4 DEF Matching
<1> QED BY <1>3, <1>5, <1>6

(* The main thread's steps put no other frames on its stack than these.    *)
LEMMA ResetAmong ==
  ASSUME Structure, NEW i, NEW g \in FrameSet, ResetsTo(i, g)
  PROVE  \E fs \in Seq(FrameSet) :
           Replace(Main, fs) /\ g \in Among(fs) /\ \A f \in Among(fs) : f = g \/ f.op = "destroy"
<1>1. CASE Replace(Main, <<g>>)
  <2>1. <<g>> \in Seq(FrameSet) /\ Among(<<g>>) = {g}
    BY OneFrame
  <2> QED BY <1>1, <2>1
<1>2. CASE i \in Inputs /\ Replace(Main, Reset(i) \o <<g>>)
  <2> DEFINE d == Frame("destroy", shared[i], None, {}, 0, None, None)
  <2>1. /\ ~Orphan(shared[i], i) => Reset(i) \o <<g>> = <<g>>
        /\ Orphan(shared[i], i) => Reset(i) \o <<g>> = <<d, g>>
    BY <1>2, ResetFrames
  <2>2. CASE ~Orphan(shared[i], i)
    BY <1>1, <1>2, <2>1, <2>2
  <2>3. CASE Orphan(shared[i], i)
    <3>1. d \in FrameSet /\ d.op = "destroy"
      BY <1>2, <2>3, ResetFacts, DestroyFrame
    <3> HIDE DEF d
    <3>2. <<d, g>> \in Seq(FrameSet) /\ Among(<<d, g>>) = {d, g}
      BY <3>1, TwoFrames
    <3>3. Replace(Main, <<d, g>>)
      BY <1>2, <2>1, <2>3
    <3> QED BY <3>1, <3>2, <3>3
  <2> QED BY <2>2, <2>3
<1> QED BY <1>1, <1>2 DEF ResetsTo

LEMMA DestroyShape ==
  ASSUME Structure, Lives, NEW t \in Threads, Destroy(t)
  PROVE  /\ t = Main /\ ~running /\ Busy(Main) /\ Top(Main).op = "destroy"
         /\ Top(Main).par \in Params
         /\ Deletion(Top(Main).par) \in FrameSet /\ Deletion(Top(Main).par).op = "delete"
         /\ ResetsTo(Top(Main).par, Deletion(Top(Main).par))
<1> DEFINE p == Top(Main).par  g == Deletion(p)
<1>1. Typing /\ Main \in Threads
  BY ParametersAssumption DEF Structure
<1>2. /\ t = Main /\ ~running /\ Busy(Main) /\ Top(Main).op = "destroy" /\ p \in Params
  <2>1. Busy(t) /\ Top(t).op = "destroy" /\ Top(t).op \in EndOps
    BY DEF Destroy, At, EndOps
  <2> QED BY <2>1, EndFacts
<1>3. g \in FrameSet /\ g.op = "delete"
  BY <1>2, DeletionFacts
<1>4. /\ p \in Inputs => life' = Doom(p) /\ Become(Main, Reset(p) \o <<g>>)
      /\ p \notin Inputs => Become(Main, <<g>>) /\ life' = life
  BY <1>2 DEF Destroy, wiring
<1> HIDE DEF g
<1>5. ResetsTo(p, g)
  BY <1>1, <1>2, <1>4, BecomeReplaces DEF ResetsTo
<1> QED BY <1>2, <1>3, <1>5 DEF g

LEMMA ForgetShape ==
  ASSUME Structure, Lives, NEW t \in Threads, ForgetInput(t)
  PROVE  \E i \in Inputs, g \in FrameSet :
           /\ t = Main /\ ~running /\ Busy(Main) /\ Top(Main).op = "delete"
           /\ i \in Top(Main).todo /\ g.op = "delete" /\ ResetsTo(i, g)
           /\ raw' = [raw EXCEPT ![i] = None] /\ shared' = [shared EXCEPT ![i] = None]
<1> DEFINE top == Top(Main)
<1>1. Typing /\ Main \in Threads
  BY ParametersAssumption DEF Structure
<1>2. /\ t = Main /\ ~running /\ Busy(Main) /\ top.op = "delete" /\ top \in FrameSet
      /\ top.todo \subseteq Inputs
  <2>1. Busy(t) /\ Top(t).op = "delete" /\ Top(t).op \in EndOps
    BY DEF ForgetInput, At, EndOps
  <2> QED BY <2>1, EndFacts
<1>3. PICK i \in top.todo :
        /\ raw' = [raw EXCEPT ![i] = None] /\ shared' = [shared EXCEPT ![i] = None]
        /\ life' = Doom(i)
        /\ Become(Main, Reset(i) \o <<[top EXCEPT !.todo = @ \ {i}]>>)
  BY <1>2 DEF ForgetInput
<1> DEFINE g == [top EXCEPT !.todo = top.todo \ {i}]
<1>4. i \in Inputs /\ g \in FrameSet /\ g.op = "delete"
  BY <1>2 DEF FrameSet
<1>5. Become(Main, Reset(i) \o <<g>>)
  BY <1>3
<1> HIDE DEF g
<1>6. ResetsTo(i, g)
  BY <1>1, <1>2, <1>3, <1>4, <1>5, BecomeReplaces DEF ResetsTo
<1> QED BY <1>2, <1>3, <1>4, <1>6

LEMMA ReleaseShape ==
  ASSUME Structure, NEW t \in Threads, NEW p \in Params, Release(t, p)
  PROVE  /\ t = Main /\ ~running /\ ~Busy(Main)
         /\ \E fs \in Seq(FrameSet) :
              Replace(Main, fs) /\ \A f \in Among(fs) : f.op = "destroy"
<1> DEFINE kept == \E k \in Inputs : shared[k] = p
           f == Frame("destroy", p, None, {}, 0, None, None)
<1>1. Typing /\ Main \in Threads
  BY ParametersAssumption DEF Structure
<1>2. t = Main /\ ~running /\ ~Busy(Main) /\ Enter(Main, IF kept THEN <<>> ELSE <<f>>)
  BY DEF Release, Change
<1>3. f \in FrameSet /\ f.op = "destroy"
  BY DestroyFrame
<1> HIDE DEF kept, f
<1>4. CASE kept
  <2> DEFINE e == <<>>
  <2>1. e \in Seq(FrameSet) /\ DOMAIN e = {}
    OBVIOUS
  <2>2. Enter(Main, e)
    BY <1>2, <1>4
  <2> HIDE DEF e
  <2>3. Replace(Main, e) /\ Among(e) = {}
    BY <1>1, <1>2, <2>1, <2>2, BecomeReplaces DEF Among
  <2> QED BY <1>2, <2>1, <2>3
<1>5. CASE ~kept
  <2>1. <<f>> \in Seq(FrameSet) /\ Among(<<f>>) = {f} /\ Enter(Main, <<f>>)
    BY <1>2, <1>3, <1>5, OneFrame
  <2>2. Replace(Main, <<f>>)
    BY <1>1, <1>2, <2>1, BecomeReplaces
  <2> QED BY <1>2, <1>3, <2>1, <2>2
<1> QED BY <1>4, <1>5

LEMMA StepMatches ==
  ASSUME Structure, Lives, Matching, NEW t \in Threads, Step(t)
  PROVE  Matching'
<1>1. CASE Stamp(t) \/ Commit(t)
  BY <1>1, EmitMatches
<1>2. CASE Notify(t)
  <2>1. Top(t).op = "emit" /\ UNCHANGED <<data, ts>>
    BY <1>2 DEF Notify, At
  <2>2. PICK i \in Inputs, r \in FrameSet, c \in FrameSet, a \in FrameSet :
          /\ Busy(t) /\ i \in Top(t).todo
          /\ r.op = "emit" /\ r.par = Top(t).par /\ r.todo = Top(t).todo \ {i}
          /\ c.op = "commit" /\ c.par = i /\ (Feed(i) # None => c.stamp = ts[Feed(i)])
          /\ a.op = "assign" /\ a.par = i
          /\ \/ Feed(i) = None /\ Replace(t, <<r>>)
             \/ Feed(i) # None /\ Replace(t, <<c, a, r>>)
    BY <1>2, NotifyShape
  <2>3. /\ <<r>> \in Seq(FrameSet) /\ Among(<<r>>) = {r}
        /\ <<c, a, r>> \in Seq(FrameSet) /\ Among(<<c, a, r>>) = {c, a, r}
    BY OneFrame, ThreeFrames
  <2>4. \A f \in {c, a, r} : f.op # "stamp"
    BY <2>2
  <2>5. CASE Replace(t, <<r>>)
    BY <2>1, <2>3, <2>4, <2>5, MatchingKept
  <2>6. CASE Replace(t, <<c, a, r>>)
    BY <2>1, <2>3, <2>4, <2>6, MatchingKept
  <2> QED BY <2>2, <2>5, <2>6
<1>3. CASE EmitReturn(t) \/ AssignUser(t) \/ SetReturn(t) \/ Read(t) \/ DeleteReturn(t)
  <2>1. Busy(t) /\ Leave(t) /\ UNCHANGED <<data, ts>> /\ Top(t).op # "stamp"
    BY <1>3 DEF EmitReturn, AssignUser, SetReturn, Read, CanRead, DeleteReturn, At
  <2> DEFINE fs == <<>>
  <2>2. fs \in Seq(FrameSet) /\ Replace(t, fs) /\ Among(fs) = {}
    BY <2>1, LeaveShape
  <2> HIDE DEF fs
  <2> QED BY <2>1, <2>2, MatchingKept
<1>4. CASE Update(t)
  <2>1. UNCHANGED <<data, ts>>
    BY <1>4 DEF Update
  <2>2. PICK e \in FrameSet, g \in FrameSet :
          /\ Busy(t) /\ Top(t).op = "update" /\ Replace(t, <<e, g>>)
          /\ e.op = "emit" /\ e.par = Top(t).par /\ e.todo = wired[Top(t).par]
          /\ g.op = "return" /\ g.par = Top(t).par
    BY <1>4, SetUpdateShape
  <2>3. <<e, g>> \in Seq(FrameSet) /\ Among(<<e, g>>) = {e, g}
    BY TwoFrames
  <2> QED BY <2>1, <2>2, <2>3, MatchingKept
<1>5. CASE Wire(t)
  <2>1. PICK g \in FrameSet :
          /\ t = Main /\ Top(Main).op = "wire" /\ Replace(Main, <<g>>) /\ g.op = "update"
          /\ UNCHANGED <<data, ts>>
    BY <1>5, WireShape
  <2>2. <<g>> \in Seq(FrameSet) /\ Among(<<g>>) = {g}
    BY OneFrame
  <2> QED BY <2>1, <2>2, MatchingKept
<1>6. CASE Destroy(t)
  <2> DEFINE g == Deletion(Top(Main).par)
  <2>1. /\ t = Main /\ Top(Main).op = "destroy" /\ g \in FrameSet /\ g.op = "delete"
        /\ ResetsTo(Top(Main).par, g)
    BY <1>6, DestroyShape
  <2>2. UNCHANGED <<data, ts>>
    BY <1>6 DEF Destroy
  <2> HIDE DEF g
  <2>3. PICK fs \in Seq(FrameSet) :
          Replace(Main, fs) /\ \A f \in Among(fs) : f = g \/ f.op = "destroy"
    BY <2>1, ResetAmong
  <2> QED BY <2>1, <2>2, <2>3, MatchingKept
<1>7. CASE ForgetInput(t)
  <2>1. PICK i \in Inputs, g \in FrameSet :
          /\ t = Main /\ Top(Main).op = "delete" /\ g.op = "delete" /\ ResetsTo(i, g)
    BY <1>7, ForgetShape
  <2>2. UNCHANGED <<data, ts>>
    BY <1>7 DEF ForgetInput
  <2>3. PICK fs \in Seq(FrameSet) :
          Replace(Main, fs) /\ \A f \in Among(fs) : f = g \/ f.op = "destroy"
    BY <2>1, ResetAmong
  <2> QED BY <2>1, <2>2, <2>3, MatchingKept
<1> QED BY <1>1, <1>2, <1>3, <1>4, <1>5, <1>6, <1>7 DEF Step

LEMMA CallMatches ==
  ASSUME Structure, Lives, Matching, NEW t \in Threads, Call(t)
  PROVE  Matching'
<1>1. ASSUME NEW p \in Outputs, UpdateData(t, p) \/ UpdateTyped(t, p) PROVE Matching'
  BY <1>1, UpdateMatches
<1>2. ASSUME NEW p \in Params, Release(t, p) PROVE Matching'
  <2>1. /\ t = Main /\ ~Busy(Main)
        /\ \E fs \in Seq(FrameSet) :
             Replace(Main, fs) /\ \A f \in Among(fs) : f.op = "destroy"
    BY <1>2, ReleaseShape
  <2>2. UNCHANGED <<data, ts>>
    BY <1>2 DEF Release
  <2> QED BY <2>1, <2>2, MatchingKept
<1>3. ASSUME NEW i \in Inputs, GetInput(t, i) PROVE Matching'
  BY <1>3, MatchingSame DEF GetInput
<1>4. ASSUME NEW i \in Inputs, GetData(t, i) PROVE Matching'
  <2>1. PICK f \in FrameSet :
          ~Busy(t) /\ Replace(t, <<f>>) /\ f.op = "read" /\ f.par = DataPtr[i]
    BY <1>4, GetDataShape
  <2>2. <<f>> \in Seq(FrameSet) /\ Among(<<f>>) = {f}
    BY OneFrame
  <2>3. UNCHANGED <<data, ts>>
    BY <1>4 DEF GetData
  <2> QED BY <2>1, <2>2, <2>3, MatchingKept
<1>5. ASSUME NEW i \in Inputs, SetsInput(t, i) PROVE Matching'
  <2>1. PICK g \in FrameSet, p \in Params \cup {None} : SetEffect(t, i, g, p)
    BY <1>5, SetShape
  <2>2. /\ t = Main /\ ~Busy(Main) /\ ResetsTo(i, g) /\ g.op \in {"update", "wire"}
        /\ data' = data /\ (ts' = ts \/ ts' = [ts EXCEPT ![i] = ts[p]])
    BY <2>1 DEF SetEffect
  <2>3. \A q \in Outputs \ Typed : ts'[q] = ts[q]
    <3>1. ts \in [Params -> Int] /\ Outputs \cap Inputs = {}
      BY ParametersAssumption DEF Structure, Typing, Cells
    <3> QED BY <2>2, <3>1 DEF Params
  <2>4. PICK fs \in Seq(FrameSet) :
          Replace(Main, fs) /\ \A f \in Among(fs) : f = g \/ f.op = "destroy"
    BY <2>2, ResetAmong
  <2> QED BY <2>2, <2>3, <2>4, MatchingKept
<1>6. ASSUME NEW i \in Inputs, NEW p \in Params, SetRaw(t, i, p) \/ SetShared(t, i, p)
      PROVE  SetsInput(t, i)
  BY <1>6 DEF SetsInput
<1>7. ASSUME NEW i \in Inputs, ClearInput(t, i) PROVE SetsInput(t, i)
  BY <1>7 DEF SetsInput
<1> QED BY <1>1, <1>2, <1>3, <1>4, <1>5, <1>6, <1>7 DEF Call

LEMMA MatchingInit == Init => Matching
<1> SUFFICES ASSUME Init PROVE Matching
  OBVIOUS
<1>1. \A t \in Threads : Frames(t) = {}
  BY DEF Init, Frames
<1> QED BY <1>1 DEF Init, Matching, Params

LEMMA MatchingNext == Structure /\ Lives /\ Matching /\ [Next]_vars => Matching'
<1> SUFFICES ASSUME Structure, Lives, Matching, [Next]_vars PROVE Matching'
  OBVIOUS
<1>1. CASE Go
  BY <1>1, MatchingSame DEF Go
<1>2. ASSUME NEW t \in Threads, Step(t) \/ Call(t) PROVE Matching'
  BY <1>2, StepMatches, CallMatches
<1>3. CASE UNCHANGED vars
  BY <1>3, MatchingSame DEF vars
<1> QED BY <1>1, <1>2, <1>3 DEF Next

(* What the invariants say of the sources and the readers.                 *)
LEMMA SoundInputs == Structure /\ Lives /\ Matching => InputsSound
<1> SUFFICES ASSUME Structure, Lives, Matching PROVE InputsSound
  OBVIOUS
<1>1. LiveSources
  <2>1. \A i \in Inputs : \A p \in {raw[i], shared[i]} \ {None} : life[p] # "dead"
    BY DEF Lives, Attached
  <2>2. ASSUME NEW t \in Threads, NEW f \in Frames(t)
        PROVE  life[f.par] # "dead" /\ (f.op = "wire" => life[f.src] # "dead")
    BY DEF Lives, Living
  <2> QED BY <2>1, <2>2 DEF LiveSources
<1>2. ReadsMatch
  <2> SUFFICES ASSUME NEW t \in Threads, CanRead(t), Top(t).par \notin Typed,
                      ts[Top(t).par] # -1
               PROVE  data[Top(t).par] = ts[Top(t).par]
    BY DEF ReadsMatch
  <2> DEFINE p == Top(t).par
  <2>1. Busy(t) /\ Top(t).op = "read" /\ MayLock(t, p)
    BY DEF CanRead, At
  <2>2. p \in Outputs /\ Frames(t) = {Top(t)}
    <3>1. Typing /\ Stacks /\ Phases
      BY DEF Structure
    <3>2. FrameOK(Top(t)) /\ Len(Below(t)) = 0
      BY <2>1, <3>1, TopFacts
    <3>3. Len(stack[t]) = 1
      <4>1. Len(stack[t]) = Len(Below(t)) + 1
        BY <2>1, <3>1, BelowType
      <4> QED BY <3>2, <4>1
    <3>4. Rest(t) = {}
      BY <3>3 DEF Rest
    <3> QED BY <2>1, <3>1, <3>2, <3>4, BusyFrames DEF FrameOK
  <2>3. ASSUME NEW u \in Threads, NEW f \in Frames(u), f.op = "stamp", f.par = p
        PROVE  FALSE
    <3>1. u # t
      BY <2>1, <2>2, <2>3
    <3>2. f.holds = Object[p] /\ Object[p] \in Objects
      BY <2>2, <2>3, ParametersAssumption DEF Structure, Stacks, FrameOK, LockOps, Params
    <3>3. Holds(u, Object[p])
      BY <3>2, HoldsFrames
    <3> QED BY <2>1, <3>1, <3>3 DEF MayLock
  <2> QED BY <2>2, <2>3 DEF Matching
<1> QED BY <1>1, <1>2, StructureTypes DEF InputsSound

(* No input and no call is left with a parameter that has been destroyed,  *)
(* and GetData returns a value that belongs to the stamp, however updates, *)
(* reads, SetInput and destructors follow each other.                      *)
THEOREM SourcesAreSound == Spec => []InputsSound
<1>1. Init => Structure /\ Lives /\ Matching
  BY StructureInit, LivesInit, MatchingInit
<1>2. Structure /\ Lives /\ Matching /\ [Next]_vars => Structure' /\ Lives' /\ Matching'
  BY StructureNext, LivesNext, MatchingNext
<1> QED BY <1>1, <1>2, SoundInputs, PTL DEF Spec

----------------------------------------------------------------------------
(* Inputs lose a source only when it dies                                  *)

LEMMA SourcesChange ==
  ASSUME [Next]_vars
  PROVE  \/ UNCHANGED <<raw, shared>>
         \/ \E t \in Threads : Destroy(t) \/ ForgetInput(t) \/ changes' = changes + 1
<1>1. CASE Go \/ UNCHANGED vars
  BY <1>1 DEF Go, vars, wiring
<1>2. ASSUME NEW t \in Threads, Step(t), ~Destroy(t), ~ForgetInput(t)
      PROVE  UNCHANGED <<raw, shared>>
  <2>1. CASE Stamp(t) \/ Commit(t) \/ Notify(t) \/ EmitReturn(t) \/ AssignUser(t) \/ Update(t)
    BY <2>1 DEF Stamp, Commit, Notify, EmitReturn, AssignUser, Update, wiring
  <2>2. CASE DeleteReturn(t) \/ Wire(t) \/ SetReturn(t) \/ Read(t)
    BY <2>2 DEF DeleteReturn, Wire, SetReturn, Read, wiring
  <2> QED BY <1>2, <2>1, <2>2 DEF Step
<1>3. ASSUME NEW t \in Threads, Call(t)
      PROVE  UNCHANGED <<raw, shared>> \/ changes' = changes + 1
  <2>1. ASSUME NEW p \in Outputs, UpdateData(t, p) \/ UpdateTyped(t, p)
        PROVE  UNCHANGED <<raw, shared>>
    BY <2>1 DEF UpdateData, UpdateTyped, wiring
  <2>2. ASSUME NEW i \in Inputs, GetInput(t, i) \/ GetData(t, i)
        PROVE  UNCHANGED <<raw, shared>>
    BY <2>2 DEF GetInput, GetData, wiring
  <2>3. ASSUME NEW p \in Params, Release(t, p) PROVE changes' = changes + 1
    BY <2>3 DEF Release, Change
  <2>4. ASSUME NEW i \in Inputs, ClearInput(t, i) PROVE changes' = changes + 1
    BY <2>4 DEF ClearInput, Change
  <2>5. ASSUME NEW i \in Inputs, NEW p \in Params, SetRaw(t, i, p) \/ SetShared(t, i, p)
        PROVE  changes' = changes + 1
    BY <2>5 DEF SetRaw, SetShared, Change
  <2> QED BY <1>3, <2>1, <2>2, <2>3, <2>4, <2>5 DEF Call
<1> QED BY <1>1, <1>2, <1>3 DEF Next

LEMMA KeepsStep ==
  ASSUME Structure, Lives, [Next]_vars, NEW i \in Inputs,
         Feed(i) # None, raw'[i] = None, shared'[i] = None, ~Rewired(i)
  PROVE  life[Feed(i)] = "dying" \/ life[i] # "owned" \/ changes' # changes
<1>1. /\ raw \in [Inputs -> Params \cup {None}] /\ shared \in [Inputs -> Params \cup {None}]
      /\ changes \in Int /\ WiringOK
  BY WiringKept DEF Structure, Typing, Cells
<1>2. CASE UNCHANGED <<raw, shared>>
  BY <1>2 DEF Feed
<1>3. ASSUME NEW t \in Threads, Destroy(t)
      PROVE  life[Feed(i)] = "dying" \/ life[i] # "owned"
  <2>1. Busy(t) /\ Top(t).op \in EndOps
    BY <1>3 DEF Destroy, At, EndOps
  <2>2. life[Top(t).par] = "dying"
    BY <2>1, EndFacts
  <2>3. i # Top(t).par => raw'[i] = raw[i] /\ shared'[i] = shared[i]
    BY <1>1, <1>3 DEF Destroy, wiring
  <2>4. i = Top(t).par
    BY <2>3 DEF Feed
  <2> QED BY <2>2, <2>4
<1>4. ASSUME NEW t \in Threads, ForgetInput(t)
      PROVE  life[Feed(i)] = "dying" \/ life[i] # "owned"
  <2>1. Busy(t) /\ Top(t).op = "delete" /\ Top(t).op \in EndOps
    BY <1>4 DEF ForgetInput, At, EndOps
  <2>2. /\ t = Main /\ Top(t) \in Frames(Main) /\ Top(t).par \in Params
        /\ life[Top(t).par] = "dying"
    BY <2>1, EndFacts
  <2>3. \E j \in Top(t).todo : raw' = [raw EXCEPT ![j] = None]
                               /\ shared' = [shared EXCEPT ![j] = None]
    BY <1>4 DEF ForgetInput
  <2>4. i \in Top(t).todo
    BY <1>1, <2>3 DEF Feed
  <2>5. i \in wired[Top(t).par] \/ life[i] \in {"dying", "dead"}
    BY <2>1, <2>2, <2>4 DEF Lives, Announced
  <2>6. i \in wired[Top(t).par] => Top(t).par = Feed(i)
    BY <2>2 DEF Rewired
  <2> QED BY <2>2, <2>5, <2>6
<1> QED BY <1>1, <1>2, <1>3, <1>4, SourcesChange

(* An input that was wired to nothing else loses its source only by that   *)
(* parameter's death, by SetInput, or by its own destruction.              *)
THEOREM SourcesAreKept == Spec => KeepsSource
<1>1. Structure /\ Lives /\ [Next]_vars =>
        [\A i \in Inputs :
           LET p == Feed(i) IN
           p # None /\ raw'[i] = None /\ shared'[i] = None /\ ~Rewired(i) =>
             \/ life[p] = "dying"
             \/ life[i] # "owned"
             \/ changes' # changes
        ]_vars
  BY KeepsStep
<1> QED BY <1>1, LivesInvariant, PTL DEF KeepsSource, Spec

----------------------------------------------------------------------------
(* An input has the stamp of its source when all calls have returned       *)

LEMMA NoCommitBelow ==
  ASSUME Structure, NEW t \in Threads
  PROVE  \A f \in Rest(t) : f.op # "commit"
<1>1. stack[t] \in Seq(FrameSet)
  BY DEF Structure, Typing
<1>2. \A k \in 2..Len(stack[t]) : k \in DOMAIN stack[t] /\ k # 1
  BY <1>1
<1>3. Calls(t) \/ Ends(t) \/ Alone(t)
  BY DEF Structure, Stacks
<1>4. CASE Calls(t)
  BY <1>2, <1>4 DEF Calls, Rest
<1>5. CASE Ends(t)
  BY <1>2, <1>5 DEF Ends, Rest, EndOps, SetOps
<1>6. CASE Alone(t)
  BY <1>1, <1>6 DEF Alone, Rest
<1> QED BY <1>3, <1>4, <1>5, <1>6

(* SetInput is not under way while a thread updates or reads.              *)
LEMMA NoWireUnder ==
  ASSUME Structure, NEW t \in Threads, Busy(t), Top(t).op \in CallOps \cup {"stamp", "read"}
  PROVE  \A f \in Frames(Main) : f.op # "wire"
<1>1. Typing /\ Stacks /\ Phases /\ Main \in Threads
  BY ParametersAssumption DEF Structure
<1>2. CASE running
  BY <1>1, <1>2 DEF Phases, RunOps
<1>3. CASE ~running
  <2>1. /\ t = Main /\ Top(t).op # "wire"
        /\ Top(t).op \in CallOps => Calls(t)
        /\ Top(t).op \in {"stamp", "read"} => Len(Below(t)) = 0
    BY <1>1, <1>3, TopFacts DEF CallOps
  <2>2. CASE Calls(t)
    BY <2>1, <2>2 DEF Calls, CallOps, Frames
  <2>3. CASE Len(Below(t)) = 0
    <3>1. Len(stack[t]) = Len(Below(t)) + 1
      BY <1>1, BelowType
    <3>2. Len(stack[t]) = 1
      BY <2>3, <3>1
    <3>3. Rest(t) = {}
      BY <3>2 DEF Rest
    <3> QED BY <1>1, <2>1, <3>3, BusyFrames
  <2> QED BY <2>1, <2>2, <2>3
<1> QED BY <1>2, <1>3

LEMMA FeedKept ==
  ASSUME UNCHANGED <<raw, shared, wired>>
  PROVE  \A i \in Inputs : Feed(i)' = Feed(i) /\ (Rewired(i)' <=> Rewired(i))
<1>1. \A i \in Inputs : Feed(i)' = Feed(i)
  BY DEF Feed
<1>2. \A i \in Inputs : Rewired(i)' <=> Rewired(i)
  BY <1>1 DEF Rewired
<1> QED BY <1>1, <1>2

(* What a thread was about to give the stamp to, it still is, or has.      *)
Carries(t, fs) ==
  \A i \in Inputs :
    Feed(i) # None /\ ~Rewired(i) /\ Busy(t) /\ Pends(Top(t), i, Feed(i)) =>
      \E f \in Among(fs) : Pends(f, i, Feed(i))

CommitsFit(fs) ==
  \A f \in Among(fs) : f.op = "commit" /\ f.par \in Inputs =>
    /\ \E g \in Among(fs) : g.op = "emit" /\ f.par \in wired[g.par]
    /\ f.stamp = ts[Feed(f.par)]

LEMMA FollowingKept ==
  ASSUME Structure, Following, NEW t \in Threads, NEW fs \in Seq(FrameSet), Replace(t, fs),
         UNCHANGED <<raw, shared, wired, ts>>,
         \A f \in Among(fs) : f.op # "wire",
         Carries(t, fs), CommitsFit(fs)
  PROVE  Following'
<1>1. /\ \A u \in Threads : u # t => Frames(u)' = Frames(u)
      /\ Frames(t)' = Among(fs) \cup Rest(t)
      /\ Busy(t) => Frames(t) = {Top(t)} \cup Rest(t)
      /\ ~Busy(t) => Frames(t) = {} /\ Rest(t) = {}
  BY ReplaceFrames DEF Structure
<1>2. \A i \in Inputs : Feed(i)' = Feed(i) /\ (Rewired(i)' <=> Rewired(i))
  BY FeedKept
<1>3. ASSUME NEW i \in Inputs, Feed(i) # None, ~Rewired(i), Pending(i, Feed(i))
      PROVE  \E u \in Threads : \E f \in Frames(u)' : Pends(f, i, Feed(i))
  <2>1. PICK u \in Threads : \E f \in Frames(u) : Pends(f, i, Feed(i))
    BY <1>3 DEF Pending
  <2>2. PICK f \in Frames(u) : Pends(f, i, Feed(i))
    BY <2>1
  <2>3. CASE f \in Frames(u)'
    BY <2>2, <2>3
  <2>4. CASE f \notin Frames(u)'
    <3>1. u = t /\ Busy(t) /\ f = Top(t)
      BY <1>1, <2>4
    <3>2. \E g \in Among(fs) : Pends(g, i, Feed(i))
      BY <1>3, <2>2, <3>1 DEF Carries
    <3> QED BY <1>1, <3>2
  <2> QED BY <2>3, <2>4
<1>4. Followed'
  <2> SUFFICES ASSUME NEW i \in Inputs, Feed(i)' # None, ~Rewired(i)'
               PROVE  \/ ts'[Feed(i)'] = -1 \/ ts'[i] = ts'[Feed(i)']
                      \/ \E u \in Threads : \E f \in Frames(u)' : Pends(f, i, Feed(i)')
    BY DEF Followed, Pending, Pends
  <2>1. Feed(i) # None /\ ~Rewired(i) /\ Feed(i)' = Feed(i)
    BY <1>2
  <2>2. ts[Feed(i)] = -1 \/ ts[i] = ts[Feed(i)] \/ Pending(i, Feed(i))
    BY <2>1 DEF Following, Followed
  <2>3. CASE Pending(i, Feed(i))
    BY <1>3, <2>1, <2>3
  <2> QED BY <2>1, <2>2, <2>3
<1>5. Committing'
  <2> SUFFICES ASSUME NEW u \in Threads, NEW f \in Frames(u)', f.op = "commit",
                      f.par \in Inputs
               PROVE  /\ \E g \in Frames(u)' : g.op = "emit" /\ f.par \in wired[g.par]
                      /\ Feed(f.par) # None /\ ~Rewired(f.par) => f.stamp = ts[Feed(f.par)]
    BY <1>2 DEF Committing
  <2>1. CASE u # t
    BY <1>1, <2>1 DEF Following, Committing
  <2>2. CASE u = t
    <3>1. f \in Among(fs)
      BY <1>1, <2>2, NoCommitBelow
    <3> QED BY <1>1, <2>2, <3>1 DEF CommitsFit
  <2> QED BY <2>1, <2>2
<1>6. Taken'
  <2>1. Main \in Threads
    BY ParametersAssumption
  <2>2. \A f \in Frames(Main)' : f.op = "wire" => f \in Frames(Main)
    BY <1>1, <2>1
  <2> QED BY <2>2 DEF Following, Taken
<1> QED BY <1>4, <1>5, <1>6 DEF Following

LEMMA FollowingSame ==
  Following /\ UNCHANGED <<raw, shared, wired, ts, stack>> => Following'
<1> SUFFICES ASSUME Following, UNCHANGED <<raw, shared, wired, ts, stack>> PROVE Following'
  OBVIOUS
<1>1. \A t \in Threads : Frames(t)' = Frames(t)
  BY DEF Frames
<1>2. \A i \in Inputs : Feed(i)' = Feed(i) /\ (Rewired(i)' <=> Rewired(i))
  BY FeedKept
<1>3. Followed'
  BY <1>1, <1>2 DEF Following, Followed, Pending, Pends
<1>4. Committing'
  BY <1>1, <1>2 DEF Following, Committing
<1>5. Taken'
  <2>1. Frames(Main)' = Frames(Main)
    BY <1>1, ParametersAssumption
  <2> QED BY <2>1 DEF Following, Taken
<1> QED BY <1>3, <1>4, <1>5 DEF Following

LEMMA FeedAttached ==
  ASSUME Structure, Lives, NEW i \in Inputs, Feed(i) # None
  PROVE  /\ Feed(i) \in Params /\ Feed(i) # i
         /\ \/ i \in wired[Feed(i)]
            \/ \E f \in Frames(Main) : f.op = "wire" /\ f.par = i
<1>1. WiringOK
  BY WiringKept
<1>2. Feed(i) \in Nodes /\ Feed(i) \in {raw[i], shared[i]} /\ <<i, Feed(i)>> \in MayFeed
  BY <1>1, FeedFacts
<1>3. Feed(i) \in Params
  BY <1>2 DEF Nodes
<1>4. Level[Object[Feed(i)]] < Level[Object[i]] /\ Level[Object[i]] \in Nat
  BY <1>2, <1>3, ParametersAssumption DEF Params
<1> QED BY <1>2, <1>3, <1>4 DEF Lives, Attached

(* A parameter that is committed is followed by all that are wired to it:  *)
(* its mutex keeps its stamp from changing under another thread's update.  *)
LEMMA EmitFollows ==
  ASSUME Structure, Lives, Following, NEW t \in Threads, Stamp(t) \/ Commit(t)
  PROVE  Following'
<1> DEFINE f == Top(t)  q == f.par
<1>1. PICK e \in FrameSet :
           /\ Busy(t) /\ Replace(t, <<e>>)
           /\ e.op = "emit" /\ e.par = q /\ e.todo = wired[q]
  BY EmitShape
<1>2. <<e>> \in Seq(FrameSet) /\ Among(<<e>>) = {e}
  BY OneFrame
<1>3. /\ \A u \in Threads : u # t => Frames(u)' = Frames(u)
      /\ Frames(t)' = {e} \cup Rest(t) /\ Frames(t) = {f} \cup Rest(t)
  BY <1>1, <1>2, ReplaceFrames DEF Structure
<1>4. /\ f.op \in {"stamp", "commit"} /\ ts' = [ts EXCEPT ![q] = f.stamp]
      /\ UNCHANGED <<raw, shared, wired>> /\ ts \in [Params -> Int]
      /\ f.op = "commit" => MayLock(t, q)
  BY DEF Stamp, Commit, At, Structure, Typing, Cells, wiring
<1>5. f \in Frames(t) /\ f \in FrameSet /\ FrameOK(f) /\ q \in Params
  <2>1. f \in Frames(t) /\ FrameOK(f) /\ f \in FrameSet
    BY <1>1, TopFacts DEF Structure
  <2> QED BY <2>1 DEF FrameSet
<1>6. \A i \in Inputs : Feed(i)' = Feed(i) /\ (Rewired(i)' <=> Rewired(i))
  BY <1>4, FeedKept
<1>7. \A g \in Frames(Main) : g.op # "wire"
  BY <1>1, <1>4, NoWireUnder DEF CallOps
<1>8. \A u \in Threads \ {t} : ~Holds(u, Object[q])
  <2>1. CASE f.op = "commit"
    BY <1>4, <2>1 DEF MayLock
  <2>2. CASE f.op = "stamp"
    <3>1. f.holds = Object[q] /\ Object[q] \in Objects
      BY <1>5, <2>2, ParametersAssumption DEF FrameOK, LockOps
    <3>2. Holds(t, Object[q])
      BY <1>5, <3>1, HoldsFrames
    <3> QED BY <3>1, <3>2 DEF Structure, Exclusive
  <2> QED BY <1>4, <2>1, <2>2
<1>9. Followed'
  <2> SUFFICES ASSUME NEW i \in Inputs, Feed(i)' # None, ~Rewired(i)'
               PROVE  \/ ts'[Feed(i)'] = -1 \/ ts'[i] = ts'[Feed(i)']
                      \/ \E u \in Threads : \E g \in Frames(u)' : Pends(g, i, Feed(i)')
    BY DEF Followed, Pending, Pends
  <2> DEFINE p == Feed(i)
  <2>1. /\ p # None /\ ~Rewired(i) /\ Feed(i)' = p /\ p \in Params /\ p # i /\ i \in wired[p]
        /\ i \in Params
    BY <1>6, <1>7, FeedAttached DEF Params
  <2> HIDE DEF p
  <2>2. CASE p = q
    <3>1. Pends(e, i, p)
      BY <1>1, <2>1, <2>2 DEF Pends
    <3> QED BY <1>3, <2>1, <3>1
  <2>3. CASE p # q /\ i = q
    <3>1. f.op = "commit"
      BY <1>4, <1>5, <2>3, ParametersAssumption DEF FrameOK
    <3>2. f.stamp = ts[p]
      BY <1>5, <2>1, <2>3, <3>1 DEF Following, Committing, p
    <3> QED BY <1>4, <2>1, <2>3, <3>2
  <2>4. CASE p # q /\ i # q
    <3>1. ts'[p] = ts[p] /\ ts'[i] = ts[i]
      BY <1>4, <2>1, <2>4
    <3>2. ts[p] = -1 \/ ts[i] = ts[p] \/ Pending(i, p)
      BY <2>1 DEF Following, Followed, p
    <3>3. ASSUME NEW u \in Threads, NEW g \in Frames(u), Pends(g, i, p)
          PROVE  g \in Frames(u)'
      <4>1. ~Pends(f, i, p)
        BY <1>4, <2>4 DEF Pends, SetOps
      <4> QED BY <1>3, <3>3, <4>1
    <3> QED BY <2>1, <3>1, <3>2, <3>3 DEF Pending
  <2> QED BY <2>2, <2>3, <2>4
<1>10. Committing'
  <2> SUFFICES ASSUME NEW u \in Threads, NEW c \in Frames(u)', c.op = "commit",
                      c.par \in Inputs
               PROVE  /\ \E g \in Frames(u)' : g.op = "emit" /\ c.par \in wired[g.par]
                      /\ Feed(c.par) # None /\ ~Rewired(c.par) => c.stamp = ts'[Feed(c.par)]
    BY <1>4, <1>6 DEF Committing
  <2>1. u # t /\ c \in Frames(u) /\ Frames(u)' = Frames(u)
    BY <1>1, <1>3, NoCommitBelow
  <2>2. PICK g \in Frames(u) : g.op = "emit" /\ c.par \in wired[g.par]
    BY <2>1 DEF Following, Committing
  <2>3. g.par \in Params /\ g.holds = Object[g.par] /\ Object[g.par] \in Objects
    <3>1. FrameOK(g) /\ g \in FrameSet
      BY FramesType DEF Structure, Stacks
    <3>2. g.par \in Params
      BY <3>1 DEF FrameSet
    <3> QED BY <2>2, <3>1, <3>2, ParametersAssumption DEF FrameOK, LockOps
  <2>4. g.par # q
    <3>1. Holds(u, Object[g.par])
      BY <2>3, HoldsFrames
    <3> QED BY <1>8, <2>1, <3>1
  <2>5. ASSUME Feed(c.par) # None, ~Rewired(c.par) PROVE c.stamp = ts'[Feed(c.par)]
    <3>1. Feed(c.par) = g.par
      BY <2>2, <2>3, <2>5 DEF Rewired
    <3>2. c.stamp = ts[Feed(c.par)]
      BY <2>1, <2>5 DEF Following, Committing
    <3> QED BY <1>4, <2>3, <2>4, <3>1, <3>2
  <2> QED BY <2>1, <2>2, <2>5
<1>11. Taken'
  <2>1. Main \in Threads
    BY ParametersAssumption
  <2>2. \A g \in Frames(Main)' : g.op # "wire"
    BY <1>1, <1>3, <1>7, <2>1
  <2> QED BY <2>2 DEF Taken
<1> QED BY <1>9, <1>10, <1>11 DEF Following

(* A step of the main thread, in SetInput or a destructor: nobody commits. *)
LEMMA NoCommits ==
  ASSUME Structure, ~running, NEW fs \in Seq(FrameSet), Replace(Main, fs),
         Busy(Main) => Top(Main).op \in EndOps \cup SetOps,
         \A f \in Among(fs) : f.op \in EndOps \cup SetOps
  PROVE  Committing'
<1>1. /\ \A u \in Threads : u # Main => Frames(u)' = {}
      /\ Frames(Main)' = Among(fs) \cup Rest(Main)
      /\ \A f \in Rest(Main) : f.op \in EndOps \cup SetOps
  BY MainFrames
<1>2. \A u \in Threads : \A f \in Frames(u)' : f.op # "commit"
  BY <1>1 DEF EndOps, SetOps
<1> QED BY <1>2 DEF Committing

(* What a destructor does to the inputs: those that keep a source keep the *)
(* stamp.                                                                  *)
LEMMA EndFollows ==
  ASSUME Structure, Following, ~running, NEW fs \in Seq(FrameSet), Replace(Main, fs),
         Busy(Main) => Top(Main).op \in EndOps,
         \A f \in Among(fs) : f.op \in EndOps,
         ts' = ts,
         \A i \in Inputs : Feed(i)' # None /\ ~Rewired(i)' =>
                             Feed(i)' = Feed(i) /\ ~Rewired(i)
  PROVE  Following'
<1>1. /\ \A u \in Threads : u # Main => Frames(u) = {} /\ Frames(u)' = {}
      /\ Frames(Main)' = Among(fs) \cup Rest(Main)
      /\ Busy(Main) => Frames(Main) = {Top(Main)} \cup Rest(Main)
      /\ ~Busy(Main) => Frames(Main) = {} /\ Rest(Main) = {}
  BY MainFrames
<1>2. Committing'
  BY NoCommits
<1>3. Taken'
  <2>1. \A f \in Frames(Main)' : f.op = "wire" => f \in Frames(Main)
    BY <1>1 DEF EndOps
  <2> QED BY <2>1 DEF Following, Taken
<1>4. Followed'
  <2> SUFFICES ASSUME NEW i \in Inputs, Feed(i)' # None, ~Rewired(i)'
               PROVE  \/ ts'[Feed(i)'] = -1 \/ ts'[i] = ts'[Feed(i)']
                      \/ \E u \in Threads : \E g \in Frames(u)' : Pends(g, i, Feed(i)')
    BY DEF Followed, Pending, Pends
  <2>1. Feed(i)' = Feed(i) /\ ~Rewired(i) /\ Feed(i) # None
    OBVIOUS
  <2>2. ts[Feed(i)] = -1 \/ ts[i] = ts[Feed(i)] \/ Pending(i, Feed(i))
    BY <2>1 DEF Following, Followed
  <2>3. ASSUME NEW u \in Threads, NEW g \in Frames(u), Pends(g, i, Feed(i))
        PROVE  g \in Frames(u)'
    <3>1. u = Main
      BY <1>1
    <3>2. Busy(Main) => ~Pends(Top(Main), i, Feed(i))
      BY DEF Pends, EndOps, SetOps
    <3> QED BY <1>1, <2>3, <3>1, <3>2
  <2> QED BY <2>1, <2>2, <2>3 DEF Pending
<1> QED BY <1>2, <1>3, <1>4 DEF Following

LEMMA DestroyFollows ==
  ASSUME Structure, Lives, Following, NEW t \in Threads, Destroy(t)
  PROVE  Following'
<1> DEFINE p == Top(Main).par  g == Deletion(p)
<1>1. /\ t = Main /\ ~running /\ Busy(Main) /\ Top(Main).op = "destroy"
      /\ p \in Params /\ g \in FrameSet /\ g.op = "delete" /\ ResetsTo(p, g)
  BY DestroyShape
<1>2. /\ raw \in [Inputs -> Params \cup {None}] /\ shared \in [Inputs -> Params \cup {None}]
      /\ wired \in [Params -> SUBSET Inputs] /\ ts' = ts
  BY DEF Structure, Typing, Cells, Destroy
<1>3. /\ \A q \in Params : \A i \in Inputs : i \in wired'[q] <=> i \in wired[q] /\ i # p
      /\ \A i \in Inputs : /\ i # p => raw'[i] = raw[i] /\ shared'[i] = shared[i]
                           /\ i = p => raw'[i] = None /\ shared'[i] = None
  BY <1>1, <1>2 DEF Destroy, wiring
<1> HIDE DEF g
<1>4. PICK fs \in Seq(FrameSet) :
        Replace(Main, fs) /\ \A f \in Among(fs) : f = g \/ f.op = "destroy"
  BY <1>1, ResetAmong
<1> HIDE DEF p
<1>5. \A i \in Inputs : /\ i = p => Feed(i)' = None
                        /\ i # p => Feed(i)' = Feed(i)
  BY <1>3 DEF Feed
<1>6. \A i \in Inputs : i # p => (Rewired(i)' <=> Rewired(i))
  BY <1>3, <1>5 DEF Rewired
<1> QED BY <1>1, <1>2, <1>4, <1>5, <1>6, EndFollows DEF EndOps

LEMMA ForgetFollows ==
  ASSUME Structure, Lives, Following, NEW t \in Threads, ForgetInput(t)
  PROVE  Following'
<1>1. PICK k \in Inputs, g \in FrameSet :
           /\ t = Main /\ ~running /\ Busy(Main) /\ Top(Main).op = "delete"
           /\ g.op = "delete" /\ ResetsTo(k, g)
           /\ raw' = [raw EXCEPT ![k] = None] /\ shared' = [shared EXCEPT ![k] = None]
  BY ForgetShape
<1>2. /\ raw \in [Inputs -> Params \cup {None}] /\ shared \in [Inputs -> Params \cup {None}]
      /\ wired' = wired /\ ts' = ts
  BY DEF Structure, Typing, Cells, ForgetInput
<1>3. PICK fs \in Seq(FrameSet) :
        Replace(Main, fs) /\ \A f \in Among(fs) : f = g \/ f.op = "destroy"
  BY <1>1, ResetAmong
<1>4. \A i \in Inputs : /\ i = k => Feed(i)' = None
                        /\ i # k => Feed(i)' = Feed(i)
  BY <1>1, <1>2 DEF Feed
<1>5. \A i \in Inputs : i # k => (Rewired(i)' <=> Rewired(i))
  BY <1>2, <1>4 DEF Rewired
<1> QED BY <1>1, <1>2, <1>3, <1>4, <1>5, EndFollows DEF EndOps

(* What was wired to a parameter that is gone follows another one no more  *)
(* than before: it was told, and has no source.                            *)
LEMMA DeleteReturnFollows ==
  ASSUME Structure, Lives, Following, NEW t \in Threads, DeleteReturn(t)
  PROVE  Following'
<1> DEFINE p == Top(t).par
<1>1. Busy(t) /\ Top(t).op = "delete" /\ Top(t).op \in EndOps /\ Top(t).todo = {}
  BY DEF DeleteReturn, At, EndOps
<1>2. t = Main /\ ~running /\ Top(t) \in Frames(Main) /\ p \in Params
  BY <1>1, EndFacts
<1>3. /\ wired' = [wired EXCEPT ![p] = {}] /\ wired \in [Params -> SUBSET Inputs]
      /\ UNCHANGED <<raw, shared, ts>> /\ Leave(t)
  BY DEF DeleteReturn, Structure, Typing, Cells
<1> DEFINE fs == <<>>
<1>4. fs \in Seq(FrameSet) /\ Replace(t, fs) /\ Among(fs) = {}
  BY <1>1, <1>3, LeaveShape
<1> HIDE DEF fs
<1>5. \A i \in Inputs : Feed(i)' = Feed(i)
  BY <1>3 DEF Feed
<1>6. \A i \in wired[p] : raw[i] = None /\ shared[i] = None
  BY <1>1, <1>2 DEF Lives, Announced
<1> HIDE DEF p
<1>7. ASSUME NEW i \in Inputs, Feed(i)' # None, ~Rewired(i)' PROVE ~Rewired(i)
  <2>1. ASSUME NEW q \in Params \ {Feed(i)}, i \in wired[q] PROVE FALSE
    <3>1. CASE q = p
      BY <1>5, <1>6, <1>7, <2>1, <3>1 DEF Feed
    <3>2. CASE q # p
      BY <1>3, <1>5, <1>7, <2>1, <3>2 DEF Rewired
    <3> QED BY <3>1, <3>2
  <2> QED BY <2>1 DEF Rewired
<1> QED BY <1>1, <1>2, <1>3, <1>4, <1>5, <1>7, EndFollows

LEMMA ReleaseFollows ==
  ASSUME Structure, Lives, Following, NEW t \in Threads, NEW p \in Params, Release(t, p)
  PROVE  Following'
<1>1. t = Main /\ ~running /\ ~Busy(Main)
  BY ReleaseShape
<1>2. PICK fs \in Seq(FrameSet) : Replace(Main, fs) /\ \A f \in Among(fs) : f.op = "destroy"
  BY ReleaseShape
<1>3. UNCHANGED <<raw, shared, wired, ts>>
  BY DEF Release
<1>4. \A i \in Inputs : Feed(i)' = Feed(i) /\ (Rewired(i)' <=> Rewired(i))
  BY <1>3, FeedKept
<1> QED BY <1>1, <1>2, <1>3, <1>4, EndFollows DEF EndOps

(* SetInput takes the stamp of the source, and tells what follows.         *)
LEMMA SetFollows ==
  ASSUME Structure, Lives, Following, NEW t \in Threads, NEW k \in Inputs, SetsInput(t, k)
  PROVE  Following'
<1>1. PICK g \in FrameSet, p \in Params \cup {None} : SetEffect(t, k, g, p)
  BY SetShape
<1>2. /\ ~running /\ ~Busy(Main) /\ ResetsTo(k, g) /\ g.par = k /\ wired' = wired
      /\ g.op \in SetOps
  BY <1>1 DEF SetEffect, SetOps
<1>3. \/ /\ g.op = "update" /\ raw' = [raw EXCEPT ![k] = None]
         /\ shared' = [shared EXCEPT ![k] = None] /\ ts' = ts
      \/ /\ g.op = "wire" /\ g.src = p /\ p \in Params /\ <<k, p>> \in MayFeed
         /\ ts' = IF ts[p] # -1 THEN [ts EXCEPT ![k] = ts[p]] ELSE ts
         /\ \/ raw' = [raw EXCEPT ![k] = p] /\ shared' = shared
            \/ shared' = [shared EXCEPT ![k] = p] /\ raw' = raw
  BY <1>1 DEF SetEffect
<1>4. /\ raw \in [Inputs -> Params \cup {None}] /\ shared \in [Inputs -> Params \cup {None}]
      /\ ts \in [Params -> Int] /\ k \in Params /\ Main \in Threads
  BY ParametersAssumption DEF Structure, Typing, Cells, Params
<1>5. PICK fs \in Seq(FrameSet) :
        /\ Replace(Main, fs) /\ g \in Among(fs)
        /\ \A f \in Among(fs) : f = g \/ f.op = "destroy"
  BY <1>2, ResetAmong
<1>6. /\ \A u \in Threads : Frames(u) = {}
      /\ Frames(Main)' = Among(fs)
  <2>1. /\ \A u \in Threads : u # Main => Frames(u) = {}
        /\ Frames(Main)' = Among(fs) \cup Rest(Main)
        /\ Frames(Main) = {} /\ Rest(Main) = {}
    BY <1>2, <1>5, MainFrames
  <2> QED BY <2>1
<1>7. Committing'
  BY <1>2, <1>5, NoCommits DEF EndOps
<1>8. g.op = "wire" => p # k /\ (ts'[p] = -1 \/ ts'[k] = ts'[p])
  <2> SUFFICES ASSUME g.op = "wire" PROVE p # k /\ (ts'[p] = -1 \/ ts'[k] = ts'[p])
    OBVIOUS
  <2>1. p \in Params /\ <<k, p>> \in MayFeed
        /\ ts' = IF ts[p] # -1 THEN [ts EXCEPT ![k] = ts[p]] ELSE ts
    BY <1>3
  <2>2. Level[Object[p]] < Level[Object[k]] /\ Level[Object[k]] \in Nat
    BY <1>4, <2>1, ParametersAssumption
  <2>3. p # k
    BY <2>2
  <2> QED BY <1>4, <2>1, <2>3
<1>9. Taken'
  <2>1. \A f \in Frames(Main)' : f.op = "wire" => f = g
    BY <1>5, <1>6
  <2>2. g.op = "wire" => g.src = p
    BY <1>3
  <2> QED BY <1>2, <1>8, <2>1, <2>2 DEF Taken
<1>10. Followed'
  <2> SUFFICES ASSUME NEW i \in Inputs, Feed(i)' # None, ~Rewired(i)'
               PROVE  \/ ts'[Feed(i)'] = -1 \/ ts'[i] = ts'[Feed(i)']
                      \/ \E u \in Threads : \E f \in Frames(u)' : Pends(f, i, Feed(i)')
    BY DEF Followed, Pending, Pends
  <2>1. g \in Frames(Main)'
    BY <1>5, <1>6
  <2>2. CASE i = k
    <3>1. g.op # "update"
      BY <1>3, <1>4, <2>2 DEF Feed
    <3>2. Pends(g, i, Feed(i)')
      BY <1>2, <2>2, <3>1 DEF Pends, SetOps
    <3> QED BY <1>4, <2>1, <3>2
  <2>3. CASE i # k
    <3>1. Feed(i)' = Feed(i)
      BY <1>3, <1>4, <2>3 DEF Feed
    <3>2. ~Rewired(i) /\ Feed(i) # None
      BY <1>2, <3>1 DEF Rewired
    <3>3. Feed(i) \in Params
      BY <3>2, FeedAttached
    <3>4. CASE Feed(i) = k
      <4>1. Pends(g, i, Feed(i)')
        BY <1>2, <3>1, <3>4 DEF Pends
      <4> QED BY <1>4, <2>1, <4>1
    <3>5. CASE Feed(i) # k
      <4>1. ts'[Feed(i)] = ts[Feed(i)] /\ ts'[i] = ts[i]
        BY <1>3, <1>4, <2>3, <3>3, <3>5 DEF Params
      <4>2. ~Pending(i, Feed(i))
        BY <1>6 DEF Pending
      <4>3. ts[Feed(i)] = -1 \/ ts[i] = ts[Feed(i)]
        BY <3>2, <4>2 DEF Following, Followed
      <4> QED BY <3>1, <4>1, <4>3
    <3> QED BY <3>4, <3>5
  <2> QED BY <2>2, <2>3
<1> QED BY <1>7, <1>9, <1>10 DEF Following

LEMMA WireFollows ==
  ASSUME Structure, Lives, Following, NEW t \in Threads, Wire(t)
  PROVE  Following'
<1> DEFINE w == Top(Main)  p == w.src  k == w.par
<1>1. PICK g \in FrameSet :
           /\ t = Main /\ ~running /\ Busy(Main) /\ w.op = "wire"
           /\ Frames(Main) = {w} /\ Rest(Main) = {}
           /\ Replace(Main, <<g>>) /\ g.op = "update" /\ g.par = k
           /\ g.par \in Inputs /\ p \in Params
           /\ wired' = [wired EXCEPT ![p] = @ \cup {g.par}]
           /\ UNCHANGED <<ts, raw, shared>>
  BY WireShape
<1>2. /\ <<g>> \in Seq(FrameSet) /\ Among(<<g>>) = {g} /\ wired \in [Params -> SUBSET Inputs]
      /\ Main \in Threads /\ g.op \in SetOps /\ w.op \in SetOps
  BY <1>1, OneFrame, ParametersAssumption DEF Structure, Typing, Cells, SetOps
<1>3. \A u \in Threads : u # Main => Frames(u) = {}
  BY <1>1, <1>2, MainFrames
<1>4. Frames(Main)' = {g}
  <2>1. Frames(Main)' = Among(<<g>>) \cup Rest(Main)
    BY <1>1, <1>2, MainFrames
  <2> QED BY <1>1, <1>2, <2>1
<1>5. Committing'
  BY <1>1, <1>2, NoCommits
<1>6. Taken'
  BY <1>1, <1>4 DEF Taken
<1>7. \A i \in Inputs : Feed(i)' = Feed(i)
  BY <1>1 DEF Feed
<1>8. Followed'
  <2> SUFFICES ASSUME NEW i \in Inputs, Feed(i)' # None, ~Rewired(i)'
               PROVE  \/ ts'[Feed(i)'] = -1 \/ ts'[i] = ts'[Feed(i)']
                      \/ \E u \in Threads : \E f \in Frames(u)' : Pends(f, i, Feed(i)')
    BY DEF Followed, Pending, Pends
  <2>1. Feed(i)' = Feed(i) /\ Feed(i) # None
    BY <1>7
  <2>2. ~Rewired(i)
    BY <1>1, <1>2, <2>1 DEF Rewired
  <2>3. CASE i = k
    <3>1. p = Feed(i)
      BY <1>1, <1>2, <2>1, <2>3 DEF Rewired
    <3>2. ts[p] = -1 \/ ts[k] = ts[p]
      BY <1>1 DEF Following, Taken
    <3> QED BY <1>1, <2>1, <2>3, <3>1, <3>2
  <2>4. CASE i # k
    <3>1. ts[Feed(i)] = -1 \/ ts[i] = ts[Feed(i)] \/ Pending(i, Feed(i))
      BY <2>1, <2>2 DEF Following, Followed
    <3>2. CASE Pending(i, Feed(i))
      <4>1. Pends(w, i, Feed(i))
        BY <1>1, <1>3, <3>2 DEF Pending
      <4>2. Feed(i) = k
        BY <1>1, <2>4, <4>1 DEF Pends
      <4>3. Pends(g, i, Feed(i)')
        BY <1>1, <1>2, <2>1, <4>2 DEF Pends
      <4> QED BY <1>2, <1>4, <4>3
    <3> QED BY <1>1, <2>1, <3>1, <3>2
  <2> QED BY <2>3, <2>4
<1> QED BY <1>5, <1>6, <1>8 DEF Following

LEMMA StepFollows ==
  ASSUME Structure, Lives, Following, NEW t \in Threads, Step(t)
  PROVE  Following'
<1>1. CASE Stamp(t) \/ Commit(t)
  BY <1>1, EmitFollows
<1>2. CASE Notify(t)
  <2>1. Top(t).op = "emit" /\ UNCHANGED <<raw, shared, wired, ts>> /\ Busy(t)
    BY <1>2 DEF Notify, At, wiring
  <2>2. PICK k \in Inputs, r \in FrameSet, c \in FrameSet, a \in FrameSet :
          /\ Busy(t) /\ k \in Top(t).todo
          /\ r.op = "emit" /\ r.par = Top(t).par /\ r.todo = Top(t).todo \ {k}
          /\ c.op = "commit" /\ c.par = k /\ (Feed(k) # None => c.stamp = ts[Feed(k)])
          /\ a.op = "assign" /\ a.par = k
          /\ \/ Feed(k) = None /\ Replace(t, <<r>>)
             \/ Feed(k) # None /\ Replace(t, <<c, a, r>>)
    BY <1>2, NotifyShape
  <2>3. /\ <<r>> \in Seq(FrameSet) /\ Among(<<r>>) = {r}
        /\ <<c, a, r>> \in Seq(FrameSet) /\ Among(<<c, a, r>>) = {c, a, r}
    BY OneFrame, ThreeFrames
  <2>4. \A i \in Inputs : Pends(Top(t), i, Feed(i)) =>
          \/ i = k /\ Feed(i) # None /\ Pends(c, i, Feed(i))
          \/ i = k /\ Feed(i) = None
          \/ Pends(r, i, Feed(i))
    BY <2>1, <2>2 DEF Pends, SetOps
  <2>5. k \in wired[Top(t).par]
    <3>1. Top(t) \in Frames(t)
      BY <2>1, TopFacts DEF Structure
    <3> QED BY <2>1, <2>2, <3>1 DEF Lives, Living
  <2>6. CASE Feed(k) = None /\ Replace(t, <<r>>)
    <3>1. Carries(t, <<r>>)
      BY <2>3, <2>4, <2>6 DEF Carries
    <3>2. CommitsFit(<<r>>)
      BY <2>2, <2>3 DEF CommitsFit
    <3> QED BY <2>1, <2>2, <2>3, <2>6, <3>1, <3>2, FollowingKept
  <2>7. CASE Feed(k) # None /\ Replace(t, <<c, a, r>>)
    <3>1. Carries(t, <<c, a, r>>)
      BY <2>3, <2>4, <2>7 DEF Carries
    <3>2. CommitsFit(<<c, a, r>>)
      <4>1. \A f \in {c, a, r} : f.op = "commit" => f = c
        BY <2>2
      <4>2. c.stamp = ts[Feed(c.par)] /\ c.par \in wired[r.par] /\ r.op = "emit"
        BY <2>2, <2>5, <2>7
      <4> QED BY <2>3, <4>1, <4>2 DEF CommitsFit
    <3>3. \A f \in {c, a, r} : f.op # "wire"
      BY <2>2
    <3> QED BY <2>1, <2>3, <2>7, <3>1, <3>2, <3>3, FollowingKept
  <2> QED BY <2>2, <2>6, <2>7
<1>3. CASE EmitReturn(t) \/ AssignUser(t) \/ SetReturn(t) \/ Read(t)
  <2>1. Busy(t) /\ Leave(t) /\ UNCHANGED <<raw, shared, wired, ts>>
    BY <1>3 DEF EmitReturn, AssignUser, SetReturn, Read, CanRead, At, wiring
  <2>2. \/ Top(t).op = "emit" /\ Top(t).todo = {}
        \/ Top(t).op \in {"assign", "return", "read"}
    BY <1>3 DEF EmitReturn, AssignUser, SetReturn, Read, CanRead, At
  <2> DEFINE fs == <<>>
  <2>3. fs \in Seq(FrameSet) /\ Replace(t, fs) /\ Among(fs) = {}
    BY <2>1, LeaveShape
  <2> HIDE DEF fs
  <2>4. Carries(t, fs) /\ CommitsFit(fs)
    BY <2>2, <2>3 DEF Carries, CommitsFit, Pends, SetOps
  <2> QED BY <2>1, <2>3, <2>4, FollowingKept
<1>4. CASE Update(t)
  <2>1. UNCHANGED <<raw, shared, wired, ts>>
    BY <1>4 DEF Update, wiring
  <2>2. PICK e \in FrameSet, g \in FrameSet :
          /\ Busy(t) /\ Top(t).op = "update" /\ Replace(t, <<e, g>>)
          /\ e.op = "emit" /\ e.par = Top(t).par /\ e.todo = wired[Top(t).par]
          /\ g.op = "return" /\ g.par = Top(t).par
    BY <1>4, SetUpdateShape
  <2>3. <<e, g>> \in Seq(FrameSet) /\ Among(<<e, g>>) = {e, g}
    BY TwoFrames
  <2>4. \A f \in Frames(Main) : f.op # "wire"
    <3>1. Typing /\ Stacks /\ Phases
      BY DEF Structure
    <3>2. t = Main /\ Len(Below(t)) = 0
      BY <2>2, <3>1, TopFacts DEF SetOps, RunOps
    <3>3. Len(stack[t]) = Len(Below(t)) + 1
      BY <2>2, <3>1, BelowType
    <3>4. Len(stack[t]) = 1
      BY <3>2, <3>3
    <3>5. Rest(t) = {}
      BY <3>4 DEF Rest
    <3> QED BY <2>2, <3>1, <3>2, <3>5, BusyFrames
  <2>5. ASSUME NEW i \in Inputs, Feed(i) # None, Pends(Top(t), i, Feed(i))
        PROVE  Pends(e, i, Feed(i))
    <3>1. Feed(i) = Top(t).par
      BY <2>2, <2>5 DEF Pends
    <3>2. i \in wired[Feed(i)]
      BY <2>4, <2>5, FeedAttached
    <3> QED BY <2>2, <3>1, <3>2 DEF Pends
  <2>6. Carries(t, <<e, g>>) /\ CommitsFit(<<e, g>>)
    BY <2>2, <2>3, <2>5 DEF Carries, CommitsFit
  <2> QED BY <2>1, <2>2, <2>3, <2>6, FollowingKept
<1>5. CASE Wire(t)
  BY <1>5, WireFollows
<1>6. CASE Destroy(t) \/ ForgetInput(t) \/ DeleteReturn(t)
  BY <1>6, DestroyFollows, ForgetFollows, DeleteReturnFollows
<1> QED BY <1>1, <1>2, <1>3, <1>4, <1>5, <1>6 DEF Step

LEMMA CallFollows ==
  ASSUME Structure, Lives, Following, NEW t \in Threads, Call(t)
  PROVE  Following'
<1>1. ASSUME NEW p \in Outputs, UpdateData(t, p) \/ UpdateTyped(t, p) PROVE Following'
  <2>1. PICK f \in FrameSet : UpdateEffect(t, p, f)
    BY <1>1, UpdateShape
  <2>2. /\ ~Busy(t) /\ Replace(t, <<f>>) /\ f.par \notin Inputs
        /\ f.op \in {"commit", "stamp"}
    BY <2>1, ParametersAssumption DEF UpdateEffect
  <2>3. <<f>> \in Seq(FrameSet) /\ Among(<<f>>) = {f}
    BY OneFrame
  <2>4. UNCHANGED <<raw, shared, wired, ts>>
    BY <1>1 DEF UpdateData, UpdateTyped, wiring
  <2>5. Carries(t, <<f>>) /\ CommitsFit(<<f>>)
    BY <2>2, <2>3 DEF Carries, CommitsFit
  <2> QED BY <2>2, <2>3, <2>4, <2>5, FollowingKept
<1>2. ASSUME NEW p \in Params, Release(t, p) PROVE Following'
  BY <1>2, ReleaseFollows
<1>3. ASSUME NEW i \in Inputs, GetInput(t, i) PROVE Following'
  <2>1. UNCHANGED <<raw, shared, wired, ts, stack>>
    BY <1>3 DEF GetInput, wiring
  <2> QED BY <2>1, FollowingSame
<1>4. ASSUME NEW i \in Inputs, GetData(t, i) PROVE Following'
  <2>1. PICK f \in FrameSet :
          ~Busy(t) /\ Replace(t, <<f>>) /\ f.op = "read" /\ f.par = DataPtr[i]
    BY <1>4, GetDataShape
  <2>2. <<f>> \in Seq(FrameSet) /\ Among(<<f>>) = {f}
    BY OneFrame
  <2>3. UNCHANGED <<raw, shared, wired, ts>>
    BY <1>4 DEF GetData, wiring
  <2>4. Carries(t, <<f>>) /\ CommitsFit(<<f>>)
    BY <2>1, <2>2 DEF Carries, CommitsFit
  <2> QED BY <2>1, <2>2, <2>3, <2>4, FollowingKept
<1>5. ASSUME NEW i \in Inputs, ClearInput(t, i) PROVE Following'
  BY <1>5, SetFollows DEF SetsInput
<1>6. ASSUME NEW i \in Inputs, NEW p \in Params, SetRaw(t, i, p) \/ SetShared(t, i, p)
      PROVE  Following'
  BY <1>6, SetFollows DEF SetsInput
<1> QED BY <1>1, <1>2, <1>3, <1>4, <1>5, <1>6 DEF Call

LEMMA FollowingInit == Init => Following
<1> SUFFICES ASSUME Init PROVE Following
  OBVIOUS
<1>1. Main \in Threads /\ \A t \in Threads : Frames(t) = {}
  BY ParametersAssumption DEF Init, Frames
<1>2. \A i \in Inputs : Feed(i) = None
  BY DEF Init, Feed
<1> QED BY <1>1, <1>2 DEF Following, Followed, Committing, Taken

LEMMA FollowingNext == Structure /\ Lives /\ Following /\ [Next]_vars => Following'
<1> SUFFICES ASSUME Structure, Lives, Following, [Next]_vars PROVE Following'
  OBVIOUS
<1>1. CASE Go
  <2>1. UNCHANGED <<raw, shared, wired, ts, stack>>
    BY <1>1 DEF Go, wiring
  <2> QED BY <2>1, FollowingSame
<1>2. ASSUME NEW t \in Threads, Step(t) \/ Call(t) PROVE Following'
  BY <1>2, StepFollows, CallFollows
<1>3. CASE UNCHANGED vars
  <2>1. UNCHANGED <<raw, shared, wired, ts, stack>>
    BY <1>3 DEF vars, wiring
  <2> QED BY <2>1, FollowingSame
<1> QED BY <1>1, <1>2, <1>3 DEF Next

(* Over chains of inputs, and whoever updates in whatever order: when all  *)
(* calls have returned, an input has the stamp of the source it follows.   *)
THEOREM StampsFollowSources == Spec => []FollowsSource
<1>1. Init => Structure /\ Lives /\ Following
  BY StructureInit, LivesInit, FollowingInit
<1>2. Structure /\ Lives /\ Following /\ [Next]_vars => Structure' /\ Lives' /\ Following'
  BY StructureNext, LivesNext, FollowingNext
<1>3. Following => FollowsSource
  <2> SUFFICES ASSUME Following, \A t \in Threads : ~Busy(t), NEW i \in Inputs,
                      Feed(i) # None, ~Rewired(i)
               PROVE  ts[Feed(i)] = -1 \/ ts[i] = ts[Feed(i)]
    BY DEF FollowsSource
  <2>1. \A t \in Threads : Frames(t) = {}
    BY DEF Busy, Frames
  <2>2. ~Pending(i, Feed(i))
    BY <2>1 DEF Pending
  <2> QED BY <2>2 DEF Following, Followed
<1> QED BY <1>1, <1>2, <1>3, PTL DEF Spec
===============================================================================
