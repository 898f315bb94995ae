--------------------------- MODULE InterThreadProofs ---------------------------
(***************************************************************************)
(* Proofs about InterThread for every set of threads and slots and every   *)
(* bound: the types, the absence of callbacks of a destroyed slot, and,    *)
(* when callbacks are leaves, the absence of deadlock; that the queues     *)
(* deliver: a callback is executed at most once, none is lost while its    *)
(* slot lives, and those of one sender keep their order; and that the      *)
(* locked implementation refines the lock-free Mailbox.                    *)
(***************************************************************************)
EXTENDS InterThread, SequenceTheorems, TLAPS

(* Erasing a position leaves a sequence over the same set.                 *)
LEMMA EraseKeeps ==
  ASSUME NEW S, NEW s \in Seq(S), NEW k \in DOMAIN s
  PROVE  RemoveAt(s, k) \in Seq(S)
<1>1. k \in Int /\ k \in 1 .. Len(s) /\ Len(s) \in Nat /\ s \in [1 .. Len(s) -> S]
  BY LenProperties
<1>2. SubSeq(s, 1, k - 1) \in Seq(S)
  <2>1. \A i \in 1 .. k - 1 : s[i] \in S
    BY <1>1
  <2> QED BY <1>1, <2>1, SubSeqProperties
<1>3. SubSeq(s, k + 1, Len(s)) \in Seq(S)
  <2>1. \A i \in k + 1 .. Len(s) : s[i] \in S
    BY <1>1
  <2> QED BY <1>1, <2>1, SubSeqProperties
<1> QED BY <1>2, <1>3, ConcatProperties DEF RemoveAt

(* A sequence whose elements all lie in a smaller set is one over that set.*)
LEMMA Narrow ==
  ASSUME NEW S, NEW T, NEW s \in Seq(S), \A k \in DOMAIN s : s[k] \in T
  PROVE  s \in Seq(T)
<1>1. Len(s) \in Nat /\ s \in [1 .. Len(s) -> S] /\ DOMAIN s = 1 .. Len(s)
  BY LenProperties
<1>2. s \in [1 .. Len(s) -> T]
  BY <1>1
<1> QED BY <1>1, <1>2, SeqDef

----------------------------------------------------------------------------
(* Type correctness                                                        *)

LEMMA TypeInit == Init => TypeOK
BY ThreadAssumption, EmptySeq DEF Init, TypeOK

LEMMA ItemType ==
  ASSUME TypeOK, NEW t \in Threads, NEW u \in Threads, NEW o \in Objects
  PROVE  NewItem(t, u, o) \in Items /\ NewItem(t, u, o).n \in Nat
BY DEF TypeOK, NewItem, Items

LEMMA TypeStep == TypeOK /\ [Next]_vars => TypeOK'
<1> SUFFICES ASSUME TypeOK, [Next]_vars PROVE TypeOK'
  OBVIOUS
<1> USE NoneAssumption, ThreadAssumption
<1>1. ASSUME NEW t \in Threads, NEW o \in Objects, PushInline(t, o)
      PROVE  TypeOK'
  <2>1. NewItem(t, t, o) \in Items /\ NewItem(t, t, o).n \in Nat
    BY ItemType
  <2>2. log' \in [Threads -> Seq(Items)]
    BY <1>1, <2>1, AppendProperties DEF PushInline, TypeOK
  <2>3. sent' \in [Threads -> Nat] /\ issued' \subseteq Items
    BY <1>1, <2>1 DEF PushInline, Issue, TypeOK
  <2> QED BY <1>1, <2>2, <2>3 DEF PushInline, TypeOK, locks, runVars, opVars
<1>2. ASSUME NEW t \in Threads, NEW o \in Objects, RemoveCall(t, o)
      PROVE  TypeOK'
  BY <1>2 DEF RemoveCall, RemoveBegin, NonePushedFor, InUserCode, TypeOK, locks, runVars, history
<1>3. ASSUME NEW t \in Threads, NEW u \in Threads, NEW o \in Objects,
             PushCall(t, u, o)
      PROVE  TypeOK'
  <2>1. NewItem(t, u, o) \in Items /\ NewItem(t, u, o).n \in Nat
    BY ItemType
  <2>2. sent' \in [Threads -> Nat] /\ issued' \subseteq Items
    BY <1>3, <2>1 DEF PushCall, Issue, TypeOK
  <2> QED BY <1>3, <2>1, <2>2
          DEF PushCall, CanPush, InUserCode, TypeOK, locks, runVars
<1>4. ASSUME NEW t \in Threads, NEW b \in BOOLEAN, RunCall(t, b)
      PROVE  TypeOK'
  BY <1>4 DEF RunCall, TypeOK, locks, opVars, history
<1>5. ASSUME NEW t \in Threads, PushMap(t)
      PROVE  TypeOK'
  BY <1>5 DEF PushMap, TypeOK, locks, runVars, history
<1>6. ASSUME NEW t \in Threads, PushQueue(t)
      PROVE  TypeOK'
  <2>1. msg[t] \in Items
    <3>1. pc[t] = "push_queue"
      BY <1>6 DEF PushQueue
    <3>2. msg[t] # None /\ msg \in [Threads -> Items \cup {None}]
      BY <3>1 DEF TypeOK
    <3> QED BY <3>2
  <2>2. msg[t].to \in Threads
    BY <2>1 DEF Items
  <2>3. Append(queue[msg[t].to], msg[t]) \in Seq(Items)
    BY ZenonT(40), <2>1, <2>2, AppendProperties DEF TypeOK
  <2>4. queue' \in [Threads -> Seq(Items)]
    BY <1>6, <2>2, <2>3 DEF PushQueue, TypeOK
  <2> QED BY <1>6, <2>4 DEF PushQueue, TypeOK, locks, runVars, history
<1>7. ASSUME NEW t \in Threads, RunMap(t) \/ RunLock(t)
      PROVE  TypeOK'
  <2>1. CASE RunMap(t)
    BY <2>1 DEF RunMap, TypeOK, locks, opVars, history
  <2>2. CASE RunLock(t)
    BY <2>2 DEF RunLock, TypeOK, opVars, history
  <2> QED BY <1>7, <2>1, <2>2
<1>8. ASSUME NEW t \in Threads, RunPop(t)
      PROVE  TypeOK'
  <2>1. Head(queue[t]) \in Items /\ Tail(queue[t]) \in Seq(Items)
    BY <1>8, HeadTailProperties DEF RunPop, TypeOK
  <2>2. log' \in [Threads -> Seq(Items)]
    BY <1>8, <2>1, AppendProperties DEF RunPop, TypeOK
  <2> QED BY <1>8, <2>1, <2>2 DEF RunPop, TypeOK, locks, opVars
<1>9. ASSUME NEW t \in Threads, RunEmpty(t) \/ RunReturn(t)
      PROVE  TypeOK'
  <2>1. CASE RunEmpty(t)
    BY <2>1 DEF RunEmpty, LeaveRun, TypeOK, opVars, history
  <2>2. CASE RunReturn(t)
    <3>1. /\ loop[t] = "call" /\ cur' = [cur EXCEPT ![t] = None]
          /\ \/ loop' = [loop EXCEPT ![t] = "out"]
             \/ loop' = [loop EXCEPT ![t] = "pop"]
      BY <2>2 DEF RunReturn, LeaveRun
    <3>2. queueMtx' \in [Threads -> Threads \cup {None}] /\ once' \in [Threads -> BOOLEAN]
      BY <2>2 DEF RunReturn, LeaveRun, TypeOK
    <3>3. UNCHANGED <<mtx, queue, opVars, slot, history>>
      BY <2>2 DEF RunReturn
    <3>4. \A v \in Threads : (cur'[v] # None) <=> (loop'[v] = "call")
      BY <3>1 DEF TypeOK
    <3>5. /\ loop' \in [Threads -> {"out", "map", "queue", "pop", "call"}]
          /\ cur' \in [Threads -> Items \cup {None}]
      BY <3>1 DEF TypeOK
    <3> QED BY <3>2, <3>3, <3>4, <3>5 DEF TypeOK, opVars, history
  <2> QED BY <1>9, <2>1, <2>2
<1>10. ASSUME NEW t \in Threads, RemoveLock(t) \/ RemoveReturn(t)
       PROVE  TypeOK'
  <2>1. CASE RemoveLock(t)
    BY <2>1 DEF RemoveLock, TypeOK, runVars, history
  <2>2. CASE RemoveReturn(t)
    BY <2>2 DEF RemoveReturn, TypeOK, runVars, history
  <2> QED BY <1>10, <2>1, <2>2
<1>11. ASSUME NEW t \in Threads, NEW u \in Threads,
              RemoveEnter(t, u) \/ RemoveLeave(t, u)
       PROVE  TypeOK'
  <2>1. CASE RemoveEnter(t, u)
    BY <2>1 DEF RemoveEnter, TypeOK, runVars, history
  <2>2. CASE RemoveLeave(t, u)
    BY <2>2 DEF RemoveLeave, TypeOK, runVars, history
  <2> QED BY <1>11, <2>1, <2>2
<1>12. ASSUME NEW t \in Threads, NEW u \in Threads, RemoveErase(t, u)
       PROVE  TypeOK'
  <2>1. queue' \in [Threads -> Seq(Items)]
    BY <1>12, EraseKeeps DEF RemoveErase, TypeOK
  <2> QED BY <1>12, <2>1 DEF RemoveErase, TypeOK, locks, runVars, opVars, history
<1>13. CASE UNCHANGED vars
  BY <1>13 DEF TypeOK, vars, locks, runVars, opVars, history
<1> QED BY <1>1, <1>2, <1>3, <1>4, <1>5, <1>6, <1>7, <1>8, <1>9, <1>10, <1>11,
          <1>12, <1>13
       DEF Next, Progress, PushStep, RunStep, RemoveStep

(* Every reachable state of the queues has its types, and the position of  *)
(* each thread in a call agrees with the locals it uses there.             *)
THEOREM TypeCorrect == Spec => []TypeOK
BY TypeInit, TypeStep, PTL DEF Spec

----------------------------------------------------------------------------
(* Who holds which lock                                                    *)

InQueue(t) == loop[t] \in {"pop", "call"}
Erasing(t, u) == pc[t] = "remove_erase" /\ NextToScan(t, u)

(* mtx is held by the thread that scans the queues; a queue's mutex by its *)
(* owner between RunLock and LeaveRun, or by the thread that erases in it. *)
LockInv ==
  \A t \in Threads :
    /\ (mtx = t) <=> (pc[t] \in {"remove_scan", "remove_erase"})
    /\ InQueue(t) => queueMtx[t] = t
    /\ \A u \in Threads :
         /\ Erasing(t, u) => queueMtx[u] = t /\ ~InQueue(u)
         /\ queueMtx[u] = t => (t = u /\ InQueue(t)) \/ Erasing(t, u)

LEMMA LockInit == Init => LockInv
BY ThreadAssumption DEF Init, LockInv, InQueue, Erasing

LEMMA NextUnique ==
  ASSUME NEW t \in Threads, NEW u \in Threads, NEW w \in Threads,
         NextToScan(t, u), NextToScan(t, w)
  PROVE  u = w
<1>1. u <= w /\ w <= u /\ u \in Nat /\ w \in Nat
  BY ThreadAssumption DEF NextToScan
<1> QED BY <1>1

LEMMA LockStep == TypeOK /\ LockInv /\ [Next]_vars => LockInv'
<1> SUFFICES ASSUME TypeOK, LockInv, [Next]_vars PROVE LockInv'
  OBVIOUS
<1> USE ThreadAssumption DEF LockInv, TypeOK
(* A step that leaves the locks alone and moves no thread in or out of a   *)
(* locked section changes nothing of LockInv.                              *)
<1>0. ASSUME UNCHANGED locks,
             \A v \in Threads :
               /\ InQueue(v)' <=> InQueue(v)
               /\ pc'[v] \in {"remove_scan", "remove_erase"}
                  <=> pc[v] \in {"remove_scan", "remove_erase"}
               /\ \A w \in Threads : Erasing(v, w)' <=> Erasing(v, w)
      PROVE  LockInv'
  BY <1>0 DEF locks
<1>1. ASSUME NEW t \in Threads, NEW o \in Objects, PushInline(t, o)
      PROVE  LockInv'
  BY <1>0, <1>1 DEF PushInline, InQueue, Erasing, NextToScan, runVars, opVars
<1>2. ASSUME NEW t \in Threads, NEW o \in Objects, RemoveCall(t, o)
      PROVE  LockInv'
  <2>1. /\ pc[t] = "user" /\ pc' = [pc EXCEPT ![t] = "remove_map"]
        /\ UNCHANGED <<locks, loop, todo>>
    BY <1>2 DEF RemoveCall, RemoveBegin, NonePushedFor, InUserCode, runVars
  <2>2. \A v \in Threads : pc'[v] # pc[v] =>
          /\ pc[v] \notin {"remove_scan", "remove_erase"}
          /\ pc'[v] \notin {"remove_scan", "remove_erase"}
    BY <2>1
  <2>3. \A v, w \in Threads : Erasing(v, w)' <=> Erasing(v, w)
    BY <2>1, <2>2 DEF Erasing, NextToScan
  <2>4. \A v \in Threads : InQueue(v)' <=> InQueue(v)
    BY <2>1 DEF InQueue
  <2> QED BY <1>0, <2>1, <2>2, <2>3, <2>4
<1>3. ASSUME NEW t \in Threads, NEW u \in Threads, NEW o \in Objects,
             PushCall(t, u, o)
      PROVE  LockInv'
  <2>1. /\ pc[t] = "user" /\ pc' = [pc EXCEPT ![t] = "push_map"]
        /\ UNCHANGED <<locks, loop, todo>>
    BY <1>3 DEF PushCall, CanPush, InUserCode, runVars
  <2>2. \A v \in Threads : pc'[v] # pc[v] =>
          /\ pc[v] \notin {"remove_scan", "remove_erase"}
          /\ pc'[v] \notin {"remove_scan", "remove_erase"}
    BY <2>1
  <2>3. \A v, w \in Threads : Erasing(v, w)' <=> Erasing(v, w)
    BY <2>1, <2>2 DEF Erasing, NextToScan
  <2>4. \A v \in Threads : InQueue(v)' <=> InQueue(v)
    BY <2>1 DEF InQueue
  <2> QED BY <1>0, <2>1, <2>2, <2>3, <2>4
<1>4. ASSUME NEW t \in Threads, NEW b \in BOOLEAN, RunCall(t, b)
      PROVE  LockInv'
  BY <1>0, <1>4 DEF RunCall, InQueue, Erasing, NextToScan, opVars
<1>5. ASSUME NEW t \in Threads, PushMap(t)
      PROVE  LockInv'
  BY SMTT(20), <1>0, <1>5 DEF PushMap, InQueue, Erasing, NextToScan, runVars
<1>6. ASSUME NEW t \in Threads, PushQueue(t)
      PROVE  LockInv'
  <2>1. /\ pc[t] = "push_queue" /\ pc' = [pc EXCEPT ![t] = "user"]
        /\ UNCHANGED <<locks, loop, todo>>
    BY <1>6 DEF PushQueue, runVars
  <2>2. \A v \in Threads : pc'[v] # pc[v] =>
          /\ pc[v] \notin {"remove_scan", "remove_erase"}
          /\ pc'[v] \notin {"remove_scan", "remove_erase"}
    BY <2>1
  <2>3. \A v, w \in Threads : Erasing(v, w)' <=> Erasing(v, w)
    BY <2>1, <2>2 DEF Erasing, NextToScan
  <2>4. \A v \in Threads : InQueue(v)' <=> InQueue(v)
    BY <2>1 DEF InQueue
  <2> QED BY <1>0, <2>1, <2>2, <2>3, <2>4
<1>7. ASSUME NEW t \in Threads, RunMap(t)
      PROVE  LockInv'
  BY <1>0, <1>7 DEF RunMap, InQueue, Erasing, NextToScan, opVars
<1>8. ASSUME NEW t \in Threads, RunLock(t)
      PROVE  LockInv'
  BY <1>8 DEF RunLock, InQueue, Erasing, NextToScan, opVars
<1>9. ASSUME NEW t \in Threads, RunPop(t)
      PROVE  LockInv'
  <2>1. /\ loop[t] = "pop" /\ loop' = [loop EXCEPT ![t] = "call"]
        /\ UNCHANGED <<locks, pc, todo>>
    BY <1>9 DEF RunPop, opVars
  <2> QED BY SMTT(20), <1>0, <2>1 DEF InQueue, Erasing, NextToScan
<1>10. ASSUME NEW t \in Threads, InQueue(t), LeaveRun(t), UNCHANGED <<mtx, opVars>>
       PROVE  LockInv'
  BY SMTT(20), <1>10 DEF LeaveRun, InQueue, Erasing, NextToScan, opVars
<1>11. ASSUME NEW t \in Threads, RunEmpty(t) \/ RunReturn(t)
       PROVE  LockInv'
  <2>1. CASE RunEmpty(t)
    BY <2>1, <1>10 DEF RunEmpty, InQueue
  <2>2. CASE RunReturn(t) /\ once[t]
    BY <2>2, <1>10 DEF RunReturn, InQueue
  <2>3. CASE RunReturn(t) /\ ~once[t]
    BY SMTT(20), <2>3, <1>0 DEF RunReturn, InQueue, Erasing, NextToScan, opVars, locks
  <2> QED BY <1>11, <2>1, <2>2, <2>3
<1>12. ASSUME NEW t \in Threads, RemoveLock(t)
       PROVE  LockInv'
  <2>1. \A v \in Threads : pc[v] \notin {"remove_scan", "remove_erase"}
    BY <1>12 DEF RemoveLock
  <2>2. \A v \in Threads : InQueue(v)' <=> InQueue(v)
    BY <1>12 DEF RemoveLock, runVars, InQueue
  <2>3. \A v, w \in Threads : ~Erasing(v, w) /\ ~Erasing(v, w)'
    BY <1>12, <2>1 DEF RemoveLock, Erasing
  <2> QED BY <1>12, <2>1, <2>2, <2>3 DEF RemoveLock
<1>13. ASSUME NEW t \in Threads, NEW u \in Threads, RemoveEnter(t, u)
       PROVE  LockInv'
  <2>1. ~InQueue(u) /\ \A v \in Threads : InQueue(v)' <=> InQueue(v)
    BY <1>13 DEF RemoveEnter, runVars, InQueue
  <2>2. \A v, w \in Threads : NextToScan(v, w)' <=> NextToScan(v, w)
    BY <1>13 DEF RemoveEnter, NextToScan
  <2>3. \A w \in Threads : NextToScan(t, w) => w = u
    BY <1>13, NextUnique DEF RemoveEnter
  <2>4. \A w \in Threads : Erasing(t, w)' <=> w = u
    BY <1>13, <2>2, <2>3 DEF RemoveEnter, Erasing
  <2>5. \A v \in Threads \ {t}, w \in Threads : ~Erasing(v, w) /\ ~Erasing(v, w)'
    BY <1>13 DEF RemoveEnter, Erasing
  <2>6. \A w \in Threads : ~Erasing(t, w)
    BY <1>13 DEF RemoveEnter, Erasing
  <2> QED BY SMTT(20), <1>13, <2>1, <2>4, <2>5, <2>6 DEF RemoveEnter
<1>14. ASSUME NEW t \in Threads, NEW u \in Threads, RemoveErase(t, u)
       PROVE  LockInv'
  BY <1>0, <1>14 DEF RemoveErase, InQueue, Erasing, NextToScan, runVars, opVars
<1>15. ASSUME NEW t \in Threads, NEW u \in Threads, RemoveLeave(t, u)
       PROVE  LockInv'
  <2>1. Erasing(t, u)
    BY <1>15 DEF RemoveLeave, Erasing
  <2>2. ~InQueue(u) /\ \A v \in Threads : InQueue(v)' <=> InQueue(v)
    BY <1>15, <2>1 DEF RemoveLeave, runVars, InQueue
  <2>3. \A w \in Threads : Erasing(t, w) => w = u
    BY <2>1, NextUnique DEF Erasing
  <2>4. \A v \in Threads \ {t}, w \in Threads : ~Erasing(v, w) /\ ~Erasing(v, w)'
    BY <1>15 DEF RemoveLeave, Erasing
  <2>5. \A w \in Threads : ~Erasing(t, w)'
    BY <1>15 DEF RemoveLeave, Erasing
  <2>6. queueMtx[u] = t /\ queueMtx' = [queueMtx EXCEPT ![u] = None] /\ mtx' = mtx
    BY <1>15, <2>1 DEF RemoveLeave
  <2>7. pc[t] = "remove_erase" /\ pc' = [pc EXCEPT ![t] = "remove_scan"]
    BY <1>15 DEF RemoveLeave
  <2>8. queueMtx'[u] = None /\ \A w \in Threads \ {u} : queueMtx'[w] = queueMtx[w]
    BY <2>6
  <2>9. SUFFICES ASSUME NEW v \in Threads
        PROVE /\ (mtx' = v) <=> (pc'[v] \in {"remove_scan", "remove_erase"})
              /\ InQueue(v)' => queueMtx'[v] = v
              /\ \A w \in Threads :
                   ~Erasing(v, w)' /\ (queueMtx'[w] = v => v = w /\ InQueue(v)')
    BY DEF LockInv
  <2>10. (mtx' = v) <=> (pc'[v] \in {"remove_scan", "remove_erase"})
    BY <2>6, <2>7
  <2>11. InQueue(v)' => queueMtx'[v] = v
    <3>1. CASE v = u
      BY <2>2, <3>1
    <3>2. CASE v # u
      BY <2>2, <2>8, <3>2
    <3> QED BY <3>1, <3>2
  <2>12. ASSUME NEW w \in Threads
         PROVE  ~Erasing(v, w)' /\ (queueMtx'[w] = v => v = w /\ InQueue(v)')
    <3>1. ~Erasing(v, w)'
      <4>1. CASE v = t
        BY <2>5, <4>1
      <4>2. CASE v # t
        BY <2>4, <4>2
      <4> QED BY <4>1, <4>2
    <3>2. ASSUME queueMtx'[w] = v PROVE v = w /\ InQueue(v)'
      <4>1. w # u /\ queueMtx[w] = v
        BY <2>8, <3>2
      <4>2. ~Erasing(v, w)
        <5>1. CASE v = t
          BY <2>3, <4>1, <5>1
        <5>2. CASE v # t
          BY <2>4, <5>2
        <5> QED BY <5>1, <5>2
      <4> QED BY <2>2, <4>1, <4>2
    <3> QED BY <3>1, <3>2
  <2> QED BY <2>10, <2>11, <2>12
<1>16. ASSUME NEW t \in Threads, RemoveReturn(t)
       PROVE  LockInv'
  <2>1. \A v \in Threads : InQueue(v)' <=> InQueue(v)
    BY <1>16 DEF RemoveReturn, runVars, InQueue
  <2>2. \A v, w \in Threads : ~Erasing(v, w) /\ ~Erasing(v, w)'
    BY <1>16 DEF RemoveReturn, Erasing
  <2> QED BY <1>16, <2>1, <2>2 DEF RemoveReturn
<1>17. CASE UNCHANGED vars
  BY <1>0, <1>17 DEF vars, locks, runVars, opVars, InQueue, Erasing, NextToScan
<1> QED BY <1>1, <1>2, <1>3, <1>4, <1>5, <1>6, <1>7, <1>8, <1>9, <1>11,
          <1>12, <1>13, <1>14, <1>15, <1>16, <1>17
       DEF Next, Progress, PushStep, RunStep, RemoveStep

THEOREM LocksHeld == Spec => []LockInv
BY TypeCorrect, LockInit, LockStep, PTL DEF Spec

----------------------------------------------------------------------------
(* No deadlock among leaf callbacks                                        *)

(* Callbacks neither push to another thread nor destroy a slot.            *)
Leaf == NestedPush = {} /\ NestedRemove = {}

(* A thread is in Push or RemoveFromQueue, or in Run, never in both.       *)
LeafInv == \A t \in Threads : loop[t] # "out" => pc[t] = "user"

LEMMA LeafStep ==
  ASSUME Leaf
  PROVE  TypeOK /\ LeafInv /\ [Next]_vars => LeafInv'
<1> SUFFICES ASSUME TypeOK, LeafInv, [Next]_vars PROVE LeafInv'
  OBVIOUS
<1> USE Leaf DEF LeafInv, TypeOK, Leaf
<1>1. ASSUME NEW t \in Threads, NEW o \in Objects,
             PushInline(t, o) \/ RemoveCall(t, o)
      PROVE  LeafInv'
  BY <1>1 DEF PushInline, RemoveCall, RemoveBegin, NonePushedFor, InUserCode, runVars, opVars
<1>2. ASSUME NEW t \in Threads, NEW u \in Threads, NEW o \in Objects,
             PushCall(t, u, o)
      PROVE  LeafInv'
  BY <1>2 DEF PushCall, CanPush, InUserCode, runVars
<1>3. ASSUME NEW t \in Threads, NEW b \in BOOLEAN, RunCall(t, b)
      PROVE  LeafInv'
  BY <1>3 DEF RunCall, opVars
<1>4. ASSUME NEW t \in Threads, PushMap(t) \/ PushQueue(t)
      PROVE  LeafInv'
  BY <1>4 DEF PushMap, PushQueue, runVars
<1>5. ASSUME NEW t \in Threads, RunMap(t) \/ RunLock(t) \/ RunPop(t)
      PROVE  LeafInv'
  BY <1>5 DEF RunMap, RunLock, RunPop, opVars
<1>6. ASSUME NEW t \in Threads, RunEmpty(t) \/ RunReturn(t)
      PROVE  LeafInv'
  BY <1>6 DEF RunEmpty, RunReturn, LeaveRun, opVars
<1>7. ASSUME NEW t \in Threads, RemoveLock(t) \/ RemoveReturn(t)
      PROVE  LeafInv'
  BY <1>7 DEF RemoveLock, RemoveReturn, runVars
<1>8. ASSUME NEW t \in Threads, NEW u \in Threads,
             RemoveEnter(t, u) \/ RemoveErase(t, u) \/ RemoveLeave(t, u)
      PROVE  LeafInv'
  BY <1>8 DEF RemoveEnter, RemoveErase, RemoveLeave, runVars, opVars
<1>9. CASE UNCHANGED vars
  BY <1>9 DEF vars, runVars, opVars
<1> QED BY <1>1, <1>2, <1>3, <1>4, <1>5, <1>6, <1>7, <1>8, <1>9
       DEF Next, Progress, PushStep, RunStep, RemoveStep

(* A thread inside a queue waits for nothing; a thread that scans waits    *)
(* only for one inside a queue; any other waits for one of these two.      *)
LEMMA WaitChain ==
  ASSUME TypeOK, LockInv, LeafInv,
         NEW t \in Threads, NEW u \in WaitsFor(t)
  PROVE  /\ u \in Threads
         /\ \/ WaitsFor(u) = {}
            \/ \A v \in WaitsFor(u) : v \in Threads /\ WaitsFor(v) = {}
<1> USE ThreadAssumption DEF TypeOK, Blocked
<1>1. ASSUME NEW v \in Threads, InQueue(v) PROVE WaitsFor(v) = {}
  BY <1>1 DEF LeafInv, InQueue, WaitsFor
<1>2. ASSUME NEW v \in Threads, pc[v] = "remove_erase" PROVE WaitsFor(v) = {}
  BY <1>2 DEF WaitsFor
<1>3. ASSUME NEW v \in Threads, NEW w \in Threads, queueMtx[v] = w
      PROVE  WaitsFor(w) = {}
  BY <1>1, <1>2, <1>3 DEF LockInv, Erasing
<1>4. ASSUME NEW w \in Threads, pc[w] = "remove_scan"
      PROVE  \A v \in WaitsFor(w) : v \in Threads /\ WaitsFor(v) = {}
  <2> SUFFICES ASSUME NEW v \in WaitsFor(w)
               PROVE  v \in Threads /\ WaitsFor(v) = {}
    OBVIOUS
  <2>1. PICK x \in Threads : v \in Blocked(w, queueMtx[x])
    BY <1>4 DEF WaitsFor
  <2>2. v \in Threads /\ queueMtx[x] = v
    BY <2>1
  <2> QED BY <2>2, <1>3
<1>5. CASE pc[t] \in {"push_map", "remove_map"} \/ (pc[t] = "user" /\ loop[t] = "map")
  <2>1. u \in Threads /\ mtx = u
    BY <1>5 DEF WaitsFor
  <2>2. pc[u] \in {"remove_scan", "remove_erase"}
    BY <2>1 DEF LockInv
  <2> QED BY <2>1, <2>2, <1>2, <1>4
<1>6. CASE pc[t] = "push_queue"
  <2>1. msg[t] \in Items /\ msg[t].to \in Threads
    BY <1>6 DEF Items
  <2>2. u \in Threads /\ queueMtx[msg[t].to] = u
    BY <1>6, <2>1 DEF WaitsFor
  <2> QED BY <2>1, <2>2, <1>3
<1>7. CASE pc[t] = "user" /\ loop[t] = "queue"
  <2>1. u \in Threads /\ queueMtx[t] = u
    BY <1>7 DEF WaitsFor
  <2> QED BY <2>1, <1>3
<1>8. CASE pc[t] = "remove_scan"
  BY <1>4, <1>8
<1>9. CASE pc[t] = "remove_erase" \/ (pc[t] = "user" /\ loop[t] \notin {"map", "queue"})
  BY <1>9 DEF WaitsFor
<1> QED BY <1>5, <1>6, <1>7, <1>8, <1>9

(* When callbacks are leaves, no set of threads, however large, waits for  *)
(* locks that only its own members can let go.                             *)
THEOREM DeadlockFree ==
  ASSUME Leaf
  PROVE  Spec => []NoDeadlock
<1>1. Init => LeafInv
  BY DEF Init, LeafInv
<1>2. TypeOK /\ LockInv /\ LeafInv => NoDeadlock
  <2> SUFFICES ASSUME TypeOK, LockInv, LeafInv,
                      NEW S \in SUBSET Threads, S # {}
               PROVE  \E t \in S : WaitsFor(t) \cap S = {}
    BY DEF NoDeadlock
  <2>1. PICK t \in S : TRUE
    OBVIOUS
  <2>2. CASE WaitsFor(t) \cap S = {}
    BY <2>2
  <2>3. CASE WaitsFor(t) \cap S # {}
    <3>1. PICK u \in WaitsFor(t) : u \in S
      BY <2>3
    <3>2. CASE WaitsFor(u) \cap S = {}
      BY <3>1, <3>2
    <3>3. CASE WaitsFor(u) \cap S # {}
      <4>1. PICK v \in WaitsFor(u) : v \in S
        BY <3>3
      <4>2. WaitsFor(v) = {}
        BY <3>1, <4>1, WaitChain
      <4> QED BY <4>1, <4>2
    <3> QED BY <3>2, <3>3
  <2> QED BY <2>2, <2>3
<1> QED BY <1>1, <1>2, LeafStep, TypeCorrect, LocksHeld, PTL DEF Spec

----------------------------------------------------------------------------
(* No callback of a destroyed slot                                         *)

ItemsOfOthers(o) == {i \in Items : i.obj # o}

(* Thread u neither has a callback of slot o in its queue nor executes one.*)
Clean(u, o) ==
  /\ queue[u] \in Seq(ItemsOfOthers(o))
  /\ cur[u] \in ItemsOfOthers(o) \cup {None}

(* A push under way is for a live slot.                                    *)
LiveMsg == \A t \in Threads : msg[t] # None => slot[msg[t].obj] = "live"

(* A slot being removed is dying, and by one thread.                       *)
OneDestroyer ==
  \A t \in Threads : victim[t] # None =>
    /\ slot[victim[t]] = "dying"
    /\ \A u \in Threads : victim[u] = victim[t] => u = t

(* The queues a removal has left behind stay clean, and so do all of them  *)
(* once the slot is dead.                                                  *)
ScannedClean ==
  \A t \in Threads : pc[t] \in {"remove_scan", "remove_erase"} =>
    \A u \in Threads \ todo[t] : Clean(u, victim[t])
DeadClean ==
  \A o \in Objects : slot[o] = "dead" => \A u \in Threads : Clean(u, o)

RemovalInv == LiveMsg /\ OneDestroyer /\ ScannedClean /\ DeadClean

LEMMA RemovalInit == Init => RemovalInv
BY DEF Init, RemovalInv, LiveMsg, OneDestroyer, ScannedClean, DeadClean

(* No step soils a clean queue: only a live slot is pushed for.            *)
LEMMA StaysClean ==
  ASSUME TypeOK, LiveMsg, [Next]_vars,
         NEW u \in Threads, NEW o \in Objects, Clean(u, o), slot[o] # "live"
  PROVE  Clean(u, o)'
<1> USE NoneAssumption
<1>0. ASSUME UNCHANGED <<queue, cur>> PROVE Clean(u, o)'
  BY <1>0 DEF Clean, ItemsOfOthers
<1>1. ASSUME NEW t \in Threads, NEW x \in Objects,
             PushInline(t, x) \/ RemoveCall(t, x)
      PROVE  Clean(u, o)'
  BY <1>0, <1>1 DEF PushInline, RemoveCall, RemoveBegin, NonePushedFor, runVars
<1>2. ASSUME NEW t \in Threads, NEW v \in Threads, NEW x \in Objects,
             PushCall(t, v, x)
      PROVE  Clean(u, o)'
  BY <1>0, <1>2 DEF PushCall, runVars
<1>3. ASSUME NEW t \in Threads, NEW b \in BOOLEAN, RunCall(t, b)
      PROVE  Clean(u, o)'
  BY <1>0, <1>3 DEF RunCall
<1>4. ASSUME NEW t \in Threads, PushMap(t) \/ RunMap(t) \/ RunLock(t) \/ RunEmpty(t)
                               \/ RemoveLock(t) \/ RemoveReturn(t)
      PROVE  Clean(u, o)'
  BY <1>0, <1>4 DEF PushMap, RunMap, RunLock, RunEmpty, RemoveLock, RemoveReturn,
                    runVars
<1>5. ASSUME NEW t \in Threads, PushQueue(t)
      PROVE  Clean(u, o)'
  <2>1. msg[t] \in Items /\ msg[t] # None
    BY <1>5 DEF PushQueue, TypeOK
  <2>2. msg[t] \in ItemsOfOthers(o)
    BY <2>1 DEF LiveMsg, ItemsOfOthers
  <2>3. Append(queue[u], msg[t]) \in Seq(ItemsOfOthers(o))
    BY <2>2, AppendProperties DEF Clean
  <2>4. queue'[u] = queue[u] \/ queue'[u] = Append(queue[u], msg[t])
    BY <1>5 DEF PushQueue, TypeOK
  <2>5. cur' = cur
    BY <1>5 DEF PushQueue, runVars
  <2> QED BY <2>3, <2>4, <2>5 DEF Clean, ItemsOfOthers
<1>6. ASSUME NEW t \in Threads, RunPop(t)
      PROVE  Clean(u, o)'
  <2>1. CASE t = u
    <3>1. /\ Head(queue[u]) \in ItemsOfOthers(o)
          /\ Tail(queue[u]) \in Seq(ItemsOfOthers(o))
      BY <1>6, <2>1, HeadTailProperties DEF RunPop, Clean
    <3>2. queue'[u] = Tail(queue[u]) /\ cur'[u] = Head(queue[u])
      BY <1>6, <2>1 DEF RunPop, TypeOK
    <3> QED BY <3>1, <3>2 DEF Clean, ItemsOfOthers
  <2>2. CASE t # u
    <3>1. queue'[u] = queue[u] /\ cur'[u] = cur[u]
      BY <1>6, <2>2 DEF RunPop, TypeOK
    <3> QED BY <3>1 DEF Clean, ItemsOfOthers
  <2> QED BY <2>1, <2>2
<1>7. ASSUME NEW t \in Threads, RunReturn(t)
      PROVE  Clean(u, o)'
  <2>1. queue' = queue /\ (cur'[u] = cur[u] \/ cur'[u] = None)
    BY <1>7 DEF RunReturn, TypeOK
  <2> QED BY <2>1 DEF Clean, ItemsOfOthers
<1>8. ASSUME NEW t \in Threads, NEW v \in Threads, RemoveEnter(t, v) \/ RemoveLeave(t, v)
      PROVE  Clean(u, o)'
  BY <1>0, <1>8 DEF RemoveEnter, RemoveLeave, runVars
<1>9. ASSUME NEW t \in Threads, NEW v \in Threads, RemoveErase(t, v)
      PROVE  Clean(u, o)'
  <2>1. PICK k \in DOMAIN queue[v] : queue' = [queue EXCEPT ![v] = RemoveAt(@, k)]
    BY <1>9 DEF RemoveErase
  <2>2. CASE v = u
    <3>1. RemoveAt(queue[u], k) \in Seq(ItemsOfOthers(o))
      BY <2>1, <2>2, EraseKeeps DEF Clean
    <3>2. queue'[u] = RemoveAt(queue[u], k) /\ cur' = cur
      BY <1>9, <2>1, <2>2 DEF RemoveErase, TypeOK, runVars
    <3> QED BY <3>1, <3>2 DEF Clean, ItemsOfOthers
  <2>3. CASE v # u
    <3>1. queue'[u] = queue[u] /\ cur' = cur
      BY <1>9, <2>1, <2>3 DEF RemoveErase, TypeOK, runVars
    <3> QED BY <3>1 DEF Clean, ItemsOfOthers
  <2> QED BY <2>2, <2>3
<1>10. CASE UNCHANGED vars
  BY <1>0, <1>10 DEF vars, runVars
<1> QED BY <1>1, <1>2, <1>3, <1>4, <1>5, <1>6, <1>7, <1>8, <1>9, <1>10
       DEF Next, Progress, PushStep, RunStep, RemoveStep

(* What a step does to the slots, the pushes under way and the removals.   *)
SlotSame == UNCHANGED <<slot, msg, victim>>

LEMMA RemovalStep ==
  TypeOK /\ LockInv /\ RemovalInv /\ [Next]_vars => RemovalInv'
<1> SUFFICES ASSUME TypeOK, LockInv, RemovalInv, [Next]_vars PROVE RemovalInv'
  OBVIOUS
<1> USE NoneAssumption
<1>a. ASSUME NEW u \in Threads, NEW o \in Objects, Clean(u, o), slot[o] # "live"
      PROVE  Clean(u, o)'
  BY <1>a, StaysClean DEF RemovalInv
<1>b. ASSUME slot' = slot PROVE DeadClean'
  BY <1>a, <1>b DEF RemovalInv, DeadClean, TypeOK
(* A removal goes on, and no thread starts or completes a scan.            *)
<1>c. ASSUME UNCHANGED <<slot, victim, todo>>,
             \A t \in Threads : pc'[t] \in {"remove_scan", "remove_erase"}
                               => pc[t] \in {"remove_scan", "remove_erase"}
      PROVE  ScannedClean'
  <2> SUFFICES ASSUME NEW t \in Threads, pc'[t] \in {"remove_scan", "remove_erase"},
                      NEW u \in Threads \ todo[t]
               PROVE  Clean(u, victim[t])'
    BY <1>c DEF ScannedClean
  <2>1. pc[t] \in {"remove_scan", "remove_erase"}
    BY <1>c
  <2>2. victim[t] # None /\ victim[t] \in Objects
    BY <2>1 DEF TypeOK
  <2>3. slot[victim[t]] = "dying"
    BY <2>2 DEF RemovalInv, OneDestroyer
  <2>4. Clean(u, victim[t])
    BY <2>1 DEF RemovalInv, ScannedClean
  <2>5. Clean(u, victim[t])' <=> (\E o \in Objects : o = victim[t] /\ Clean(u, o)')
    BY <1>c, <2>2 DEF Clean, ItemsOfOthers
  <2> QED BY <2>2, <2>3, <2>4, <2>5, <1>a
<1>d. ASSUME SlotSame, todo' = todo,
             \A t \in Threads : pc'[t] \in {"remove_scan", "remove_erase"}
                               => pc[t] \in {"remove_scan", "remove_erase"}
      PROVE  RemovalInv'
  <2>1. LiveMsg' /\ OneDestroyer'
    BY <1>d DEF SlotSame, RemovalInv, LiveMsg, OneDestroyer
  <2> QED BY <1>b, <1>c, <1>d, <2>1 DEF SlotSame, RemovalInv
<1>1. ASSUME NEW t \in Threads, NEW o \in Objects, PushInline(t, o)
      PROVE  RemovalInv'
  BY <1>d, <1>1 DEF PushInline, SlotSame, opVars
<1>2. ASSUME NEW t \in Threads, NEW o \in Objects, RemoveCall(t, o)
      PROVE  RemovalInv'
  <2>1. /\ slot[o] = "live" /\ slot' = [slot EXCEPT ![o] = "dying"]
        /\ victim[t] = None /\ victim' = [victim EXCEPT ![t] = o]
        /\ pc[t] = "user" /\ pc' = [pc EXCEPT ![t] = "remove_map"]
        /\ UNCHANGED <<msg, todo>>
        /\ \A u \in Threads : msg[u] # None => msg[u].obj # o
    BY <1>2 DEF RemoveCall, RemoveBegin, NonePushedFor, InUserCode, TypeOK
  <2>2. LiveMsg'
    <3> SUFFICES ASSUME NEW u \in Threads, msg[u] # None
                 PROVE  slot'[msg[u].obj] = "live"
      BY <2>1 DEF LiveMsg
    <3>1. msg[u].obj \in Objects
      BY DEF TypeOK, Items
    <3> QED BY <2>1, <3>1 DEF RemovalInv, LiveMsg, TypeOK
  <2>3. \A u \in Threads \ {t} : victim'[u] = victim[u] /\ victim[u] # o
    BY ZenonT(40), <2>1 DEF RemovalInv, OneDestroyer, TypeOK
  <2>4. victim'[t] = o /\ slot'[o] = "dying"
    BY <2>1 DEF TypeOK
  <2>5. \A x \in Objects \ {o} : slot'[x] = slot[x]
    BY <2>1 DEF TypeOK
  <2>6. OneDestroyer'
    <3> SUFFICES ASSUME NEW v \in Threads, victim'[v] # None
                 PROVE  /\ slot'[victim'[v]] = "dying"
                        /\ \A u \in Threads : victim'[u] = victim'[v] => u = v
      BY DEF OneDestroyer
    <3>1. CASE v = t
      BY <2>3, <2>4, <3>1
    <3>2. CASE v # t
      <4>1. victim'[v] = victim[v] /\ victim[v] # o /\ victim[v] \in Objects
        BY <2>3, <3>2 DEF TypeOK
      <4>2. slot'[victim[v]] = "dying"
        BY <4>1, <2>5 DEF RemovalInv, OneDestroyer
      <4>3. \A u \in Threads : victim[u] = victim[v] => u = v
        BY <4>1 DEF RemovalInv, OneDestroyer
      <4> QED BY <4>1, <4>2, <4>3, <2>3, <2>4
    <3> QED BY <3>1, <3>2
  <2>7. DeadClean'
    BY <1>a, <2>4, <2>5 DEF RemovalInv, DeadClean, TypeOK
  <2>8. ScannedClean'
    <3> SUFFICES ASSUME NEW v \in Threads, pc'[v] \in {"remove_scan", "remove_erase"},
                        NEW u \in Threads \ todo[v]
                 PROVE  Clean(u, victim[v])' /\ victim'[v] = victim[v]
      BY <2>1 DEF ScannedClean, Clean, ItemsOfOthers
    <3>1. v # t /\ pc[v] \in {"remove_scan", "remove_erase"}
      BY <2>1 DEF TypeOK
    <3>2. victim[v] # None /\ victim[v] \in Objects /\ victim'[v] = victim[v]
      BY <3>1, <2>3 DEF TypeOK
    <3>3. slot[victim[v]] = "dying" /\ Clean(u, victim[v])
      BY <3>1, <3>2 DEF RemovalInv, OneDestroyer, ScannedClean
    <3>4. PICK x \in Objects : x = victim[v]
      BY <3>2
    <3>5. Clean(u, x)'
      BY <1>a, <3>3, <3>4
    <3> QED BY <3>2, <3>4, <3>5 DEF Clean, ItemsOfOthers
  <2> QED BY <2>2, <2>6, <2>7, <2>8 DEF RemovalInv
<1>3. ASSUME NEW t \in Threads, NEW u \in Threads, NEW o \in Objects,
             PushCall(t, u, o)
      PROVE  RemovalInv'
  <2>1. /\ slot[o] = "live" /\ UNCHANGED <<slot, victim, todo>>
        /\ msg' = [msg EXCEPT ![t] = NewItem(t, u, o)]
        /\ pc' = [pc EXCEPT ![t] = "push_map"]
    BY <1>3 DEF PushCall, CanPush
  <2>2. LiveMsg'
    BY <2>1 DEF RemovalInv, LiveMsg, TypeOK, NewItem
  <2>3. OneDestroyer'
    BY <2>1 DEF RemovalInv, OneDestroyer
  <2>4. ScannedClean'
    BY <1>c, <2>1 DEF TypeOK
  <2> QED BY <1>b, <2>1, <2>2, <2>3, <2>4 DEF RemovalInv
<1>4. ASSUME NEW t \in Threads, NEW b \in BOOLEAN, RunCall(t, b)
      PROVE  RemovalInv'
  BY <1>d, <1>4 DEF RunCall, SlotSame, opVars
<1>5. ASSUME NEW t \in Threads, PushMap(t)
      PROVE  RemovalInv'
  BY <1>d, <1>5 DEF PushMap, SlotSame, TypeOK
<1>6. ASSUME NEW t \in Threads, PushQueue(t)
      PROVE  RemovalInv'
  <2>1. /\ UNCHANGED <<slot, victim, todo>>
        /\ msg' = [msg EXCEPT ![t] = None]
        /\ pc' = [pc EXCEPT ![t] = "user"]
    BY <1>6 DEF PushQueue
  <2>2. LiveMsg'
    BY <2>1 DEF RemovalInv, LiveMsg, TypeOK
  <2>3. OneDestroyer'
    BY <2>1 DEF RemovalInv, OneDestroyer
  <2>4. ScannedClean'
    BY <1>c, <2>1 DEF TypeOK
  <2> QED BY <1>b, <2>1, <2>2, <2>3, <2>4 DEF RemovalInv
<1>7. ASSUME NEW t \in Threads, RunStep(t)
      PROVE  RemovalInv'
  <2>1. UNCHANGED <<opVars, slot>>
    BY <1>7 DEF RunStep, RunMap, RunLock, RunPop, RunEmpty, RunReturn
  <2> QED BY <1>d, <2>1 DEF SlotSame, opVars
<1>8. ASSUME NEW t \in Threads, RemoveLock(t)
      PROVE  RemovalInv'
  <2>1. /\ UNCHANGED <<slot, victim, msg>>
        /\ todo' = [todo EXCEPT ![t] = Threads]
        /\ pc' = [pc EXCEPT ![t] = "remove_scan"]
        /\ \A v \in Threads : pc[v] \notin {"remove_scan", "remove_erase"}
    BY <1>8, ThreadAssumption DEF RemoveLock, LockInv
  <2>2. ScannedClean'
    BY <2>1 DEF ScannedClean, TypeOK
  <2>3. LiveMsg' /\ OneDestroyer'
    BY <2>1 DEF RemovalInv, LiveMsg, OneDestroyer
  <2> QED BY <1>b, <2>1, <2>2, <2>3 DEF RemovalInv
<1>9. ASSUME NEW t \in Threads, NEW u \in Threads, RemoveEnter(t, u)
      PROVE  RemovalInv'
  BY <1>d, <1>9 DEF RemoveEnter, SlotSame, TypeOK
<1>10. ASSUME NEW t \in Threads, NEW u \in Threads, RemoveErase(t, u)
       PROVE  RemovalInv'
  BY <1>d, <1>10 DEF RemoveErase, SlotSame, opVars
<1>11. ASSUME NEW t \in Threads, NEW u \in Threads, RemoveLeave(t, u)
       PROVE  RemovalInv'
  <2>1. /\ UNCHANGED <<slot, victim, msg, queue, cur>>
        /\ todo' = [todo EXCEPT ![t] = @ \ {u}]
        /\ pc[t] = "remove_erase" /\ pc' = [pc EXCEPT ![t] = "remove_scan"]
        /\ \A k \in DOMAIN queue[u] : queue[u][k].obj # victim[t]
    BY <1>11 DEF RemoveLeave, runVars
  <2>2. LiveMsg' /\ OneDestroyer'
    BY <2>1 DEF RemovalInv, LiveMsg, OneDestroyer
  <2>3. cur[u] = None
    BY <1>11 DEF RemoveLeave, LockInv, Erasing, InQueue, TypeOK
  <2>4. queue[u] \in Seq(ItemsOfOthers(victim[t]))
    <3>1. Len(queue[u]) \in Nat /\ queue[u] \in [1 .. Len(queue[u]) -> Items]
          /\ DOMAIN queue[u] = 1 .. Len(queue[u])
      BY LenProperties DEF TypeOK
    <3>2. \A k \in DOMAIN queue[u] : queue[u][k] \in ItemsOfOthers(victim[t])
      BY <2>1, <3>1 DEF ItemsOfOthers
    <3> QED BY <3>2, Narrow DEF TypeOK
  <2>5. Clean(u, victim[t])
    BY <2>3, <2>4 DEF Clean
  <2>6. ScannedClean'
    <3> SUFFICES ASSUME NEW v \in Threads, pc'[v] \in {"remove_scan", "remove_erase"},
                        NEW w \in Threads \ todo'[v]
                 PROVE  Clean(w, victim[v])
      BY <2>1 DEF ScannedClean, Clean, ItemsOfOthers
    <3>1. pc[v] \in {"remove_scan", "remove_erase"}
      BY <2>1 DEF TypeOK
    <3>2. CASE w \in todo[v]
      <4>1. v = t /\ w = u
        BY <2>1, <3>2 DEF TypeOK
      <4> QED BY <4>1, <2>5
    <3>3. CASE w \notin todo[v]
      BY <3>1, <3>3 DEF RemovalInv, ScannedClean
    <3> QED BY <3>2, <3>3
  <2> QED BY <1>b, <2>1, <2>2, <2>6 DEF RemovalInv
<1>12. ASSUME NEW t \in Threads, RemoveReturn(t)
       PROVE  RemovalInv'
  <2>1. /\ UNCHANGED <<msg, queue, cur, todo>>
        /\ pc[t] = "remove_scan" /\ pc' = [pc EXCEPT ![t] = "user"]
        /\ todo[t] = {}
        /\ slot' = [slot EXCEPT ![victim[t]] = "dead"]
        /\ victim' = [victim EXCEPT ![t] = None]
    BY <1>12 DEF RemoveReturn, runVars
  <2>2. victim[t] \in Objects /\ victim[t] # None /\ slot[victim[t]] = "dying"
    BY <2>1 DEF TypeOK, RemovalInv, OneDestroyer
  <2>3. LiveMsg'
    <3> SUFFICES ASSUME NEW u \in Threads, msg[u] # None
                 PROVE  slot'[msg[u].obj] = "live"
      BY <2>1 DEF LiveMsg
    <3>1. msg[u].obj \in Objects /\ slot[msg[u].obj] = "live"
      BY DEF TypeOK, Items, RemovalInv, LiveMsg
    <3> QED BY <2>1, <2>2, <3>1 DEF TypeOK
  <2>4. OneDestroyer'
    BY <2>1, <2>2 DEF TypeOK, RemovalInv, OneDestroyer
  <2>5. \A u \in Threads : Clean(u, victim[t])
    BY <2>1 DEF RemovalInv, ScannedClean
  <2>a. \A u \in Threads, o \in Objects : Clean(u, o)' <=> Clean(u, o)
    BY <2>1 DEF Clean, ItemsOfOthers
  <2>6. DeadClean'
    <3> SUFFICES ASSUME NEW o \in Objects, slot'[o] = "dead", NEW u \in Threads
                 PROVE  Clean(u, o)
      BY <2>a DEF DeadClean
    <3>1. CASE o = victim[t]
      BY <2>5, <3>1
    <3>2. CASE o # victim[t]
      <4>1. slot[o] = "dead"
        BY <2>1, <3>2 DEF TypeOK
      <4> QED BY <4>1 DEF RemovalInv, DeadClean
    <3> QED BY <3>1, <3>2
  <2>7. ScannedClean'
    <3> SUFFICES ASSUME NEW v \in Threads, pc'[v] \in {"remove_scan", "remove_erase"},
                        NEW u \in Threads \ todo[v]
                 PROVE  victim'[v] \in Objects /\ Clean(u, victim'[v])
      BY <2>1, <2>a DEF ScannedClean
    <3>1. v # t /\ pc[v] \in {"remove_scan", "remove_erase"}
      BY <2>1 DEF TypeOK
    <3>2. victim'[v] = victim[v] /\ victim[v] \in Objects
      BY <2>1, <3>1 DEF TypeOK
    <3> QED BY <3>1, <3>2 DEF RemovalInv, ScannedClean
  <2> QED BY <2>3, <2>4, <2>6, <2>7 DEF RemovalInv
<1>13. CASE UNCHANGED vars
  BY <1>d, <1>13 DEF vars, SlotSame, opVars
<1> QED BY <1>1, <1>2, <1>3, <1>4, <1>5, <1>6, <1>7, <1>8, <1>9, <1>10, <1>11,
          <1>12, <1>13
       DEF Next, Progress, PushStep, RemoveStep

(* After RemoveFromQueue has returned in ~ISlot no thread can reach the    *)
(* slot through a queue, whatever callbacks do: the slot may be freed.     *)
THEOREM SafeToDestroy == Spec => []NoUseAfterRemoval
<1>1. TypeOK /\ RemovalInv => NoUseAfterRemoval
  <2> SUFFICES ASSUME TypeOK, RemovalInv,
                      NEW o \in Objects, slot[o] = "dead", NEW t \in Threads
               PROVE  /\ cur[t] # None => cur[t].obj # o
                      /\ msg[t] # None => msg[t].obj # o
                      /\ \A k \in DOMAIN queue[t] : queue[t][k].obj # o
    BY DEF NoUseAfterRemoval
  <2>1. queue[t] \in Seq(ItemsOfOthers(o)) /\ cur[t] \in ItemsOfOthers(o) \cup {None}
    BY DEF RemovalInv, DeadClean, Clean
  <2>2. \A k \in DOMAIN queue[t] : queue[t][k] \in ItemsOfOthers(o)
    BY <2>1, LenProperties
  <2> QED BY <2>1, <2>2 DEF ItemsOfOthers, RemovalInv, LiveMsg
<1> QED BY <1>1, RemovalInit, RemovalStep, TypeCorrect, LocksHeld, PTL DEF Spec

(* Both together are what a run checks of the queues.                      *)
THEOREM QueuesAreSound == Spec => []QueuesSound
BY TypeCorrect, SafeToDestroy, PTL DEF QueuesSound

----------------------------------------------------------------------------
(* Erasing a position of a sequence                                        *)

(* Where the j-th element was before position k was erased.                *)
Before(j, k) == IF j < k THEN j ELSE j + 1

(* The elements after an erase are those before it, in the same order,     *)
(* without the one at k.                                                   *)
LEMMA EraseElements ==
  ASSUME NEW S, NEW s \in Seq(S), NEW k \in DOMAIN s
  PROVE  /\ DOMAIN RemoveAt(s, k) = 1 .. Len(s) - 1
         /\ \A j \in 1 .. Len(s) - 1 :
              /\ Before(j, k) \in DOMAIN s
              /\ RemoveAt(s, k)[j] = s[Before(j, k)]
<1>1. /\ k \in Int /\ k \in 1 .. Len(s) /\ Len(s) \in Nat
      /\ DOMAIN s = 1 .. Len(s) /\ \A i \in 1 .. Len(s) : s[i] \in S
  BY LenProperties
<1> DEFINE a == SubSeq(s, 1, k - 1)
           b == SubSeq(s, k + 1, Len(s))
<1>2. /\ a \in Seq(S) /\ Len(a) = k - 1
      /\ \A i \in 1 .. k - 1 : a[i] = s[i]
  <2>1. \A i \in 1 .. k - 1 : s[i] \in S
    BY <1>1
  <2>2. /\ a \in Seq(S) /\ Len(a) = IF 1 <= k - 1 THEN (k - 1) - 1 + 1 ELSE 0
        /\ \A i \in 1 .. (k - 1) - 1 + 1 : a[i] = s[1 + i - 1]
    BY <1>1, <2>1, SubSeqProperties
  <2> HIDE DEF a
  <2> QED BY <1>1, <2>2
<1>3. /\ b \in Seq(S) /\ Len(b) = Len(s) - k
      /\ \A i \in 1 .. Len(s) - k : b[i] = s[k + i]
  <2>1. \A i \in k + 1 .. Len(s) : s[i] \in S
    BY <1>1
  <2>2. /\ b \in Seq(S)
        /\ Len(b) = IF k + 1 <= Len(s) THEN Len(s) - (k + 1) + 1 ELSE 0
        /\ \A i \in 1 .. Len(s) - (k + 1) + 1 : b[i] = s[(k + 1) + i - 1]
    BY <1>1, <2>1, SubSeqProperties
  <2> HIDE DEF b
  <2>3. Len(b) = Len(s) - k
    BY <1>1, <2>2
  <2>4. ASSUME NEW i \in 1 .. Len(s) - k PROVE b[i] = s[k + i]
    <3>1. i \in 1 .. Len(s) - (k + 1) + 1 /\ (k + 1) + i - 1 = k + i
      BY <1>1
    <3> QED BY <2>2, <3>1
  <2> QED BY <2>2, <2>3, <2>4
<1>4. RemoveAt(s, k) = a \o b
  BY DEF RemoveAt
<1> HIDE DEF a, b
<1>5. /\ a \o b \in Seq(S) /\ Len(a \o b) = Len(s) - 1
      /\ \A i \in 1 .. Len(s) - 1 :
           (a \o b)[i] = IF i <= k - 1 THEN a[i] ELSE b[i - (k - 1)]
  <2>1. Len(a) + Len(b) = Len(s) - 1
    BY <1>1, <1>2, <1>3
  <2>2. /\ a \o b \in Seq(S) /\ Len(a \o b) = Len(a) + Len(b)
        /\ \A i \in 1 .. Len(a) + Len(b) :
             (a \o b)[i] = IF i <= Len(a) THEN a[i] ELSE b[i - Len(a)]
    BY <1>2, <1>3, ConcatProperties
  <2> QED BY <1>2, <2>1, <2>2
<1>6. DOMAIN (a \o b) = 1 .. Len(s) - 1
  BY <1>5, LenProperties
<1>7. ASSUME NEW j \in 1 .. Len(s) - 1
      PROVE  Before(j, k) \in DOMAIN s /\ (a \o b)[j] = s[Before(j, k)]
  <2>1. CASE j < k
    BY <1>1, <1>2, <1>5, <2>1 DEF Before
  <2>2. CASE ~(j < k)
    <3>1. /\ Before(j, k) = j + 1 /\ j + 1 \in 1 .. Len(s)
          /\ j - (k - 1) \in 1 .. Len(s) - k
          /\ k + (j - (k - 1)) = j + 1 /\ ~(j <= k - 1)
      BY <1>1, <2>2 DEF Before
    <3>2. (a \o b)[j] = b[j - (k - 1)]
      BY <1>5, <3>1
    <3>3. b[j - (k - 1)] = s[j + 1]
      BY <1>3, <3>1
    <3> QED BY <1>1, <3>1, <3>2, <3>3
  <2> QED BY <2>1, <2>2
<1> QED BY <1>4, <1>6, <1>7

(* Only the element at k is gone.                                          *)
LEMMA EraseKeepsOthers ==
  ASSUME NEW S, NEW s \in Seq(S), NEW k \in DOMAIN s,
         NEW i \in DOMAIN s, i # k
  PROVE  InSeq(s[i], RemoveAt(s, k))
<1>1. k \in 1 .. Len(s) /\ i \in 1 .. Len(s) /\ Len(s) \in Nat
  BY LenProperties
<1>2. CASE i < k
  <2>1. i \in 1 .. Len(s) - 1 /\ Before(i, k) = i
    BY <1>1, <1>2 DEF Before
  <2>2. /\ DOMAIN RemoveAt(s, k) = 1 .. Len(s) - 1
        /\ RemoveAt(s, k)[i] = s[Before(i, k)]
    BY <2>1, EraseElements
  <2> QED BY <2>1, <2>2 DEF InSeq
<1>3. CASE i > k
  <2>1. i - 1 \in 1 .. Len(s) - 1 /\ Before(i - 1, k) = i
    BY <1>1, <1>3 DEF Before
  <2>2. /\ DOMAIN RemoveAt(s, k) = 1 .. Len(s) - 1
        /\ RemoveAt(s, k)[i - 1] = s[Before(i - 1, k)]
    BY <2>1, EraseElements
  <2> QED BY <2>1, <2>2 DEF InSeq
<1> QED BY <1>1, <1>2, <1>3

----------------------------------------------------------------------------
(* The order of the callbacks of one sender                                *)

(* In what a thread has executed and in what still waits, the callbacks of *)
(* each sender come in the order of its pushes, and those executed come    *)
(* before those that wait.                                                 *)
Ascending(s) ==
  \A j, k \in DOMAIN s : j < k /\ s[j].from = s[k].from => s[j].n < s[k].n
Precedes(l, q) ==
  \A j \in DOMAIN l, k \in DOMAIN q : l[j].from = q[k].from => l[j].n < q[k].n
Ordered(l, q) == Ascending(l) /\ Ascending(q) /\ Precedes(l, q)

(* Appending the sender's newest callback keeps a sequence ascending.      *)
LEMMA AppendAscending ==
  ASSUME NEW s \in Seq(Items), NEW i \in Items, Ascending(s),
         \A k \in DOMAIN s : s[k].from = i.from => s[k].n < i.n
  PROVE  Ascending(Append(s, i))
<1>1. /\ Len(s) \in Nat /\ DOMAIN s = 1 .. Len(s)
      /\ DOMAIN Append(s, i) = 1 .. Len(s) + 1
      /\ \A k \in 1 .. Len(s) : Append(s, i)[k] = s[k]
      /\ Append(s, i)[Len(s) + 1] = i
  BY LenProperties, AppendProperties
<1> DEFINE r == Append(s, i)
<1> HIDE DEF r
<1> SUFFICES ASSUME NEW j \in DOMAIN r, NEW k \in DOMAIN r,
                    j < k, r[j].from = r[k].from
             PROVE  r[j].n < r[k].n
  BY DEF Ascending, r
<1>2. j \in 1 .. Len(s) /\ r[j] = s[j]
  BY <1>1 DEF r
<1>3. CASE k = Len(s) + 1
  BY <1>1, <1>2, <1>3 DEF r
<1>4. CASE k # Len(s) + 1
  <2>1. k \in 1 .. Len(s) /\ r[k] = s[k]
    BY <1>1, <1>4 DEF r
  <2> QED BY <1>1, <1>2, <2>1 DEF Ascending
<1> QED BY <1>3, <1>4

(* Pushing a sender's newest callback keeps the order.                     *)
LEMMA PostOrdered ==
  ASSUME NEW l \in Seq(Items), NEW q \in Seq(Items), NEW i \in Items,
         Ordered(l, q),
         \A k \in DOMAIN l : l[k].from = i.from => l[k].n < i.n,
         \A k \in DOMAIN q : q[k].from = i.from => q[k].n < i.n
  PROVE  Ordered(l, Append(q, i))
<1>1. /\ Len(q) \in Nat /\ DOMAIN q = 1 .. Len(q)
      /\ DOMAIN Append(q, i) = 1 .. Len(q) + 1
      /\ \A k \in 1 .. Len(q) : Append(q, i)[k] = q[k]
      /\ Append(q, i)[Len(q) + 1] = i
  BY LenProperties, AppendProperties
<1>2. Ascending(Append(q, i))
  BY AppendAscending DEF Ordered
<1>3. Precedes(l, Append(q, i))
  BY <1>1 DEF Ordered, Precedes
<1> QED BY <1>2, <1>3 DEF Ordered

(* So does executing at once a callback that no queued one competes with.  *)
LEMMA InlineOrdered ==
  ASSUME NEW l \in Seq(Items), NEW q \in Seq(Items), NEW i \in Items,
         Ordered(l, q),
         \A k \in DOMAIN l : l[k].from = i.from => l[k].n < i.n,
         \A k \in DOMAIN q : q[k].from # i.from
  PROVE  Ordered(Append(l, i), q)
<1>1. /\ Len(l) \in Nat /\ DOMAIN l = 1 .. Len(l)
      /\ DOMAIN Append(l, i) = 1 .. Len(l) + 1
      /\ \A k \in 1 .. Len(l) : Append(l, i)[k] = l[k]
      /\ Append(l, i)[Len(l) + 1] = i
  BY LenProperties, AppendProperties
<1>2. Ascending(Append(l, i))
  BY AppendAscending DEF Ordered
<1>3. Precedes(Append(l, i), q)
  BY <1>1 DEF Ordered, Precedes
<1> QED BY <1>2, <1>3 DEF Ordered

(* So does moving the head of the queue to the executed callbacks.         *)
LEMMA PopOrdered ==
  ASSUME NEW l \in Seq(Items), NEW q \in Seq(Items), q # <<>>, Ordered(l, q)
  PROVE  Ordered(Append(l, Head(q)), Tail(q))
<1>1. /\ Len(q) \in Nat /\ Len(q) >= 1 /\ DOMAIN q = 1 .. Len(q)
      /\ Head(q) = q[1] /\ Head(q) \in Items
      /\ DOMAIN Tail(q) = 1 .. Len(q) - 1
      /\ \A k \in 1 .. Len(q) - 1 : Tail(q)[k] = q[k + 1]
  BY LenProperties, HeadTailProperties, EmptySeq
<1>2. Ascending(Append(l, Head(q)))
  BY <1>1, AppendAscending DEF Ordered, Precedes
<1>3. Ascending(Tail(q))
  BY <1>1 DEF Ordered, Ascending
<1>4. /\ Len(l) \in Nat /\ DOMAIN l = 1 .. Len(l)
      /\ DOMAIN Append(l, Head(q)) = 1 .. Len(l) + 1
      /\ \A k \in 1 .. Len(l) : Append(l, Head(q))[k] = l[k]
      /\ Append(l, Head(q))[Len(l) + 1] = q[1]
  BY <1>1, LenProperties, AppendProperties
<1>5. ASSUME NEW k \in 1 .. Len(q) - 1
      PROVE  /\ k + 1 \in DOMAIN q /\ 1 \in DOMAIN q /\ 1 < k + 1
             /\ Tail(q)[k] = q[k + 1]
  BY <1>1
<1>6. Precedes(Append(l, Head(q)), Tail(q))
  BY <1>1, <1>4, <1>5 DEF Ordered, Ascending, Precedes
<1> QED BY <1>2, <1>3, <1>6 DEF Ordered

(* So does erasing a queued callback.                                      *)
LEMMA EraseOrdered ==
  ASSUME NEW l \in Seq(Items), NEW q \in Seq(Items), NEW k \in DOMAIN q,
         Ordered(l, q)
  PROVE  Ordered(l, RemoveAt(q, k))
<1>1. /\ Len(q) \in Nat /\ DOMAIN q = 1 .. Len(q)
      /\ DOMAIN RemoveAt(q, k) = 1 .. Len(q) - 1
      /\ \A j \in 1 .. Len(q) - 1 :
           Before(j, k) \in DOMAIN q /\ RemoveAt(q, k)[j] = q[Before(j, k)]
  BY LenProperties, EraseElements
<1>2. \A i, j \in 1 .. Len(q) - 1 : i < j => Before(i, k) < Before(j, k)
  BY <1>1 DEF Before
<1>3. Ascending(RemoveAt(q, k))
  BY <1>1, <1>2 DEF Ordered, Ascending
<1>4. Precedes(l, RemoveAt(q, k))
  BY <1>1 DEF Ordered, Precedes
<1> QED BY <1>3, <1>4 DEF Ordered

----------------------------------------------------------------------------
(* The invariant behind QueuesDeliver                                      *)

(* A callback that has reached a queue or was executed is older than the   *)
(* one its sender is delivering.                                           *)
Settled(i) ==
  /\ i.n <= sent[i.from]
  /\ msg[i.from] # None => i.n < msg[i.from].n

(* The same of the state after a step, for a callback named before it.     *)
SettledNext(i) ==
  /\ i.n <= sent'[i.from]
  /\ msg'[i.from] # None => i.n < msg'[i.from].n

(* The callback a thread is delivering is its last one, for another thread.*)
MsgIsLatest ==
  \A t \in Threads : msg[t] # None =>
    /\ msg[t].from = t /\ msg[t].to # t
    /\ msg[t].n = sent[t] /\ sent[t] \in 1 .. MaxPush

AllSettled ==
  \A t \in Threads :
    /\ \A k \in DOMAIN log[t] : Settled(log[t][k])
    /\ \A k \in DOMAIN queue[t] : Settled(queue[t][k]) /\ queue[t][k].from # t

AllOrdered == \A t \in Threads : Ordered(log[t], queue[t])

(* QueuesDeliver speaks of executed callbacks; that no step breaks it      *)
(* depends on the order of those that wait and of those on their way.      *)
DeliveryInv == MsgIsLatest /\ AllSettled /\ AllOrdered /\ NoneLost

LEMMA DeliveryInit == Init => DeliveryInv
BY DEF Init, DeliveryInv, MsgIsLatest, AllSettled, AllOrdered, Ordered, Ascending,
       Precedes, NoneLost

(* Elements of the queues and logs are callbacks.                          *)
LEMMA Elements ==
  ASSUME TypeOK, NEW t \in Threads
  PROVE  /\ queue[t] \in Seq(Items) /\ log[t] \in Seq(Items)
         /\ \A k \in DOMAIN queue[t] : queue[t][k] \in Items
         /\ \A k \in DOMAIN log[t] : log[t][k] \in Items
<1>1. queue[t] \in Seq(Items) /\ log[t] \in Seq(Items)
  BY DEF TypeOK
<1> QED BY <1>1, LenProperties

(* The executed callback, or the one pushed, is found where it was put.    *)
LEMMA InAppend ==
  ASSUME NEW s \in Seq(Items), NEW i \in Items
  PROVE  /\ InSeq(i, Append(s, i))
         /\ \A j : InSeq(j, s) => InSeq(j, Append(s, i))
<1>1. /\ Len(s) \in Nat /\ DOMAIN s = 1 .. Len(s)
      /\ DOMAIN Append(s, i) = 1 .. Len(s) + 1
      /\ \A k \in 1 .. Len(s) : Append(s, i)[k] = s[k]
      /\ Append(s, i)[Len(s) + 1] = i
  BY LenProperties, AppendProperties
<1> QED BY <1>1 DEF InSeq

(* A callback that waited and was not the head still waits after a pop.    *)
LEMMA InTail ==
  ASSUME NEW s \in Seq(Items), s # <<>>, NEW i, InSeq(i, s), i # Head(s)
  PROVE  InSeq(i, Tail(s))
<1>1. PICK k \in DOMAIN s : s[k] = i
  BY DEF InSeq
<1>2. /\ Len(s) \in Nat /\ DOMAIN s = 1 .. Len(s) /\ Head(s) = s[1]
      /\ DOMAIN Tail(s) = 1 .. Len(s) - 1
      /\ \A j \in 1 .. Len(s) - 1 : Tail(s)[j] = s[j + 1]
  BY LenProperties, HeadTailProperties
<1>3. k - 1 \in 1 .. Len(s) - 1 /\ (k - 1) + 1 = k
  BY <1>1, <1>2
<1> QED BY <1>1, <1>2, <1>3 DEF InSeq

(* A step that moves no callback keeps the invariant; slots may only die.  *)
LEMMA DeliveryFrame ==
  ASSUME DeliveryInv, UNCHANGED <<queue, msg, sent, issued, log>>,
         \A i \in issued : slot'[i.obj] = "live" => slot[i.obj] = "live"
  PROVE  DeliveryInv'
<1>1. MsgIsLatest' /\ AllSettled'
  BY DEF DeliveryInv, MsgIsLatest, AllSettled, Settled
<1>2. AllOrdered' /\ NoneLost'
  BY DEF DeliveryInv, AllOrdered, NoneLost, Ordered, Ascending, Precedes, InSeq
<1> QED BY <1>1, <1>2 DEF DeliveryInv

(* A callback that reaches a queue keeps its place among its sender's.     *)
LEMMA PushKeepsDelivery ==
  ASSUME TypeOK, DeliveryInv, NEW t \in Threads, PushQueue(t)
  PROVE  DeliveryInv'
<1> USE NoneAssumption
<1> DEFINE m == msg[t]
           u == msg[t].to
<1>1. /\ m \in Items /\ m # None /\ u \in Threads /\ m.from = t /\ u # t
      /\ m.n = sent[t] /\ m.n \in Nat
  BY DEF PushQueue, TypeOK, DeliveryInv, MsgIsLatest, Items
<1>2. /\ queue' = [queue EXCEPT ![u] = Append(queue[u], m)]
      /\ msg' = [msg EXCEPT ![t] = None]
      /\ UNCHANGED <<sent, issued, log, slot>>
  BY DEF PushQueue, history
<1> HIDE DEF m, u
<1>3. MsgIsLatest'
  BY <1>2 DEF DeliveryInv, MsgIsLatest, TypeOK
<1>4. ASSUME NEW i \in Items, Settled(i) PROVE SettledNext(i)
  BY <1>2, <1>4 DEF Settled, SettledNext, TypeOK, Items
<1>5. SettledNext(m)
  BY <1>1, <1>2 DEF SettledNext, TypeOK
<1>6. ASSUME NEW v \in Threads
      PROVE  /\ \A k \in DOMAIN log[v] : SettledNext(log[v][k])
             /\ \A k \in DOMAIN queue[v] :
                  SettledNext(queue[v][k]) /\ queue[v][k].from # v
  BY <1>4, Elements DEF DeliveryInv, AllSettled
<1>7. /\ Len(queue[u]) \in Nat /\ DOMAIN queue[u] = 1 .. Len(queue[u])
      /\ queue'[u] = Append(queue[u], m)
      /\ DOMAIN queue'[u] = 1 .. Len(queue[u]) + 1
      /\ \A k \in 1 .. Len(queue[u]) : queue'[u][k] = queue[u][k]
      /\ queue'[u][Len(queue[u]) + 1] = m
  BY <1>1, <1>2, Elements, LenProperties, AppendProperties DEF TypeOK
<1>8. \A v \in Threads \ {u} : queue'[v] = queue[v]
  BY <1>2 DEF TypeOK
<1>9. AllSettled'
  <2> SUFFICES ASSUME NEW v \in Threads
               PROVE  /\ \A k \in DOMAIN log[v] : SettledNext(log[v][k])
                      /\ \A k \in DOMAIN queue'[v] :
                           SettledNext(queue'[v][k]) /\ queue'[v][k].from # v
    BY <1>2 DEF AllSettled, Settled, SettledNext
  <2>1. CASE v = u
    <3> SUFFICES ASSUME NEW k \in DOMAIN queue'[u]
                 PROVE  SettledNext(queue'[u][k]) /\ queue'[u][k].from # u
      BY <1>6, <2>1
    <3>1. CASE k = Len(queue[u]) + 1
      BY <1>1, <1>5, <1>7, <3>1
    <3>2. CASE k # Len(queue[u]) + 1
      <4>1. k \in DOMAIN queue[u] /\ queue'[u][k] = queue[u][k]
        BY <1>7, <3>2
      <4> QED BY <1>1, <1>6, <4>1
    <3> QED BY <3>1, <3>2
  <2>2. CASE v # u
    BY <1>6, <1>8, <2>2
  <2> QED BY <2>1, <2>2
<1>10. AllOrdered'
  <2>1. /\ \A k \in DOMAIN log[u] : log[u][k].from = m.from => log[u][k].n < m.n
        /\ \A k \in DOMAIN queue[u] : queue[u][k].from = m.from => queue[u][k].n < m.n
    BY <1>1 DEF DeliveryInv, AllSettled, Settled, m
  <2>2. Ordered(log[u], queue[u]) /\ queue[u] \in Seq(Items) /\ log[u] \in Seq(Items)
    BY <1>1, Elements DEF DeliveryInv, AllOrdered
  <2>3. Ordered(log[u], queue'[u])
    BY <1>1, <1>7, <2>1, <2>2, PostOrdered
  <2>4. \A v \in Threads : Ordered(log[v], queue'[v])
    BY <1>8, <2>3 DEF DeliveryInv, AllOrdered
  <2> QED BY <1>2, <2>4 DEF AllOrdered
<1>11. NoneLost'
  <2> SUFFICES ASSUME NEW i \in issued, slot[i.obj] = "live"
               PROVE  msg'[i.from] = i \/ InSeq(i, queue'[i.to]) \/ InSeq(i, log[i.to])
    BY <1>2 DEF NoneLost
  <2>1. i \in Items /\ i.from \in Threads /\ i.to \in Threads
    BY DEF TypeOK, Items
  <2>2. CASE InSeq(i, log[i.to])
    BY <2>2
  <2>3. CASE InSeq(i, queue[i.to])
    <3>1. CASE i.to = u
      <4>1. queue[u] \in Seq(Items) /\ InSeq(i, queue[u])
        BY <1>1, <2>3, <3>1, Elements
      <4> QED BY ZenonT(40), <1>1, <1>7, <3>1, <4>1, InAppend
    <3>2. CASE i.to # u
      BY <1>8, <2>1, <2>3, <3>2
    <3> QED BY <3>1, <3>2
  <2>4. CASE msg[i.from] = i
    <3>1. CASE i.from = t
      <4>1. i = m /\ i.to = u
        BY <2>4, <3>1 DEF m, u
      <4>2. queue[u] \in Seq(Items)
        BY <1>1, Elements
      <4> QED BY <1>1, <1>7, <4>1, <4>2, InAppend
    <3>2. CASE i.from # t
      BY <1>2, <2>1, <2>4, <3>2 DEF TypeOK
    <3> QED BY <3>1, <3>2
  <2> QED BY <2>2, <2>3, <2>4 DEF DeliveryInv, NoneLost
<1> QED BY <1>3, <1>9, <1>10, <1>11 DEF DeliveryInv

(* A new callback is newer than all the sender pushed before.              *)
LEMMA CallKeepsDelivery ==
  ASSUME TypeOK, DeliveryInv,
         NEW t \in Threads, NEW u \in Threads, NEW o \in Objects, PushCall(t, u, o)
  PROVE  DeliveryInv'
<1> USE NoneAssumption, BoundAssumption
<1> DEFINE m == NewItem(t, u, o)
<1>1. /\ m \in Items /\ m # None /\ m.from = t /\ m.to = u /\ u # t
      /\ m.n = sent[t] + 1 /\ sent[t] \in Nat /\ sent[t] < MaxPush /\ msg[t] = None
  <2>1. m.from = t /\ m.to = u /\ m.n = sent[t] + 1
    BY DEF NewItem
  <2>2. m \in Items
    BY ItemType
  <2>3. pc[t] = "user" /\ u # t /\ sent[t] < MaxPush
    BY DEF PushCall, CanPush, InUserCode
  <2>4. sent[t] \in Nat /\ msg[t] = None
    BY <2>3 DEF TypeOK
  <2> QED BY <2>1, <2>2, <2>3, <2>4
<1>2. /\ sent' = [sent EXCEPT ![t] = m.n]
      /\ msg' = [msg EXCEPT ![t] = m]
      /\ issued' = issued \cup {m}
      /\ UNCHANGED <<queue, log, slot>>
  BY DEF PushCall, Issue
<1> HIDE DEF m
<1>3. MsgIsLatest'
  <2> SUFFICES ASSUME NEW v \in Threads, msg'[v] # None
               PROVE  /\ msg'[v].from = v /\ msg'[v].to # v
                      /\ msg'[v].n = sent'[v] /\ sent'[v] \in 1 .. MaxPush
    BY DEF MsgIsLatest
  <2>1. CASE v = t
    <3>1. msg'[v] = m /\ sent'[v] = sent[t] + 1
      BY <1>1, <1>2, <2>1 DEF TypeOK
    <3> QED BY <1>1, <2>1, <3>1
  <2>2. CASE v # t
    BY <1>2, <2>2 DEF DeliveryInv, MsgIsLatest, TypeOK
  <2> QED BY <2>1, <2>2
<1>4. ASSUME NEW i \in Items, Settled(i) PROVE SettledNext(i)
  <2>1. i.from \in Threads /\ i.n \in Nat
    BY DEF Items
  <2>2. CASE i.from = t
    <3>1. i.n <= sent[t] /\ msg'[i.from] = m /\ sent'[i.from] = sent[t] + 1
      BY <1>1, <1>2, <1>4, <2>2 DEF Settled, TypeOK
    <3> QED BY <1>1, <2>1, <3>1 DEF SettledNext
  <2>3. CASE i.from # t
    BY <1>2, <1>4, <2>1, <2>3 DEF Settled, SettledNext, TypeOK
  <2> QED BY <2>2, <2>3
<1>5. AllSettled'
  <2>1. ASSUME NEW v \in Threads
        PROVE  /\ \A k \in DOMAIN log[v] : SettledNext(log[v][k])
               /\ \A k \in DOMAIN queue[v] :
                    SettledNext(queue[v][k]) /\ queue[v][k].from # v
    BY <1>4, Elements DEF DeliveryInv, AllSettled
  <2> QED BY <1>2, <2>1 DEF AllSettled, Settled, SettledNext
<1>6. AllOrdered'
  BY <1>2 DEF DeliveryInv, AllOrdered, Ordered, Ascending, Precedes
<1>7. NoneLost'
  <2> SUFFICES ASSUME NEW i \in issued', slot[i.obj] = "live"
               PROVE  msg'[i.from] = i \/ InSeq(i, queue[i.to]) \/ InSeq(i, log[i.to])
    BY <1>2 DEF NoneLost, InSeq
  <2>1. CASE i = m
    BY <1>1, <1>2, <2>1 DEF TypeOK
  <2>2. CASE i # m
    <3>1. i \in issued /\ i \in Items /\ i.from \in Threads
      BY <1>2, <2>2 DEF TypeOK, Items
    <3>2. msg[i.from] = i \/ InSeq(i, queue[i.to]) \/ InSeq(i, log[i.to])
      BY <3>1 DEF DeliveryInv, NoneLost
    <3>3. msg[i.from] = i => i.from # t
      BY <1>1, <3>1
    <3> QED BY <1>2, <3>1, <3>2, <3>3 DEF TypeOK
  <2> QED BY <2>1, <2>2
<1> QED BY <1>3, <1>5, <1>6, <1>7 DEF DeliveryInv

(* A thread's push to itself is executed at once; no callback of its own   *)
(* waits in its queue.                                                     *)
LEMMA InlineKeepsDelivery ==
  ASSUME TypeOK, DeliveryInv, NEW t \in Threads, NEW o \in Objects, PushInline(t, o)
  PROVE  DeliveryInv'
<1> USE NoneAssumption
<1> DEFINE m == NewItem(t, t, o)
<1>1. /\ m \in Items /\ m # None /\ m.from = t /\ m.to = t
      /\ m.n = sent[t] + 1 /\ sent[t] \in Nat /\ msg[t] = None
  <2>1. m.from = t /\ m.to = t /\ m.n = sent[t] + 1
    BY DEF NewItem
  <2>2. m \in Items
    BY ItemType
  <2>3. pc[t] = "user"
    BY DEF PushInline, CanPush, InUserCode
  <2>4. sent[t] \in Nat /\ msg[t] = None
    BY <2>3 DEF TypeOK
  <2> QED BY <2>1, <2>2, <2>4
<1>2. /\ sent' = [sent EXCEPT ![t] = m.n]
      /\ log' = [log EXCEPT ![t] = Append(log[t], m)]
      /\ issued' = issued \cup {m}
      /\ UNCHANGED <<queue, msg, slot>>
  BY DEF PushInline, Issue, opVars
<1> HIDE DEF m
<1>3. MsgIsLatest'
  BY <1>1, <1>2 DEF DeliveryInv, MsgIsLatest, TypeOK
<1>4. ASSUME NEW i \in Items, Settled(i) PROVE SettledNext(i)
  <2>1. i.from \in Threads /\ i.n \in Nat
    BY DEF Items
  <2>2. CASE i.from = t
    <3>1. i.n <= sent[t] /\ msg'[i.from] = None /\ sent'[i.from] = sent[t] + 1
      BY <1>1, <1>2, <1>4, <2>2 DEF Settled, TypeOK
    <3> QED BY <1>1, <2>1, <3>1 DEF SettledNext
  <2>3. CASE i.from # t
    BY <1>2, <1>4, <2>1, <2>3 DEF Settled, SettledNext, TypeOK
  <2> QED BY <2>2, <2>3
<1>5. ASSUME NEW v \in Threads
      PROVE  /\ \A k \in DOMAIN log[v] : SettledNext(log[v][k])
             /\ \A k \in DOMAIN queue[v] :
                  SettledNext(queue[v][k]) /\ queue[v][k].from # v
  BY <1>4, Elements DEF DeliveryInv, AllSettled
<1>6. SettledNext(m)
  BY <1>1, <1>2 DEF SettledNext, TypeOK
<1>7. /\ Len(log[t]) \in Nat /\ DOMAIN log[t] = 1 .. Len(log[t])
      /\ log'[t] = Append(log[t], m)
      /\ DOMAIN log'[t] = 1 .. Len(log[t]) + 1
      /\ \A k \in 1 .. Len(log[t]) : log'[t][k] = log[t][k]
      /\ log'[t][Len(log[t]) + 1] = m
  BY <1>1, <1>2, Elements, LenProperties, AppendProperties DEF TypeOK
<1>8. \A v \in Threads \ {t} : log'[v] = log[v]
  BY <1>2 DEF TypeOK
<1>9. AllSettled'
  <2> SUFFICES ASSUME NEW v \in Threads
               PROVE  \A k \in DOMAIN log'[v] : SettledNext(log'[v][k])
    BY <1>2, <1>5 DEF AllSettled, Settled, SettledNext
  <2>1. CASE v = t
    <3> SUFFICES ASSUME NEW k \in DOMAIN log'[t] PROVE SettledNext(log'[t][k])
      BY <2>1
    <3>1. CASE k = Len(log[t]) + 1
      BY <1>6, <1>7, <3>1
    <3>2. CASE k # Len(log[t]) + 1
      <4>1. k \in DOMAIN log[t] /\ log'[t][k] = log[t][k]
        BY <1>7, <3>2
      <4> QED BY <1>5, <4>1
    <3> QED BY <3>1, <3>2
  <2>2. CASE v # t
    BY <1>5, <1>8, <2>2
  <2> QED BY <2>1, <2>2
<1>10. AllOrdered'
  <2>1. /\ \A k \in DOMAIN log[t] : log[t][k].from = m.from => log[t][k].n < m.n
        /\ \A k \in DOMAIN queue[t] : queue[t][k].from # m.from
    <3>1. \A k \in DOMAIN log[t] : log[t][k].n \in Nat /\ Settled(log[t][k])
      BY Elements DEF DeliveryInv, AllSettled, Items
    <3>2. \A k \in DOMAIN queue[t] : queue[t][k].from # t
      BY DEF DeliveryInv, AllSettled
    <3> QED BY <1>1, <3>1, <3>2 DEF Settled
  <2>2. Ordered(log[t], queue[t]) /\ queue[t] \in Seq(Items) /\ log[t] \in Seq(Items)
    BY Elements DEF DeliveryInv, AllOrdered
  <2>3. Ordered(log'[t], queue[t])
    BY <1>1, <1>7, <2>1, <2>2, InlineOrdered
  <2>4. \A v \in Threads : Ordered(log'[v], queue[v])
    BY <1>8, <2>3 DEF DeliveryInv, AllOrdered
  <2> QED BY <1>2, <2>4 DEF AllOrdered
<1>11. NoneLost'
  <2> SUFFICES ASSUME NEW i \in issued', slot[i.obj] = "live"
               PROVE  msg[i.from] = i \/ InSeq(i, queue[i.to]) \/ InSeq(i, log'[i.to])
    BY <1>2 DEF NoneLost
  <2>1. log[t] \in Seq(Items)
    BY Elements
  <2>2. CASE i = m
    BY ZenonT(40), <1>1, <1>7, <2>1, <2>2, InAppend
  <2>3. CASE i # m
    <3>1. i \in issued /\ i.to \in Threads
      BY <1>2, <2>3 DEF TypeOK, Items
    <3>2. msg[i.from] = i \/ InSeq(i, queue[i.to]) \/ InSeq(i, log[i.to])
      BY <3>1 DEF DeliveryInv, NoneLost
    <3>3. InSeq(i, log[i.to]) => InSeq(i, log'[i.to])
      <4>1. CASE i.to = t
        BY <1>1, <1>7, <2>1, <4>1, InAppend
      <4>2. CASE i.to # t
        BY <1>8, <3>1, <4>2
      <4> QED BY <4>1, <4>2
    <3> QED BY <3>2, <3>3
  <2> QED BY <2>2, <2>3
<1> QED BY <1>3, <1>9, <1>10, <1>11 DEF DeliveryInv

(* The callback that Run takes out is the oldest of its sender's, and is   *)
(* in the log from then on.                                                *)
LEMMA PopKeepsDelivery ==
  ASSUME TypeOK, DeliveryInv, NEW t \in Threads, RunPop(t)
  PROVE  DeliveryInv'
<1> DEFINE h == Head(queue[t])
<1>1. /\ queue[t] # <<>>
      /\ queue' = [queue EXCEPT ![t] = Tail(queue[t])]
      /\ log' = [log EXCEPT ![t] = Append(log[t], h)]
      /\ UNCHANGED <<msg, sent, issued, slot>>
  BY DEF RunPop, opVars
<1>2. /\ queue[t] \in Seq(Items) /\ log[t] \in Seq(Items) /\ h \in Items
  BY <1>1, Elements, HeadTailProperties
<1>3. /\ Len(queue[t]) \in Nat /\ DOMAIN queue[t] = 1 .. Len(queue[t])
      /\ 1 \in DOMAIN queue[t] /\ h = queue[t][1]
      /\ queue'[t] = Tail(queue[t])
      /\ DOMAIN queue'[t] = 1 .. Len(queue[t]) - 1
      /\ \A k \in 1 .. Len(queue[t]) - 1 : queue'[t][k] = queue[t][k + 1]
  <2>1. queue'[t] = Tail(queue[t])
    BY <1>1 DEF TypeOK
  <2>2. Len(queue[t]) \in Nat \ {0}
    BY <1>1, <1>2, EmptySeq
  <2>3. DOMAIN queue[t] = 1 .. Len(queue[t]) /\ h = queue[t][1]
    BY <1>2, LenProperties
  <2>4. /\ Tail(queue[t]) \in Seq(Items) /\ Len(Tail(queue[t])) = Len(queue[t]) - 1
        /\ \A k \in 1 .. Len(Tail(queue[t])) : Tail(queue[t])[k] = queue[t][k + 1]
    BY <1>1, <1>2, HeadTailProperties
  <2>5. DOMAIN Tail(queue[t]) = 1 .. Len(queue[t]) - 1
    BY <2>4, LenProperties
  <2> QED BY <2>1, <2>2, <2>3, <2>4, <2>5
<1> HIDE DEF h
<1>4. /\ Len(log[t]) \in Nat /\ DOMAIN log[t] = 1 .. Len(log[t])
      /\ log'[t] = Append(log[t], h)
      /\ DOMAIN log'[t] = 1 .. Len(log[t]) + 1
      /\ \A k \in 1 .. Len(log[t]) : log'[t][k] = log[t][k]
      /\ log'[t][Len(log[t]) + 1] = h
  BY <1>1, <1>2, LenProperties, AppendProperties DEF TypeOK
<1>5. \A v \in Threads \ {t} : log'[v] = log[v] /\ queue'[v] = queue[v]
  BY <1>1 DEF TypeOK
<1>6. MsgIsLatest'
  BY <1>1 DEF DeliveryInv, MsgIsLatest
<1>7. AllSettled'
  <2> SUFFICES ASSUME NEW v \in Threads
               PROVE  /\ \A k \in DOMAIN log'[v] : Settled(log'[v][k])
                      /\ \A k \in DOMAIN queue'[v] :
                           Settled(queue'[v][k]) /\ queue'[v][k].from # v
    BY <1>1 DEF AllSettled, Settled
  <2>1. /\ \A k \in DOMAIN log[v] : Settled(log[v][k])
        /\ \A k \in DOMAIN queue[v] : Settled(queue[v][k]) /\ queue[v][k].from # v
    BY DEF DeliveryInv, AllSettled
  <2>2. CASE v = t
    <3>1. ASSUME NEW k \in DOMAIN log'[t] PROVE Settled(log'[t][k])
      <4>1. CASE k = Len(log[t]) + 1
        BY <1>3, <1>4, <2>1, <2>2, <4>1
      <4>2. CASE k # Len(log[t]) + 1
        <5>1. k \in DOMAIN log[t] /\ log'[t][k] = log[t][k]
          BY <1>4, <4>2
        <5> QED BY <2>1, <2>2, <5>1
      <4> QED BY <4>1, <4>2
    <3>2. ASSUME NEW k \in DOMAIN queue'[t]
          PROVE  Settled(queue'[t][k]) /\ queue'[t][k].from # t
      <4>1. k + 1 \in DOMAIN queue[t] /\ queue'[t][k] = queue[t][k + 1]
        BY <1>3
      <4> QED BY <2>1, <2>2, <4>1
    <3> QED BY <2>2, <3>1, <3>2
  <2>3. CASE v # t
    BY <1>5, <2>1, <2>3
  <2> QED BY <2>2, <2>3
<1>8. AllOrdered'
  <2>1. Ordered(log'[t], queue'[t])
    BY <1>1, <1>2, <1>3, <1>4, PopOrdered DEF DeliveryInv, AllOrdered, h
  <2>2. \A v \in Threads : Ordered(log'[v], queue'[v])
    BY <1>5, <2>1 DEF DeliveryInv, AllOrdered
  <2> QED BY <2>2 DEF AllOrdered
<1>9. NoneLost'
  <2> SUFFICES ASSUME NEW i \in issued, slot[i.obj] = "live"
               PROVE  msg[i.from] = i \/ InSeq(i, queue'[i.to]) \/ InSeq(i, log'[i.to])
    BY <1>1 DEF NoneLost
  <2>1. i.to \in Threads
    BY DEF TypeOK, Items
  <2>2. msg[i.from] = i \/ InSeq(i, queue[i.to]) \/ InSeq(i, log[i.to])
    BY DEF DeliveryInv, NoneLost
  <2>3. CASE i.to # t
    BY <1>5, <2>1, <2>2, <2>3
  <2>4. CASE i.to = t /\ InSeq(i, log[t])
    BY <1>2, <1>4, <2>4, InAppend
  <2>5. CASE i.to = t /\ InSeq(i, queue[t])
    <3>1. CASE i = h
      BY <1>2, <1>4, <2>5, <3>1, InAppend
    <3>2. CASE i # h
      BY <1>1, <1>2, <1>3, <2>5, <3>2, InTail DEF h
    <3> QED BY <3>1, <3>2
  <2> QED BY <2>2, <2>3, <2>4, <2>5
<1> QED BY <1>6, <1>7, <1>8, <1>9 DEF DeliveryInv

(* RemoveFromQueue takes out callbacks of a dying slot, and disturbs the   *)
(* order of no others.                                                     *)
LEMMA EraseKeepsDelivery ==
  ASSUME TypeOK, RemovalInv, DeliveryInv,
         NEW t \in Threads, NEW u \in Threads, RemoveErase(t, u)
  PROVE  DeliveryInv'
<1> USE NoneAssumption
<1>1. PICK k \in DOMAIN queue[u] :
        /\ queue[u][k].obj = victim[t]
        /\ queue' = [queue EXCEPT ![u] = RemoveAt(queue[u], k)]
  BY DEF RemoveErase, FirstOf
<1>2. UNCHANGED <<msg, sent, issued, log, slot>>
  BY DEF RemoveErase, opVars, history
<1>3. slot[victim[t]] = "dying"
  BY DEF RemoveErase, TypeOK, RemovalInv, OneDestroyer
<1>4. queue[u] \in Seq(Items) /\ log[u] \in Seq(Items)
  BY Elements
<1>5. /\ queue'[u] = RemoveAt(queue[u], k)
      /\ \A v \in Threads \ {u} : queue'[v] = queue[v]
  BY <1>1 DEF TypeOK
<1>6. \A j \in DOMAIN queue'[u] : \E i \in DOMAIN queue[u] : queue'[u][j] = queue[u][i]
  <2>1. \A j \in DOMAIN RemoveAt(queue[u], k) :
          /\ Before(j, k) \in DOMAIN queue[u]
          /\ RemoveAt(queue[u], k)[j] = queue[u][Before(j, k)]
    BY <1>4, EraseElements
  <2> QED BY <1>5, <2>1
<1>7. MsgIsLatest'
  BY <1>2 DEF DeliveryInv, MsgIsLatest
<1>8. AllSettled'
  <2> SUFFICES ASSUME NEW v \in Threads
               PROVE  \A j \in DOMAIN queue'[v] :
                        Settled(queue'[v][j]) /\ queue'[v][j].from # v
    BY <1>2 DEF DeliveryInv, AllSettled, Settled
  <2>1. \A j \in DOMAIN queue[v] : Settled(queue[v][j]) /\ queue[v][j].from # v
    BY DEF DeliveryInv, AllSettled
  <2>2. CASE v = u
    BY <1>6, <2>1, <2>2
  <2>3. CASE v # u
    BY <1>5, <2>1, <2>3
  <2> QED BY <2>2, <2>3
<1>9. AllOrdered'
  <2>1. Ordered(log[u], queue'[u])
    BY <1>4, <1>5, EraseOrdered DEF DeliveryInv, AllOrdered
  <2>2. \A v \in Threads : Ordered(log[v], queue'[v])
    BY <1>5, <2>1 DEF DeliveryInv, AllOrdered
  <2> QED BY <1>2, <2>2 DEF AllOrdered
<1>10. NoneLost'
  <2> SUFFICES ASSUME NEW i \in issued, slot[i.obj] = "live"
               PROVE  InSeq(i, queue[i.to]) => InSeq(i, queue'[i.to])
    BY <1>2 DEF DeliveryInv, NoneLost
  <2>1. i.to \in Threads
    BY DEF TypeOK, Items
  <2>2. CASE i.to # u
    BY <1>5, <2>1, <2>2
  <2>3. ASSUME i.to = u, NEW j \in DOMAIN queue[u], queue[u][j] = i
        PROVE  InSeq(i, queue'[u])
    <3>1. j # k
      BY <1>1, <1>3, <2>3
    <3> QED BY <1>4, <1>5, <2>3, <3>1, EraseKeepsOthers
  <2> QED BY <2>2, <2>3 DEF InSeq
<1> QED BY <1>7, <1>8, <1>9, <1>10 DEF DeliveryInv

LEMMA DeliveryStep ==
  TypeOK /\ RemovalInv /\ DeliveryInv /\ [Next]_vars => DeliveryInv'
<1> SUFFICES ASSUME TypeOK, RemovalInv, DeliveryInv, [Next]_vars
             PROVE  DeliveryInv'
  OBVIOUS
<1> USE NoneAssumption
<1>a. ASSUME UNCHANGED <<queue, msg, sent, issued, log, slot>>
      PROVE  DeliveryInv'
  BY <1>a, DeliveryFrame
<1>1. ASSUME NEW t \in Threads, NEW o \in Objects, PushInline(t, o)
      PROVE  DeliveryInv'
  BY <1>1, InlineKeepsDelivery
<1>2. ASSUME NEW t \in Threads, NEW o \in Objects, RemoveCall(t, o)
      PROVE  DeliveryInv'
  <2>1. /\ UNCHANGED <<queue, msg, sent, issued, log>>
        /\ slot' = [slot EXCEPT ![o] = "dying"]
    BY <1>2 DEF RemoveCall, RemoveBegin, history
  <2>2. \A i \in issued : slot'[i.obj] = "live" => slot[i.obj] = "live"
    BY <2>1 DEF TypeOK, Items
  <2> QED BY <2>1, <2>2, DeliveryFrame
<1>3. ASSUME NEW t \in Threads, NEW u \in Threads, NEW o \in Objects,
             PushCall(t, u, o)
      PROVE  DeliveryInv'
  BY <1>3, CallKeepsDelivery
<1>4. ASSUME NEW t \in Threads, NEW b \in BOOLEAN, RunCall(t, b)
      PROVE  DeliveryInv'
  BY <1>a, <1>4 DEF RunCall, opVars, history
<1>5. ASSUME NEW t \in Threads, PushMap(t)
      PROVE  DeliveryInv'
  BY <1>a, <1>5 DEF PushMap, history
<1>6. ASSUME NEW t \in Threads, PushQueue(t)
      PROVE  DeliveryInv'
  BY <1>6, PushKeepsDelivery
<1>7. ASSUME NEW t \in Threads, RunMap(t) \/ RunLock(t) \/ RunEmpty(t) \/ RunReturn(t)
      PROVE  DeliveryInv'
  BY <1>a, <1>7 DEF RunMap, RunLock, RunEmpty, RunReturn, opVars, history
<1>8. ASSUME NEW t \in Threads, RunPop(t)
      PROVE  DeliveryInv'
  BY <1>8, PopKeepsDelivery
<1>9. ASSUME NEW t \in Threads, RemoveLock(t)
      PROVE  DeliveryInv'
  BY <1>a, <1>9 DEF RemoveLock, history
<1>10. ASSUME NEW t \in Threads, NEW u \in Threads,
              RemoveEnter(t, u) \/ RemoveLeave(t, u)
       PROVE  DeliveryInv'
  BY <1>a, <1>10 DEF RemoveEnter, RemoveLeave, history
<1>11. ASSUME NEW t \in Threads, NEW u \in Threads, RemoveErase(t, u)
       PROVE  DeliveryInv'
  BY <1>11, EraseKeepsDelivery
<1>12. ASSUME NEW t \in Threads, RemoveReturn(t)
       PROVE  DeliveryInv'
  <2>1. /\ UNCHANGED <<queue, msg, sent, issued, log>>
        /\ slot' = [slot EXCEPT ![victim[t]] = "dead"]
    BY <1>12 DEF RemoveReturn, history
  <2>2. \A i \in issued : slot'[i.obj] = "live" => slot[i.obj] = "live"
    BY <2>1 DEF TypeOK, Items
  <2> QED BY <2>1, <2>2, DeliveryFrame
<1>13. CASE UNCHANGED vars
  BY <1>a, <1>13 DEF vars, opVars, history
<1> QED BY <1>1, <1>2, <1>3, <1>4, <1>5, <1>6, <1>7, <1>8, <1>9, <1>10, <1>11,
          <1>12, <1>13
       DEF Next, Progress, PushStep, RunStep, RemoveStep

(* The removals of slots obey RemovalInv in every reachable state.         *)
LEMMA RemovalsHold == Spec => []RemovalInv
BY TypeCorrect, LocksHeld, RemovalInit, RemovalStep, PTL DEF Spec

(* A callback passed to Push is executed at most once and in the order of  *)
(* its sender's pushes, and none is lost while its slot lives, whatever    *)
(* callbacks push and destroy.                                             *)
THEOREM Delivery == Spec => []QueuesDeliver
<1>1. TypeOK /\ DeliveryInv => QueuesDeliver
  <2> SUFFICES ASSUME TypeOK, DeliveryInv PROVE AtMostOnce /\ SenderOrder
    BY DEF QueuesDeliver, DeliveryInv
  <2>1. ASSUME NEW t \in Threads
        PROVE  /\ Ordered(log[t], queue[t])
               /\ DOMAIN log[t] \subseteq Nat
               /\ \A j \in DOMAIN log[t] : log[t][j].n \in Nat
    BY Elements, LenProperties DEF DeliveryInv, AllOrdered, Items
  <2>2. SenderOrder
    BY <2>1 DEF SenderOrder, Ordered, Ascending
  <2>3. ASSUME NEW t \in Threads, NEW j \in DOMAIN log[t], NEW k \in DOMAIN log[t],
               log[t][j] = log[t][k]
        PROVE  j = k
    <3>1. ~(log[t][j].n < log[t][k].n) /\ ~(log[t][k].n < log[t][j].n)
      BY <2>1, <2>3
    <3>2. ~(j < k) /\ ~(k < j)
      BY <2>1, <2>3, <3>1 DEF Ordered, Ascending
    <3> QED BY <2>1, <3>2
  <2>4. ASSUME NEW t \in Threads, NEW k \in DOMAIN queue[t], InSeq(queue[t][k], log[t])
        PROVE  FALSE
    <3>1. PICK j \in DOMAIN log[t] : log[t][j] = queue[t][k]
      BY <2>4 DEF InSeq
    <3>2. log[t][j].n < queue[t][k].n
      BY <2>1, <3>1 DEF Ordered, Precedes
    <3> QED BY <2>1, <3>1, <3>2
  <2> QED BY <2>2, <2>3, <2>4 DEF AtMostOnce
<1> QED BY <1>1, DeliveryInit, DeliveryStep, TypeCorrect, RemovalsHold, PTL DEF Spec

----------------------------------------------------------------------------
(* The queues implement Mailbox                                            *)

LEMMA MailboxInit == Init => Abstract!Init
BY DEF Init, Abstract!Init

(* Every step of a thread is a step of the mailboxes or is not visible in  *)
(* them: a callback is posted when it is appended, executed when it is     *)
(* popped, and discarded when it is erased.                                *)
LEMMA MailboxStep ==
  TypeOK /\ RemovalInv /\ MsgIsLatest /\ [Next]_vars
    => [Abstract!Next]_(Abstract!vars)
<1> SUFFICES ASSUME TypeOK, RemovalInv, MsgIsLatest, [Next]_vars
             PROVE  Abstract!Next \/ UNCHANGED Abstract!vars
  OBVIOUS
<1> USE NoneAssumption
<1>a. ASSUME UNCHANGED <<queue, cur, slot>> PROVE UNCHANGED Abstract!vars
  BY <1>a DEF Abstract!vars
<1>1. ASSUME NEW t \in Threads, NEW o \in Objects, PushInline(t, o)
      PROVE  UNCHANGED Abstract!vars
  BY <1>a, <1>1 DEF PushInline, runVars
<1>2. ASSUME NEW t \in Threads, NEW o \in Objects, RemoveCall(t, o)
      PROVE  Abstract!Next
  <2>1. Abstract!Condemn(o)
    BY <1>2 DEF RemoveCall, RemoveBegin, runVars, Abstract!Condemn
  <2> QED BY <2>1 DEF Abstract!Next
<1>3. ASSUME NEW t \in Threads, NEW u \in Threads, NEW o \in Objects,
             PushCall(t, u, o)
      PROVE  UNCHANGED Abstract!vars
  BY <1>a, <1>3 DEF PushCall, runVars
<1>4. ASSUME NEW t \in Threads, NEW b \in BOOLEAN, RunCall(t, b)
      PROVE  UNCHANGED Abstract!vars
  BY <1>a, <1>4 DEF RunCall
<1>5. ASSUME NEW t \in Threads, PushMap(t) \/ RunMap(t) \/ RunLock(t) \/ RunEmpty(t)
                               \/ RemoveLock(t)
      PROVE  UNCHANGED Abstract!vars
  BY <1>a, <1>5 DEF PushMap, RunMap, RunLock, RunEmpty, RemoveLock, runVars
<1>6. ASSUME NEW t \in Threads, PushQueue(t)
      PROVE  Abstract!Next
  <2> DEFINE m == msg[t]
  <2>1. m # None /\ m \in Items
    BY <1>6 DEF PushQueue, TypeOK
  <2>2. m.n \in 1 .. MaxPush /\ slot[m.obj] = "live"
    BY <2>1 DEF MsgIsLatest, RemovalInv, LiveMsg
  <2>3. m \in [from : Threads, n : 1 .. MaxPush, to : Threads, obj : Objects]
    BY <2>1, <2>2 DEF Items
  <2>4. Abstract!Post(m)
    BY <1>6, <2>2 DEF PushQueue, runVars, Abstract!Post
  <2> QED BY <2>3, <2>4 DEF Abstract!Next
<1>7. ASSUME NEW t \in Threads, RunPop(t)
      PROVE  Abstract!Next
  <2>1. cur[t] = None
    BY <1>7 DEF RunPop, TypeOK
  <2>2. Abstract!Execute(t)
    BY <1>7, <2>1 DEF RunPop, Abstract!Execute
  <2> QED BY <2>2 DEF Abstract!Next
<1>8. ASSUME NEW t \in Threads, RunReturn(t)
      PROVE  Abstract!Next
  <2>1. cur[t] # None
    BY <1>8 DEF RunReturn, TypeOK
  <2>2. Abstract!Finish(t)
    BY <1>8, <2>1 DEF RunReturn, Abstract!Finish
  <2> QED BY <2>2 DEF Abstract!Next
<1>9. ASSUME NEW t \in Threads, NEW u \in Threads, RemoveEnter(t, u) \/ RemoveLeave(t, u)
      PROVE  UNCHANGED Abstract!vars
  BY <1>a, <1>9 DEF RemoveEnter, RemoveLeave, runVars
<1>10. ASSUME NEW t \in Threads, NEW u \in Threads, RemoveErase(t, u)
       PROVE  Abstract!Next
  <2>1. PICK k \in DOMAIN queue[u] :
          /\ queue[u][k].obj = victim[t]
          /\ queue' = [queue EXCEPT ![u] = RemoveAt(@, k)]
    BY <1>10 DEF RemoveErase, FirstOf
  <2>2. slot[queue[u][k].obj] = "dying"
    BY <1>10, <2>1 DEF RemoveErase, TypeOK, RemovalInv, OneDestroyer
  <2>3. Abstract!Discard(u, k)
    BY <1>10, <2>1, <2>2 DEF RemoveErase, runVars, RemoveAt, Abstract!RemoveAt,
           Abstract!Discard
  <2> QED BY <2>3 DEF Abstract!Next
<1>11. ASSUME NEW t \in Threads, RemoveReturn(t)
       PROVE  Abstract!Next
  <2>1. pc[t] = "remove_scan" /\ todo[t] = {}
    BY <1>11 DEF RemoveReturn
  <2>2. victim[t] \in Objects /\ slot[victim[t]] = "dying"
    BY <2>1 DEF TypeOK, RemovalInv, OneDestroyer
  <2>3. ASSUME NEW u \in Threads
        PROVE  /\ cur[u] # None => cur[u].obj # victim[t]
               /\ \A k \in DOMAIN queue[u] : queue[u][k].obj # victim[t]
    <3>1. Clean(u, victim[t])
      BY <2>1 DEF RemovalInv, ScannedClean
    <3>2. /\ \A k \in DOMAIN queue[u] : queue[u][k] \in ItemsOfOthers(victim[t])
          /\ cur[u] \in ItemsOfOthers(victim[t]) \cup {None}
      BY <3>1, LenProperties DEF Clean
    <3> QED BY <3>2 DEF ItemsOfOthers
  <2>4. Abstract!Free(victim[t])
    BY <1>11, <2>2, <2>3 DEF RemoveReturn, runVars, Abstract!Free
  <2> QED BY <2>2, <2>4 DEF Abstract!Next
<1>12. CASE UNCHANGED vars
  BY <1>a, <1>12 DEF vars, runVars
<1> QED BY <1>1, <1>2, <1>3, <1>4, <1>5, <1>6, <1>7, <1>8, <1>9, <1>10, <1>11,
          <1>12
       DEF Next, Progress, PushStep, RunStep, RemoveStep

(* The latest-push part of the delivery invariant, for the refinement.     *)
LEMMA LatestHolds == Spec => []MsgIsLatest
<1>1. DeliveryInv => MsgIsLatest
  BY DEF DeliveryInv
<1> QED BY <1>1, DeliveryInit, DeliveryStep, TypeCorrect, RemovalsHold, PTL DEF Spec

(* ThreadSpecificQueue keeps the promise of Mailbox: seen from outside,    *)
(* the two kinds of lock and the scan of RemoveFromQueue cannot be told    *)
(* from single steps on mailboxes.                                         *)
THEOREM Refinement == Spec => ImplementsMailbox
BY MailboxInit, MailboxStep, TypeCorrect, RemovalsHold, LatestHolds, PTL
   DEF Spec, ImplementsMailbox, Abstract!Spec

================================================================================
