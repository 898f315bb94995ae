------------------------------ MODULE InterThread ------------------------------
(***************************************************************************)
(* ThreadSpecificQueue (src/src/inter_thread.cpp): one queue of callbacks  *)
(* per thread.  A thread pushes a callback to another thread's queue, the  *)
(* owner of the queue executes it from Run or RunOnce, and the destructor  *)
(* of a slot takes the callbacks of that slot out of every queue.          *)
(*                                                                         *)
(* Two kinds of lock protect the queues.  impl::mtx protects the map from  *)
(* thread to queue; every queue has a mutex of its own.  The runner of a   *)
(* queue holds the mutex of that queue WHILE the callback executes, and    *)
(* RemoveFromQueue holds mtx while it takes the queue mutexes in turn: the *)
(* module keeps both facts, since safety rests on the first and deadlock   *)
(* on their combination.                                                   *)
(*                                                                         *)
(* A section under a lock in which the thread cannot block is one action   *)
(* whose guard is that the lock is free.  A lock is recorded as held only  *)
(* where the holder can be interleaved with: mtx by RemoveFromQueue, a     *)
(* queue mutex by Run and RunOnce and by RemoveFromQueue while it erases.  *)
(***************************************************************************)
EXTENDS Naturals, Sequences, FiniteSets, SequencesExt

CONSTANTS
  Threads,      (* thread ids; a set of naturals: std::map iterates by id     *)
  Objects,      (* the slots on whose behalf callbacks are pushed             *)
  None,         (* no thread, no callback, no object                          *)
  MaxPush,      (* bound: callbacks a thread pushes in its life               *)
  NestedPush,   (* pairs <<t, u>>: a callback running on t may push to u      *)
  NestedRemove, (* threads whose callbacks may destroy a slot                 *)
  Removers      (* threads that may destroy a slot at all                     *)

ASSUME ThreadAssumption ==
  /\ Threads \subseteq Nat
  /\ None \notin Threads
  /\ NestedPush \subseteq Threads \X Threads
  /\ NestedRemove \subseteq Removers
  /\ Removers \subseteq Threads
ASSUME BoundAssumption == MaxPush \in Nat

(* A queued callback: who pushed it, as its n-th push, for which thread,   *)
(* on behalf of which slot.  n only tells callbacks apart.                 *)
Items == [from : Threads, n : Nat, to : Threads, obj : Objects]
ASSUME NoneAssumption == None \notin Items /\ None \notin Objects

VARIABLES
  mtx,      (* owner of impl::mtx                                             *)
  queueMtx, (* owner of each queue's mutex                                    *)
  queue,    (* the callbacks waiting in each queue                            *)
  loop,     (* where each thread is in Run/RunOnce on its own queue           *)
  once,     (* TRUE when that call is RunOnce                                 *)
  cur,      (* the callback the thread's Run is executing                     *)
  pc,       (* where each thread is in Push or RemoveFromQueue                *)
  msg,      (* the callback its Push is delivering                            *)
  victim,   (* the object its RemoveFromQueue is removing                     *)
  todo,     (* the queues that RemoveFromQueue has still to leave             *)
  slot,     (* life of each slot: live, dying (in ~ISlot), dead               *)
  sent,     (* how often each thread has pushed                               *)
  issued,   (* history: every callback passed to Push                         *)
  log       (* history: the callbacks each thread executed, in order          *)

locks == <<mtx, queueMtx>>
runVars == <<loop, once, cur>>
opVars == <<pc, msg, victim, todo>>
history == <<sent, issued, log>>
vars == <<locks, queue, runVars, opVars, slot, history>>

Init ==
  /\ mtx = None
  /\ queueMtx = [t \in Threads |-> None]
  /\ queue = [t \in Threads |-> <<>>]
  /\ loop = [t \in Threads |-> "out"]
  /\ once = [t \in Threads |-> FALSE]
  /\ cur = [t \in Threads |-> None]
  /\ pc = [t \in Threads |-> "user"]
  /\ msg = [t \in Threads |-> None]
  /\ victim = [t \in Threads |-> None]
  /\ todo = [t \in Threads |-> {}]
  /\ slot = [o \in Objects |-> "live"]
  /\ sent = [t \in Threads |-> 0]
  /\ issued = {}
  /\ log = [t \in Threads |-> <<>>]

(* The thread executes code outside the class: between calls, or in a      *)
(* callback that Run called.                                               *)
InUserCode(t) == pc[t] = "user" /\ loop[t] \in {"out", "call"}

NewItem(t, u, o) == [from |-> t, n |-> sent[t] + 1, to |-> u, obj |-> o]

CanPush(t, o) == InUserCode(t) /\ slot[o] = "live" /\ sent[t] < MaxPush

Issue(t, i) ==
  /\ sent' = [sent EXCEPT ![t] = i.n]
  /\ issued' = issued \cup {i}

----------------------------------------------------------------------------
(* push                                                                    *)

(* The target is the calling thread: the callback executes in the call.    *)
PushInline(t, o) ==
  /\ CanPush(t, o)
  /\ Issue(t, NewItem(t, t, o))
  /\ log' = [log EXCEPT ![t] = Append(@, NewItem(t, t, o))]
  /\ UNCHANGED <<locks, queue, runVars, opVars, slot>>

PushCall(t, u, o) ==
  /\ CanPush(t, o)
  /\ u # t
  /\ loop[t] = "call" => <<t, u>> \in NestedPush
  /\ Issue(t, NewItem(t, u, o))
  /\ msg' = [msg EXCEPT ![t] = NewItem(t, u, o)]
  /\ pc' = [pc EXCEPT ![t] = "push_map"]
  /\ UNCHANGED <<locks, queue, runVars, victim, todo, slot, log>>

(* Look the queue up under mtx, and let mtx go.                            *)
PushMap(t) ==
  /\ pc[t] = "push_map"
  /\ mtx = None
  /\ pc' = [pc EXCEPT ![t] = "push_queue"]
  /\ UNCHANGED <<locks, queue, runVars, msg, victim, todo, slot, history>>

(* Mutant: the callback goes in at the wrong end.                          *)
PushQueueAtFront(t) ==
  /\ pc[t] = "push_queue"
  /\ queueMtx[msg[t].to] = None
  /\ queue' = [queue EXCEPT ![msg[t].to] = <<msg[t]>> \o @]
  /\ pc' = [pc EXCEPT ![t] = "user"]
  /\ msg' = [msg EXCEPT ![t] = None]
  /\ UNCHANGED <<locks, runVars, victim, todo, slot, history>>

PushQueue(t) ==
  /\ pc[t] = "push_queue"
  /\ queueMtx[msg[t].to] = None
  /\ queue' = [queue EXCEPT ![msg[t].to] = Append(@, msg[t])]
  /\ pc' = [pc EXCEPT ![t] = "user"]
  /\ msg' = [msg EXCEPT ![t] = None]
  /\ UNCHANGED <<locks, runVars, victim, todo, slot, history>>

----------------------------------------------------------------------------
(* run and run_once, always on the calling thread's own queue              *)

RunCall(t, b) ==
  /\ pc[t] = "user" /\ loop[t] = "out"
  /\ loop' = [loop EXCEPT ![t] = "map"]
  /\ once' = [once EXCEPT ![t] = b]
  /\ UNCHANGED <<locks, queue, cur, opVars, slot, history>>

RunMap(t) ==
  /\ loop[t] = "map"
  /\ mtx = None
  /\ loop' = [loop EXCEPT ![t] = "queue"]
  /\ UNCHANGED <<locks, queue, once, cur, opVars, slot, history>>

RunLock(t) ==
  /\ loop[t] = "queue"
  /\ queueMtx[t] = None
  /\ queueMtx' = [queueMtx EXCEPT ![t] = t]
  /\ loop' = [loop EXCEPT ![t] = "pop"]
  /\ UNCHANGED <<mtx, queue, once, cur, opVars, slot, history>>

(* Leave run: unlock the queue.                                            *)
LeaveRun(t) ==
  /\ queueMtx' = [queueMtx EXCEPT ![t] = None]
  /\ loop' = [loop EXCEPT ![t] = "out"]
  /\ once' = [once EXCEPT ![t] = FALSE]

(* Mutant: the callback is executed but stays in the queue.                *)
RunPopKeeps(t) ==
  /\ loop[t] = "pop"
  /\ queue[t] # <<>>
  /\ Len(log[t]) < 2 * MaxPush
  /\ cur' = [cur EXCEPT ![t] = Head(queue[t])]
  /\ log' = [log EXCEPT ![t] = Append(@, Head(queue[t]))]
  /\ loop' = [loop EXCEPT ![t] = "call"]
  /\ UNCHANGED <<locks, queue, once, opVars, slot, sent, issued>>

(* Mutant: the queue is unlocked while the callback executes.              *)
RunPopUnlocks(t) ==
  /\ loop[t] = "pop"
  /\ queue[t] # <<>>
  /\ cur' = [cur EXCEPT ![t] = Head(queue[t])]
  /\ queue' = [queue EXCEPT ![t] = Tail(@)]
  /\ log' = [log EXCEPT ![t] = Append(@, Head(queue[t]))]
  /\ loop' = [loop EXCEPT ![t] = "call"]
  /\ queueMtx' = [queueMtx EXCEPT ![t] = None]
  /\ UNCHANGED <<mtx, once, opVars, slot, sent, issued>>

RunPop(t) ==
  /\ loop[t] = "pop"
  /\ queue[t] # <<>>
  /\ cur' = [cur EXCEPT ![t] = Head(queue[t])]
  /\ queue' = [queue EXCEPT ![t] = Tail(@)]
  /\ log' = [log EXCEPT ![t] = Append(@, Head(queue[t]))]
  /\ loop' = [loop EXCEPT ![t] = "call"]
  /\ UNCHANGED <<locks, once, opVars, slot, sent, issued>>

(* Mutant: the loop over the queue stops one callback early.               *)
RunEmptyEarly(t) ==
  /\ loop[t] = "pop"
  /\ Len(queue[t]) <= 1
  /\ LeaveRun(t)
  /\ UNCHANGED <<mtx, queue, cur, opVars, slot, history>>

RunEmpty(t) ==
  /\ loop[t] = "pop"
  /\ queue[t] = <<>>
  /\ LeaveRun(t)
  /\ UNCHANGED <<mtx, queue, cur, opVars, slot, history>>

(* Mutant: the callback that returned is still recorded as executing.      *)
RunReturnKeepsCur(t) ==
  /\ loop[t] = "call" /\ pc[t] = "user"
  /\ \/ /\ once[t]
        /\ LeaveRun(t)
     \/ /\ ~once[t]
        /\ loop' = [loop EXCEPT ![t] = "pop"]
        /\ UNCHANGED <<queueMtx, once>>
  /\ UNCHANGED <<mtx, queue, cur, opVars, slot, history>>

(* Mutant: the queue is looked up again, under mtx, for each callback.     *)
RunReturnLooksUp(t) ==
  /\ loop[t] = "call" /\ pc[t] = "user"
  /\ cur' = [cur EXCEPT ![t] = None]
  /\ \/ /\ once[t]
        /\ LeaveRun(t)
     \/ /\ ~once[t]
        /\ loop' = [loop EXCEPT ![t] = "map"]
        /\ UNCHANGED <<queueMtx, once>>
  /\ UNCHANGED <<mtx, queue, opVars, slot, history>>

(* The callback returns; run pops the next one, run_once leaves.           *)
RunReturn(t) ==
  /\ loop[t] = "call" /\ pc[t] = "user"
  /\ cur' = [cur EXCEPT ![t] = None]
  /\ \/ /\ once[t]
        /\ LeaveRun(t)
     \/ /\ ~once[t]
        /\ loop' = [loop EXCEPT ![t] = "pop"]
        /\ UNCHANGED <<queueMtx, once>>
  /\ UNCHANGED <<mtx, queue, opVars, slot, history>>

----------------------------------------------------------------------------
(* remove_from_queue, called by ~ISlot                                     *)

(* ~TypedSlot has disconnected the slot from every relay under the relays' *)
(* mutexes, which an emission holds while it pushes: when ~ISlot starts,   *)
(* no push on behalf of the slot is under way and none will start: module  *)
(* Signals has this guard as an invariant.                                 *)
RemoveBegin(t, o) ==
  /\ slot[o] = "live"
  /\ slot' = [slot EXCEPT ![o] = "dying"]
  /\ victim' = [victim EXCEPT ![t] = o]
  /\ pc' = [pc EXCEPT ![t] = "remove_map"]
  /\ UNCHANGED <<locks, queue, runVars, msg, todo, history>>

NonePushedFor(o) == \A u \in Threads : msg[u] # None => msg[u].obj # o

RemoveCall(t, o) ==
  /\ InUserCode(t)
  /\ t \in Removers
  /\ loop[t] = "call" => t \in NestedRemove
  /\ NonePushedFor(o)
  /\ RemoveBegin(t, o)

RemoveLock(t) ==
  /\ pc[t] = "remove_map"
  /\ mtx = None
  /\ mtx' = t
  /\ todo' = [todo EXCEPT ![t] = Threads]
  /\ pc' = [pc EXCEPT ![t] = "remove_scan"]
  /\ UNCHANGED <<queueMtx, queue, runVars, msg, victim, slot, history>>

(* The next queue in the order of the map.                                 *)
NextToScan(t, u) == u \in todo[t] /\ \A v \in todo[t] : u <= v

RemoveEnter(t, u) ==
  /\ pc[t] = "remove_scan"
  /\ NextToScan(t, u)
  /\ queueMtx[u] = None
  /\ queueMtx' = [queueMtx EXCEPT ![u] = t]
  /\ pc' = [pc EXCEPT ![t] = "remove_erase"]
  /\ UNCHANGED <<mtx, queue, runVars, msg, victim, todo, slot, history>>

(* The first callback in queue u that belongs to slot o is at position k.  *)
FirstOf(u, o, k) ==
  /\ k \in DOMAIN queue[u]
  /\ queue[u][k].obj = o
  /\ \A j \in DOMAIN queue[u] : queue[u][j].obj = o => k <= j

(* Mutant: the iterator was advanced before the erase.                     *)
RemoveEraseNext(t, u) ==
  /\ pc[t] = "remove_erase"
  /\ NextToScan(t, u)
  /\ \E k \in DOMAIN queue[u] :
       /\ FirstOf(u, victim[t], k)
       /\ queue' = [queue EXCEPT ![u] = RemoveAt(@, k + 1)]
  /\ UNCHANGED <<locks, runVars, opVars, slot, history>>

RemoveErase(t, u) ==
  /\ pc[t] = "remove_erase"
  /\ NextToScan(t, u)
  /\ \E k \in DOMAIN queue[u] :
       /\ FirstOf(u, victim[t], k)
       /\ queue' = [queue EXCEPT ![u] = RemoveAt(@, k)]
  /\ UNCHANGED <<locks, runVars, opVars, slot, history>>

(* Mutant: the loop over the queue stops after the first callback.         *)
RemoveLeaveEarly(t, u) ==
  /\ pc[t] = "remove_erase"
  /\ NextToScan(t, u)
  /\ Cardinality({k \in DOMAIN queue[u] : queue[u][k].obj = victim[t]}) <= 1
  /\ queueMtx' = [queueMtx EXCEPT ![u] = None]
  /\ todo' = [todo EXCEPT ![t] = @ \ {u}]
  /\ pc' = [pc EXCEPT ![t] = "remove_scan"]
  /\ UNCHANGED <<mtx, queue, runVars, msg, victim, slot, history>>

RemoveLeave(t, u) ==
  /\ pc[t] = "remove_erase"
  /\ NextToScan(t, u)
  /\ \A k \in DOMAIN queue[u] : queue[u][k].obj # victim[t]
  /\ queueMtx' = [queueMtx EXCEPT ![u] = None]
  /\ todo' = [todo EXCEPT ![t] = @ \ {u}]
  /\ pc' = [pc EXCEPT ![t] = "remove_scan"]
  /\ UNCHANGED <<mtx, queue, runVars, msg, victim, slot, history>>

RemoveReturn(t) ==
  /\ pc[t] = "remove_scan"
  /\ todo[t] = {}
  /\ mtx' = None
  /\ slot' = [slot EXCEPT ![victim[t]] = "dead"]
  /\ victim' = [victim EXCEPT ![t] = None]
  /\ pc' = [pc EXCEPT ![t] = "user"]
  /\ UNCHANGED <<queueMtx, queue, runVars, msg, todo, history>>

----------------------------------------------------------------------------
PushStep(t) == PushMap(t) \/ PushQueue(t)
RunStep(t) ==
  \/ RunMap(t) \/ RunLock(t) \/ RunPop(t) \/ RunEmpty(t) \/ RunReturn(t)
RemoveStep(t) ==
  \/ RemoveLock(t)
  \/ \E u \in Threads : RemoveEnter(t, u) \/ RemoveErase(t, u) \/ RemoveLeave(t, u)
  \/ RemoveReturn(t)

(* Steps of a call that has begun.                                         *)
Progress(t) == PushStep(t) \/ RunStep(t) \/ RemoveStep(t)

Next ==
  \E t \in Threads :
    \/ \E o \in Objects : PushInline(t, o) \/ RemoveCall(t, o)
    \/ \E u \in Threads, o \in Objects : PushCall(t, u, o)
    \/ \E b \in BOOLEAN : RunCall(t, b)
    \/ Progress(t)

Spec == Init /\ [][Next]_vars

(* A thread keeps running, callbacks return, and the loop of every thread  *)
(* comes back to RunOnce (Thread::Main calls it in each iteration).  A     *)
(* mutex that is let go again and again is acquired by each thread that    *)
(* waits for it: hence strong fairness.                                    *)
FairSpec ==
  /\ Spec
  /\ \A t \in Threads : SF_vars(Progress(t)) /\ WF_vars(RunCall(t, TRUE))

----------------------------------------------------------------------------
(* What a thread waits for                                                 *)

Blocked(t, owner) == IF owner = None THEN {} ELSE {owner}

WaitsFor(t) ==
  CASE pc[t] \in {"push_map", "remove_map"} -> Blocked(t, mtx)
    [] pc[t] = "push_queue" -> Blocked(t, queueMtx[msg[t].to])
    [] pc[t] = "remove_scan" ->
         UNION {Blocked(t, queueMtx[u]) : u \in {v \in Threads : NextToScan(t, v)}}
    [] pc[t] = "user" /\ loop[t] = "map" -> Blocked(t, mtx)
    [] pc[t] = "user" /\ loop[t] = "queue" -> Blocked(t, queueMtx[t])
    [] OTHER -> {}

----------------------------------------------------------------------------
(* Properties                                                              *)

InSeq(i, s) == \E k \in DOMAIN s : s[k] = i

(* The variables have their types, and the position of a thread in Run,    *)
(* Push and RemoveFromQueue agrees with the locals that position uses.     *)
TypeOK ==
  /\ mtx \in Threads \cup {None}
  /\ queueMtx \in [Threads -> Threads \cup {None}]
  /\ queue \in [Threads -> Seq(Items)]
  /\ loop \in [Threads -> {"out", "map", "queue", "pop", "call"}]
  /\ once \in [Threads -> BOOLEAN]
  /\ cur \in [Threads -> Items \cup {None}]
  /\ pc \in [Threads -> {"user", "push_map", "push_queue",
                         "remove_map", "remove_scan", "remove_erase"}]
  /\ msg \in [Threads -> Items \cup {None}]
  /\ victim \in [Threads -> Objects \cup {None}]
  /\ todo \in [Threads -> SUBSET Threads]
  /\ slot \in [Objects -> {"live", "dying", "dead"}]
  /\ sent \in [Threads -> Nat]
  /\ issued \subseteq Items
  /\ log \in [Threads -> Seq(Items)]
  /\ \A t \in Threads :
       /\ (cur[t] # None) <=> (loop[t] = "call")
       /\ (msg[t] # None) <=> (pc[t] \in {"push_map", "push_queue"})
       /\ (victim[t] # None) <=> (pc[t] \in {"remove_map", "remove_scan", "remove_erase"})

(* Once RemoveFromQueue has returned in the destructor of a slot, no       *)
(* callback of the slot is queued, on its way into a queue, or executing   *)
(* on another thread: the destructor may free the slot.                    *)
NoUseAfterRemoval ==
  \A o \in Objects : slot[o] = "dead" =>
    \A t \in Threads :
      /\ cur[t] # None => cur[t].obj # o
      /\ msg[t] # None => msg[t].obj # o
      /\ \A k \in DOMAIN queue[t] : queue[t][k].obj # o

(* Positions and locals agree (TypeOK), and what RemoveFromQueue promises. *)
QueuesSound == TypeOK /\ NoUseAfterRemoval

(* A callback passed to Push is executed at most once: it is not executed  *)
(* twice, and not in the queue after it was executed.                      *)
AtMostOnce ==
  \A t \in Threads :
    /\ \A j, k \in DOMAIN log[t] : log[t][j] = log[t][k] => j = k
    /\ \A k \in DOMAIN queue[t] : ~InSeq(queue[t][k], log[t])

(* A callback passed to Push is not lost while its slot lives: the pushing *)
(* thread is still delivering it, or it is queued, or it was executed, and *)
(* by the thread it was meant for.                                         *)
NoneLost ==
  \A i \in issued : slot[i.obj] = "live" =>
    msg[i.from] = i \/ InSeq(i, queue[i.to]) \/ InSeq(i, log[i.to])

(* Callbacks one thread pushes to another are executed in the order of the *)
(* pushes, whatever locks, removals and other senders come in between.     *)
SenderOrder ==
  \A t \in Threads : \A j, k \in DOMAIN log[t] :
    /\ j < k
    /\ log[t][j].from = log[t][k].from
    => log[t][j].n < log[t][k].n

(* Every callback is executed once, by its thread and in order.            *)
QueuesDeliver == AtMostOnce /\ NoneLost /\ SenderOrder

(* No set of threads waits for locks that only its own members can let go. *)
(* push, run and remove_from_queue nest two kinds of lock; this is the     *)
(* absence of a cycle among all of them.                                   *)
NoDeadlock ==
  \A S \in SUBSET Threads : S # {} => \E t \in S : WaitsFor(t) \cap S = {}

(* A callback passed to Push is executed, or its slot is destroyed.        *)
EventuallyExecuted ==
  \A t \in Threads :
    queue[t] # <<>> ~> queue[t] = <<>>

(* What the queues promise, without locks: module Mailbox.  A callback is  *)
(* posted when it enters the queue and runs until Run drops it; the locks   *)
(* and the positions inside the calls are not visible.                     *)
Abstract == INSTANCE Mailbox
  WITH box <- queue, running <- cur, life <- slot,
       Items <- [from : Threads, n : 1 .. MaxPush, to : Threads, obj : Objects]

(* ThreadSpecificQueue keeps the promise of Mailbox, with callbacks that   *)
(* push to other threads and destroy slots.                                *)
ImplementsMailbox == Abstract!Spec

================================================================================
