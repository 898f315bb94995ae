-------------------------------- MODULE Signals --------------------------------
(***************************************************************************)
(* Signals, relays and slots (include/MetaObject/Signals/detail/ of src),  *)
(* composed with the queues of InterThread.                                *)
(*                                                                         *)
(* A TypedSignal<void(T...)> holds relays, a relay holds slots, a slot     *)
(* remembers its relays; a signal and a relay have a mutex each.  An       *)
(* emission holds the mutex of the signal throughout and the mutex of one  *)
(* relay at a time, and calls each slot of that relay, or pushes the call  *)
(* to the queue of the slot's thread.  ~TypedSlot takes the slot out of    *)
(* its relays and ~ISlot takes its calls out of the queues.                *)
(*                                                                         *)
(* The queues are those of InterThread: its actions are conjuncts of the   *)
(* actions here, and every step of this module is a step of InterThread or *)
(* leaves its variables alone.  RemoveCall is the exception that has to be *)
(* earned: the destructor begins its removal without asking whether a push *)
(* is under way.                                                           *)
(*                                                                         *)
(* What a thread does in this module is a stack of frames, since a slot    *)
(* called directly may emit, or destroy another slot.                      *)
(***************************************************************************)
EXTENDS InterThread

CONSTANTS
  Sigs,       (* the signals                                                  *)
  Relays,     (* bound: the relays that connections create                    *)
  Home,       (* the thread of each slot's Context, None without a Context    *)
  SigHome,    (* the thread of each signal's Context, or None                 *)
  OwnContext, (* TRUE: emissions pass the Context of the emitting thread      *)
  Calls,      (* pairs <<o, s>>: the function of slot o may emit signal s     *)
  Kills,      (* pairs <<o, p>>: the function of slot o may destroy slot p    *)
  Emitters,   (* threads that emit of their own accord                        *)
  Wirers,     (* threads that change connections                              *)
  Loopers,    (* threads that come back to Run or RunOnce                     *)
  MaxEmit,    (* bound: emissions of a thread                                 *)
  MaxEdit     (* bound: changes of the connections                            *)

ASSUME SignalAssumption ==
  /\ Home \in [Objects -> Threads \cup {None}]
  /\ SigHome \in [Sigs -> Threads \cup {None}]
  /\ OwnContext \in BOOLEAN
  /\ Calls \subseteq Objects \X Sigs /\ Kills \subseteq Objects \X Objects
  /\ Emitters \subseteq Threads /\ Wirers \subseteq Threads
  /\ Loopers \subseteq Threads
  /\ MaxEmit \in Nat /\ MaxEdit \in Nat

VARIABLES
  sigMtx,   (* owner of each signal's mtx                                     *)
  relayMtx, (* owner of each relay's mtx                                      *)
  relays,   (* _typed_relays of each signal                                   *)
  conn,     (* _slots of each relay                                           *)
  mine,     (* _relays of each slot                                           *)
  edits,    (* how often the connections were changed                         *)
  ending,   (* the slots whose destructor has begun                           *)
  stack,    (* the frames of each thread, innermost first                     *)
  emitted,  (* how often each thread has emitted                              *)
  wave      (* history: the signal and the emission of each thread's pushes;  *)
            (* a frame has the number of its emission                         *)

sigLocks == <<sigMtx, relayMtx>>
graph == <<relays, conn, mine, edits, ending>>
sigVars == <<sigLocks, graph, stack, emitted, wave>>

Frame(op, s, o, c, w, n) ==
  [op |-> op, sig |-> s, at |-> 1, relay |-> None, todo |-> {}, obj |-> o,
   ctx |-> c, phase |-> w, num |-> n]

SigInit ==
  /\ Init
  /\ sigMtx = [s \in Sigs |-> None]
  /\ relayMtx = [r \in Relays |-> None]
  /\ relays = [s \in Sigs |-> <<>>]
  /\ conn = [r \in Relays |-> {}]
  /\ mine = [o \in Objects |-> <<>>]
  /\ edits = 0
  /\ ending = {}
  /\ stack = [t \in Threads |-> <<>>]
  /\ emitted = [t \in Threads |-> 0]
  /\ wave = [t \in Threads |-> <<>>]

Busy(t) == stack[t] # <<>>
Top(t) == Head(stack[t])
In(t, op, phase) == Busy(t) /\ Top(t).op = op /\ Top(t).phase = phase

Enter(t, f) == stack' = [stack EXCEPT ![t] = <<f>> \o @]
Leave(t) == stack' = [stack EXCEPT ![t] = Tail(@)]
Become(t, f) == stack' = [stack EXCEPT ![t] = <<f>> \o Tail(@)]
Phase(t, w) == Become(t, [Top(t) EXCEPT !.phase = w])

(* The thread is outside the library, or in the function of a slot that is *)
(* called directly or from the queue.                                      *)
Outside(t) == InUserCode(t) /\ ~Busy(t) /\ loop[t] = "out"
InSlot(t, o) ==
  /\ InUserCode(t)
  /\ \/ In(t, "emit", "called") /\ Top(t).obj = o
     \/ ~Busy(t) /\ loop[t] = "call" /\ cur[t].obj = o

----------------------------------------------------------------------------
(* Connections                                                             *)

Attached(o) == slot[o] = "live" /\ o \notin ending

InUse(r) ==
  \/ \E s \in Sigs : InSeq(r, relays[s])
  \/ \E o \in Objects : InSeq(r, mine[o])

Edit(t) ==
  /\ Outside(t) /\ t \in Wirers
  /\ edits < MaxEdit /\ edits' = edits + 1

(* TypedSlot::Connect: a relay of its own for each connection.             *)
Connect(t, o, s) ==
  /\ Edit(t) /\ Attached(o)
  /\ sigMtx[s] = None
  /\ \E r \in Relays :
       /\ ~InUse(r)
       /\ conn' = [conn EXCEPT ![r] = {o}]
       /\ relays' = [relays EXCEPT ![s] = Append(@, r)]
       /\ mine' = [mine EXCEPT ![o] = Append(@, r)]
  /\ UNCHANGED <<vars, sigLocks, ending, stack, emitted, wave>>

(* TypedSlot::Connect(relay): one more slot for a relay that exists.  A     *)
(* second call with the same relay, which would enter it in the slot's list *)
(* again, is left to module Wiring.                                        *)
Join(t, o, r) ==
  /\ Edit(t) /\ Attached(o)
  /\ InUse(r) /\ ~InSeq(r, mine[o])
  /\ relayMtx[r] = None
  /\ conn' = [conn EXCEPT ![r] = @ \cup {o}]
  /\ mine' = [mine EXCEPT ![o] = Append(@, r)]
  /\ UNCHANGED <<vars, sigLocks, relays, ending, stack, emitted, wave>>

(* The first relay r of the list is at position k.                         *)
FirstRelay(list, r, k) ==
  /\ k \in DOMAIN list /\ list[k] = r
  /\ \A j \in DOMAIN list : list[j] = r => k <= j

(* Mutant: the slot forgets the relay, the relay keeps the slot.           *)
DisconnectHalf(t, o, r) ==
  /\ Edit(t) /\ Attached(o)
  /\ relayMtx[r] = None
  /\ \E k \in DOMAIN mine[o] :
       /\ FirstRelay(mine[o], r, k)
       /\ mine' = [mine EXCEPT ![o] = RemoveAt(@, k)]
  /\ UNCHANGED <<vars, sigLocks, relays, conn, ending, stack, emitted, wave>>

(* TypedSlot::Disconnect(relay), which Connection::Disconnect calls.       *)
Disconnect(t, o, r) ==
  /\ Edit(t) /\ Attached(o)
  /\ relayMtx[r] = None
  /\ conn' = [conn EXCEPT ![r] = @ \ {o}]
  /\ \E k \in DOMAIN mine[o] :
       /\ FirstRelay(mine[o], r, k)
       /\ mine' = [mine EXCEPT ![o] = RemoveAt(@, k)]
  /\ UNCHANGED <<vars, sigLocks, relays, ending, stack, emitted, wave>>

(* TypedSignal::Disconnect: the relays go, the slots keep theirs.          *)
DisconnectSignal(t, s) ==
  /\ Edit(t)
  /\ sigMtx[s] = None
  /\ relays' = [relays EXCEPT ![s] = <<>>]
  /\ UNCHANGED <<vars, sigLocks, conn, mine, ending, stack, emitted, wave>>

(* SignalConnection::Disconnect: one relay goes.                           *)
DisconnectRelay(t, s, r) ==
  /\ Edit(t)
  /\ sigMtx[s] = None
  /\ \E k \in DOMAIN relays[s] :
       /\ FirstRelay(relays[s], r, k)
       /\ relays' = [relays EXCEPT ![s] = RemoveAt(@, k)]
  /\ UNCHANGED <<vars, sigLocks, conn, mine, ending, stack, emitted, wave>>

----------------------------------------------------------------------------
(* Emission                                                                *)

MayEmit(t, s) ==
  /\ emitted[t] < MaxEmit
  /\ \/ Outside(t) /\ t \in Emitters
     \/ \E o \in Objects : InSlot(t, o) /\ <<o, s>> \in Calls

EmitCall(t, s) ==
  /\ MayEmit(t, s)
  /\ Enter(t, Frame("emit", s, None, IF OwnContext THEN t ELSE SigHome[s], "sig",
                    emitted[t] + 1))
  /\ emitted' = [emitted EXCEPT ![t] = @ + 1]
  /\ UNCHANGED <<vars, sigLocks, graph, wave>>

(* Mutant: the mutex is held only while the list of relays is read.        *)
EmitLockReleases(t) ==
  /\ In(t, "emit", "sig")
  /\ sigMtx[Top(t).sig] = None
  /\ Phase(t, "next")
  /\ UNCHANGED <<vars, sigLocks, graph, emitted, wave>>

EmitLock(t) ==
  /\ In(t, "emit", "sig")
  /\ sigMtx[Top(t).sig] = None
  /\ sigMtx' = [sigMtx EXCEPT ![Top(t).sig] = t]
  /\ Phase(t, "next")
  /\ UNCHANGED <<vars, relayMtx, graph, emitted, wave>>

NextRelay(f) == relays[f.sig][f.at]
MoreRelays(f) == f.at <= Len(relays[f.sig])

EmitRelay(t) ==
  /\ In(t, "emit", "next") /\ MoreRelays(Top(t))
  /\ LET r == NextRelay(Top(t)) IN
       /\ relayMtx[r] = None
       /\ relayMtx' = [relayMtx EXCEPT ![r] = t]
       /\ Become(t, [Top(t) EXCEPT !.phase = "slots", !.relay = r, !.todo = conn[r]])
  /\ UNCHANGED <<vars, sigMtx, graph, emitted, wave>>

(* Mutant: the test of the threads is the wrong way round.                 *)
IsDirectSwapped(f, o) == Home[o] = None \/ f.ctx = None \/ Home[o] # f.ctx

(* The slot runs on the emitting thread unless both contexts are known and *)
(* differ.  _slots is ordered by address, hence in any order.              *)
IsDirect(f, o) == Home[o] = None \/ f.ctx = None \/ Home[o] = f.ctx

Visit(t, o, w) ==
  Become(t, [Top(t) EXCEPT !.phase = w, !.obj = o, !.todo = @ \ {o}])

EmitDirect(t, o) ==
  /\ In(t, "emit", "slots") /\ o \in Top(t).todo
  /\ IsDirect(Top(t), o)
  /\ Visit(t, o, "called")
  /\ UNCHANGED <<vars, sigLocks, graph, emitted, wave>>

(* ThreadSpecificQueue::Push with both locks held; on the slot's own       *)
(* thread Push calls the slot.                                             *)
EmitPush(t, o) ==
  /\ In(t, "emit", "slots") /\ o \in Top(t).todo
  /\ ~IsDirect(Top(t), o)
  /\ \/ Home[o] = t /\ PushInline(t, o) /\ Visit(t, o, "called")
     \/ PushCall(t, Home[o], o) /\ Visit(t, o, "pushing")
  /\ wave' = [wave EXCEPT ![t] = Append(@, <<Top(t).sig, Top(t).num>>)]
  /\ UNCHANGED <<sigLocks, graph, emitted>>

(* Push, or the slot called directly, returns.                             *)
EmitReturn(t) ==
  /\ In(t, "emit", "called") \/ In(t, "emit", "pushing")
  /\ pc[t] = "user"
  /\ Phase(t, "slots")
  /\ UNCHANGED <<vars, sigLocks, graph, emitted, wave>>

(* Mutant: the relay stays locked.                                         *)
EmitNextKeepsLock(t) ==
  /\ In(t, "emit", "slots") /\ Top(t).todo = {}
  /\ Become(t, [Top(t) EXCEPT !.phase = "next", !.at = @ + 1, !.obj = None])
  /\ UNCHANGED <<vars, sigLocks, graph, emitted, wave>>

(* Mutant: the iteration over the relays does not advance.                 *)
EmitNextSame(t) ==
  /\ In(t, "emit", "slots") /\ Top(t).todo = {}
  /\ relayMtx' = [relayMtx EXCEPT ![Top(t).relay] = None]
  /\ Become(t, [Top(t) EXCEPT !.phase = "next", !.obj = None])
  /\ UNCHANGED <<vars, sigMtx, graph, emitted, wave>>

EmitNext(t) ==
  /\ In(t, "emit", "slots") /\ Top(t).todo = {}
  /\ relayMtx' = [relayMtx EXCEPT ![Top(t).relay] = None]
  /\ Become(t, [Top(t) EXCEPT !.phase = "next", !.at = @ + 1, !.obj = None])
  /\ UNCHANGED <<vars, sigMtx, graph, emitted, wave>>

EmitDone(t) ==
  /\ In(t, "emit", "next") /\ ~MoreRelays(Top(t))
  /\ sigMtx' = [sigMtx EXCEPT ![Top(t).sig] = None]
  /\ Leave(t)
  /\ UNCHANGED <<vars, relayMtx, graph, emitted, wave>>

----------------------------------------------------------------------------
(* The destructor of a slot: ~TypedSlot, then ~ISlot                       *)

MayDestroy(t, o) ==
  /\ t \in Removers
  /\ loop[t] = "call" => t \in NestedRemove
  /\ Outside(t) \/ \E p \in Objects : InSlot(t, p) /\ <<p, o>> \in Kills

DestroyCall(t, o) ==
  /\ MayDestroy(t, o) /\ Attached(o)
  /\ ending' = ending \cup {o}
  /\ Enter(t, Frame("destroy", None, o, None, "relays", 0))
  /\ UNCHANGED <<vars, sigLocks, relays, conn, mine, edits, emitted, wave>>

Left(f) == mine[f.obj]

(* Mutant: the destructor does not wait for the relay.                     *)
DestroyRelayUnlocked(t) ==
  /\ In(t, "destroy", "relays") /\ Left(Top(t)) # <<>>
  /\ LET o == Top(t).obj  r == Head(mine[o]) IN
       /\ conn' = [conn EXCEPT ![r] = @ \ {o}]
       /\ mine' = [mine EXCEPT ![o] = Tail(@)]
  /\ UNCHANGED <<vars, sigLocks, relays, edits, ending, stack, emitted, wave>>

(* relay->Disconnect(this) for each relay, under the relay's mutex.        *)
DestroyRelay(t) ==
  /\ In(t, "destroy", "relays") /\ Left(Top(t)) # <<>>
  /\ LET o == Top(t).obj  r == Head(mine[o]) IN
       /\ relayMtx[r] = None
       /\ conn' = [conn EXCEPT ![r] = @ \ {o}]
       /\ mine' = [mine EXCEPT ![o] = Tail(@)]
  /\ UNCHANGED <<vars, sigLocks, relays, edits, ending, stack, emitted, wave>>

(* ~ISlot calls RemoveFromQueue(this).                                     *)
DestroyQueue(t) ==
  /\ In(t, "destroy", "relays") /\ Left(Top(t)) = <<>>
  /\ RemoveBegin(t, Top(t).obj)
  /\ Phase(t, "queue")
  /\ UNCHANGED <<sigLocks, graph, emitted, wave>>

DestroyDone(t) ==
  /\ In(t, "destroy", "queue") /\ pc[t] = "user"
  /\ Leave(t)
  /\ UNCHANGED <<vars, sigLocks, graph, emitted, wave>>

----------------------------------------------------------------------------
QueueStep(t) ==
  /\ PushStep(t) \/ RemoveStep(t) \/ (RunStep(t) /\ ~Busy(t))
  /\ UNCHANGED sigVars

EmitStep(t) ==
  \/ EmitLock(t) \/ EmitRelay(t)
  \/ \E o \in Objects : EmitDirect(t, o) \/ EmitPush(t, o)
  \/ EmitReturn(t) \/ EmitNext(t) \/ EmitDone(t)

DestroyStep(t) == DestroyRelay(t) \/ DestroyQueue(t) \/ DestroyDone(t)

SigProgress(t) == QueueStep(t) \/ EmitStep(t) \/ DestroyStep(t)

Begin(t) ==
  \/ \E s \in Sigs :
       \/ EmitCall(t, s) \/ DisconnectSignal(t, s)
       \/ \E o \in Objects : Connect(t, o, s)
       \/ \E r \in Relays : DisconnectRelay(t, s, r)
  \/ \E o \in Objects :
       \/ DestroyCall(t, o)
       \/ \E r \in Relays : Join(t, o, r) \/ Disconnect(t, o, r)

RunOnce(t, b) == t \in Loopers /\ ~Busy(t) /\ RunCall(t, b) /\ UNCHANGED sigVars

SigNext ==
  \E t \in Threads :
    Begin(t) \/ SigProgress(t) \/ \E b \in BOOLEAN : RunOnce(t, b)

SigSpec == SigInit /\ [][SigNext]_<<vars, sigVars>>

(* As in InterThread; the functions of slots return.                       *)
SigFairSpec ==
  /\ SigSpec
  /\ \A t \in Threads :
       /\ SF_<<vars, sigVars>>(SigProgress(t))
       /\ WF_<<vars, sigVars>>(RunOnce(t, TRUE))

----------------------------------------------------------------------------
(* What a thread waits for, and what it holds                              *)

SigWaitsFor(t) ==
  IF In(t, "emit", "sig") THEN Blocked(t, sigMtx[Top(t).sig])
  ELSE IF In(t, "emit", "next") /\ MoreRelays(Top(t))
  THEN Blocked(t, relayMtx[NextRelay(Top(t))])
  ELSE IF In(t, "destroy", "relays") /\ Left(Top(t)) # <<>>
  THEN Blocked(t, relayMtx[Head(Left(Top(t)))])
  ELSE WaitsFor(t)

----------------------------------------------------------------------------
(* Properties                                                              *)

Frames ==
  [op : {"emit", "destroy"}, sig : Sigs \cup {None}, at : Nat \ {0},
   relay : Relays \cup {None}, todo : SUBSET Objects,
   obj : Objects \cup {None}, ctx : Threads \cup {None},
   phase : {"sig", "next", "slots", "called", "pushing", "relays", "queue"},
   num : Nat]

SigTypes ==
  /\ sigMtx \in [Sigs -> Threads \cup {None}]
  /\ relayMtx \in [Relays -> Threads \cup {None}]
  /\ relays \in [Sigs -> Seq(Relays)]
  /\ conn \in [Relays -> SUBSET Objects]
  /\ mine \in [Objects -> Seq(Relays)]
  /\ edits \in Nat
  /\ ending \subseteq Objects
  /\ stack \in [Threads -> Seq(Frames)]
  /\ emitted \in [Threads -> Nat]
  /\ wave \in [Threads -> Seq(Sigs \X Nat)]

Linked == \A r \in Relays : \A o \in conn[r] : InSeq(r, mine[o])

(* The variables have their types, a relay is known to all its slots, and  *)
(* a thread is in Push or RemoveFromQueue only from the frame that called. *)
SigTypeOK ==
  /\ SigTypes
  /\ Linked
  /\ \A t \in Threads :
       pc[t] # "user" => In(t, "emit", "pushing") \/ In(t, "destroy", "queue")

(* The slots a frame is about to call, is calling, or is pushing a call of.*)
Reaching(f) ==
  f.todo \cup (IF f.phase \in {"called", "pushing"} THEN {f.obj} ELSE {})

(* An emission never reaches a slot whose destructor has passed the        *)
(* relays, though the emission took the set of slots without asking the    *)
(* slots: ~TypedSlot waits for every emission that could still reach it.   *)
NoCallOfDyingSlot ==
  \A t \in Threads : \A k \in DOMAIN stack[t] :
    \A o \in Reaching(stack[t][k]) : slot[o] = "live"

(* A slot with a Context executes on the thread of that Context, called    *)
(* from an emission there or from its queue (tests/test_signals,           *)
(* threaded_signal).                                                       *)
OnHomeThread ==
  \A t \in Threads :
    /\ \A k \in DOMAIN stack[t] :
         stack[t][k].phase = "called" => Home[stack[t][k].obj] \in {None, t}
    /\ \A k \in DOMAIN log[t] : Home[log[t][k].obj] = t

SignalOf(i) == wave[i.from][i.n][1]
Emission(i) == <<i.from, wave[i.from][i.n][2]>>

(* Two emissions of one signal reach all slots that have another thread in *)
(* the same order: an emission holds the signal's mutex until its last     *)
(* push, and the queues keep the order.                                    *)
SameOrder ==
  \A o, p \in {q \in Objects : Home[q] # None} :
    LET L == log[Home[o]]  M == log[Home[p]] IN
    \A a, b \in {k \in DOMAIN L : L[k].obj = o} :
    \A c, d \in {k \in DOMAIN M : M[k].obj = p} :
      /\ Emission(L[a]) = Emission(M[c]) /\ Emission(L[b]) = Emission(M[d])
      /\ Emission(L[a]) # Emission(L[b]) /\ SignalOf(L[a]) = SignalOf(L[b])
      /\ a < b
      => c < d

(* No set of threads waits for mutexes of signals, relays, queues and the  *)
(* map of queues that only its own members can let go.                     *)
SignalsNoDeadlock ==
  \A S \in SUBSET Threads : S # {} => \E t \in S : SigWaitsFor(t) \cap S = {}

(* Slots and relays know each other, and nobody waits in a circle.         *)
SignalsSound == SigTypeOK /\ SignalsNoDeadlock

(* Emissions, connections and destructors use the queues as InterThread    *)
(* says: in particular ~ISlot begins to remove only when no push for its   *)
(* slot is under way.                                                      *)
UsesQueuesSafely == Spec

(* An emission returns, and so does the destructor of a slot.              *)
EmissionReturns == \A t \in Threads : Busy(t) ~> ~Busy(t)

================================================================================
