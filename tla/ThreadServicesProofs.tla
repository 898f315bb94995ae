-------------------------- MODULE ThreadServicesProofs --------------------------
(***************************************************************************)
(* Proofs about threads and what they are given.                           *)
(*                                                                         *)
(* Thread, for every set of callbacks and every number of Start and Stop   *)
(* calls: the types and the discipline of _mtx, that Stop is prompt, and   *)
(* that no event is lost while at most one waits (the drain executes back()*)
(* and pops the front, which agree in that case only).                     *)
(*                                                                         *)
(* ThreadPool counts its handles right, for every finite set of places that*)
(* keep handles, every size of the pool and every number of requests.      *)
(* With any threads, types and matrices and any number of contexts, threads*)
(* find their own: their context, the thread that their work is sent to,   *)
(* and the allocator that a matrix is from (ThreadContexts).               *)
(***************************************************************************)
EXTENDS Thread, ThreadPool, ThreadContexts, FiniteSetTheorems, SequenceTheorems, TLAPS

----------------------------------------------------------------------------
(* The invariants                                                          *)

(* What waits was pushed: TypeOK alone is not inductive, since a drain step*)
(* puts what it takes from a queue into handled.                           *)
QueuedPushed ==
  /\ workQ \in Seq(Work \cap pushed)
  /\ eventQ \in Seq(Events \cap pushed)

(* While _run is set nothing is late, and Main enters its inner loop with  *)
(* nothing late: only the loop that was entered before Stop comes after it.*)
PromptInv ==
  /\ run => late = 0
  /\ pc = "inner" => late = 0

ThreadInv == TypeOK /\ QueuedPushed /\ PromptInv /\ StopIsPrompt

LEMMA ThreadInit == Init => ThreadInv
<1> SUFFICES ASSUME Init PROVE ThreadInv
  OBVIOUS
<1>1. workQ \in Seq(Work) /\ eventQ \in Seq(Events)
  BY EmptySeq DEF Init
<1>2. QueuedPushed
  BY EmptySeq DEF Init, QueuedPushed
<1>3. TypeOK
  <2>1. pc \in Positions /\ mtx \in BOOLEAN /\ (mtx <=> Draining)
    BY DEF Init, Positions, Draining
  <2>2. run \in BOOLEAN /\ interrupt \in BOOLEAN /\ slots \in BOOLEAN
    BY DEF Init
  <2>3. switches \in 0 .. MaxSwitch
    BY ThreadBounds DEF Init
  <2> QED BY <1>1, <2>1, <2>2, <2>3 DEF Init, TypeOK
<1> QED BY <1>2, <1>3 DEF Init, ThreadInv, PromptInv, StopIsPrompt

(* The drain takes a callback that waits, and leaves the others waiting.   *)
LEMMA LastElement ==
  ASSUME NEW S, NEW s \in Seq(S), s # <<>>
  PROVE  /\ Len(s) \in DOMAIN s /\ s[Len(s)] \in S
         /\ Tail(s) \in Seq(S) /\ Len(Tail(s)) = Len(s) - 1
<1>1. Len(s) \in Nat \ {0} /\ DOMAIN s = 1 .. Len(s)
  BY EmptySeq, LenProperties
<1>2. Len(s) \in 1 .. Len(s)
  BY <1>1
<1> QED BY <1>1, <1>2, ElementOfSeq, HeadTailProperties

(* A push that adds one callback to a queue and to what was pushed.        *)
LEMMA PushWaits ==
  ASSUME NEW S, NEW P, NEW s \in Seq(S \cap P), NEW x \in S
  PROVE  Append(s, x) \in Seq(S \cap (P \cup {x}))
<1>1. s \in Seq(S \cap (P \cup {x}))
  BY SeqMonotonic
<1> QED BY <1>1, AppendProperties

(* Every step keeps the invariants, one action at a time.                  *)
LEMMA ThreadStep == ThreadInv /\ [Next]_vars => ThreadInv'
<1> SUFFICES ASSUME ThreadInv, [Next]_vars PROVE ThreadInv'
  OBVIOUS
<1>t. TypeOK /\ QueuedPushed /\ PromptInv /\ StopIsPrompt
  BY DEF ThreadInv
<1> USE DEF Goto, queues, control, Positions, Parked
(* The queues do not change in a step of the control.                      *)
<1>q. ASSUME UNCHANGED queues PROVE QueuedPushed'
  BY <1>t, <1>q DEF QueuedPushed
<1>1. CASE OnStart \/ Check \/ Branch \/ ParkedTest \/ OnExit
  <2>1. TypeOK'
    BY <1>t, <1>1 DEF OnStart, Check, Branch, ParkedTest, OnExit, TypeOK, Draining
  <2>2. QueuedPushed'
    BY <1>q, <1>1 DEF OnStart, Check, Branch, ParkedTest, OnExit
  <2>3. PromptInv' /\ StopIsPrompt'
    BY <1>t, <1>1 DEF OnStart, Check, Branch, ParkedTest, OnExit, PromptInv, StopIsPrompt
  <2> QED BY <2>1, <2>2, <2>3 DEF ThreadInv
<1>2. CASE Lock \/ DrainDone
  <2>1. TypeOK'
    BY <1>t, <1>2 DEF Lock, DrainDone, TypeOK, Draining
  <2>2. QueuedPushed'
    BY <1>q, <1>2 DEF Lock, DrainDone
  <2>3. PromptInv' /\ StopIsPrompt'
    BY <1>t, <1>2 DEF Lock, DrainDone, PromptInv, StopIsPrompt
  <2> QED BY <2>1, <2>2, <2>3 DEF ThreadInv
<1>3. CASE DrainWork
  <2>1. /\ workQ # <<>> /\ workQ' = Tail(workQ)
        /\ handled' = handled \cup {workQ[Len(workQ)]}
        /\ UNCHANGED <<pc, mtx, eventQ, pushed, control, late>>
    BY <1>3 DEF DrainWork
  <2>2. QueuedPushed' /\ workQ[Len(workQ)] \in pushed
    BY <1>t, <2>1, LastElement DEF QueuedPushed
  <2>3. workQ' \in Seq(Work)
    BY <1>t, <2>1, LastElement DEF TypeOK
  <2>4. TypeOK'
    BY <1>t, <2>1, <2>2, <2>3 DEF TypeOK, Draining
  <2>5. PromptInv' /\ StopIsPrompt'
    BY <1>t, <2>1 DEF PromptInv, StopIsPrompt
  <2> QED BY <2>2, <2>4, <2>5 DEF ThreadInv
<1>4. CASE DrainEvent
  <2>1. /\ eventQ # <<>> /\ eventQ' = Tail(eventQ)
        /\ handled' = handled \cup {eventQ[Len(eventQ)]}
        /\ UNCHANGED <<pc, mtx, workQ, pushed, control, late>>
    BY <1>4 DEF DrainEvent
  <2>2. QueuedPushed' /\ eventQ[Len(eventQ)] \in pushed
    BY <1>t, <2>1, LastElement DEF QueuedPushed
  <2>3. eventQ' \in Seq(Events)
    BY <1>t, <2>1, LastElement DEF TypeOK
  <2>4. TypeOK'
    BY <1>t, <2>1, <2>2, <2>3 DEF TypeOK, Draining
  <2>5. PromptInv' /\ StopIsPrompt'
    BY <1>t, <2>1 DEF PromptInv, StopIsPrompt
  <2> QED BY <2>2, <2>4, <2>5 DEF ThreadInv
<1>5. CASE InnerLoop
  <2>1. /\ pc = "inner" /\ pc' \in {"check", "sleep", "caught"}
        /\ late' = IF run THEN 0 ELSE late + 1
        /\ UNCHANGED <<mtx, queues, control>>
    BY <1>5 DEF InnerLoop
  <2>2. late = 0 /\ late' \in {0, 1} /\ (run' => late' = 0)
    BY <1>t, <2>1 DEF PromptInv
  <2>3. TypeOK'
    BY <1>t, <2>1, <2>2 DEF TypeOK, Draining
  <2> QED BY <1>q, <2>1, <2>2, <2>3 DEF ThreadInv, PromptInv, StopIsPrompt
<1>6. CASE Sleep \/ Caught
  <2>1. /\ pc \in {"sleep", "caught"} /\ pc' \in {"caught", "done", "check"}
        /\ interrupt' = FALSE
        /\ UNCHANGED <<mtx, queues, run, slots, owner, switches, late>>
    BY <1>6 DEF Sleep, Caught
  <2>2. TypeOK'
    BY <1>t, <2>1 DEF TypeOK, Draining
  <2> QED BY <1>t, <1>q, <2>1, <2>2 DEF ThreadInv, PromptInv, StopIsPrompt
<1>7. CASE WaitFor
  <2>1. /\ pc = "wait" /\ interrupt' \in BOOLEAN
        /\ \/ pc' = "done" /\ mtx' = mtx
           \/ pc' = "parkedDrain" /\ mtx' = TRUE
        /\ UNCHANGED <<queues, run, slots, owner, switches, late>>
    BY <1>t, <1>7 DEF WaitFor, TypeOK
  <2>2. pc' \in Positions /\ mtx' \in BOOLEAN /\ (mtx' <=> Draining')
    <3>1. mtx = FALSE
      BY <1>t, <2>1 DEF TypeOK, Draining
    <3>2. CASE pc' = "done" /\ mtx' = mtx
      BY <3>1, <3>2 DEF Draining
    <3>3. CASE pc' = "parkedDrain" /\ mtx' = TRUE
      BY <3>3 DEF Draining
    <3> QED BY <2>1, <3>2, <3>3
  <2>3. TypeOK'
    BY <1>t, <2>1, <2>2 DEF TypeOK
  <2> QED BY <1>t, <1>q, <2>1, <2>3 DEF ThreadInv, PromptInv, StopIsPrompt
<1>8. CASE Destructor
  <2>1. /\ interrupt' \in BOOLEAN /\ owner' \in {"joining", "gone"}
        /\ UNCHANGED <<pc, mtx, queues, run, slots, switches, late>>
    BY <1>t, <1>8 DEF Destructor, Interrupt, Join, TypeOK
  <2>2. TypeOK'
    BY <1>t, <2>1 DEF TypeOK, Draining
  <2> QED BY <1>t, <1>q, <2>1, <2>2 DEF ThreadInv, PromptInv, StopIsPrompt
<1>9. ASSUME NEW e \in Events, PushEventQueue(e)
      PROVE  ThreadInv'
  <2>1. /\ eventQ' = Append(eventQ, e) /\ pushed' = pushed \cup {e}
        /\ UNCHANGED <<pc, mtx, workQ, handled, control, late>>
    BY <1>9 DEF PushEventQueue
  <2>2. eventQ' \in Seq(Events) /\ eventQ' \in Seq(Events \cap pushed')
    BY <1>t, <2>1, PushWaits, AppendProperties DEF TypeOK, QueuedPushed
  <2>3. workQ' \in Seq(Work \cap pushed')
    BY <1>t, <2>1, SeqMonotonic DEF QueuedPushed
  <2>4. TypeOK'
    BY <1>t, <2>1, <2>2 DEF TypeOK, Draining
  <2> QED BY <1>t, <2>1, <2>2, <2>3, <2>4
          DEF ThreadInv, QueuedPushed, PromptInv, StopIsPrompt
<1>10. ASSUME NEW w \in Work, PushWork(w)
       PROVE  ThreadInv'
  <2>1. /\ workQ' = Append(workQ, w) /\ pushed' = pushed \cup {w}
        /\ UNCHANGED <<pc, mtx, eventQ, handled, control, late>>
    BY <1>10 DEF PushWork
  <2>2. workQ' \in Seq(Work) /\ workQ' \in Seq(Work \cap pushed')
    BY <1>t, <2>1, PushWaits, AppendProperties DEF TypeOK, QueuedPushed
  <2>3. eventQ' \in Seq(Events \cap pushed')
    BY <1>t, <2>1, SeqMonotonic DEF QueuedPushed
  <2>4. TypeOK'
    BY <1>t, <2>1, <2>2 DEF TypeOK, Draining
  <2> QED BY <1>t, <2>1, <2>2, <2>3, <2>4
          DEF ThreadInv, QueuedPushed, PromptInv, StopIsPrompt
<1>11. CASE Start \/ Stop \/ SetInnerLoop \/ Destroy
  <2>1. /\ run' \in BOOLEAN /\ slots' \in BOOLEAN /\ switches' \in 0 .. MaxSwitch
        /\ owner' \in {"using", "clearing"}
        /\ late' = late \/ late' = 0
        /\ run' => late' = 0
        /\ UNCHANGED <<pc, mtx, queues, interrupt>>
    <3>1. CASE Start \/ Stop
      <4>1. switches' \in 0 .. MaxSwitch
        BY <1>t, <3>1, ThreadBounds DEF Start, Stop, TypeOK
      <4> QED BY <1>t, <3>1, <4>1 DEF Start, Stop, TypeOK, PromptInv
    <3>2. CASE SetInnerLoop
      <4>1. slots' \in BOOLEAN
        BY <3>2 DEF SetInnerLoop
      <4> QED BY <1>t, <3>2, <4>1 DEF SetInnerLoop, TypeOK, PromptInv
    <3>3. CASE Destroy
      BY <1>t, <3>3 DEF Destroy, TypeOK
    <3> QED BY <1>11, <3>1, <3>2, <3>3
  <2>2. TypeOK'
    BY <1>t, <2>1 DEF TypeOK, Draining
  <2> QED BY <1>t, <1>q, <2>1, <2>2 DEF ThreadInv, PromptInv, StopIsPrompt
<1>12. CASE UNCHANGED vars
  BY <1>t, <1>q, <1>12 DEF vars, ThreadInv, TypeOK, Draining, PromptInv, StopIsPrompt
<1> QED BY <1>1, <1>2, <1>3, <1>4, <1>5, <1>6, <1>7, <1>8, <1>9, <1>10, <1>11,
          <1>12
       DEF Next, Main, Clients

(* The invariants hold in every reachable state.                           *)
LEMMA ThreadHolds == Spec => []ThreadInv
BY ThreadInit, ThreadStep, PTL DEF Spec

(* After Stop returns the inner loop begins at most once more, whatever    *)
(* the clients and the owner do.                                           *)
THEOREM StopTakesEffect == Spec => []StopIsPrompt
<1>1. ThreadInv => StopIsPrompt
  BY DEF ThreadInv
<1> QED BY <1>1, ThreadHolds, PTL

----------------------------------------------------------------------------
(* Events                                                                  *)

(* No more than one event waits, ever.                                     *)
OneWaits == Len(eventQ) <= 1

LEMMA OneWaitsStep ==
  ASSUME Backlog = 1
  PROVE  ThreadInv /\ OneWaits /\ EventsHandled /\ [Next]_vars
           => OneWaits' /\ EventsHandled'
<1> SUFFICES ASSUME ThreadInv, OneWaits, EventsHandled, [Next]_vars
             PROVE  OneWaits' /\ EventsHandled'
  OBVIOUS
<1> USE DEF Goto, queues, control
<1>t. eventQ \in Seq(Events) /\ Len(eventQ) \in Nat /\ DOMAIN eventQ = 1 .. Len(eventQ)
  BY LenProperties DEF ThreadInv, TypeOK
<1>a. ASSUME eventQ' = eventQ, Events \cap pushed' = Events \cap pushed,
             handled \subseteq handled'
      PROVE  OneWaits' /\ EventsHandled'
  BY <1>a DEF OneWaits, EventsHandled
<1>1. CASE DrainEvent
  <2>1. /\ eventQ # <<>> /\ eventQ' = Tail(eventQ) /\ pushed' = pushed
        /\ handled' = handled \cup {eventQ[Len(eventQ)]}
    BY <1>1 DEF DrainEvent
  <2>2. Len(eventQ) = 1 /\ Len(eventQ') = 0
    BY <1>t, <2>1, LastElement, EmptySeq DEF OneWaits
  <2>3. \A k \in DOMAIN eventQ : eventQ[k] \in handled'
    BY <1>t, <2>1, <2>2
  <2> QED BY <2>1, <2>2, <2>3 DEF OneWaits, EventsHandled
<1>2. ASSUME NEW e \in Events, PushEventQueue(e)
      PROVE  OneWaits' /\ EventsHandled'
  <2>1. /\ eventQ' = Append(eventQ, e) /\ pushed' = pushed \cup {e}
        /\ Len(eventQ) < 1 /\ handled' = handled
    BY <1>2 DEF PushEventQueue
  <2>2. /\ Len(eventQ) = 0 /\ Len(eventQ') = 1 /\ eventQ'[1] = e
        /\ DOMAIN eventQ' = 1 .. 1 /\ DOMAIN eventQ = {}
    BY <1>t, <2>1, AppendProperties, LenProperties
  <2> QED BY <2>1, <2>2 DEF OneWaits, EventsHandled
<1>3. ASSUME NEW w \in Work, PushWork(w)
      PROVE  OneWaits' /\ EventsHandled'
  BY <1>a, <1>3, ThreadBounds DEF PushWork
<1>4. CASE DrainWork
  BY <1>a, <1>4 DEF DrainWork
<1>5. CASE OnStart \/ Check \/ Lock \/ DrainDone \/ Branch \/ InnerLoop \/ ParkedTest
           \/ OnExit
  BY <1>a, <1>5 DEF OnStart, Check, Lock, DrainDone, Branch, InnerLoop, ParkedTest,
                    OnExit
<1>6. CASE Sleep \/ Caught \/ WaitFor \/ Interrupt \/ Join
  BY <1>a, <1>6 DEF Sleep, Caught, WaitFor, Interrupt, Join
<1>7. CASE Start \/ Stop \/ SetInnerLoop \/ Destroy
  BY <1>a, <1>7 DEF Start, Stop, SetInnerLoop, Destroy
<1>8. CASE UNCHANGED vars
  BY <1>a, <1>8 DEF vars
<1> QED BY <1>1, <1>2, <1>3, <1>4, <1>5, <1>6, <1>7, <1>8
       DEF Next, Main, Destructor, Clients

(* As long as no event is pushed while another waits, every event pushed   *)
(* is executed before it leaves the queue, no loop begins after Stop, and  *)
(* Main holds _mtx exactly while it drains.  With a second event waiting   *)
(* the claim is false: a run of this project shows the event that is lost. *)
THEOREM Sound ==
  ASSUME Backlog = 1
  PROVE  Spec => []ThreadSound
<1>1. Init => OneWaits /\ EventsHandled
  BY EmptySeq DEF Init, OneWaits, EventsHandled
<1>2. ThreadInv /\ EventsHandled => ThreadSound
  BY DEF ThreadInv, ThreadSound
<1> QED BY <1>1, <1>2, OneWaitsStep, ThreadHolds, PTL DEF Spec

-----------------------------------------------------------------------------
(* The pool of threads and the threads' own                                *)

Entry == [available : BOOLEAN, count : Int, run : BOOLEAN]

----------------------------------------------------------------------------
(* Counting                                                                *)

(* Whoever holds something is among a finite set of handles.               *)
LEMMA HoldersFinite ==
  ASSUME NEW f, NEW t
  PROVE  LET H == {x \in Handles : f[x] = t}
         IN IsFiniteSet(H) /\ Cardinality(H) \in Nat /\ (Cardinality(H) = 0 <=> H = {})
<1> DEFINE H == {x \in Handles : f[x] = t}
<1>1. IsFiniteSet(H)
  BY ThreadPoolAssumption, FS_Subset
<1> HIDE DEF H
<1>2. Cardinality(H) \in Nat /\ (Cardinality(H) = 0 <=> H = {})
  BY <1>1, FS_CardinalityType, FS_EmptySet
<1> QED BY <1>1, <1>2 DEF H

(* A handle that starts to hold a thread is one holder more.               *)
LEMMA OneMore ==
  ASSUME NEW f \in [Handles -> Int], NEW h \in Handles, NEW v \in Int, f[h] # v
  PROVE  Cardinality({x \in Handles : [f EXCEPT ![h] = v][x] = v})
           = Cardinality({x \in Handles : f[x] = v}) + 1
<1> DEFINE H == {x \in Handles : f[x] = v}
           G == {x \in Handles : [f EXCEPT ![h] = v][x] = v}
<1>1. G = H \cup {h} /\ h \notin H
  OBVIOUS
<1>2. IsFiniteSet(H)
  BY HoldersFinite
<1> HIDE DEF H, G
<1>3. Cardinality(G) = Cardinality(H) + 1
  BY <1>1, <1>2, FS_AddElement
<1> QED BY <1>3 DEF H, G

(* A handle that stops to hold a thread is one holder less.                *)
LEMMA OneLess ==
  ASSUME NEW f \in [Handles -> Int], NEW h \in Handles, NEW v \in Int, f[h] # v
  PROVE  Cardinality({x \in Handles : [f EXCEPT ![h] = v][x] = f[h]})
           = Cardinality({x \in Handles : f[x] = f[h]}) - 1
<1> DEFINE H == {x \in Handles : f[x] = f[h]}
           G == {x \in Handles : [f EXCEPT ![h] = v][x] = f[h]}
<1>1. G = H \ {h} /\ h \in H
  OBVIOUS
<1>2. IsFiniteSet(H)
  BY HoldersFinite
<1> HIDE DEF H, G
<1>3. Cardinality(G) = Cardinality(H) - 1
  BY <1>1, <1>2, FS_RemoveElement
<1> QED BY <1>3 DEF H, G

(* Changing an entry leaves a sequence of entries.                         *)
LEMMA EntryChanged ==
  ASSUME NEW p \in Seq(Entry), NEW t \in 1..Len(p), NEW e \in Entry
  PROVE  LET q == [p EXCEPT ![t] = e]
         IN /\ q \in Seq(Entry) /\ Len(q) = Len(p)
            /\ \A u \in 1..Len(p) : q[u] = IF u = t THEN e ELSE p[u]
BY ExceptSeq, LenProperties

(* A new count leaves the rest of an entry.                                *)
LEMMA CountChanged ==
  ASSUME NEW r \in Entry, NEW n \in Int
  PROVE  LET e == [r EXCEPT !.count = n]
         IN e \in Entry /\ e.available = r.available /\ e.count = n
BY DEF Entry

(* increment raises one count and touches nothing else.                    *)
LEMMA IncrementedIs ==
  ASSUME NEW p \in Seq(Entry), NEW t \in {0} \cup 1..Len(p)
  PROVE  /\ Incremented(p, t) \in Seq(Entry) /\ Len(Incremented(p, t)) = Len(p)
         /\ \A u \in 1..Len(p) :
              /\ Incremented(p, t)[u].available = p[u].available
              /\ Incremented(p, t)[u].count = p[u].count + (IF u = t THEN 1 ELSE 0)
<1>1. \A u \in 1..Len(p) : p[u] \in Entry /\ p[u].count \in Int
  <2>1. \A u \in 1..Len(p) : p[u] \in Entry
    BY ElementOfSeq
  <2> QED BY <2>1 DEF Entry
<1>2. CASE t = 0
  BY <1>1, <1>2 DEF Incremented
<1>3. CASE t # 0
  <2> DEFINE e == [p[t] EXCEPT !.count = @ + 1]
  <2>1. Incremented(p, t) = [p EXCEPT ![t] = e]
    BY <1>3 DEF Incremented
  <2>2. e \in Entry /\ e.available = p[t].available /\ e.count = p[t].count + 1
    <3>1. p[t] \in Entry /\ p[t].count + 1 \in Int
      BY <1>1, <1>3
    <3> QED BY <3>1, CountChanged
  <2> HIDE DEF e
  <2> QED BY <1>1, <1>3, <2>1, <2>2, EntryChanged
<1> QED BY <1>2, <1>3

(* decrement lowers one count; a thread that is left with none is returned.*)
LEMMA DecrementedIs ==
  ASSUME NEW p \in Seq(Entry), NEW t \in {0} \cup 1..Len(p)
  PROVE  /\ Decremented(p, t) \in Seq(Entry) /\ Len(Decremented(p, t)) = Len(p)
         /\ \A u \in 1..Len(p) :
              /\ Decremented(p, t)[u].count = p[u].count - (IF u = t THEN 1 ELSE 0)
              /\ p[u].available => Decremented(p, t)[u].available
              /\ u = t /\ p[u].count <= 1 => Decremented(p, t)[u].available
<1>1. \A u \in 1..Len(p) : p[u] \in Entry /\ p[u].count \in Int
  <2>1. \A u \in 1..Len(p) : p[u] \in Entry
    BY ElementOfSeq
  <2> QED BY <2>1 DEF Entry
<1>2. CASE t = 0
  BY <1>1, <1>2 DEF Decremented
<1>3. CASE t # 0
  <2> DEFINE e == [p[t] EXCEPT !.count = @ - 1]
             q == [p EXCEPT ![t].count = @ - 1]
  <2>1. q = [p EXCEPT ![t] = e]
    OBVIOUS
  <2>2. e \in Entry /\ e.available = p[t].available /\ e.count = p[t].count - 1
    <3>1. p[t] \in Entry /\ p[t].count - 1 \in Int
      BY <1>1, <1>3
    <3> QED BY <3>1, CountChanged
  <2>3. /\ q \in Seq(Entry) /\ Len(q) = Len(p)
        /\ \A u \in 1..Len(p) : q[u] = IF u = t THEN e ELSE p[u]
    <3> HIDE DEF e, q
    <3> QED BY <1>3, <2>1, <2>2, EntryChanged
  <2>4. CASE e.count <= 0
    <3> DEFINE d == [e EXCEPT !.available = TRUE, !.run = FALSE]
    <3>1. d \in Entry /\ d.available /\ d.count = e.count
      BY <2>2 DEF Entry
    <3>2. Decremented(p, t) = [q EXCEPT ![t] = d]
      <4>1. Decremented(p, t) = ReturnThread(q, t)
        BY <1>3, <2>3, <2>4 DEF Decremented
      <4>2. ReturnThread(q, t) = [q EXCEPT ![t] = [q[t] EXCEPT !.available = TRUE, !.run = FALSE]]
        BY <1>3, <2>3 DEF ReturnThread
      <4> QED BY <4>1, <4>2, <1>3, <2>3
    <3>3. /\ Decremented(p, t) \in Seq(Entry) /\ Len(Decremented(p, t)) = Len(p)
          /\ \A u \in 1..Len(p) : Decremented(p, t)[u] = IF u = t THEN d ELSE p[u]
      <4> HIDE DEF d, e, q
      <4> QED BY <1>3, <2>3, <3>1, <3>2, EntryChanged
    <3> HIDE DEF d, e, q
    <3> QED BY <1>1, <1>3, <2>2, <3>1, <3>3
  <2>5. CASE ~(e.count <= 0)
    <3>1. Decremented(p, t) = q
      BY <1>3, <2>3, <2>5 DEF Decremented
    <3> HIDE DEF e, q
    <3> QED BY <1>1, <1>3, <2>2, <2>3, <2>5, <3>1
  <2> QED BY <2>4, <2>5
<1> QED BY <1>2, <1>3

----------------------------------------------------------------------------
(* The invariant                                                           *)

(* What PoolSound says of the places a handle may point to.                *)
LEMMA Held ==
  ASSUME PoolSound, NEW h \in Handles
  PROVE  /\ handle \in [Handles -> Int] /\ pooled \in Seq(Entry)
         /\ Len(pooled) \in Nat /\ Entries \subseteq 1..Len(pooled)
         /\ handle[h] \in {Gone, 0} \cup Entries
         /\ Built(h) => handle[h] \in {0} \cup 1..Len(pooled)
         /\ Gone \notin Entries /\ 0 \notin Entries /\ Gone \in Int
<1>1. pooled \in Seq(Entry) /\ handle \in [Handles -> {Gone, 0} \cup Entries]
  BY DEF PoolSound, PoolTypeOK, Entry
<1>2. Len(pooled) \in Nat
  BY <1>1, LenProperties
<1> QED BY <1>1, <1>2 DEF Entries, Gone, Built

(* A thread that is neither shared nor leaked counts its handles.          *)
LEMMA Counted ==
  ASSUME PoolSound, NEW u \in Entries, u \notin shared \cup leaked
  PROVE  /\ pooled[u].count = Cardinality(Holders(u)) /\ Cardinality(Holders(u)) \in Nat
         /\ Holders(u) = {} => pooled[u].available
<1>1. Cardinality(Holders(u)) \in Nat
  BY HoldersFinite DEF Holders
<1> QED BY <1>1 DEF PoolSound, CountsHandles

LEMMA PoolSoundInit == PoolInit => PoolSound
<1> SUFFICES ASSUME PoolInit PROVE PoolSound
  OBVIOUS
<1>1. pooled = <<>> /\ Len(pooled) = 0 /\ Entries = {}
  BY DEF PoolInit, Entries
<1>2. PoolTypeOK
  BY <1>1 DEF PoolInit, PoolTypeOK
<1> QED BY <1>1, <1>2 DEF PoolSound, CountsHandles, Exclusive

LEMMA CopySound ==
  ASSUME PoolSound, NEW h \in Handles, NEW g \in Handles, CopyTo(h, g)
  PROVE  PoolSound'
<1> DEFINE t == handle[g]
<1>1. /\ handle \in [Handles -> Int] /\ pooled \in Seq(Entry) /\ Len(pooled) \in Nat
      /\ handle[h] = Gone /\ t \in {0} \cup 1..Len(pooled)
      /\ 0 \notin Entries /\ Gone \notin Entries /\ handle[h] # t /\ t \in Int
  BY Held DEF CopyTo, Built, Gone
<1>2. handle' = [handle EXCEPT ![h] = t] /\ client' = [client EXCEPT ![h] = client[g]]
      /\ pooled' = Incremented(pooled, t) /\ UNCHANGED <<requests, shared, leaked>>
  BY DEF CopyTo
<1>3. /\ pooled' \in Seq(Entry) /\ Entries' = Entries /\ Entries = 1..Len(pooled)
      /\ \A u \in Entries : /\ pooled'[u].available = pooled[u].available
                            /\ pooled'[u].count = pooled[u].count + (IF u = t THEN 1 ELSE 0)
  BY <1>1, <1>2, IncrementedIs DEF Entries
<1>4. PoolTypeOK'
  BY <1>1, <1>2, <1>3 DEF PoolSound, PoolTypeOK, Entry
<1>5. CountsHandles'
  <2> SUFFICES ASSUME NEW u \in Entries, u \notin shared \cup leaked
               PROVE  /\ pooled'[u].count = Cardinality(Holders(u)')
                      /\ Holders(u)' = {} => pooled'[u].available
    BY <1>2, <1>3 DEF CountsHandles
  <2>1. /\ pooled[u].count = Cardinality(Holders(u)) /\ Cardinality(Holders(u)) \in Nat
        /\ Holders(u) = {} => pooled[u].available
    BY Counted
  <2>2. CASE u = t
    <3>1. Cardinality(Holders(u)') = Cardinality(Holders(u)) + 1
      BY SMTT(20), <1>1, <1>2, <2>2, OneMore DEF Holders
    <3>2. h \in Holders(u)'
      BY <1>1, <1>2, <2>2 DEF Holders
    <3> QED BY <1>3, <2>1, <2>2, <3>1, <3>2
  <2>3. CASE u # t
    <3>1. Holders(u)' = Holders(u)
      BY <1>1, <1>2, <1>3, <2>3 DEF Holders
    <3> QED BY <1>3, <2>1, <2>3, <3>1
  <2> QED BY <2>2, <2>3
<1>6. Exclusive'
  BY SMTT(20), <1>1, <1>2, <1>3, <1>4 DEF PoolSound, PoolTypeOK, Exclusive
<1> QED BY <1>4, <1>5, <1>6 DEF PoolSound

LEMMA DropSound ==
  ASSUME PoolSound, NEW h \in Handles, Drop(h)
  PROVE  PoolSound'
<1> DEFINE t == handle[h]
<1>1. /\ handle \in [Handles -> Int] /\ pooled \in Seq(Entry) /\ Len(pooled) \in Nat
      /\ t # Gone /\ t \in {0} \cup 1..Len(pooled)
      /\ 0 \notin Entries /\ Gone \notin Entries /\ t \in Int /\ Gone \in Int
  BY Held DEF Drop, Built, Gone
<1>2. handle' = [handle EXCEPT ![h] = Gone] /\ client' = [client EXCEPT ![h] = 0]
      /\ pooled' = Decremented(pooled, t) /\ UNCHANGED <<requests, shared, leaked>>
  BY DEF Drop
<1>3. /\ pooled' \in Seq(Entry) /\ Entries' = Entries /\ Entries = 1..Len(pooled)
      /\ \A u \in Entries : /\ pooled'[u].count = pooled[u].count - (IF u = t THEN 1 ELSE 0)
                            /\ pooled[u].available => pooled'[u].available
                            /\ u = t /\ pooled[u].count <= 1 => pooled'[u].available
  BY <1>1, <1>2, DecrementedIs DEF Entries
<1>4. PoolTypeOK'
  BY <1>1, <1>2, <1>3 DEF PoolSound, PoolTypeOK, Entry
<1>5. CountsHandles'
  <2> SUFFICES ASSUME NEW u \in Entries, u \notin shared \cup leaked
               PROVE  /\ pooled'[u].count = Cardinality(Holders(u)')
                      /\ Holders(u)' = {} => pooled'[u].available
    BY <1>2, <1>3 DEF CountsHandles
  <2>1. /\ pooled[u].count = Cardinality(Holders(u)) /\ Cardinality(Holders(u)) \in Nat
        /\ Holders(u) = {} => pooled[u].available
    BY Counted
  <2>2. CASE u = t
    <3>1. Cardinality(Holders(u)') = Cardinality(Holders(u)) - 1
      BY SMTT(20), <1>1, <1>2, <2>2, OneLess DEF Holders
    <3>2. Holders(u)' = {} => Cardinality(Holders(u)') = 0
      BY FS_EmptySet
    <3> QED BY <1>3, <2>1, <2>2, <3>1, <3>2
  <2>3. CASE u # t
    <3>1. Holders(u)' = Holders(u)
      BY <1>1, <1>2, <1>3, <2>3 DEF Holders
    <3> QED BY <1>3, <2>1, <2>3, <3>1
  <2> QED BY <2>2, <2>3
<1>6. Exclusive'
  BY <1>1, <1>2, <1>3, <1>4 DEF PoolSound, PoolTypeOK, Exclusive
<1> QED BY <1>4, <1>5, <1>6 DEF PoolSound

LEMMA AssignSound ==
  ASSUME PoolSound, NEW h \in Handles, NEW g \in Handles, Assign(h, g)
  PROVE  PoolSound'
<1> DEFINE o == handle[h]
           t == handle[g]
<1>1. /\ handle \in [Handles -> Int] /\ pooled \in Seq(Entry) /\ Len(pooled) \in Nat
      /\ o \in {0} \cup 1..Len(pooled) /\ t \in {0} \cup 1..Len(pooled)
      /\ 0 \notin Entries /\ Gone \notin Entries /\ o \in Int /\ t \in Int
  BY Held DEF Assign
<1>2. handle' = [handle EXCEPT ![h] = t] /\ client' = [client EXCEPT ![h] = client[g]]
      /\ pooled' = Incremented(Decremented(pooled, o), t) /\ UNCHANGED <<requests, shared, leaked>>
  BY DEF Assign
<1>3. PICK d :
      /\ d = Decremented(pooled, o) /\ d \in Seq(Entry) /\ Len(d) = Len(pooled)
      /\ \A u \in 1..Len(pooled) :
           /\ d[u].count = pooled[u].count - (IF u = o THEN 1 ELSE 0)
           /\ pooled[u].available => d[u].available
           /\ u = o /\ pooled[u].count <= 1 => d[u].available
  BY <1>1, DecrementedIs
<1>4. /\ pooled' \in Seq(Entry) /\ Entries' = Entries /\ Entries = 1..Len(pooled)
      /\ \A u \in Entries : /\ pooled'[u].available = d[u].available
                            /\ pooled'[u].count = d[u].count + (IF u = t THEN 1 ELSE 0)
  <2>1. t \in {0} \cup 1..Len(d)
    BY <1>1, <1>3
  <2>2. /\ Incremented(d, t) \in Seq(Entry) /\ Len(Incremented(d, t)) = Len(d)
        /\ \A u \in 1..Len(d) :
             /\ Incremented(d, t)[u].available = d[u].available
             /\ Incremented(d, t)[u].count = d[u].count + (IF u = t THEN 1 ELSE 0)
    BY <1>3, <2>1, IncrementedIs
  <2> HIDE DEF t
  <2> QED BY <1>2, <1>3, <2>2 DEF Entries
<1>5. PoolTypeOK'
  BY <1>1, <1>2, <1>4 DEF PoolSound, PoolTypeOK, Entry
<1>6. CountsHandles'
  <2> SUFFICES ASSUME NEW u \in Entries, u \notin shared \cup leaked
               PROVE  /\ pooled'[u].count = Cardinality(Holders(u)')
                      /\ Holders(u)' = {} => pooled'[u].available
    BY <1>2, <1>4 DEF CountsHandles
  <2>1. /\ pooled[u].count = Cardinality(Holders(u)) /\ Cardinality(Holders(u)) \in Nat
        /\ Holders(u) = {} => pooled[u].available
    BY Counted
  <2>6. /\ pooled'[u].count = pooled[u].count - (IF u = o THEN 1 ELSE 0)
                                              + (IF u = t THEN 1 ELSE 0)
        /\ pooled[u].available => pooled'[u].available
        /\ u = o /\ pooled[u].count <= 1 => pooled'[u].available
    <3>1. u \in 1..Len(pooled) /\ pooled[u].count \in Int
      BY <1>4, <2>1
    <3>2. d[u].count = pooled[u].count - (IF u = o THEN 1 ELSE 0)
      BY <1>3, <3>1
    <3>4. /\ pooled[u].available => d[u].available
          /\ u = o /\ pooled[u].count <= 1 => d[u].available
      BY <1>3, <3>1, Zenon
    <3>3. /\ pooled'[u].available = d[u].available
          /\ pooled'[u].count = d[u].count + (IF u = t THEN 1 ELSE 0)
      BY <1>4
    <3> HIDE DEF o, t
    <3> QED BY <3>1, <3>2, <3>3, <3>4
  <2>2. CASE u = t /\ u = o
    <3>1. Holders(u)' = Holders(u) /\ h \in Holders(u)
      BY <1>1, <1>2, <2>2 DEF Holders
    <3> QED BY <2>6, <2>1, <2>2, <3>1
  <2>3. CASE u = t /\ u # o
    <3>1. Cardinality(Holders(u)') = Cardinality(Holders(u)) + 1
      BY SMTT(20), <1>1, <1>2, <2>3, OneMore DEF Holders
    <3>2. h \in Holders(u)'
      BY <1>1, <1>2, <2>3 DEF Holders
    <3> QED BY <2>6, <2>1, <2>3, <3>1, <3>2
  <2>4. CASE u # t /\ u = o
    <3>1. Cardinality(Holders(u)') = Cardinality(Holders(u)) - 1
      BY <1>1, <1>2, <2>4, OneLess DEF Holders
    <3>2. Holders(u)' = {} => Cardinality(Holders(u)') = 0
      BY FS_EmptySet
    <3> QED BY <2>6, <2>1, <2>4, <3>1, <3>2
  <2>5. CASE u # t /\ u # o
    <3>1. Holders(u)' = Holders(u)
      BY <1>1, <1>2, <1>4, <2>5 DEF Holders
    <3> QED BY <2>6, <2>1, <2>5, <3>1
  <2> QED BY <2>2, <2>3, <2>4, <2>5
<1>7. Exclusive'
  BY SMTT(20), <1>1, <1>2, <1>4, <1>5 DEF PoolSound, PoolTypeOK, Exclusive
<1> QED BY <1>5, <1>6, <1>7 DEF PoolSound

LEMMA MoveSound ==
  ASSUME PoolSound, NEW h \in Handles, NEW g \in Handles, MoveTo(h, g)
  PROVE  PoolSound'
<1> DEFINE t == handle[g]
<1>1. /\ handle \in [Handles -> Int] /\ pooled \in Seq(Entry)
      /\ handle[h] \in {Gone, 0} \cup Entries /\ t \in {0} \cup 1..Len(pooled)
      /\ 0 \notin Entries /\ Gone \notin Entries /\ t \in Int /\ handle[h] \in Int
      /\ Entries \subseteq 1..Len(pooled) /\ Gone # 0
  BY Held DEF MoveTo, Gone
<1>2. /\ handle' = [handle EXCEPT ![h] = t, ![g] = 0]
      /\ client' = [client EXCEPT ![h] = client[g], ![g] = 0]
      /\ leaked' = leaked \cup ({handle[h]} \ {0, Gone})
      /\ UNCHANGED <<pooled, requests, shared>> /\ Entries' = Entries
  BY DEF MoveTo, Entries
<1>3. PoolTypeOK'
  <2>1. handle' \in [Handles -> {Gone, 0} \cup Entries]
    BY <1>1, <1>2 DEF PoolSound, PoolTypeOK
  <2>2. client' \in [Handles -> 0..requests] /\ requests \in Nat
    <3>1. client \in [Handles -> 0..requests] /\ requests \in Nat
      BY DEF PoolSound, PoolTypeOK
    <3> QED BY <1>2, <3>1
  <2>3. leaked' \subseteq Entries
    BY <1>1, <1>2 DEF PoolSound, PoolTypeOK
  <2> QED BY <1>2, <2>1, <2>2, <2>3 DEF PoolSound, PoolTypeOK
<1>4. CountsHandles'
  <2> SUFFICES ASSUME NEW u \in Entries, u \notin shared \cup leaked'
               PROVE  /\ pooled[u].count = Cardinality(Holders(u)')
                      /\ Holders(u)' = {} => pooled[u].available
    BY <1>2 DEF CountsHandles
  <2>1. u # handle[h] /\ u # 0 /\ u \notin leaked /\ u \in Int
    BY <1>1, <1>2
  <2>2. /\ pooled[u].count = Cardinality(Holders(u)) /\ Cardinality(Holders(u)) \in Nat
        /\ Holders(u) = {} => pooled[u].available
    BY <2>1, Counted
  <2>3. CASE u = t
    <3> DEFINE f == [handle EXCEPT ![h] = t]
    <3>1. f \in [Handles -> Int] /\ f[g] = t /\ f[h] = t /\ h # g
          /\ handle' = [f EXCEPT ![g] = 0]
      BY <1>1, <1>2, <2>1, <2>3
    <3>2. Cardinality({x \in Handles : f[x] = t}) = Cardinality(Holders(u)) + 1
      BY <1>1, <2>1, <2>3, OneMore DEF Holders
    <3>3. Cardinality(Holders(u)') = Cardinality({x \in Handles : f[x] = t}) - 1
      <4> HIDE DEF f
      <4>1. Cardinality({x \in Handles : [f EXCEPT ![g] = 0][x] = f[g]})
              = Cardinality({x \in Handles : f[x] = f[g]}) - 1
        BY <2>1, <2>3, <3>1, OneLess
      <4>2. Holders(u)' = {x \in Handles : [f EXCEPT ![g] = 0][x] = f[g]}
        BY <2>3, <3>1 DEF Holders
      <4> QED BY <3>1, <4>1, <4>2
    <3>4. h \in Holders(u)'
      BY <1>1, <1>2, <2>3, <3>1 DEF Holders
    <3> HIDE DEF f
    <3> QED BY <2>2, <3>2, <3>3, <3>4
  <2>4. CASE u # t
    <3>1. Holders(u)' = Holders(u)
      BY <1>1, <1>2, <2>1, <2>4 DEF Holders
    <3> QED BY <2>2, <3>1
  <2> QED BY <2>3, <2>4
<1>5. Exclusive'
  BY SMTT(20), <1>1, <1>2, <1>3 DEF PoolSound, PoolTypeOK, Exclusive
<1> QED BY <1>3, <1>4, <1>5 DEF PoolSound

LEMMA RequestSound ==
  ASSUME PoolSound, NEW h \in Handles, RequestThread(h)
  PROVE  PoolSound'
<1>1. /\ handle \in [Handles -> Int] /\ pooled \in Seq(Entry) /\ Len(pooled) \in Nat
      /\ handle[h] = Gone /\ Gone \notin Entries /\ 0 \notin Entries /\ Gone # 0
      /\ Entries = 1..Len(pooled)
  BY Held DEF RequestThread, Built, Gone, Entries
<1>2. /\ requests' = requests + 1 /\ client' = [client EXCEPT ![h] = requests + 1]
      /\ leaked' = leaked
  BY DEF RequestThread
<1>3. client' \in [Handles -> 0..requests'] /\ requests' \in Nat
  <2>1. client \in [Handles -> 0..requests] /\ requests \in Nat
    BY DEF PoolSound, PoolTypeOK
  <2> QED BY <1>2, <2>1
<1>4. ASSUME NEW t \in Available,
             pooled' = Incremented([pooled EXCEPT ![t].count = 0], t),
             handle' = [handle EXCEPT ![h] = t],
             shared' = IF Holders(t) # {} THEN shared \cup {t} ELSE shared
      PROVE  PoolSound'
  <2> DEFINE p == [pooled EXCEPT ![t].count = 0]
  <2>1. t \in Entries /\ t # Gone /\ t \in Int
    BY <1>1 DEF Available
  <2>2. /\ p \in Seq(Entry) /\ Len(p) = Len(pooled)
        /\ \A u \in Entries : /\ p[u].available = pooled[u].available
                              /\ p[u].count = IF u = t THEN 0 ELSE pooled[u].count
    <3> DEFINE e == [pooled[t] EXCEPT !.count = 0]
    <3>1. pooled[t] \in Entry /\ p = [pooled EXCEPT ![t] = e]
      BY <1>1, <2>1, ElementOfSeq
    <3>2. e \in Entry /\ e.available = pooled[t].available /\ e.count = 0
      BY <3>1 DEF Entry
    <3> HIDE DEF e, p
    <3> QED BY <1>1, <2>1, <3>1, <3>2, EntryChanged
  <2>3. /\ pooled' \in Seq(Entry) /\ Entries' = Entries
        /\ \A u \in Entries :
             /\ pooled'[u].available = pooled[u].available
             /\ pooled'[u].count = IF u = t THEN 1 ELSE pooled[u].count + 0
    <3> HIDE DEF p
    <3>1. pooled' = Incremented(p, t)
      BY <1>4 DEF p
    <3>2. t \in {0} \cup 1..Len(p)
      BY <1>1, <2>1, <2>2
    <3>3. /\ pooled' \in Seq(Entry) /\ Len(pooled') = Len(p)
          /\ \A u \in 1..Len(p) :
               /\ pooled'[u].available = p[u].available
               /\ pooled'[u].count = p[u].count + (IF u = t THEN 1 ELSE 0)
      BY <2>2, <3>1, <3>2, IncrementedIs
    <3> QED BY <1>1, <2>2, <3>3 DEF Entries
  <2>4. PoolTypeOK'
    <3>1. handle' \in [Handles -> {Gone, 0} \cup Entries] /\ shared' \subseteq Entries
      BY <1>4, <2>1 DEF PoolSound, PoolTypeOK
    <3> QED BY <1>2, <1>3, <2>3, <3>1 DEF PoolSound, PoolTypeOK, Entry
  <2>5. CountsHandles'
    <3> SUFFICES ASSUME NEW u \in Entries, u \notin shared' \cup leaked
                 PROVE  /\ pooled'[u].count = Cardinality(Holders(u)')
                        /\ Holders(u)' = {} => pooled'[u].available
      BY <1>2, <2>3 DEF CountsHandles
    <3>1. CASE u = t
      <4>1. Holders(u)' = {h}
        BY <1>1, <1>4, <2>1, <3>1 DEF Holders
      <4> QED BY <2>3, <3>1, <4>1, FS_Singleton
    <3>2. CASE u # t
      <4>1. Holders(u)' = Holders(u)
        BY <1>1, <1>4, <2>1, <3>2 DEF Holders
      <4>2. /\ pooled[u].count = Cardinality(Holders(u)) /\ Cardinality(Holders(u)) \in Nat
            /\ Holders(u) = {} => pooled[u].available
        BY <1>4, Counted
      <4> QED BY <2>3, <3>2, <4>1, <4>2
    <3> QED BY <3>1, <3>2
  <2>6. Exclusive'
    <3> SUFFICES ASSUME NEW x \in Handles, NEW y \in Handles, handle'[x] = handle'[y],
                        handle'[x] \in Entries \ shared'
                 PROVE  client'[x] = client'[y]
      BY <2>3 DEF Exclusive
    <3>1. client \in [Handles -> 0..requests]
      BY DEF PoolSound, PoolTypeOK
    <3>2. CASE handle'[x] = t
      <4>1. x = h /\ y = h
        BY <1>1, <1>4, <3>2 DEF Holders
      <4> QED BY <4>1
    <3>3. CASE handle'[x] # t
      BY <1>1, <1>2, <1>4, <3>1, <3>3 DEF PoolSound, Exclusive
    <3> QED BY <3>2, <3>3
  <2> QED BY <2>4, <2>5, <2>6 DEF PoolSound
<1>5. ASSUME pooled' = Append(pooled, [available |-> FALSE, count |-> 1, run |-> FALSE]),
             handle' = [handle EXCEPT ![h] = Len(pooled) + 1],
             shared' = shared
      PROVE  PoolSound'
  <2> DEFINE t == Len(pooled) + 1
             e == [available |-> FALSE, count |-> 1, run |-> FALSE]
  <2>1. e \in Entry /\ e.count = 1
    BY DEF Entry
  <2>2. /\ pooled' \in Seq(Entry) /\ Entries' = Entries \cup {t} /\ t \notin Entries
        /\ t # Gone /\ t # 0 /\ t \in Int
        /\ pooled'[t].count = 1 /\ \A u \in Entries : pooled'[u] = pooled[u]
    <3> HIDE DEF e
    <3>1. /\ pooled' \in Seq(Entry) /\ Len(pooled') = t /\ pooled'[t] = e
          /\ \A u \in 1..Len(pooled) : pooled'[u] = pooled[u]
      BY <1>1, <1>5, <2>1, AppendProperties DEF e
    <3> QED BY <1>1, <2>1, <3>1 DEF Entries, Gone
  <2>3. \A x \in Handles : handle[x] # t
    BY <1>1, <2>2 DEF PoolSound, PoolTypeOK
  <2>4. PoolTypeOK'
    <3>1. handle' \in [Handles -> {Gone, 0} \cup Entries']
      BY <1>5, <2>2 DEF PoolSound, PoolTypeOK
    <3> QED BY <1>2, <1>3, <1>5, <2>2, <3>1 DEF PoolSound, PoolTypeOK, Entry
  <2>5. CountsHandles'
    <3> SUFFICES ASSUME NEW u \in Entries \cup {t}, u \notin shared \cup leaked
                 PROVE  /\ pooled'[u].count = Cardinality(Holders(u)')
                        /\ Holders(u)' = {} => pooled'[u].available
      BY <1>2, <1>5, <2>2 DEF CountsHandles
    <3>1. CASE u = t
      <4>1. Holders(u)' = {h}
        BY <1>1, <1>5, <2>3, <3>1 DEF Holders
      <4> QED BY <2>2, <3>1, <4>1, FS_Singleton
    <3>2. CASE u # t
      <4>1. Holders(u)' = Holders(u)
        BY <1>1, <1>5, <3>2 DEF Holders
      <4>2. /\ pooled[u].count = Cardinality(Holders(u))
            /\ Holders(u) = {} => pooled[u].available
        BY <3>2, Counted
      <4> QED BY <2>2, <3>2, <4>1, <4>2
    <3> QED BY <3>1, <3>2
  <2>6. Exclusive'
    <3>1. client \in [Handles -> 0..requests] /\ handle \in [Handles -> {Gone, 0} \cup Entries]
      BY DEF PoolSound, PoolTypeOK
    <3> QED BY <1>1, <1>2, <1>5, <2>2, <2>3, <3>1 DEF PoolSound, Exclusive
  <2> QED BY <2>4, <2>5, <2>6 DEF PoolSound
<1>6. \A t \in Available : pooled[t].available
  BY DEF Available
<1>7. CASE Available # {} /\ \E t \in Available :
               /\ pooled' = Incremented([pooled EXCEPT ![t].count = 0], t)
               /\ handle' = [handle EXCEPT ![h] = t]
               /\ shared' = IF pooled[t].available /\ Holders(t) # {}
                             THEN shared \cup {t} ELSE shared
  BY <1>4, <1>6, <1>7
<1> QED BY <1>5, <1>7 DEF RequestThread

LEMMA ForwardSound ==
  ASSUME PoolSound, NEW h \in Handles, Forward(h)
  PROVE  PoolSound'
<1>1. /\ pooled \in Seq(Entry) /\ handle[h] \in 1..Len(pooled) /\ Len(pooled) \in Nat
  BY Held DEF Forward, Entries
<1>2. PICK on \in BOOLEAN : pooled' = [pooled EXCEPT ![handle[h]].run = on]
  BY DEF Forward
<1> DEFINE t == handle[h]
           e == [pooled[t] EXCEPT !.run = on]
<1>3. /\ UNCHANGED <<handle, client, requests, shared, leaked>>
      /\ pooled' = [pooled EXCEPT ![t] = e] /\ pooled[t] \in Entry
  BY <1>1, <1>2, ElementOfSeq DEF Forward
<1>4. e \in Entry /\ e.available = pooled[t].available /\ e.count = pooled[t].count
  BY <1>3 DEF Entry
<1>5. /\ pooled' \in Seq(Entry) /\ Entries' = Entries
      /\ \A u \in Entries : /\ pooled'[u].available = pooled[u].available
                            /\ pooled'[u].count = pooled[u].count
  <2> HIDE DEF e, t
  <2>1. /\ pooled' \in Seq(Entry) /\ Len(pooled') = Len(pooled)
        /\ \A u \in 1..Len(pooled) : pooled'[u] = IF u = t THEN e ELSE pooled[u]
    BY <1>1, <1>3, <1>4, EntryChanged DEF t
  <2> QED BY <1>4, <2>1 DEF Entries
<1>6. PoolTypeOK'
  BY <1>3, <1>5 DEF PoolSound, PoolTypeOK, Entry
<1>7. CountsHandles' /\ Exclusive'
  BY <1>3, <1>5 DEF PoolSound, CountsHandles, Exclusive, Holders
<1> QED BY <1>6, <1>7 DEF PoolSound

LEMMA CleanupSound == PoolSound /\ Cleanup => PoolSound'
<1> SUFFICES ASSUME PoolSound, Cleanup PROVE PoolSound'
  OBVIOUS
<1>1. Entries' = {} /\ pooled' \in Seq([available : BOOLEAN, count : Int, run : BOOLEAN])
  BY DEF Cleanup, Entries
<1>2. PoolTypeOK'
  BY <1>1 DEF Cleanup, PoolSound, PoolTypeOK
<1> QED BY <1>1, <1>2 DEF PoolSound, CountsHandles, Exclusive

(* In every behaviour of the pool and its handles PoolSound holds: a thread*)
(* that RequestThread gave out once and that lost no reference to a move    *)
(* assignment counts its handles and returns to the pool with the last.    *)
THEOREM PoolIsSound == PoolSpec => []PoolSound
<1>1. PoolInit => PoolSound
  BY PoolSoundInit
<1>2. PoolSound /\ [PoolNext]_poolVars => PoolSound'
  <2> SUFFICES ASSUME PoolSound, [PoolNext]_poolVars PROVE PoolSound'
    OBVIOUS
  <2>1. ASSUME NEW h \in Handles, RequestThread(h) \/ Drop(h) \/ Forward(h)
        PROVE  PoolSound'
    BY <2>1, RequestSound, DropSound, ForwardSound
  <2>2. ASSUME NEW h \in Handles, NEW g \in Handles,
               CopyTo(h, g) \/ MoveTo(h, g) \/ Assign(h, g)
        PROVE  PoolSound'
    BY <2>2, CopySound, MoveSound, AssignSound
  <2>3. CASE UNCHANGED poolVars
    <3>1. pooled' = pooled /\ handle' = handle /\ client' = client
          /\ requests' = requests /\ shared' = shared /\ leaked' = leaked
      BY <2>3 DEF poolVars
    <3>2. PoolTypeOK'
      BY <3>1 DEF PoolSound, PoolTypeOK, Entries
    <3>3. CountsHandles' /\ Exclusive'
      BY <3>1 DEF PoolSound, CountsHandles, Exclusive, Entries, Holders
    <3> QED BY <3>2, <3>3 DEF PoolSound
  <2> QED BY <2>1, <2>2, <2>3, CleanupSound DEF PoolNext
<1> QED BY <1>1, <1>2, PTL DEF PoolSpec

--------------------------------------------------------------------------------
(* What is inductive about contexts and allocators                         *)

Origins == [from : Allocators, thread : Workers, reset : BOOLEAN]

(* Both default contexts of a thread were made for that thread, so that it *)
(* does not matter which of them is found.                                 *)
MadeFor(t, c) == c # NoContextYet => contexts[c] = t
BothOwn == \A t \in Workers : MadeFor(t, specific[t]) /\ MadeFor(t, set[t])

(* A matrix that was not marked could go home at once: the thread that     *)
(* made it is served by the allocator that made it.                        *)
Unmarked ==
  \A m \in Matrices : \A t \in Workers :
    origin[m] # Free /\ origin[m].thread = t /\ ~origin[m].reset => origin[m].from = Serving(t)

ContextsInv ==
  /\ ContextsTypeOK
  /\ BothOwn
  /\ origin \in [Matrices -> Origins \cup {Free}]
  /\ Unmarked
  /\ ReturnsHome

-------------------------------------------------------------------------------
(* The registry                                                            *)

(* Where GetThread sends work is a thread of the type, if there is one.    *)
LEMMA GetThreadFinds ==
  ASSUME ContextsTypeOK, NEW t \in Workers, NEW y \in ThreadTypes
  PROVE  /\ GetThread(t, y) \in Workers
         /\ registry[y] # <<>> => Contains(registry[y], GetThread(t, y))
         /\ Contains(registry[y], t) => GetThread(t, y) = t
<1> DEFINE r == registry[y]
<1>1. r \in Seq(Workers)
  BY DEF ContextsTypeOK
<1> HIDE DEF r
<1>2. ASSUME r # <<>>
      PROVE  Last(r) \in Workers /\ Contains(r, Last(r))
  BY <1>1, <1>2 DEF Last, Contains
<1>3. GetThread(t, y) = IF r # <<>> /\ ~Contains(r, t) THEN Last(r) ELSE t
  BY DEF GetThread, r
<1>4. /\ GetThread(t, y) \in Workers
      /\ r # <<>> => Contains(r, GetThread(t, y))
      /\ Contains(r, t) => GetThread(t, y) = t
  BY <1>2, <1>3
<1> QED BY <1>4 DEF r

(* Therefore one hop is enough, whatever was registered in which order.    *)
LEMMA OneHopHolds == ContextsTypeOK => OneHop
<1> SUFFICES ASSUME ContextsTypeOK, NEW y \in ThreadTypes, NEW t \in Workers
             PROVE  /\ registry[y] # <<>> => Contains(registry[y], GetThread(t, y))
                    /\ GetThread(GetThread(t, y), y) = GetThread(t, y)
                    /\ Contains(registry[y], t) => GetThread(t, y) = t
  BY DEF OneHop
<1>1. /\ GetThread(t, y) \in Workers
      /\ registry[y] # <<>> => Contains(registry[y], GetThread(t, y))
      /\ Contains(registry[y], t) => GetThread(t, y) = t
  BY GetThreadFinds
<1>2. CASE registry[y] # <<>>
  BY <1>1, <1>2, GetThreadFinds
<1>3. CASE registry[y] = <<>>
  BY <1>3 DEF GetThread
<1> QED BY <1>1, <1>2, <1>3

(* A thread that is entered once stays entered once.                       *)
LEMMA EnteredOnce ==
  ASSUME NEW r \in Seq(Workers), IsInjective(r), NEW t \in Workers, ~Contains(r, t)
  PROVE  Append(r, t) \in Seq(Workers) /\ IsInjective(Append(r, t))
<1>1. \A i \in 1..Len(r) : r[i] # t
  BY DEF Contains
<1>2. \A i, j \in 1..Len(r) : r[i] = r[j] => i = j
  BY DEF IsInjective
<1> DEFINE s == Append(r, t)
<1>3. s \in Seq(Workers) /\ Len(s) = Len(r) + 1 /\ Len(r) \in Nat
  OBVIOUS
<1>4. s[Len(r) + 1] = t /\ \A i \in 1..Len(r) : s[i] = r[i]
  OBVIOUS
<1> HIDE DEF s
<1>5. DOMAIN s = 1..(Len(r) + 1)
  BY <1>3
<1>6. ASSUME NEW i \in DOMAIN s, NEW j \in DOMAIN s, s[i] = s[j]
      PROVE  i = j
  <2>1. CASE i = Len(r) + 1 \/ j = Len(r) + 1
    BY <1>1, <1>3, <1>4, <1>5, <1>6, <2>1
  <2>2. CASE i # Len(r) + 1 /\ j # Len(r) + 1
    <3>1. i \in 1..Len(r) /\ j \in 1..Len(r)
      BY <1>3, <1>5, <1>6, <2>2
    <3> QED BY <1>2, <1>4, <1>6, <3>1
  <2> QED BY <2>1, <2>2
<1>7. IsInjective(s)
  BY <1>6 DEF IsInjective
<1> QED BY <1>3, <1>7 DEF s

LEMMA RegisterKeepsInv ==
  ASSUME ContextsInv, NEW t \in Workers, NEW y \in ThreadTypes, RegisterThread(y, t)
  PROVE  ContextsInv'
<1> USE DEF ContextsInv
<1>1. registry' \in [ThreadTypes -> Seq(Workers)] /\ \A z \in ThreadTypes : IsInjective(registry'[z])
  <2>1. /\ registry[y] \in Seq(Workers) /\ IsInjective(registry[y])
        /\ registry' = [registry EXCEPT ![y] = IF Contains(@, t) THEN @ ELSE Append(@, t)]
    BY DEF ContextsTypeOK, RegisterThread
  <2>2. CASE Contains(registry[y], t)
    BY <2>1, <2>2 DEF ContextsTypeOK
  <2>3. CASE ~Contains(registry[y], t)
    <3>1. Append(registry[y], t) \in Seq(Workers) /\ IsInjective(Append(registry[y], t))
      BY <2>1, <2>3, EnteredOnce
    <3> DEFINE r == Append(registry[y], t)
    <3>2. registry' = [registry EXCEPT ![y] = r]
      BY <2>1, <2>3
    <3> HIDE DEF r
    <3> QED BY <3>1, <3>2 DEF ContextsTypeOK, r
  <2> QED BY <2>2, <2>3
<1>2. ContextsTypeOK'
  BY <1>1 DEF ContextsTypeOK, RegisterThread
<1>3. UNCHANGED <<contexts, specific, set, own, common, origin, strays>>
  BY DEF RegisterThread
<1>4. BothOwn' /\ Unmarked' /\ ReturnsHome'
  BY <1>3 DEF BothOwn, MadeFor, Unmarked, Serving, Common, ReturnsHome
<1> QED BY <1>2, <1>3, <1>4

-------------------------------------------------------------------------------
(* Contexts                                                                *)

(* A context once made stays the one of its thread.                        *)
LEMMA ContextAdded ==
  ASSUME ContextsTypeOK, NEW t \in Workers, contexts' = NewContext(t)
  PROVE  /\ contexts' \in Seq(Workers) /\ Len(contexts') = Len(contexts) + 1
         /\ contexts'[Len(contexts) + 1] = t
         /\ \A c \in 1..Len(contexts) : contexts'[c] = contexts[c]
BY DEF ContextsTypeOK, NewContext

LEMMA ContextsKeepInv ==
  ASSUME ContextsInv, NEW t \in Workers,
         GetDefaultThreadContext(t) \/ BeginThread(t) \/ ResetContext(t)
  PROVE  ContextsInv'
<1> USE DEF ContextsInv
<1>0. UNCHANGED <<registry, own, common, origin, strays>>
  BY DEF GetDefaultThreadContext, BeginThread, ResetContext
<1>1. Unmarked' /\ ReturnsHome'
  BY <1>0 DEF Unmarked, Serving, Common, ReturnsHome
<1>2. Len(contexts) \in Nat /\ contexts \in Seq(Workers)
  BY DEF ContextsTypeOK
<1>3. CASE GetDefaultThreadContext(t)
  <2>1. /\ contexts' = NewContext(t) /\ set' = set
        /\ specific' = [specific EXCEPT ![t] = Len(contexts) + 1]
    BY <1>3 DEF GetDefaultThreadContext
  <2>2. /\ contexts' \in Seq(Workers) /\ Len(contexts') = Len(contexts) + 1
        /\ contexts'[Len(contexts) + 1] = t
        /\ \A c \in 1..Len(contexts) : contexts'[c] = contexts[c]
    BY <2>1, ContextAdded
  <2>3. ContextsTypeOK'
    BY <1>0, <1>2, <2>1, <2>2 DEF ContextsTypeOK
  <2>4. ASSUME NEW u \in Workers
        PROVE  MadeFor(u, specific[u])' /\ MadeFor(u, set[u])'
    <3>1. /\ specific[u] \in 0..Len(contexts) /\ MadeFor(u, specific[u])
          /\ set[u] \in 0..Len(contexts) /\ MadeFor(u, set[u])
      BY DEF BothOwn, ContextsTypeOK
    <3>2. MadeFor(u, set[u])'
      BY <1>2, <2>1, <2>2, <3>1 DEF MadeFor, NoContextYet
    <3>3. MadeFor(u, specific[u])'
      <4>1. CASE u = t
        <5>1. specific'[u] = Len(contexts) + 1
          BY <2>1, <4>1 DEF ContextsTypeOK
        <5> QED BY <2>2, <4>1, <5>1 DEF MadeFor
      <4>2. CASE u # t
        <5>1. specific'[u] = specific[u]
          BY <2>1, <4>2 DEF ContextsTypeOK
        <5> QED BY <1>2, <2>2, <3>1, <5>1 DEF MadeFor, NoContextYet
      <4> QED BY <4>1, <4>2
    <3> QED BY <3>2, <3>3
  <2>5. BothOwn'
    BY <2>4 DEF BothOwn
  <2> QED BY <1>0, <1>1, <2>3, <2>5
<1>4. CASE BeginThread(t)
  <2>1. /\ contexts' = NewContext(t) /\ specific' = specific
        /\ set' = [set EXCEPT ![t] = Len(contexts) + 1]
    BY <1>4 DEF BeginThread, SetDefaultThreadContext
  <2>2. /\ contexts' \in Seq(Workers) /\ Len(contexts') = Len(contexts) + 1
        /\ contexts'[Len(contexts) + 1] = t
        /\ \A c \in 1..Len(contexts) : contexts'[c] = contexts[c]
    BY <2>1, ContextAdded
  <2>3. ContextsTypeOK'
    BY <1>0, <1>2, <2>1, <2>2 DEF ContextsTypeOK
  <2>4. ASSUME NEW u \in Workers
        PROVE  MadeFor(u, specific[u])' /\ MadeFor(u, set[u])'
    <3>1. /\ specific[u] \in 0..Len(contexts) /\ MadeFor(u, specific[u])
          /\ set[u] \in 0..Len(contexts) /\ MadeFor(u, set[u])
      BY DEF BothOwn, ContextsTypeOK
    <3>2. MadeFor(u, specific[u])'
      BY <1>2, <2>1, <2>2, <3>1 DEF MadeFor, NoContextYet
    <3>3. MadeFor(u, set[u])'
      <4>1. CASE u = t
        <5>1. set'[u] = Len(contexts) + 1
          BY <2>1, <4>1 DEF ContextsTypeOK
        <5> QED BY <2>2, <4>1, <5>1 DEF MadeFor
      <4>2. CASE u # t
        <5>1. set'[u] = set[u]
          BY <2>1, <4>2 DEF ContextsTypeOK
        <5> QED BY <1>2, <2>2, <3>1, <5>1 DEF MadeFor, NoContextYet
      <4> QED BY <4>1, <4>2
    <3> QED BY <3>2, <3>3
  <2>5. BothOwn'
    BY <2>4 DEF BothOwn
  <2> QED BY <1>0, <1>1, <2>3, <2>5
<1>5. CASE ResetContext(t)
  <2>1. /\ contexts' = contexts /\ specific' = specific
        /\ set' = [set EXCEPT ![t] = NoContextYet]
    BY <1>5 DEF ResetContext, SetDefaultThreadContext
  <2>2. ContextsTypeOK'
    BY <1>0, <1>2, <2>1 DEF ContextsTypeOK, NoContextYet
  <2>3. BothOwn'
    BY <2>1 DEF BothOwn, MadeFor, ContextsTypeOK
  <2> QED BY <1>0, <1>1, <2>2, <2>3
<1> QED BY <1>3, <1>4, <1>5

-------------------------------------------------------------------------------
(* Allocators                                                              *)

LEMMA ServingType ==
  ASSUME ContextsTypeOK, NEW t \in Workers
  PROVE  Serving(t) \in Allocators /\ CommonAfter(t) \in Allocators \cup {NoAllocator}
BY DEF ContextsTypeOK, Serving, CommonAfter, Common, Allocators

(* Marking keeps what a matrix is from, and leaves the others alone.       *)
LEMMA MarkedType ==
  ASSUME NEW ms \in SUBSET Matrices, origin \in [Matrices -> Origins \cup {Free}]
  PROVE  /\ Marked(ms) \in [Matrices -> Origins \cup {Free}]
         /\ \A m \in Matrices :
              Marked(ms)[m] = origin[m] \/ (m \in ms /\ Marked(ms)[m].reset = TRUE)
<1>1. \A m \in Matrices : origin[m] # Free =>
        /\ [origin[m] EXCEPT !.reset = TRUE] \in Origins
        /\ [origin[m] EXCEPT !.reset = TRUE].reset = TRUE
  BY DEF Origins
<1>2. ASSUME NEW m \in Matrices
      PROVE  /\ Marked(ms)[m] \in Origins \cup {Free}
             /\ Marked(ms)[m] = origin[m] \/ (m \in ms /\ Marked(ms)[m].reset = TRUE)
  <2>1. Marked(ms)[m] = IF m \in ms /\ origin[m] # Free
                        THEN [origin[m] EXCEPT !.reset = TRUE] ELSE origin[m]
    BY DEF Marked
  <2>2. CASE m \in ms /\ origin[m] # Free
    BY <1>1, <2>1, <2>2
  <2>3. CASE ~(m \in ms /\ origin[m] # Free)
    <3>1. Marked(ms)[m] = origin[m]
      BY <2>1, <2>3
    <3>2. origin[m] \in Origins \cup {Free}
      OBVIOUS
    <3> QED BY <3>1, <3>2
  <2> QED BY <2>2, <2>3
<1>3. DOMAIN Marked(ms) = Matrices /\ Marked(ms) = [m \in Matrices |-> Marked(ms)[m]]
  BY DEF Marked
<1> QED BY <1>2, <1>3

LEMMA SetThreadKeepsInv ==
  ASSUME ContextsInv, NEW t \in Workers, NEW a \in {NoAllocator, ThreadSafe, t},
         SetThreadAllocator(t, a)
  PROVE  ContextsInv'
<1> USE DEF ContextsInv
<1>0. /\ UNCHANGED <<registry, contexts, specific, set, common, strays>>
      /\ own' = [own EXCEPT ![t] = a]
  BY DEF SetThreadAllocator
<1>1. ContextsTypeOK'
  BY <1>0 DEF ContextsTypeOK, Allocators
<1>2. BothOwn' /\ ReturnsHome'
  BY <1>0 DEF BothOwn, MadeFor, ReturnsHome
<1>3. \A u \in Workers : u # t \/ own[t] = a => Serving(u)' = Serving(u)
  BY <1>0 DEF Serving, Common, ContextsTypeOK
<1>4. CASE own[t] = a
  <2>1. origin' = origin
    BY <1>4 DEF SetThreadAllocator
  <2>2. Unmarked'
    BY <1>3, <1>4, <2>1 DEF Unmarked, Origins
  <2> QED BY <1>1, <1>2, <2>1, <2>2
<1>5. CASE own[t] # a
  <2> DEFINE ms == {m \in Matrices : origin[m] # Free /\ origin[m].thread = t}
  <2>1. origin' = Marked(ms)
    BY <1>5 DEF SetThreadAllocator
  <2>2. /\ origin' \in [Matrices -> Origins \cup {Free}]
        /\ \A m \in Matrices : origin'[m] = origin[m] \/ (m \in ms /\ origin'[m].reset = TRUE)
    BY <2>1, MarkedType
  <2>3. ASSUME NEW m \in Matrices, NEW u \in Workers,
               origin'[m] # Free, origin'[m].thread = u, ~origin'[m].reset
        PROVE  origin'[m].from = Serving(u)'
    <3>1. origin'[m] = origin[m] /\ origin[m] \in Origins
      BY <2>2, <2>3
    <3>2. origin[m].from = Serving(u)
      BY <2>3, <3>1 DEF Unmarked
    <3>3. CASE u # t
      BY <1>3, <3>1, <3>2, <3>3
    <3>4. CASE u = t
      <4>1. origin'[m] = [origin[m] EXCEPT !.reset = TRUE]
        BY <2>1, <2>3, <3>1, <3>4 DEF Marked
      <4> QED BY <2>3, <3>1, <4>1 DEF Origins
    <3> QED BY <3>3, <3>4
  <2>4. Unmarked'
    BY <2>3 DEF Unmarked
  <2> QED BY <1>1, <1>2, <2>2, <2>4
<1> QED BY <1>4, <1>5

LEMMA SetGlobalKeepsInv ==
  ASSUME ContextsInv, NEW a \in Allocators \cup {NoAllocator}, SetGlobalAllocator(a)
  PROVE  ContextsInv'
<1> USE DEF ContextsInv
<1>0. UNCHANGED <<registry, contexts, specific, set, own, strays>> /\ common' = a
  BY DEF SetGlobalAllocator
<1>1. ContextsTypeOK'
  BY <1>0 DEF ContextsTypeOK
<1>2. BothOwn' /\ ReturnsHome'
  BY <1>0 DEF BothOwn, MadeFor, ReturnsHome
<1>3. CASE common = a
  <2>1. origin' = origin
    BY <1>3 DEF SetGlobalAllocator
  <2>2. Unmarked'
    BY <1>0, <1>3, <2>1 DEF Unmarked, Serving, Common
  <2> QED BY <1>1, <1>2, <2>1, <2>2
<1>4. CASE common # a
  <2>1. origin' = Marked(Matrices)
    BY <1>4 DEF SetGlobalAllocator
  <2>2. origin' \in [Matrices -> Origins \cup {Free}]
    BY <2>1, MarkedType
  <2>3. ASSUME NEW m \in Matrices, origin'[m] # Free
        PROVE  origin'[m].reset = TRUE
    <3>1. origin[m] # Free /\ origin'[m] = [origin[m] EXCEPT !.reset = TRUE]
      BY <2>1, <2>3 DEF Marked
    <3> QED BY <3>1 DEF Origins
  <2>4. Unmarked'
    BY <2>3 DEF Unmarked
  <2> QED BY <1>1, <1>2, <2>2, <2>4
<1> QED BY <1>3, <1>4

(* The adapters fix the common allocator when they first need it, to the   *)
(* one that served already.                                                *)
LEMMA ServedTheSame ==
  ASSUME ContextsTypeOK, NEW t \in Workers, own' = own, common' = CommonAfter(t)
  PROVE  \A u \in Workers : Serving(u)' = Serving(u)
<1>1. Common' = Common
  BY DEF Common, CommonAfter, NoAllocator, ThreadSafe
<1> QED BY <1>1 DEF Serving

LEMMA AllocateKeepsInv ==
  ASSUME ContextsInv, NEW t \in Workers, NEW m \in Matrices, AllocateOn(t, m)
  PROVE  ContextsInv'
<1> USE DEF ContextsInv
<1> DEFINE new == [from |-> Serving(t), thread |-> t, reset |-> FALSE]
<1>0. /\ UNCHANGED <<registry, contexts, specific, set, own, strays>>
      /\ common' = CommonAfter(t) /\ origin' = [origin EXCEPT ![m] = new]
  BY DEF AllocateOn
<1>1. new \in Origins /\ new.from = Serving(t) /\ new.thread = t
  BY ServingType DEF Origins
<1> HIDE DEF new
<1>2. ContextsTypeOK'
  BY <1>0, ServingType DEF ContextsTypeOK
<1>3. BothOwn' /\ ReturnsHome'
  BY <1>0 DEF BothOwn, MadeFor, ReturnsHome
<1>4. \A u \in Workers : Serving(u)' = Serving(u)
  BY <1>0, ServedTheSame
<1>5. ASSUME NEW n \in Matrices, NEW u \in Workers,
             origin'[n] # Free, origin'[n].thread = u, ~origin'[n].reset
      PROVE  origin'[n].from = Serving(u)'
  <2>1. CASE n = m
    <3>1. origin'[n] = new /\ u = t
      BY <1>0, <1>1, <1>5, <2>1
    <3> QED BY <1>1, <1>4, <3>1
  <2>2. CASE n # m
    <3>1. origin'[n] = origin[n] /\ origin[n] \in Origins
      BY <1>0, <1>5, <2>2
    <3> QED BY <1>4, <1>5, <3>1 DEF Unmarked, Origins
  <2> QED BY <2>1, <2>2
<1>6. Unmarked'
  BY <1>5 DEF Unmarked
<1> QED BY <1>0, <1>1, <1>2, <1>3, <1>6

LEMMA FreeKeepsInv ==
  ASSUME ContextsInv, NEW t \in Workers, NEW m \in Matrices, FreeOn(t, m)
  PROVE  ContextsInv'
<1> USE DEF ContextsInv
<1>0. /\ UNCHANGED <<registry, contexts, specific, set, own>>
      /\ common' = CommonAfter(t) /\ origin' = [origin EXCEPT ![m] = Free]
      /\ origin[m] \in Origins
  BY DEF FreeOn
<1>2. ContextsTypeOK'
  BY <1>0, ServingType DEF ContextsTypeOK
<1>3. BothOwn'
  BY <1>0 DEF BothOwn, MadeFor
<1>4. \A u \in Workers : Serving(u)' = Serving(u)
  BY <1>0, ServedTheSame
<1>5. ASSUME NEW n \in Matrices, NEW u \in Workers,
             origin'[n] # Free, origin'[n].thread = u, ~origin'[n].reset
      PROVE  origin'[n].from = Serving(u)'
  <2>1. origin'[n] = origin[n] /\ origin[n] \in Origins
    BY <1>0, <1>5
  <2> QED BY <1>4, <1>5, <2>1 DEF Unmarked, Origins
<1>6. Unmarked'
  BY <1>5 DEF Unmarked
<1>7. ReturnsHome'
  <2>1. CASE Taker(t) = origin[m].from
    BY <2>1 DEF ReturnsHome, FreeOn
  <2>2. CASE Taker(t) # origin[m].from
    <3> DEFINE stray == [moved |-> origin[m].thread # t, reset |-> origin[m].reset]
    <3>1. strays' = strays \cup {stray}
      BY <2>2 DEF FreeOn
    <3>2. origin[m].reset \/ origin[m].thread # t
      BY <1>0, <2>2 DEF Unmarked, Taker, FreeOn
    <3>3. stray.moved \/ stray.reset
      BY <3>2
    <3> QED BY <3>1, <3>3 DEF ReturnsHome
  <2> QED BY <2>1, <2>2
<1> QED BY <1>0, <1>2, <1>3, <1>6, <1>7

-------------------------------------------------------------------------------
(* Threads find their own: work is sent to a thread of its type with one   *)
(* hop (thread_registry.cpp), the default context of a thread names it     *)
(* (Context.cpp), and a device matrix that is freed on its thread, under   *)
(* the allocators it was made with, goes back where it is from             *)
(* (Allocator.cpp).                                                        *)
THEOREM ThreadsFindTheirOwn == ContextsSpec => []ContextsSound
<1>1. ContextsInit => ContextsInv
  <2> SUFFICES ASSUME ContextsInit PROVE ContextsInv
    OBVIOUS
  <2>1. ContextsTypeOK
    BY DEF ContextsInit, ContextsTypeOK, IsInjective, NoContextYet
  <2> QED BY <2>1 DEF ContextsInit, ContextsInv, BothOwn, MadeFor, Unmarked, ReturnsHome
<1>2. ContextsInv /\ [ContextsNext]_contextVars => ContextsInv'
  <2> SUFFICES ASSUME ContextsInv, [ContextsNext]_contextVars PROVE ContextsInv'
    OBVIOUS
  <2>1. CASE RegistryNext
    BY <2>1, RegisterKeepsInv DEF RegistryNext
  <2>2. CASE DefaultsNext
    BY <2>2, ContextsKeepInv DEF DefaultsNext
  <2>3. CASE AdaptersNext
    BY <2>3, SetThreadKeepsInv, SetGlobalKeepsInv, AllocateKeepsInv, FreeKeepsInv
    DEF AdaptersNext
  <2>4. CASE UNCHANGED contextVars
    BY <2>4 DEF contextVars, ContextsInv, ContextsTypeOK, BothOwn, MadeFor, Unmarked,
       Serving, Common, ReturnsHome
  <2> QED BY <2>1, <2>2, <2>3, <2>4 DEF ContextsNext
<1>3. ContextsInv => ContextsSound
  <2> SUFFICES ASSUME ContextsInv PROVE ContextsSound
    OBVIOUS
  <2>1. OwnContext
    BY DEF ContextsInv, BothOwn, MadeFor, OwnContext, DefaultOf
  <2> QED BY <2>1, OneHopHolds DEF ContextsInv, ContextsSound
<1> QED BY <1>1, <1>2, <1>3, PTL DEF ContextsSpec

================================================================================
