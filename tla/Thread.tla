--------------------------------- MODULE Thread --------------------------------
(***************************************************************************)
(* mo::Thread (src/src/thread/Thread.cpp): a boost::thread that drains a   *)
(* work queue and an event queue under _mtx, and runs an inner loop slot   *)
(* while _run is set.  Start and Stop set _run, ~Thread interrupts and     *)
(* joins.                                                                  *)
(*                                                                         *)
(* Callbacks execute under _mtx and a callback is one step: nothing the    *)
(* other threads can do is visible until the mutex is free.  RunOnce of    *)
(* the thread specific queue, which Main calls at the end of each drain,   *)
(* is the subject of InterThread and has no effect here.                   *)
(*                                                                         *)
(* boost's interruption: interrupt() sets a request that                   *)
(* interruption_requested() reads, and that an interruption point (a wait  *)
(* or a sleep) turns into the exception thread_interrupted, clearing it.   *)
(* A thread function that lets the exception escape ends.                  *)
(***************************************************************************)
EXTENDS Naturals, Sequences, FiniteSets

CONSTANTS
  Events,        (* callbacks clients push to the event queue, once each      *)
  Work,          (* callbacks clients push to the work queue, once each       *)
  MaxSwitch,     (* bound: calls of Start and Stop                            *)
  Backlog        (* bound: callbacks waiting in a queue when one is pushed    *)

ASSUME ThreadBounds ==
  /\ Events \cap Work = {}
  /\ MaxSwitch \in Nat /\ Backlog \in Nat

VARIABLES
  pc,        (* where Main is                                                 *)
  mtx,       (* TRUE while Main holds _mtx                                    *)
  run,       (* _run                                                          *)
  interrupt, (* boost's interruption request for the thread                   *)
  workQ,     (* _work_queue                                                   *)
  eventQ,    (* _event_queue                                                  *)
  slots,     (* _inner_loop->HasSlots()                                       *)
  owner,     (* the owner of the Thread: using it, in ~Thread, or past it     *)
  switches,  (* Start and Stop calls so far                                   *)
  pushed,    (* history: the callbacks pushed                                 *)
  handled,   (* history: the callbacks executed                               *)
  late       (* history: inner loop calls begun since _run was cleared        *)

queues == <<workQ, eventQ, pushed, handled>>
control == <<run, interrupt, slots, owner, switches>>
vars == <<pc, mtx, queues, control, late>>

Parked == {"wait", "parkedDrain", "parked"}
Positions == Parked \cup
  {"start", "check", "lock", "drain", "branch", "inner", "sleep", "caught",
   "exit", "done"}

Init ==
  /\ pc = "start"
  /\ mtx = FALSE
  /\ run = FALSE              (* the constructors call Stop()                 *)
  /\ interrupt = FALSE
  /\ workQ = <<>> /\ eventQ = <<>>
  /\ slots = FALSE
  /\ owner = "using"
  /\ switches = 0
  /\ pushed = {} /\ handled = {}
  /\ late = 0

Goto(l) == pc' = l

----------------------------------------------------------------------------
(* The clients of the Thread                                               *)

PushEventQueue(e) ==
  /\ owner = "using"
  /\ e \in Events \ pushed
  /\ ~mtx
  /\ Len(eventQ) < Backlog
  /\ eventQ' = Append(eventQ, e)
  /\ pushed' = pushed \cup {e}
  /\ UNCHANGED <<pc, mtx, workQ, handled, control, late>>

PushWork(w) ==
  /\ owner = "using"
  /\ w \in Work \ pushed
  /\ ~mtx
  /\ Len(workQ) < Backlog
  /\ workQ' = Append(workQ, w)
  /\ pushed' = pushed \cup {w}
  /\ UNCHANGED <<pc, mtx, eventQ, handled, control, late>>

(* Neither takes _mtx.                                                     *)
Start ==
  /\ owner = "using" /\ switches < MaxSwitch
  /\ run' = TRUE
  /\ switches' = switches + 1
  /\ late' = 0
  /\ UNCHANGED <<pc, mtx, queues, interrupt, slots, owner>>

Stop ==
  /\ owner = "using" /\ switches < MaxSwitch
  /\ run' = FALSE
  /\ switches' = switches + 1
  /\ UNCHANGED <<pc, mtx, queues, interrupt, slots, owner, late>>

(* SetInnerLoop connects a slot; the slot may go away again.               *)
SetInnerLoop ==
  /\ owner = "using"
  /\ slots' = ~slots
  /\ UNCHANGED <<pc, mtx, queues, run, interrupt, owner, switches, late>>

(* ~Thread: _run = false; interrupt(); join().                             *)
Destroy ==
  /\ owner = "using"
  /\ owner' = "clearing"
  /\ run' = FALSE
  /\ UNCHANGED <<pc, mtx, queues, interrupt, slots, switches, late>>

Interrupt ==
  /\ owner = "clearing"
  /\ owner' = "joining"
  /\ interrupt' = TRUE
  /\ UNCHANGED <<pc, mtx, queues, run, slots, switches, late>>

Join ==
  /\ owner = "joining" /\ pc = "done"
  /\ owner' = "gone"
  /\ UNCHANGED <<pc, mtx, queues, run, interrupt, slots, switches, late>>

----------------------------------------------------------------------------
(* Main                                                                    *)

OnStart ==
  /\ pc = "start" /\ Goto("check")
  /\ UNCHANGED <<mtx, queues, control, late>>

Check ==
  /\ pc = "check"
  /\ Goto(IF interrupt THEN "exit" ELSE "lock")
  /\ UNCHANGED <<mtx, queues, control, late>>

Lock ==
  /\ pc = "lock" /\ Goto("drain")
  /\ mtx' = TRUE
  /\ UNCHANGED <<queues, control, late>>

Draining == pc \in {"drain", "parkedDrain"}

(* Mutant: pop() comes before back(): the last callback is never executed. *)
DrainEventPopsFirst ==
  /\ Draining /\ workQ = <<>> /\ eventQ # <<>>
  /\ handled' = IF Len(eventQ) > 1 THEN handled \cup {eventQ[Len(eventQ)]}
                                  ELSE handled
  /\ eventQ' = Tail(eventQ)
  /\ UNCHANGED <<pc, mtx, workQ, pushed, control, late>>

(* queue.back()() executes the newest callback; queue.pop() removes the    *)
(* oldest.                                                                 *)
DrainWork ==
  /\ Draining /\ workQ # <<>>
  /\ handled' = handled \cup {workQ[Len(workQ)]}
  /\ workQ' = Tail(workQ)
  /\ UNCHANGED <<pc, mtx, eventQ, pushed, control, late>>

DrainEvent ==
  /\ Draining /\ workQ = <<>> /\ eventQ # <<>>
  /\ handled' = handled \cup {eventQ[Len(eventQ)]}
  /\ eventQ' = Tail(eventQ)
  /\ UNCHANGED <<pc, mtx, workQ, pushed, control, late>>

(* Mutant: the lock lives until the end of the iteration.                  *)
DrainDoneKeepsLock ==
  /\ Draining /\ workQ = <<>> /\ eventQ = <<>>
  /\ Goto(IF pc = "drain" THEN "branch" ELSE "parked")
  /\ UNCHANGED <<mtx, queues, control, late>>

(* Both queues are empty: RunOnce, and let _mtx go.                        *)
DrainDone ==
  /\ Draining /\ workQ = <<>> /\ eventQ = <<>>
  /\ mtx' = FALSE
  /\ Goto(IF pc = "drain" THEN "branch" ELSE "parked")
  /\ UNCHANGED <<queues, control, late>>

(* if(_run) and, when it is set, HasSlots().                               *)
Branch ==
  /\ pc = "branch"
  /\ Goto(IF ~run THEN "parked" ELSE IF slots THEN "inner" ELSE "check")
  /\ UNCHANGED <<mtx, queues, control, late>>

(* Mutant: the inner loop is repeated without looking at _run.             *)
InnerLoopRepeats ==
  /\ pc = "inner"
  /\ late' = IF run THEN 0 ELSE late + 1
  /\ Goto(IF late < 2 THEN "inner" ELSE "check")
  /\ UNCHANGED <<mtx, queues, control>>

(* The call of the inner loop slot: it returns a delay, or no delay, or    *)
(* throws (the relay does when the slot has gone meanwhile).               *)
InnerLoop ==
  /\ pc = "inner"
  /\ late' = IF run THEN 0 ELSE late + 1
  /\ \E l \in {"check", "sleep", "caught"} : Goto(l)
  /\ UNCHANGED <<mtx, queues, control>>

(* sleep_for(delay) inside the try: an interruption is caught by catch(...)*)
(* like any exception, and the request is gone.                            *)
Sleep ==
  /\ pc = "sleep"
  /\ Goto(IF interrupt THEN "caught" ELSE "check")
  /\ interrupt' = FALSE
  /\ UNCHANGED <<mtx, queues, run, slots, owner, switches, late>>

(* sleep_for(100) in the handler: an interruption here escapes from Main.  *)
Caught ==
  /\ pc = "caught"
  /\ Goto(IF interrupt THEN "done" ELSE "check")
  /\ interrupt' = FALSE
  /\ UNCHANGED <<mtx, queues, run, slots, owner, switches, late>>

(* while(!_run)                                                            *)
ParkedTest ==
  /\ pc = "parked"
  /\ Goto(IF run THEN "check" ELSE "wait")
  /\ UNCHANGED <<mtx, queues, control, late>>

(* Mutant: wait instead of wait_for, so a notification that came before    *)
(* the wait is lost.                                                       *)
WaitForNotify ==
  /\ pc = "wait"
  /\ interrupt
  /\ Goto("done")
  /\ interrupt' = FALSE
  /\ UNCHANGED <<mtx, queues, run, slots, owner, switches, late>>

(* Mutant: an interruption of the wait is swallowed.                       *)
WaitSwallows ==
  /\ pc = "wait"
  /\ interrupt' = FALSE
  /\ mtx' = TRUE /\ Goto("parkedDrain")
  /\ UNCHANGED <<queues, run, slots, owner, switches, late>>

(* _cv.wait_for(lock, 10ms) returns after a notification or the timeout,   *)
(* so always; an interruption escapes from Main, past _on_exit.            *)
WaitFor ==
  /\ pc = "wait"
  /\ \/ /\ interrupt
        /\ interrupt' = FALSE
        /\ Goto("done")
        /\ UNCHANGED mtx
     \/ /\ ~interrupt
        /\ mtx' = TRUE
        /\ Goto("parkedDrain")
        /\ UNCHANGED interrupt
  /\ UNCHANGED <<queues, run, slots, owner, switches, late>>

OnExit ==
  /\ pc = "exit" /\ Goto("done")
  /\ UNCHANGED <<mtx, queues, control, late>>

Main ==
  \/ OnStart \/ Check \/ Lock
  \/ DrainWork \/ DrainEvent \/ DrainDone
  \/ Branch \/ InnerLoop \/ Sleep \/ Caught
  \/ ParkedTest \/ WaitFor \/ OnExit

Destructor == Interrupt \/ Join

Clients ==
  \/ \E e \in Events : PushEventQueue(e)
  \/ \E w \in Work : PushWork(w)
  \/ Start \/ Stop \/ SetInnerLoop \/ Destroy

Next == Main \/ Destructor \/ Clients

Spec == Init /\ [][Next]_vars

(* The operating system keeps running the thread, its callbacks and its    *)
(* inner loop return, and a destructor once begun goes on.                 *)
FairSpec == Spec /\ WF_vars(Main) /\ WF_vars(Destructor)

----------------------------------------------------------------------------
(* Properties                                                              *)

(* The variables have their types; Main holds _mtx exactly while it drains.*)
TypeOK ==
  /\ pc \in Positions
  /\ mtx \in BOOLEAN /\ (mtx <=> Draining)
  /\ run \in BOOLEAN /\ interrupt \in BOOLEAN /\ slots \in BOOLEAN
  /\ workQ \in Seq(Work) /\ eventQ \in Seq(Events)
  /\ owner \in {"using", "clearing", "joining", "gone"}
  /\ switches \in 0 .. MaxSwitch
  /\ pushed \subseteq Events \cup Work /\ handled \subseteq pushed
  /\ late \in Nat

(* "Events have to be handled by this thread" (Thread.hpp): an event that  *)
(* has left the queue was executed.                                        *)
EventsHandled ==
  \A e \in Events \cap pushed :
    e \in handled \/ \E k \in DOMAIN eventQ : eventQ[k] = e

(* After Stop the inner loop is entered at most once more, by a Main that  *)
(* had read _run before.                                                   *)
StopIsPrompt == late <= 1

(* No event is lost and no loop begins after Stop, in states of their type.*)
ThreadSound == TypeOK /\ EventsHandled /\ StopIsPrompt

(* Nothing stays in the queues of a thread that lives: stopped or running, *)
(* Main comes back to them though notify_all may reach no waiter.          *)
QueuesDrain ==
  (workQ # <<>> \/ eventQ # <<>>)
     ~> ((workQ = <<>> /\ eventQ = <<>>) \/ owner # "using")

(* Start takes effect though it takes no lock: a thread that is started    *)
(* and has an inner loop reaches it, unless it is stopped again.           *)
StartTakesEffect ==
  (run /\ slots) ~> (pc = "inner" \/ ~run \/ ~slots)

(* ~Thread returns from join when it found Main parked: the interruption   *)
(* reaches Main.  (A Main that is in its inner loop can swallow it.)       *)
JoinReturns == (owner = "clearing" /\ pc \in Parked) ~> owner = "gone"

================================================================================
