-------------------------------- MODULE Mailbox --------------------------------
(***************************************************************************)
(* What ThreadSpecificQueue promises, with no lock in sight: every thread  *)
(* has a mailbox; a callback posted to it is executed once, in order, by   *)
(* that thread; and an object is freed only when none of its callbacks is  *)
(* in a mailbox or executing.  InterThread implements this specification.  *)
(***************************************************************************)
EXTENDS Naturals, Sequences, SequencesExt

CONSTANTS Threads, Objects, Items, None

VARIABLES
  box,      (* the callbacks waiting in each mailbox                          *)
  running,  (* the callback each thread executes, or None                     *)
  life      (* live, dying or dead                                            *)

vars == <<box, running, life>>

Init ==
  /\ box = [t \in Threads |-> <<>>]
  /\ running = [t \in Threads |-> None]
  /\ life = [o \in Objects |-> "live"]

Post(i) ==
  /\ life[i.obj] = "live"
  /\ box' = [box EXCEPT ![i.to] = Append(@, i)]
  /\ UNCHANGED <<running, life>>

Execute(t) ==
  /\ running[t] = None
  /\ box[t] # <<>>
  /\ running' = [running EXCEPT ![t] = Head(box[t])]
  /\ box' = [box EXCEPT ![t] = Tail(@)]
  /\ UNCHANGED life

Finish(t) ==
  /\ running[t] # None
  /\ running' = [running EXCEPT ![t] = None]
  /\ UNCHANGED <<box, life>>

Condemn(o) ==
  /\ life[o] = "live"
  /\ life' = [life EXCEPT ![o] = "dying"]
  /\ UNCHANGED <<box, running>>

(* Only callbacks of an object that is going away may be discarded.        *)
Discard(t, k) ==
  /\ life[box[t][k].obj] = "dying"
  /\ box' = [box EXCEPT ![t] = RemoveAt(@, k)]
  /\ UNCHANGED <<running, life>>

Free(o) ==
  /\ life[o] = "dying"
  /\ \A t \in Threads :
       /\ running[t] # None => running[t].obj # o
       /\ \A k \in DOMAIN box[t] : box[t][k].obj # o
  /\ life' = [life EXCEPT ![o] = "dead"]
  /\ UNCHANGED <<box, running>>

Next ==
  \/ \E i \in Items : Post(i)
  \/ \E t \in Threads :
       \/ Execute(t) \/ Finish(t)
       \/ \E k \in DOMAIN box[t] : Discard(t, k)
  \/ \E o \in Objects : Condemn(o) \/ Free(o)

Spec == Init /\ [][Next]_vars

================================================================================
