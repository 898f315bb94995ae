------------------------------- MODULE Parameters -------------------------------
(***************************************************************************)
(* Parameters and the inputs that follow them (src/parameters/             *)
(* Parameter.cpp and include/MetaObject/Parameters/detail of src).         *)
(*                                                                         *)
(* An output has a value and a time stamp and emits update_signal under    *)
(* its mutex.  An input has a source, by raw pointer or by shared_ptr; its *)
(* update slot commits the input in turn, on the thread that updates, and  *)
(* its delete slot forgets the source.  The slots are connected by         *)
(* SetInput and never disconnected from an earlier source.  Parameters of  *)
(* one object use the object's mutex (IMetaObject::AddParameter).          *)
(*                                                                         *)
(* The main thread wires and destroys first, then the threads run: nothing *)
(* in the code protects an emission from SetInput on another thread.       *)
(*                                                                         *)
(* A thread is a stack of frames, innermost first.  A frame holds at most  *)
(* one mutex; mutexes are recursive.                                       *)
(***************************************************************************)
EXTENDS Integers, Sequences, FiniteSets

CONSTANTS
  Outputs,    (* parameters with a value of their own                         *)
  Typed,      (* the outputs that are TypedParameter, not TypedParameterPtr   *)
  Inputs,     (* TypedInputParameterPtr                                       *)
  Objects,    (* the objects, each with a mutex                               *)
  Object,     (* the object of each parameter                                 *)
  Level,      (* a number for each object: data flows to higher levels        *)
  Home,       (* the thread of each parameter's Context, None without one     *)
  MayFeed,    (* pairs <<i, p>>: p may become the source of i                 *)
  Threads,
  Main,       (* the thread that wires                                        *)
  None,
  MaxUpdates, (* bound: calls of UpdateData                                   *)
  MaxChanges  (* bound: calls of SetInput and destructions                    *)

Params == Outputs \cup Inputs

ASSUME ParametersAssumption ==
  /\ Outputs \cap Inputs = {} /\ Typed \subseteq Outputs
  /\ Object \in [Params -> Objects] /\ Level \in [Objects -> Nat]
  /\ IsFiniteSet(Objects)
  /\ Home \in [Params -> Threads \cup {None}] /\ None \notin Params \cup Objects
  /\ MayFeed \subseteq Inputs \X Params
  /\ \A w \in MayFeed : Level[Object[w[2]]] < Level[Object[w[1]]]
  /\ Main \in Threads
  /\ MaxUpdates \in Nat /\ MaxChanges \in Nat

VARIABLES
  data,    (* the value of an output, named by the stamp it was written for   *)
  ts,      (* _timestamp; -1 for none                                         *)
  raw,     (* ITypedInputParameter::input                                     *)
  shared,  (* ITypedInputParameter::shared_input                              *)
  user,    (* *userVar: the output whose value an input points to             *)
  wired,   (* the inputs whose slots are on a parameter's two signals         *)
  life,    (* "owned", "released" (kept by inputs only), "dying", "dead"      *)
  stack,
  running, (* the threads run, wiring is over                                 *)
  clock,   (* calls of UpdateData so far: the stamp of the last               *)
  changes

wiring == <<raw, shared, wired, life>>
control == <<running, clock, changes>>
vars == <<data, ts, wiring, user, stack, control>>

Frame(op, p, src, todo, stamp, ctx, m) ==
  [op |-> op, par |-> p, src |-> src, todo |-> todo, stamp |-> stamp,
   ctx |-> ctx, holds |-> m]

Init ==
  /\ data = [p \in Outputs |-> 0]
  /\ ts = [p \in Params |-> -1]
  /\ raw = [i \in Inputs |-> None] /\ shared = [i \in Inputs |-> None]
  /\ user = [i \in Inputs |-> None]
  /\ wired = [p \in Params |-> {}]
  /\ life = [p \in Params |-> "owned"]
  /\ stack = [t \in Threads |-> <<>>]
  /\ running = FALSE /\ clock = 0 /\ changes = 0

Busy(t) == stack[t] # <<>>
Top(t) == Head(stack[t])
At(t, op) == Busy(t) /\ Top(t).op = op

Leave(t) == stack' = [stack EXCEPT ![t] = Tail(@)]
Become(t, fs) == stack' = [stack EXCEPT ![t] = fs \o Tail(@)]
Enter(t, fs) == stack' = [stack EXCEPT ![t] = fs \o @]

Holds(t, o) == \E k \in DOMAIN stack[t] : stack[t][k].holds = o
MayLock(t, p) == \A u \in Threads \ {t} : ~Holds(u, Object[p])

(* The source that GetDataPtr, GetData and onInputUpdate use.              *)
Feed(i) == IF raw[i] # None THEN raw[i] ELSE shared[i]

(* GetDataPtr without a time stamp, through inputs that feed inputs.       *)
DataPtr[p \in Params \cup {None}] ==
  IF p \in Inputs THEN DataPtr[Feed(p)] ELSE p

----------------------------------------------------------------------------
(* Updates                                                                 *)

(* The emission of update_signal; the caller holds the parameter's mutex.  *)
Emission(p, ctx) == Frame("emit", p, None, wired[p], 0, ctx, Object[p])

Acts(t) == ~Busy(t) /\ (running \/ t = Main)

(* Mutant: the value is written before the mutex is taken.                 *)
UpdateUnlocked(t, p) ==
  /\ Acts(t) /\ p \notin Typed /\ life[p] = "owned"
  /\ clock < MaxUpdates /\ clock' = clock + 1
  /\ data' = [data EXCEPT ![p] = clock']
  /\ Enter(t, <<Frame("commit", p, None, {}, clock', t, None)>>)
  /\ UNCHANGED <<ts, wiring, user, running, changes>>

(* Mutant: the mutex is not taken at all.                                  *)
UpdateNoMutex(t, p) ==
  /\ Acts(t) /\ p \notin Typed /\ life[p] = "owned"
  /\ clock < MaxUpdates /\ clock' = clock + 1
  /\ data' = [data EXCEPT ![p] = clock']
  /\ Enter(t, <<Frame("stamp", p, None, {}, clock', t, Object[p])>>)
  /\ UNCHANGED <<ts, wiring, user, running, changes>>

(* TypedParameterPtr::UpdateData takes the mutex and writes the value.     *)
UpdateData(t, p) ==
  /\ Acts(t) /\ p \notin Typed /\ life[p] = "owned" /\ MayLock(t, p)
  /\ clock < MaxUpdates /\ clock' = clock + 1
  /\ data' = [data EXCEPT ![p] = clock']
  /\ Enter(t, <<Frame("stamp", p, None, {}, clock', t, Object[p])>>)
  /\ UNCHANGED <<ts, wiring, user, running, changes>>

(* It then writes the stamp and calls OnUpdate.                            *)
Stamp(t) ==
  /\ At(t, "stamp")
  /\ LET f == Top(t) IN
       /\ ts' = [ts EXCEPT ![f.par] = f.stamp]
       /\ Become(t, <<Emission(f.par, f.ctx)>>)
  /\ UNCHANGED <<data, wiring, user, control>>

(* TypedParameter::UpdateData writes the value, then calls Commit.         *)
UpdateTyped(t, p) ==
  /\ Acts(t) /\ p \in Typed /\ life[p] = "owned"
  /\ clock < MaxUpdates /\ clock' = clock + 1
  /\ data' = [data EXCEPT ![p] = clock']
  /\ Enter(t, <<Frame("commit", p, None, {}, clock', t, None)>>)
  /\ UNCHANGED <<ts, wiring, user, running, changes>>

(* IParameter::Commit, for an output and from onInputUpdate: what is left  *)
(* of the caller stays below the emission.                                 *)
Commit(t) ==
  /\ At(t, "commit")
  /\ LET f == Top(t) IN
       /\ MayLock(t, f.par)
       /\ ts' = [ts EXCEPT ![f.par] = f.stamp]
       /\ Become(t, <<Emission(f.par, f.ctx)>>)
  /\ UNCHANGED <<data, wiring, user, control>>

(* Mutant: the emission calls the same slot again and again.               *)
NotifySame(t) ==
  /\ At(t, "emit")
  /\ \E i \in Top(t).todo :
       /\ Feed(i) # None
       /\ Enter(t, <<Frame("commit", i, None, {}, ts[Feed(i)], Top(t).ctx, None),
                     Frame("assign", i, None, {}, 0, Top(t).ctx, None)>>)
  /\ UNCHANGED <<data, ts, wiring, user, control>>

(* onInputUpdate of an input that is wired to the emitting parameter:      *)
(* whoever emits, the stamp is that of the source, read without its mutex. *)
Notify(t) ==
  /\ At(t, "emit")
  /\ \E i \in Top(t).todo :
       LET rest == [Top(t) EXCEPT !.todo = @ \ {i}]
           ctx == Top(t).ctx IN
       IF Feed(i) = None
         THEN Become(t, <<rest>>)
         ELSE Become(t, <<Frame("commit", i, None, {}, ts[Feed(i)], ctx, None),
                          Frame("assign", i, None, {}, 0, ctx, None), rest>>)
  /\ UNCHANGED <<data, ts, wiring, user, control>>

EmitReturn(t) ==
  /\ At(t, "emit") /\ Top(t).todo = {}
  /\ Leave(t)
  /\ UNCHANGED <<data, ts, wiring, user, control>>

(* The end of onInputUpdate: the user's pointer, on the input's thread.    *)
AssignUser(t) ==
  /\ At(t, "assign")
  /\ LET f == Top(t) IN
       user' = IF f.ctx = Home[f.par]
                 THEN [user EXCEPT ![f.par] = DataPtr[Feed(f.par)]]
                 ELSE user
  /\ Leave(t)
  /\ UNCHANGED <<data, ts, wiring, control>>

----------------------------------------------------------------------------
(* Destruction                                                             *)

Alive(p) == life[p] \in {"owned", "released"}

(* ~ITypedInputParameter takes the slots of an input off the signals and   *)
(* drops its sources; ~IParameter then emits delete_signal.  A parameter   *)
(* whose last shared_ptr goes is destroyed before that.                    *)
Orphan(q, i) ==
  /\ q # None /\ life[q] = "released"
  /\ \A k \in Inputs \ {i} : shared[k] # q

(* Mutant: the death of a parameter is announced as that of its object.    *)
DeletionOfAll(p) ==
  Frame("delete", p, None,
        UNION {wired[q] : q \in {r \in Params : Object[r] = Object[p]}},
        0, None, None)

Deletion(p) == Frame("delete", p, None, wired[p], 0, None, None)

(* What the reset of the shared_ptr of i begins.                           *)
Reset(i) ==
  IF Orphan(shared[i], i)
    THEN <<Frame("destroy", shared[i], None, {}, 0, None, None)>> ELSE <<>>

Doom(i) ==
  IF Orphan(shared[i], i) THEN [life EXCEPT ![shared[i]] = "dying"] ELSE life

Change(t) ==
  /\ t = Main /\ ~running /\ ~Busy(t)
  /\ changes < MaxChanges /\ changes' = changes + 1
  /\ UNCHANGED <<running, clock>>

(* The owner lets go of a parameter: deletes it, or drops its shared_ptr.  *)
Release(t, p) ==
  /\ Change(t)
  /\ life[p] = "owned"
  /\ LET kept == \E k \in Inputs : shared[k] = p IN
       /\ life' = [life EXCEPT ![p] = IF kept THEN "released" ELSE "dying"]
       /\ Enter(t, IF kept THEN <<>>
                   ELSE <<Frame("destroy", p, None, {}, 0, None, None)>>)
  /\ UNCHANGED <<data, ts, raw, shared, wired, user>>

(* The destructors of the derived classes.                                 *)
Destroy(t) ==
  /\ At(t, "destroy")
  /\ LET p == Top(t).par IN
     IF p \in Inputs
       THEN /\ wired' = [q \in Params |-> wired[q] \ {p}]
            /\ raw' = [raw EXCEPT ![p] = None]
            /\ shared' = [shared EXCEPT ![p] = None]
            /\ life' = Doom(p)
            /\ Become(t, Reset(p) \o <<Deletion(p)>>)
       ELSE /\ Become(t, <<Deletion(p)>>)
            /\ UNCHANGED wiring
  /\ UNCHANGED <<data, ts, user, control>>

(* Mutant: only the shared pointer is reset.                               *)
ForgetShared(t) ==
  /\ At(t, "delete")
  /\ \E i \in Top(t).todo :
       /\ MayLock(t, i)
       /\ shared' = [shared EXCEPT ![i] = None]
       /\ life' = Doom(i)
       /\ Become(t, Reset(i) \o <<[Top(t) EXCEPT !.todo = @ \ {i}]>>)
  /\ UNCHANGED <<data, ts, raw, wired, user, control>>

(* onInputDelete, of each input that was ever wired to the parameter: the  *)
(* input forgets its source, whichever parameter that is.                  *)
ForgetInput(t) ==
  /\ At(t, "delete")
  /\ \E i \in Top(t).todo :
       /\ MayLock(t, i)
       /\ raw' = [raw EXCEPT ![i] = None]
       /\ shared' = [shared EXCEPT ![i] = None]
       /\ life' = Doom(i)
       /\ Become(t, Reset(i) \o <<[Top(t) EXCEPT !.todo = @ \ {i}]>>)
  /\ UNCHANGED <<data, ts, wired, user, control>>

DeleteReturn(t) ==
  /\ At(t, "delete") /\ Top(t).todo = {}
  /\ LET p == Top(t).par IN
       /\ life' = [life EXCEPT ![p] = "dead"]
       /\ wired' = [wired EXCEPT ![p] = {}]
  /\ Leave(t)
  /\ UNCHANGED <<data, ts, raw, shared, user, control>>

----------------------------------------------------------------------------
(* SetInput                                                                *)

(* SetInput(nullptr) drops both sources.                                   *)
ClearInput(t, i) ==
  /\ Change(t)
  /\ life[i] = "owned" /\ MayLock(t, i)
  /\ raw' = [raw EXCEPT ![i] = None]
  /\ shared' = [shared EXCEPT ![i] = None]
  /\ life' = Doom(i)
  /\ Enter(t, Reset(i) \o <<Frame("update", i, None, {}, 0, None, Object[i])>>)
  /\ UNCHANGED <<data, ts, wired, user>>

(* SetInput(p): the stamp of a source that has one, then one of the two    *)
(* pointers; the other keeps its value.  An earlier shared source may die  *)
(* of the assignment, when the new one is in place already.                *)
SetRaw(t, i, p) ==
  /\ Change(t)
  /\ <<i, p>> \in MayFeed /\ life[i] = "owned" /\ life[p] = "owned"
  /\ MayLock(t, i)
  /\ ts' = IF ts[p] # -1 THEN [ts EXCEPT ![i] = ts[p]] ELSE ts
  /\ raw' = [raw EXCEPT ![i] = p]
  /\ Enter(t, <<Frame("wire", i, p, {}, 0, Home[p], Object[i])>>)
  /\ UNCHANGED <<data, shared, wired, life, user>>

SetShared(t, i, p) ==
  /\ Change(t)
  /\ <<i, p>> \in MayFeed /\ life[i] = "owned" /\ life[p] = "owned"
  /\ MayLock(t, i)
  /\ ts' = IF ts[p] # -1 THEN [ts EXCEPT ![i] = ts[p]] ELSE ts
  /\ shared' = [shared EXCEPT ![i] = p]
  /\ life' = Doom(i)
  /\ Enter(t, Reset(i) \o <<Frame("wire", i, p, {}, 0, Home[p], Object[i])>>)
  /\ UNCHANGED <<data, raw, wired, user>>

(* RegisterUpdateNotifier and RegisterDeleteNotifier.                      *)
Wire(t) ==
  /\ At(t, "wire")
  /\ LET f == Top(t) IN
       /\ MayLock(t, f.src)
       /\ wired' = [wired EXCEPT ![f.src] = @ \cup {f.par}]
       /\ Become(t, <<[f EXCEPT !.op = "update"]>>)
  /\ UNCHANGED <<data, ts, raw, shared, life, user, control>>

(* Mutant: SetInput does not tell what follows the input.                  *)
UpdateSilent(t) ==
  /\ At(t, "update")
  /\ Become(t, <<[Top(t) EXCEPT !.op = "return"]>>)
  /\ UNCHANGED <<data, ts, wiring, user, control>>

(* OnUpdate: what follows the input is notified.                           *)
Update(t) ==
  /\ At(t, "update")
  /\ LET f == Top(t) IN
       Become(t, <<Emission(f.par, f.ctx), [f EXCEPT !.op = "return"]>>)
  /\ UNCHANGED <<data, ts, wiring, user, control>>

(* The end of TypedInputParameterPtr::SetInput: a shared source wins.      *)
SetReturn(t) ==
  /\ At(t, "return")
  /\ LET i == Top(t).par
         src == IF shared[i] # None THEN shared[i] ELSE raw[i] IN
       user' = IF src # None THEN [user EXCEPT ![i] = DataPtr[src]] ELSE user
  /\ Leave(t)
  /\ UNCHANGED <<data, ts, wiring, control>>

----------------------------------------------------------------------------
(* Reading                                                                 *)

(* GetInput(stamp): the user's pointer, null when the source's stamp is    *)
(* another; the shared source is asked first.                              *)
GetInput(t, i) ==
  /\ Acts(t) /\ Alive(i) /\ MayLock(t, i)
  /\ LET src == IF shared[i] # None THEN shared[i] ELSE raw[i] IN
       /\ src # None
       /\ \E p \in {DataPtr[src], None} : user' = [user EXCEPT ![i] = p]
  /\ UNCHANGED <<data, ts, wiring, stack, control>>

(* Mutant: the reader keeps the mutex of the input as well.                *)
GetDataLocked(t, i) ==
  /\ Acts(t) /\ Alive(i) /\ MayLock(t, i)
  /\ DataPtr[i] # None
  /\ Enter(t, <<Frame("read", DataPtr[i], None, {}, 0, None, Object[i])>>)
  /\ UNCHANGED <<data, ts, wiring, user, control>>

(* GetData(value, stamp): the pointers are followed without a mutex, the   *)
(* value and the stamp are read under that of the output.                  *)
GetData(t, i) ==
  /\ Acts(t) /\ Alive(i)
  /\ DataPtr[i] # None
  /\ Enter(t, <<Frame("read", DataPtr[i], None, {}, 0, None, None)>>)
  /\ UNCHANGED <<data, ts, wiring, user, control>>

CanRead(t) == At(t, "read") /\ MayLock(t, Top(t).par)

Read(t) ==
  /\ CanRead(t)
  /\ Leave(t)
  /\ UNCHANGED <<data, ts, wiring, user, control>>

----------------------------------------------------------------------------
(* The main thread has wired what it wants to and starts the others.       *)
Go ==
  /\ ~running /\ ~Busy(Main)
  /\ running' = TRUE
  /\ UNCHANGED <<data, ts, wiring, user, stack, clock, changes>>

(* The continuation of a call that has begun.                              *)
Step(t) ==
  \/ Stamp(t) \/ Commit(t) \/ Notify(t) \/ EmitReturn(t) \/ AssignUser(t)
  \/ Destroy(t) \/ ForgetInput(t) \/ DeleteReturn(t)
  \/ Wire(t) \/ Update(t) \/ SetReturn(t)
  \/ Read(t)

Call(t) ==
  \/ \E p \in Outputs : UpdateData(t, p) \/ UpdateTyped(t, p)
  \/ \E p \in Params : Release(t, p)
  \/ \E i \in Inputs : ClearInput(t, i) \/ GetInput(t, i) \/ GetData(t, i)
  \/ \E i \in Inputs, p \in Params : SetRaw(t, i, p) \/ SetShared(t, i, p)

Next == Go \/ \E t \in Threads : Step(t) \/ Call(t)

Spec == Init /\ [][Next]_vars

(* Threads keep running, and a mutex that is released is acquired in the   *)
(* end by each thread that waits for it.                                   *)
FairSpec == Spec /\ \A t \in Threads : SF_vars(Step(t))

----------------------------------------------------------------------------
(* Properties                                                              *)

Frames(t) == {stack[t][k] : k \in DOMAIN stack[t]}

(* Types; a stamp is one that UpdateData was called with, and a mutex is   *)
(* held by one thread (boost::recursive_mutex).                            *)
TypeOK ==
  /\ data \in [Outputs -> 0..clock] /\ ts \in [Params -> -1..clock]
  /\ raw \in [Inputs -> Params \cup {None}]
  /\ shared \in [Inputs -> Params \cup {None}]
  /\ user \in [Inputs -> Outputs \cup {None}]
  /\ wired \in [Params -> SUBSET Inputs]
  /\ life \in [Params -> {"owned", "released", "dying", "dead"}]
  /\ \A t \in Threads : \A f \in Frames(t) :
       /\ f.par \in Params /\ f.todo \subseteq Inputs
       /\ f.holds \in Objects \cup {None}
  /\ running \in BOOLEAN /\ clock \in 0..MaxUpdates /\ changes \in 0..MaxChanges
  /\ \A o \in Objects : \A t, u \in Threads :
       Holds(t, o) /\ Holds(u, o) => t = u

(* No input keeps a pointer to a parameter that has been destroyed, and no *)
(* call goes on with one: delete_signal reaches an input whatever it was   *)
(* wired to before, and whichever destructor runs inside which call.       *)
LiveSources ==
  /\ \A i \in Inputs : \A p \in {raw[i], shared[i]} \ {None} :
       life[i] # "dead" => life[p] # "dead"
  /\ \A t \in Threads : \A f \in Frames(t) :
       /\ life[f.par] # "dead"
       /\ f.op = "wire" => life[f.src] # "dead"

(* The mutex a thread needs for its next step.                             *)
Wants(t) ==
  CASE At(t, "commit") \/ At(t, "read") -> {Top(t).par}
    [] At(t, "wire") -> {Top(t).src}
    [] At(t, "delete") -> Top(t).todo
    [] OTHER -> {}

Waits(t) == Wants(t) # {} /\ \A p \in Wants(t) : ~MayLock(t, p)

(* An update holds the mutex of each parameter from the output down to     *)
(* where it is, while other updates and readers want them: someone can     *)
(* always go on, provided that data flows one way between objects.         *)
NoDeadlock ==
  (\E t \in Threads : Busy(t)) => \E t \in Threads : Busy(t) /\ ~Waits(t)

(* GetData with a stamp returns the value written for it, never the value  *)
(* of an update that is under way (TypedParameterPtr, which writes both    *)
(* under the mutex; TypedParameter does not).                              *)
ReadsMatch ==
  \A t \in Threads :
    LET p == Top(t).par IN
    CanRead(t) /\ p \notin Typed /\ ts[p] # -1 => data[p] = ts[p]

(* Inputs have live sources, and readers read what belongs to the stamp.   *)
InputsSound == TypeOK /\ LiveSources /\ ReadsMatch

(* The input is wired to something besides its source, which notifies it.  *)
Rewired(i) == \E q \in Params \ {Feed(i)} : i \in wired[q]

(* When all calls have returned, the stamp of an input is that of its      *)
(* source, over chains of inputs and whoever updated last (onInputUpdate,  *)
(* SetInput).  An input that was wired to another parameter before may     *)
(* take a stamp that was read before a later update.                       *)
FollowsSource ==
  (\A t \in Threads : ~Busy(t)) =>
    \A i \in Inputs :
      LET p == Feed(i) IN
      p # None /\ ~Rewired(i) => ts[p] = -1 \/ ts[i] = ts[p]

(* An input loses its source when the source dies or by SetInput, and not  *)
(* by the death of anything else, unless it was wired to that before.      *)
KeepsSource ==
  [][\A i \in Inputs :
       LET p == Feed(i) IN
       p # None /\ raw'[i] = None /\ shared'[i] = None /\ ~Rewired(i) =>
         \/ life[p] = "dying"
         \/ life[i] # "owned"
         \/ changes' # changes
    ]_vars

(* What the tests of SetInput say of it: when it returns true, the user's  *)
(* pointer is that of the source it was given.                             *)
SetInputTakesEffect ==
  [][\A t \in Threads :
       At(t, "return") /\ Top(t).src # None /\ Len(stack'[t]) < Len(stack[t]) =>
         user'[Top(t).par] = DataPtr[Top(t).src]
    ]_vars

(* Every call comes to its end: updates, through all that follow them,     *)
(* reads, and SetInput and destructors with all that they destroy.         *)
CallsReturn == \A t \in Threads : Busy(t) ~> ~Busy(t)
=============================================================================
