---------------------------- MODULE ObjectParameters ----------------------------
(***************************************************************************)
(* The parameters an object owns, the inputs it connects and what a        *)
(* recompile rebuilds of them (src/IMetaObject.cpp, IMetaObjectImpl.hpp,    *)
(* IMetaObject_pImpl.hpp), and the manager that lists parameters of many    *)
(* objects (VariableManager.cpp).                                          *)
(*                                                                         *)
(* A parameter is <<owner, name, n>>: n = 0 is the member that the object   *)
(* declares, n > 0 the n-th one made at run time under that name.  What    *)
(* happens between an input and its source is modelled in Parameters, the  *)
(* buffer in Buffers; here an input has its two pointers, input and        *)
(* shared_input, which SetInput does not clear for each other.             *)
(***************************************************************************)
EXTENDS Integers, Sequences, FiniteSets, Functions, SequencesExt, FiniteSetsExt

CONSTANTS
  Owners,     (* the objects                                                     *)
  Outs,       (* names of the outputs each of them declares                      *)
  Ins,        (* of its inputs                                                   *)
  Runs,       (* of the parameters it makes at run time                          *)
  Contexts,   (* threads a context can belong to                                 *)
  Roots,      (* tree roots                                                      *)
  MaxMade,    (* bound: parameters made at run time under one name               *)
  MaxInputs,  (* bound: input connections an object records                      *)
  MaxNotify   (* bound: relays from a parameter to its object                    *)

Declared(o) == Outs[o] \cup Ins[o]

\* A name is declared once, and what an object declares it does not make.
ASSUME ObjAssumption ==
  /\ IsFiniteSet(Owners) /\ Roots # {} /\ MaxMade \in Nat
  /\ \A o \in Owners : Outs[o] \cap Ins[o] = {} /\ Runs[o] \cap Declared(o) = {}

Names == UNION {Declared(o) \cup Runs[o] : o \in Owners}
ParamsOf(o) == ({o} \X Declared(o) \X {0}) \cup ({o} \X Runs[o] \X (1..MaxMade))
AllParams == UNION {ParamsOf(o) : o \in Owners}
InputParams == UNION {{o} \X Ins[o] \X {0} : o \in Owners}
IsInput(p) == p \in InputParams
Nothing == <<>>
Orphaned == <<"orphaned">>   (* a buffer whose output is gone                   *)
NoContext == "none"

VARIABLES
  ob,       (* listed: names in _parameters; made: the current parameter of each
               name of _implicit_parameters; notify: relays from a parameter to
               its object; raw: input of each input; shared: its
               shared_input, as the output that the buffer buffers; wired: the
               parameters at which its delete_slot is registered; recs:
               _parameter_connections, as <<output object, output, input>>      *)
  built,    (* the objects that exist                                           *)
  context,  (* _ctx of each object, which its parameters share                  *)
  root,     (* the tree root of each object's parameters                        *)
  managed,  (* VariableManager::_parameters, by tree name                       *)
  early     (* history: objects whose parameters a consumer initialized         *)

objVars == <<ob, built, context, root, managed, early>>

TreeNames == Roots \X Names

ObjInit ==
  /\ ob = [listed |-> [o \in Owners |-> Declared(o)],
           made |-> [o \in Owners |-> [n \in Runs[o] |-> 0]],
           notify |-> [p \in AllParams |-> IF p[3] = 0 THEN 1 ELSE 0],
           raw |-> [i \in InputParams |-> Nothing],
           shared |-> [i \in InputParams |-> Nothing],
           wired |-> [i \in InputParams |-> {}],
           recs |-> [o \in Owners |-> <<>>]]
  /\ built = Owners
  /\ context = [o \in Owners |-> NoContext]
  /\ root = [o \in Owners |-> CHOOSE r \in Roots : TRUE]
  /\ managed = [t \in TreeNames |-> Nothing]
  /\ early = {}

-----------------------------------------------------------------------------
(* Lookups *)

\* GetOutput, GetParameter: a declared parameter is found before one made at
\* run time; nothing otherwise.
Found(b, o, n) ==
  IF n \in b.listed[o] THEN <<o, n, 0>>
  ELSE IF n \in Runs[o] /\ b.made[o][n] > 0 THEN <<o, n, b.made[o][n]>>
  ELSE Nothing

\* GetParameters, GetDisplayParameters: everything both maps hold.
ParametersOf(o) ==
  {<<o, n, 0>> : n \in ob.listed[o]}
  \cup {<<o, n, ob.made[o][n]>> : n \in {n \in Runs[o] : ob.made[o][n] > 0}}
Existing == UNION {ParametersOf(o) : o \in built}

\* GetOutputs: what can be a source.
Readable == {p \in Existing : ~IsInput(p)}

-----------------------------------------------------------------------------
(* Steps of an object, as functions of ob *)

\* onInputDelete: an input that was ever set to a parameter directly forgets
\* both its pointers when that parameter dies; its slot stays registered there.
Cut(b, i, params) == i \in params \/ b.wired[i] \cap params # {}

\* ~IParameter tells the inputs wired to it; one that has a buffer of it keeps
\* the buffer, which has lost its output.
Deleted(b, params) ==
  [b EXCEPT
    !.notify = [p \in AllParams |-> IF p \in params THEN 0 ELSE @[p]],
    !.raw = [i \in InputParams |-> IF Cut(b, i, params) THEN Nothing ELSE @[i]],
    !.shared = [i \in InputParams |-> IF Cut(b, i, params) THEN Nothing
                                      ELSE IF @[i] \in params THEN Orphaned ELSE @[i]],
    !.wired = [i \in InputParams |-> IF i \in params THEN {} ELSE @[i] \ params]]

\* Mutant: a parameter made at run time does not notify its object.
AddUnheard(b, p) == [b EXCEPT !.made[p[1]][p[2]] = p[3]]

\* AddParameter(shared_ptr): what had the name before goes.
AddMade(b, p) ==
  [Deleted(b, {<<p[1], p[2], b.made[p[1]][p[2]]>>})
     EXCEPT !.made[p[1]][p[2]] = p[3], !.notify[p] = 1]

\* InitParameters: AddParameter(IParameter*) of each declared parameter, which
\* connects the object's slot whether it was connected or not.
InitParameters(b, o) ==
  [b EXCEPT !.listed[o] = Declared(o),
            !.notify = [p \in AllParams |->
                          IF p[1] = o /\ p[3] = 0 THEN @[p] + 1 ELSE @[p]]]

\* ConnectInput: through a buffer when both objects have contexts of different
\* threads.
Via(o, p) ==
  IF context[o] # NoContext /\ context[p[1]] # NoContext /\ context[o] # context[p[1]]
  THEN "buffer" ELSE "direct"

\* SetInput(IParameter*) leaves shared_input as it is.
SetRaw(b, i, p) == [b EXCEPT !.raw[i] = p, !.wired[i] = @ \cup {p}]

\* SetInput(shared_ptr) with a new buffer leaves input as it is.  But the input
\* is the only owner of the buffer it had: that one dies in the assignment, and
\* onInputDelete then clears both pointers, the new buffer included.
SetBuffer(b, i, p) ==
  IF b.shared[i] = Nothing THEN [b EXCEPT !.shared[i] = p]
  ELSE [b EXCEPT !.raw[i] = Nothing, !.shared[i] = Nothing]

Connected(b, o, n, p) ==
  LET i == <<o, n, 0>>
      a == IF Via(o, p) = "buffer" THEN SetBuffer(b, i, p) ELSE SetRaw(b, i, p)
  IN [a EXCEPT !.recs[o] = Append(@, <<p[1], p[2], n>>)]

-----------------------------------------------------------------------------
(* Actions *)

\* UpdateParameter looks for the name among the declared parameters only: each
\* call for another name makes a parameter and drops the one before.
UpdateParameter(o, n) ==
  /\ o \in built /\ ob.made[o][n] < MaxMade
  /\ ob' = AddMade(ob, <<o, n, ob.made[o][n] + 1>>)
  /\ UNCHANGED <<built, context, root, managed, early>>

ConnectInput(o, n, p) ==
  /\ o \in built /\ p \in Readable
  /\ Len(ob.recs[o]) < MaxInputs
  /\ ob' = Connected(ob, o, n, p)
  /\ UNCHANGED <<built, context, root, managed, early>>

\* VariableManager::LinkParameters: always directly, and no object records it.
LinkParameters(o, n, t) ==
  /\ o \in built /\ managed[t] \in Readable
  /\ ob' = SetRaw(ob, <<o, n, 0>>, managed[t])
  /\ UNCHANGED <<built, context, root, managed, early>>

\* SetContext(overwrite): the links that exist stay as they are.
SetContext(o, c) ==
  /\ o \in built /\ context' = [context EXCEPT ![o] = c]
  /\ UNCHANGED <<ob, built, root, managed, early>>

SetParameterRoot(o, r) ==
  /\ o \in built /\ root' = [root EXCEPT ![o] = r]
  /\ UNCHANGED <<ob, built, context, managed, early>>

TreeName(p) == <<root[p[1]], p[2]>>
Removed(m, params) == [t \in TreeNames |-> IF \E p \in params : TreeName(p) = t THEN Nothing ELSE m[t]]

\* SetupVariableManager: what the object may have entered before is replaced.
SetupVariableManager(o) ==
  /\ o \in built
  /\ managed' = [t \in TreeNames |->
       IF \E p \in ParametersOf(o) : TreeName(p) = t
       THEN CHOOSE p \in ParametersOf(o) : TreeName(p) = t ELSE managed[t]]
  /\ UNCHANGED <<ob, built, context, root, early>>

RemoveVariableManager(o) ==
  /\ o \in built /\ managed' = Removed(managed, ParametersOf(o))
  /\ UNCHANGED <<ob, built, context, root, early>>

Destroy(o) ==
  /\ o \in built /\ built' = built \ {o}
  /\ ob' = [Deleted(ob, ParametersOf(o)) EXCEPT
              !.listed[o] = {}, !.made[o] = [n \in Runs[o] |-> 0], !.recs[o] = <<>>]
  /\ UNCHANGED <<context, root, managed, early>>

\* Mutant: the output's object is not initialized.
RebuiltLate(b, o, r) ==
  IF r[1] \notin built \/ Found(b, r[1], r[2]) = Nothing THEN b
  ELSE Connected(b, o, r[3], Found(b, r[1], r[2]))

\* One record of Init(false): the output's object is initialized when it does
\* not have the output yet; an output or object that is gone drops the record.
Rebuilt(b, o, r) ==
  IF r[1] \notin built THEN b
  ELSE LET a == IF Found(b, r[1], r[2]) = Nothing THEN InitParameters(b, r[1]) ELSE b
       IN IF Found(a, r[1], r[2]) = Nothing THEN a ELSE Connected(a, o, r[3], Found(a, r[1], r[2]))

\* Init(false) of one replaced object.
RebuiltAll(b, o, recs) == FoldLeft(LAMBDA c, r : Rebuilt(c, o, r), b, recs)
Reinitialized(b, o) == RebuiltAll([InitParameters(b, o) EXCEPT !.recs[o] = <<>>], o, b.recs[o])
ReinitializedAll(b, order) == FoldLeft(Reinitialized, b, order)

\* History: objects that a replaced one asks for an output they do not have
\* yet, or lost with a recompile of their own.
InitializedFor(order) ==
  {o \in built : \E i \in DOMAIN order : \E r \in Range(ob.recs[order[i]]) :
      r[1] = o /\ (r[2] \in Runs[o] \/ \E j \in DOMAIN order : order[j] = o /\ i < j)}

\* A recompile replaces objects in some order: the new ones have no parameter
\* until they are initialized, and none of those made at run time.
Swap(order) ==
  LET objs == Range(order)
      fresh == [Deleted(ob, UNION {ParametersOf(o) : o \in objs}) EXCEPT
        !.listed = [o \in Owners |-> IF o \in objs THEN {} ELSE @[o]],
        !.made = [o \in Owners |-> IF o \in objs THEN [n \in Runs[o] |-> 0] ELSE @[o]]]
  IN /\ objs # {} /\ objs \subseteq built
     /\ UNCHANGED <<built, context, managed>>
     /\ root' = [o \in Owners |-> IF o \in objs THEN CHOOSE r \in Roots : TRUE ELSE root[o]]
     /\ early' = (early \ objs) \cup InitializedFor(order)
     /\ ob' = ReinitializedAll(fresh, order)
     /\ \A p \in AllParams : ob'.notify[p] <= MaxNotify

Orders == {q \in UNION {[1..k -> Owners] : k \in 1..Cardinality(Owners)} : IsInjective(q)}

ObjNext ==
  \/ \E o \in Owners :
       \/ \E n \in Runs[o] : UpdateParameter(o, n)
       \/ \E n \in Ins[o] : \/ \E p \in Existing : ConnectInput(o, n, p)
                             \/ \E t \in TreeNames : LinkParameters(o, n, t)
       \/ \E c \in Contexts : SetContext(o, c)
       \/ \E r \in Roots : SetParameterRoot(o, r)
       \/ SetupVariableManager(o) \/ RemoveVariableManager(o) \/ Destroy(o)
  \/ \E order \in Orders : Swap(order)

ObjSpec == ObjInit /\ [][ObjNext]_objVars

-----------------------------------------------------------------------------
(* Properties *)

ObjTypeOK ==
  /\ \A o \in Owners : ob.listed[o] \subseteq Declared(o)
  /\ \A o \in Owners : ob.made[o] \in [Runs[o] -> 0..MaxMade]
  /\ ob.notify \in [AllParams -> Nat]
  /\ ob.raw \in [InputParams -> {Nothing} \cup AllParams]
  /\ ob.shared \in [InputParams -> {Nothing, Orphaned} \cup AllParams]
  /\ ob.wired \in [InputParams -> SUBSET AllParams]
  /\ managed \in [TreeNames -> {Nothing} \cup AllParams]

\* Every parameter an object holds reports its updates to the object, through
\* replacements and recompiles; once, but for the parameters of an object that
\* a consumer initialized for want of an output, which report more than once.
NotifiesOwner ==
  \A p \in Existing :
    ob.notify[p] >= 1 /\ (ob.notify[p] > 1 => p[1] \in early /\ p[3] = 0)

\* GetInput reads the buffer when there is one.
Reads(b, i) == IF b.shared[i] # Nothing THEN b.shared[i] ELSE b.raw[i]

RecordsOf(o, n) == {k \in DOMAIN ob.recs[o] : ob.recs[o][k][3] = n}

\* No connection before the k-th, of the same input, goes through a buffer now.
NoBufferBefore(o, n, k) ==
  \A j \in RecordsOf(o, n) :
    j < k /\ ob.recs[o][j][1] \in built => Via(o, ob.recs[o][j]) = "direct"

\* After a recompile, in whatever order the objects are replaced, an input reads
\* the declared output that it was connected to last, through a buffer exactly
\* when the two threads differ by now, whatever it read before; unless an
\* earlier connection of it goes through a buffer, which the last one does not
\* replace.
InputsRestored ==
  \A order \in Orders : Swap(order) =>
     \A o \in Range(order) : \A n \in Ins[o] : RecordsOf(o, n) # {} =>
       LET i == <<o, n, 0>>
           k == Max(RecordsOf(o, n))
           r == ob.recs[o][k]
       IN r[1] \in built /\ r[2] \in Outs[r[1]] /\ NoBufferBefore(o, n, k)
          => /\ Reads(ob', i) = <<r[1], r[2], 0>>
             /\ ob'.shared[i] = Nothing <=> Via(o, r) = "direct"

\* InputsRestored, of every step that changes something.
RecompileRestoresInputs == [][objVars' # objVars => InputsRestored]_objVars

\* Each parameter of an object is known to it and reports to it.
ParametersSound == ObjTypeOK /\ NotifiesOwner

===============================================================================
