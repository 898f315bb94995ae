------------------------------- MODULE ObjectStore -------------------------------
(***************************************************************************)
(* The object factory (MetaObjectFactory.cpp) and what writes objects to a  *)
(* stream and reads them again: objects by type name (SerializerFactory,    *)
(* serializer.cpp, IO/Policy.hpp) in a binary or an XML stream, and shared  *)
(* pointers to objects in a JSON file (IO/memory.hpp), each object once and *)
(* afterwards by its identity.                                              *)
(*                                                                         *)
(* The runtime object system (constructors, identities) is external: a      *)
(* constructor is known by its index, an object by its type and the first   *)
(* free number of that type.                                                *)
(***************************************************************************)
EXTENDS Integers, Sequences, FiniteSets, SequencesExt, FiniteSetsExt, Functions

CONSTANTS
  PluginTypes, (* plugin file -> the types it brings, or <<>> when it does not load *)
  Interface,   (* type -> the interface it implements                             *)
  Plain,       (* types that do not derive from IMetaObject                       *)
  Bare,        (* types without serialization functions of their own              *)
  Settings,    (* what an object's parameters can be set to                       *)
  MaxObjects   (* bound: objects alive                                            *)

ASSUME StoreAssumption ==
  /\ \A p \in DOMAIN PluginTypes : PluginTypes[p] \in Seq(DOMAIN Interface)
  /\ Settings # {} /\ MaxObjects \in Nat

VARIABLES
  constructors, (* the types that can be constructed, in the order of registration *)
  plugins,      (* the list of plugins that were loaded                           *)
  alive,        (* object -> the setting of its parameters                        *)
  format,       (* of the file that was written last                              *)
  file,         (* its nodes: one object, or in JSON one per pointer              *)
  pointers,     (* the user's pointers that were loaded from the file             *)
  crashed       (* a null pointer was followed                                    *)

storeVars == <<constructors, plugins, alive, format, file, pointers, crashed>>

Types == DOMAIN Interface
First == CHOOSE s \in Settings : TRUE   \* the initial value of the parameters
Null == <<>>                            \* the pointer to no object
Formats == {"none", "binary", "xml", "json"}

StoreInit ==
  /\ constructors = <<>> /\ plugins = <<>>
  /\ alive = <<>>
  /\ format = "none" /\ file = <<>> /\ pointers = <<>>
  /\ crashed = FALSE

Known(type) == type \in Range(constructors)
IndexOf(type) == CHOOSE i \in DOMAIN constructors : constructors[i] = type

\* The identity that the next object of a type gets.
NextId(objects, type) ==
  LET taken == {o[2] : o \in {x \in DOMAIN objects : x[1] = type}}
  IN CHOOSE n \in 0..Cardinality(taken) : n \notin taken /\ \A k \in 0..(n - 1) : k \in taken

\* MetaObjectFactory::Create without an interface: an object in its initial
\* state, or none.
Made(objects, type) ==
  IF Known(type) /\ type \notin Plain THEN <<type, NextId(objects, type)>> ELSE Null

With(objects, o, setting) == [x \in DOMAIN objects \cup {o} |-> IF x = o THEN setting ELSE objects[x]]

\* Mutant: the constructor's index alone decides.
GetByIndex(objects, node) ==
  IF node.ctor <= Len(constructors) /\ <<constructors[node.ctor], node.at[2]>> \in DOMAIN objects
  THEN <<constructors[node.ctor], node.at[2]>> ELSE Null

\* Mutant: an object that exists is not looked for.
GetNever(objects, node) == Null

\* MetaObjectFactory::Get: the constructor at the index if it has the name,
\* otherwise the one with the name; none when the index is out of range.
Get(objects, node) ==
  IF node.ctor <= Len(constructors) /\ Known(node.at[1]) /\ node.at \in DOMAIN objects
  THEN node.at ELSE Null

-----------------------------------------------------------------------------
(* The factory *)

\* LoadPlugin: only what loads is recorded, constructors that are there stay
\* where they are.
Registered(cs, type) == IF type \in Range(cs) THEN cs ELSE Append(cs, type)
RegisterAll(cs, types) == FoldLeft(Registered, cs, types)
LoadPlugin(plugin) ==
  /\ IF PluginTypes[plugin] = <<>> THEN UNCHANGED <<constructors, plugins>>
     ELSE /\ constructors' = RegisterAll(constructors, PluginTypes[plugin])
          /\ plugins' = Append(plugins, plugin)
  /\ UNCHANGED <<alive, format, file, pointers, crashed>>

\* Create, for an interface or for any (-1).
CreateObject(type, interface) ==
  /\ Cardinality(DOMAIN alive) < MaxObjects
  /\ alive' = IF Made(alive, type) # Null /\ interface \in {-1, Interface[type]}
              THEN With(alive, Made(alive, type), First) ELSE alive
  /\ UNCHANGED <<constructors, plugins, format, file, pointers, crashed>>

AssignParameters(o, setting) ==
  /\ alive' = [alive EXCEPT ![o] = setting]
  /\ UNCHANGED <<constructors, plugins, format, file, pointers, crashed>>

\* The last pointer to an object goes.
Release(o) ==
  /\ o \notin Range(pointers)
  /\ alive' = Restrict(alive, DOMAIN alive \ {o})
  /\ UNCHANGED <<constructors, plugins, format, file, pointers, crashed>>

\* The process ends and another one starts.
Restart ==
  /\ constructors' = <<>> /\ plugins' = <<>> /\ alive' = <<>>
  /\ pointers' = <<>> /\ crashed' = FALSE
  /\ UNCHANGED <<format, file>>

-----------------------------------------------------------------------------
(* SerializerFactory *)

\* Serialize: the type's name and what its function writes.
WriteObject(o, form) ==
  /\ format' = form
  /\ file' = <<[at |-> o, setting |-> IF o[1] \in Bare THEN {} ELSE {alive[o]}]>>
  /\ pointers' = <<>>
  /\ UNCHANGED <<constructors, plugins, alive, crashed>>

\* What the type's function reads into an object.
ReadInto(objects, o) ==
  IF o[1] \in Bare \/ file[1].setting = {} THEN objects
  ELSE With(objects, o, CHOOSE s \in file[1].setting : TRUE)

\* DeSerialize into an object: XML throws for another type, binary reads on.
ReadOnto(o) ==
  /\ format \in {"binary", "xml"}
  /\ format = "xml" => file[1].at[1] = o[1]
  /\ alive' = ReadInto(alive, o)
  /\ UNCHANGED <<constructors, plugins, format, file, pointers, crashed>>

\* DeSerialize into a new object: the binary form does not ask whether there is one.
ReadNew ==
  /\ format \in {"binary", "xml"}
  /\ Cardinality(DOMAIN alive) < MaxObjects
  /\ LET o == Made(alive, file[1].at[1])
     IN /\ alive' = IF o = Null THEN alive ELSE ReadInto(With(alive, o, First), o)
        /\ crashed' = (crashed \/ (o = Null /\ format = "binary"))
  /\ UNCHANGED <<constructors, plugins, format, file, pointers>>

-----------------------------------------------------------------------------
(* Shared pointers in a JSON file *)

\* save: the object at its first pointer, its identity at the others.
NodeOf(ps, i) ==
  [at |-> ps[i], ctor |-> IndexOf(ps[i][1]),
   setting |-> IF \E j \in 1..(i - 1) : ps[j] = ps[i] THEN {} ELSE {alive[ps[i]]}]

SavePointers(ps) ==
  /\ format' = "json"
  /\ file' = [i \in DOMAIN ps |-> NodeOf(ps, i)]
  /\ pointers' = <<>>
  /\ UNCHANGED <<constructors, plugins, alive, crashed>>

\* load of one pointer that is null: the object that Get finds or a new one,
\* whose parameters are read unless it has been met before.
LoadNode(s, node) ==
  IF s.crashed THEN s
  ELSE LET found == Get(s.alive, node)
           o == IF found # Null THEN found ELSE Made(s.alive, node.at[1])
           now == IF found # Null THEN s.alive ELSE With(s.alive, o, First)
       IN IF o = Null THEN [s EXCEPT !.crashed = TRUE]
          ELSE [s EXCEPT !.alive = IF o \in s.met \/ node.setting = {} THEN now
                                   ELSE With(now, o, CHOOSE x \in node.setting : TRUE),
                         !.met = @ \cup {o},
                         !.pointers = Append(@, o)]

LoadAll(s, nodes) == FoldLeft(LoadNode, s, nodes)

LoadPointers ==
  /\ format = "json" /\ pointers = <<>>
  /\ Cardinality(DOMAIN alive) + Len(file) <= MaxObjects + 1
  /\ LET end == LoadAll([alive |-> alive, met |-> {}, pointers |-> <<>>, crashed |-> crashed], file)
     IN alive' = end.alive /\ pointers' = end.pointers /\ crashed' = end.crashed
  /\ UNCHANGED <<constructors, plugins, format, file>>

\* After a crash there is only another start.
StoreNext ==
  \/ Restart
  \/ /\ ~crashed
     /\ \/ \E p \in DOMAIN PluginTypes : p \notin Range(plugins) /\ LoadPlugin(p)
        \/ \E t \in Types, i \in {-1} \cup Range(Interface) : CreateObject(t, i)
        \/ \E o \in DOMAIN alive, s \in Settings : AssignParameters(o, s)
        \/ \E o \in DOMAIN alive : Release(o) \/ ReadOnto(o) \/ \E f \in {"binary", "xml"} : WriteObject(o, f)
        \/ \E ps \in {s \in SeqOf(DOMAIN alive, 2) : s # <<>>} : SavePointers(ps)
        \/ ReadNew \/ LoadPointers

StoreSpec == StoreInit /\ [][StoreNext]_storeVars

-----------------------------------------------------------------------------
(* Properties *)

StoreTypeOK ==
  /\ Range(constructors) \subseteq Types /\ IsInjective(constructors)
  /\ \A o \in DOMAIN alive : o[1] \in Types \ Plain /\ o[2] \in 0..MaxObjects /\ alive[o] \in Settings
  /\ format \in Formats /\ Len(pointers) <= Len(file)
  /\ ~crashed => Range(pointers) \subseteq DOMAIN alive

\* A pointer that was loaded points to an object of the type that was saved,
\* also in a process that loaded its plugins in another order
\* (MetaObjectFactory::Get, which is given a constructor's index and a name).
KeepsTypes == \A i \in DOMAIN pointers : pointers[i][1] = file[i].at[1]

\* Where the objects that were saved still live, loading gives each pointer its
\* object and each object its parameters, however many pointers it has.
RestoredInPlace ==
  LoadPointers /\ (\A i \in DOMAIN file : /\ file[i].at \in DOMAIN alive
                                           /\ file[i].ctor <= Len(constructors))
     => /\ pointers' = [i \in DOMAIN file |-> file[i].at]
        /\ \A i \in DOMAIN file : file[i].setting # {} => alive'[file[i].at] \in file[i].setting

\* RestoredInPlace, of every step.
RestoresInPlace == [][RestoredInPlace]_storeVars

\* A process that loads a file gets objects of the types it was written with.
StoreSound == StoreTypeOK /\ KeepsTypes

===============================================================================
