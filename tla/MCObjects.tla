------------------------------- MODULE MCObjects -------------------------------
(* One run for the parts of an object's life that do not share state: the     *)
(* pool of threads, what a thread finds under its identity, the links between *)
(* objects, their parameters, what the macros make of a class, and the        *)
(* factory with its files.  focus names the one a behaviour is about; the     *)
(* others stay in their initial states.                                       *)
EXTENDS ThreadPool, ThreadContexts, Wiring, ObjectParameters, Reflection, ObjectStore, TLC

CONSTANTS o1, o2

VARIABLE focus

\* A signal of one object and slots of others, in two signatures.
Signals == {<<"a", "n", "v">>, <<"a", "n", "r">>}
Slots == {<<"b", "n", "v">>, <<"b", "n", "r">>, <<"c", "n", "r">>}

\* Bound: a behaviour is about both signatures and one slot of each, or about
\* the one that returns a value and two slots.
Unused(slots, signals) ==
  /\ \A k \in slots : net'.keep[k] = <<>>
  /\ \A s \in signals : net'.out[s] = <<>>

\* Bound: slots that keep at most three relays between the two of them.
Kept == Len(net'.keep[<<"b", "n", "v">>]) + Len(net'.keep[<<"b", "n", "r">>]) <= 3

\* Bound: while the manager lists parameters, the consumer records one connection.
FewRecords == (\E t \in TreeNames : managed'[t] # Nothing) => Len(ob'.recs[o2]) <= 1

\* A producer with a declared and a run-time output, a consumer with an input.
Outputs == o1 :> {"out"} @@ o2 :> {"out"}
Inputs == o1 :> {} @@ o2 :> {"in"}
RunTime == o1 :> {"run"} @@ o2 :> {}

\* Three classes are enough for a base that is reached on two paths.
ClassNames == <<"a", "b", "c">>
HowMany == "a" :> 2 @@ "b" :> 1 @@ "c" :> 0

\* Two plugins that load and one that does not.
PluginFiles == "f1" :> <<"A">> @@ "f2" :> <<"B", "P">> @@ "f3" :> <<>>
Interfaces == "A" :> 1 @@ "B" :> 2 @@ "P" :> 2

ObjectsInit ==
  /\ focus \in {"pool", "registry", "defaults", "adapters", "wires", "answers", "parameters", "macros", "store"}
  /\ PoolInit /\ ContextsInit /\ WireInit /\ ObjInit /\ ReflInit /\ StoreInit

ObjectsNext ==
  /\ \/ /\ focus = "pool" /\ PoolNext
        /\ UNCHANGED <<contextVars, wireVars, objVars, reflVars, storeVars>>
     \/ /\ \/ focus = "registry" /\ RegistryNext
           \/ focus = "defaults" /\ DefaultsNext
           \/ focus = "adapters" /\ AdaptersNext
        /\ UNCHANGED <<poolVars, wireVars, objVars, reflVars, storeVars>>
     \/ /\ focus = "wires" /\ WireNext /\ Unused({<<"c", "n", "r">>}, {}) /\ Kept
        /\ UNCHANGED <<poolVars, contextVars, objVars, reflVars, storeVars>>
     \/ /\ focus = "answers" /\ WireNext
        /\ Unused({k \in Slots : IsVoid(k)}, {s \in Signals : IsVoid(s)})
        /\ UNCHANGED <<poolVars, contextVars, objVars, reflVars, storeVars>>
     \/ /\ focus = "parameters" /\ ObjNext /\ FewRecords
        /\ UNCHANGED <<poolVars, contextVars, wireVars, reflVars, storeVars>>
     \/ /\ focus = "macros" /\ ReflNext
        /\ UNCHANGED <<poolVars, contextVars, wireVars, objVars, storeVars>>
     \/ /\ focus = "store" /\ StoreNext
        /\ UNCHANGED <<poolVars, contextVars, wireVars, objVars, reflVars>>
  /\ UNCHANGED focus

allVars == <<focus, poolVars, contextVars, wireVars, objVars, reflVars, storeVars>>
ObjectsSpec == ObjectsInit /\ [][ObjectsNext]_allVars

Symmetry == Permutations(Contexts)
================================================================================
