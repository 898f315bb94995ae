------------------------------- MODULE Reflection -------------------------------
(***************************************************************************)
(* What the declaration macros make of a class                             *)
(* (MetaObjectMacrosImpl.hpp, ParameterMacrosImpl.hpp, SlotMacros.hpp,      *)
(* SignalMacros.hpp).                                                       *)
(*                                                                         *)
(* Each macro adds one overload per traversal, for its value of the         *)
(* counter; a traversal walks the counter down and visits the parents       *)
(* before or after.  Parents are virtual bases: one that is reached on two  *)
(* paths is one set of fields that is visited twice.  A class is a sequence *)
(* of member kinds ("state" stands for ENUM_PARAM, OUTPUT and STATUS); a    *)
(* field is <<class, position>> and, once assigned, its own value, so that  *)
(* a value in the wrong field shows.                                        *)
(***************************************************************************)
EXTENDS Integers, Sequences, FiniteSets, SequencesExt, Functions

CONSTANTS
  ClassOrder, (* the classes, in the order they are defined                       *)
  Kinds,      (* of members a class may declare                                   *)
  Members     (* bound: how many members each class has                           *)

VARIABLES
  class,   (* the classes defined so far: members and what its traversals visit   *)
  object,  (* the object of the last class: the value of each field, or none yet   *)
  added,   (* what its Init added, bound and initialised, in order                *)
  archive, (* what save wrote                                                     *)
  reloaded (* the object that load filled                                         *)

reflVars == <<class, object, added, archive, reloaded>>

ASSUME ReflAssumption ==
  ClassOrder \in Seq(ToSet(ClassOrder)) /\ ClassOrder # <<>> /\ IsInjective(ClassOrder)

ReflInit == class = <<>> /\ object = <<>> /\ added = <<>> /\ archive = <<>> /\ reloaded = <<>>

Defined == {ClassOrder[i] : i \in 1..Len(class)}
Index(c) == CHOOSE i \in DOMAIN ClassOrder : ClassOrder[i] = c
Own(c, members) == [j \in DOMAIN members |-> <<c, j>>]
Kind(f) == class[Index(f[1])].members[f[2]]
Newest == ClassOrder[Len(class)]

\* Values that no field has of its own.
Initial == <<"initial">>
Unset == <<"new">>

\* A traversal that visits the members the last one first and then the parents
\* (InitParameters, GetParameterInfo, SerializeParameters), one that visits the
\* parents first (BindSlots, InitSignals), and one that visits the members in
\* the order they are declared and then the parents (save, load, GetSlotInfo).
\* What they visit is fixed with the class: they call those of the parents.
OwnThenParents(c) == class[Index(c)].ownThenParents
ParentsThenOwn(c) == class[Index(c)].parentsThenOwn
DeclaredThenParents(c) == class[Index(c)].declaredThenParents

AsParents(parents, traversal) == FlattenSeq([i \in DOMAIN parents |-> class[Index(parents[i])][traversal]])
Class(c, parents, members) ==
  LET own == Own(c, members) IN
  [members |-> members,
   ownThenParents |-> Reverse(own) \o AsParents(parents, "ownThenParents"),
   parentsThenOwn |-> AsParents(parents, "parentsThenOwn") \o Reverse(own),
   declaredThenParents |-> own \o AsParents(parents, "declaredThenParents")]

\* The fields visited that are of one of these kinds.
Selected(s, keep) == FoldLeft(LAMBDA t, f : IF f \in keep THEN Append(t, f) ELSE t, <<>>, s)
Only(s, kinds) == Selected(s, {f \in ToSet(s) : Kind(f) \in kinds})
FieldsOf(c) == ToSet(OwnThenParents(c))

\* What the members' macros take part in.
Assigned == {"param", "state", "property"}
AddedKinds == {"param", "state", "persistent", "input"}
Serialized == {"param", "state", "property"}
Archived == {"param", "persistent"}

\* The static descriptions are sorted and name a base that several paths reach
\* once; INPUT and PERSISTENT describe nothing.
ParameterInfo(c) == ToSet(Only(OwnThenParents(c), {"param", "state"}))
SlotInfo(c) == ToSet(Only(DeclaredThenParents(c), {"slot"}))
SignalInfo(c) == ToSet(Only(DeclaredThenParents(c), {"signal"}))

\* Mutant: the initial values are set again.
InitAlways(values, c, firstInit) ==
  [f \in FieldsOf(c) |-> IF Kind(f) \in Assigned THEN Initial ELSE values[f]]

\* init_parameters_: only the first Init assigns the initial values; an input's
\* member is set by its source.
InitValues(values, c, firstInit) ==
  [f \in FieldsOf(c) |-> IF firstInit /\ Kind(f) \in Assigned THEN Initial ELSE values[f]]

\* InitParameters, InitSignals and BindSlots, in this order.
AddedParameters(c) == Only(OwnThenParents(c), AddedKinds)
AddedSignals(c) == Only(ParentsThenOwn(c), {"signal"})

\* Mutant: the slots of the parents are not bound.
BoundOwnSlots(c) == Only(Reverse(Own(c, class[Index(c)].members)), {"slot"})

BoundSlots(c) == Only(ParentsThenOwn(c), {"slot"})

\* What Init leads to.
AddedByInit(c) == AddedParameters(c) \o AddedSignals(c) \o BoundSlots(c)

\* SerializeParameters keeps by name what SERIALIZE was declared for; a new
\* object has nothing else.
SerializedOnto(values, c) ==
  LET kept == ToSet(Only(OwnThenParents(c), Serialized))
  IN [f \in FieldsOf(c) |-> IF f \in kept THEN values[f] ELSE Unset]

\* LOAD_SAVE: save and load go by position.
SaveOrder(c) == Only(DeclaredThenParents(c), Archived)

\* Mutant: load visits the parents first.
LoadParentsFirst(c) == Only(ParentsThenOwn(c), Archived)
LoadOrder(c) == Only(DeclaredThenParents(c), Archived)

\* What load leaves in a field: the last value read into it.
LoadedInto(values, c, ar) ==
  LET order == LoadOrder(c)
      reads(f) == {i \in DOMAIN order : order[i] = f}
  IN [f \in FieldsOf(c) |->
        IF reads(f) = {} THEN values[f] ELSE ar[CHOOSE i \in reads(f) : \A j \in reads(f) : j <= i]]

-----------------------------------------------------------------------------
(* Actions *)

\* MO_BEGIN or MO_DERIVE, the members and MO_END.
DefineClass ==
  /\ Len(class) < Len(ClassOrder)
  /\ \E parents \in SeqOf(Defined, 2),
        members \in SeqOf(Kinds, Members[ClassOrder[Len(class) + 1]]) :
       /\ IsInjective(parents)
       /\ class' = Append(class, Class(ClassOrder[Len(class) + 1], parents, members))
  /\ UNCHANGED <<object, added, archive, reloaded>>

Constructed == InitValues([f \in FieldsOf(Newest) |-> Unset], Newest, TRUE)

ConstructObject ==
  /\ Len(class) = Len(ClassOrder) /\ object = <<>>
  /\ FieldsOf(Newest) # {}
  /\ object' = Constructed
  /\ added' = AddedByInit(Newest)
  /\ UNCHANGED <<class, archive, reloaded>>

\* The user assigns every member.
AssignMembers ==
  /\ object # <<>>
  /\ object' = [f \in DOMAIN object |-> f]
  /\ UNCHANGED <<class, added, archive, reloaded>>

Save ==
  /\ object # <<>>
  /\ LET order == SaveOrder(Newest) IN archive' = [i \in DOMAIN order |-> object[order[i]]]
  /\ reloaded' = <<>>
  /\ UNCHANGED <<class, object, added>>

Load ==
  /\ archive # <<>>
  /\ reloaded' = LoadedInto(Constructed, Newest, archive)
  /\ UNCHANGED <<class, object, added, archive>>

\* A recompile: what was serialized, and Init(false).
Recompile ==
  /\ object # <<>>
  /\ object' = InitValues(SerializedOnto(object, Newest), Newest, FALSE)
  /\ added' = AddedByInit(Newest)
  /\ UNCHANGED <<class, archive, reloaded>>

ReflNext == DefineClass \/ ConstructObject \/ AssignMembers \/ Save \/ Load \/ Recompile

ReflSpec == ReflInit /\ [][ReflNext]_reflVars

-----------------------------------------------------------------------------
(* Properties *)

ReflTypeOK ==
  /\ Len(class) <= Len(ClassOrder)
  /\ \A i \in DOMAIN class :
       /\ class[i].members \in Seq(Kinds)
       /\ \A f \in FieldsOf(ClassOrder[i]) :
            \E j \in 1..i : f[1] = ClassOrder[j] /\ f[2] \in DOMAIN class[j].members
  /\ object # <<>> => DOMAIN object = FieldsOf(Newest)
  /\ ToSet(added) \subseteq DOMAIN object

\* Whatever the hierarchy, also when a base is reached on several paths, an
\* archive fills a new object with the values that were saved: load reads the
\* members in the order save wrote them (LOAD_SAVE_, _load_parent, _save_parent).
LoadsWhatWasSaved ==
  LET order == SaveOrder(Newest) IN
  reloaded # <<>> => \A i \in DOMAIN archive : reloaded[order[i]] = archive[i]

\* The static description of a class names what its objects bind and add, that
\* of its bases included (GetParameterInfoStatic, GetSlotInfoStatic,
\* GetSignalInfoStatic); of the inputs and persistent members it says nothing.
DescribesObjects ==
  object # <<>> =>
    ParameterInfo(Newest) \cup SlotInfo(Newest) \cup SignalInfo(Newest)
      = {f \in ToSet(added) : Kind(f) \notin {"input", "persistent"}}

\* A recompile loses no value a user assigned to a PARAM, ENUM_PARAM, OUTPUT,
\* STATUS or PROPERTY of the class or a base (SERIALIZE_ and INIT_SET_); what a
\* PERSISTENT member holds it does lose.
ValuesKept ==
  Recompile => \A f \in DOMAIN object :
      Kind(f) \in {"param", "state", "property"} => object'[f] = object[f]

\* ValuesKept, of every step.
RecompileKeepsValues == [][ValuesKept]_reflVars

\* What the macros say of a class and what they do with its objects agree.
ReflectionSound == ReflTypeOK /\ LoadsWhatWasSaved /\ DescribesObjects

===============================================================================
