--------------------------------- MODULE Wiring ---------------------------------
(***************************************************************************)
(* How objects connect their signals to slots and keep them connected      *)
(* (src/IMetaObject.cpp, RelayManager.cpp, the wiring half of the typed     *)
(* signals, slots and relays).                                              *)
(*                                                                         *)
(* A direct connection makes a relay of its own; a relay manager keeps one *)
(* relay per signature and name, which everybody who joins shares.  An     *)
(* object records its connections so that they can be rebuilt when a       *)
(* recompile replaces it: only those made with a receiver can be.          *)
(* Calls are modelled in Signals; here they are only counted.              *)
(***************************************************************************)
EXTENDS Integers, Sequences, FiniteSets, Functions, SequencesExt

CONSTANTS
  SignalSet, (* the signals <<object, name, signature>> the objects declare      *)
  SlotSet,   (* their slots, likewise                                            *)
  VoidSigs,  (* the signatures that return nothing                               *)
  MaxRelays, (* bound: relays made for a connection                              *)
  MaxRecords (* bound: connections an object records                             *)

ASSUME WireAssumption ==
  /\ IsFiniteSet(SignalSet) /\ IsFiniteSet(SlotSet)
  /\ \A e \in SignalSet \cup SlotSet : e = <<e[1], e[2], e[3]>>

Objects == {e[1] : e \in SignalSet \cup SlotSet}
Key(e) == <<e[2], e[3]>>
Keys == {Key(e) : e \in SignalSet \cup SlotSet}
IsVoid(e) == e[3] \in VoidSigs

VARIABLES
  net,     (* hold: the slots of each relay; keep: a slot's _relays; out: a
              signal's _typed_relays; made: how many relays connections made    *)
  present, (* the objects that exist                                            *)
  records, (* _connections: <<signal, slot>> of those made with a receiver      *)
  up,      (* history: direct links <<relay, signal, slot, recorded>> in force  *)
  joined   (* history: who is in the manager's relay                            *)

wireVars == <<net, present, records, up, joined>>

WireInit ==
  /\ net = [hold |-> [y \in Keys |-> {}], keep |-> [k \in SlotSet |-> <<>>],
            out |-> [s \in SignalSet |-> <<>>], made |-> 0]
  /\ present = Objects /\ records = [o \in Objects |-> <<>>]
  /\ up = {} /\ joined = [signals |-> {}, slots |-> {}]

-----------------------------------------------------------------------------
(* Relays, slots and signals *)

\* GetSignal(s) and GetSlot(s) of an object, by name and signature; an object
\* has at most one of each.
SignalsNamed(o, n) == {s \in SignalSet : s[1] = o /\ s[2] = n}
SlotsNamed(o, n) == {k \in SlotSet : k[1] = o /\ k[2] = n}
SignalFor(o, n, g) == {s \in SignalsNamed(o, n) : s[3] = g}
SlotFor(o, n, g) == {k \in SlotsNamed(o, n) : k[3] = g}

\* The relay of a connection is known by its number.  That of the manager for a
\* signature and name (GetRelay) is known by these: one that nobody has asked
\* for yet is no different from one without slots.
OwnRelay(n) == <<n>>
ManagerRelay(e) == Key(e)
Relays(made) == Keys \cup {OwnRelay(i) : i \in 1..made}

\* TypedSignalRelay::Connect: a relay that returns a value has one slot, the
\* last that came.
AddSlot(slots, k) == slots \cup {k}
SetSlot(slots, k) == {k}
RelayConnect(slots, k) == IF IsVoid(k) THEN AddSlot(slots, k) ELSE SetSlot(slots, k)

\* TypedSignalRelay::Disconnect(slot): another slot stays.
EraseSlot(slots, k) == slots \ {k}
UnsetSlot(slots, k) == IF slots = {k} THEN {} ELSE slots
RelayDisconnect(slots, k) == IF IsVoid(k) THEN EraseSlot(slots, k) ELSE UnsetSlot(slots, k)

\* TypedSignal::Connect(relay): a signal that returns a value has one relay.
AddRelay(relays, r) == Append(relays, r)

\* Mutant: the first relay stays.
KeepRelay(relays, r) == IF relays # <<>> THEN relays ELSE <<r>>

SetRelay(relays, r) == <<r>>

\* Mutant: a signal takes a relay it has.
AttachAgain(relays, s, r) == IF IsVoid(s) THEN AddRelay(relays, r) ELSE SetRelay(relays, r)

Attach(relays, s, r) ==
  IF Contains(relays, r) THEN relays
  ELSE IF IsVoid(s) THEN AddRelay(relays, r) ELSE SetRelay(relays, r)

\* Mutant: the slot does not keep the relay.
JoinUnkept(relays, r) == relays

\* TypedSlot::Connect(relay): the slot keeps it, as often as it is connected.
Join(relays, r) == Append(relays, r)

\* TypedSlot::Connect(signal): a relay for this pair.
Link(w, s, k) ==
  LET r == OwnRelay(w.made + 1) IN
  [hold |-> [x \in DOMAIN w.hold \cup {r} |-> IF x = r THEN RelayConnect({}, k) ELSE w.hold[x]],
   keep |-> [w.keep EXCEPT ![k] = Join(@, r)],
   out |-> [w.out EXCEPT ![s] = Attach(@, s, r)],
   made |-> w.made + 1]

\* TypedSlot::Disconnect(relay): its first occurrence goes.
Leave(w, k, r) ==
  [w EXCEPT !.keep[k] = RemoveFirst(@, r), !.hold[r] = RelayDisconnect(@, k)]

\* TypedSignal::Disconnect(relay), (slot): its first relay that has the slot;
\* Disconnect(): all of them.
RemoveRelay(relays, r) == RemoveFirst(relays, r)
ResetRelay(relays, r) == IF relays = <<r>> THEN <<>> ELSE relays
Detach(relays, s, r) == IF IsVoid(s) THEN RemoveRelay(relays, r) ELSE ResetRelay(relays, r)
LetGo(w, signals) ==
  [w EXCEPT !.out = [s \in SignalSet |-> IF s \in signals THEN <<>> ELSE @[s]]]
RelaysTo(w, s, k) == {i \in DOMAIN w.out[s] : k \in w.hold[w.out[s][i]]}
FirstTo(w, s, k) ==
  w.out[s][CHOOSE i \in RelaysTo(w, s, k) : \A j \in RelaysTo(w, s, k) : i <= j]

\* How often an emission of s calls k.
Reached(s, k) == Cardinality(RelaysTo(net, s, k))

\* Who answers an emission of a signal that returns a value: the slot of its
\* relay, on the thread that emits; without one the emission throws.
RelayAnswers(r) == net.hold[r]
Answers(s) == IF net.out[s] = <<>> THEN {} ELSE RelayAnswers(net.out[s][1])

-----------------------------------------------------------------------------
(* Connections *)

Alive(e) == e[1] \in present
Matching(s, k) == k \in SlotFor(k[1], k[2], s[3])

\* A connection and the link it is; a signal that returns a value loses its
\* last one.
Linked(e, s, k, recorded) ==
  [net |-> Link(e.net, s, k),
   up |-> {l \in e.up : IsVoid(s) \/ l[2] # s} \cup {<<OwnRelay(e.net.made + 1), s, k, recorded>>}]
Links == [net |-> net, up |-> up]
Become(e) == net' = e.net /\ up' = e.up

AddConnection(rs, s, k) == [rs EXCEPT ![s[1]] = Append(@, <<s, k>>)]

\* IMetaObject::Connect and ConnectByName with a receiver: each signal of the
\* name meets the slot of its signature, and the sender records the two.
ConnectPair(s, k) ==
  /\ Alive(s) /\ Alive(k) /\ Matching(s, k)
  /\ net.made < MaxRelays /\ Len(records[s[1]]) < MaxRecords
  /\ Become(Linked(Links, s, k, TRUE))
  /\ records' = AddConnection(records, s, k)
  /\ UNCHANGED <<present, joined>>

\* ConnectByName with a bare slot or signal, and Connect of the slot itself:
\* the record names no receiver and is never rebuilt.
ConnectBare(s, k) ==
  /\ Alive(s) /\ Alive(k) /\ s \in SignalFor(s[1], s[2], k[3]) /\ net.made < MaxRelays
  /\ Become(Linked(Links, s, k, FALSE))
  /\ UNCHANGED <<present, records, joined>>

\* RelayManager::ConnectSlot(s), ConnectSignal(s): by name, by signature or all
\* of an object, which has at most one for each relay; SetupSignals: both.
JoinSlot(relays, k) == Join(relays, ManagerRelay(k))
JoinSignal(relays, s) == Attach(relays, s, ManagerRelay(s))
ManagerJoined(w, slots, signals) ==
  [w EXCEPT
    !.hold = [r \in DOMAIN @ |-> IF \E k \in slots : ManagerRelay(k) = r
                                THEN RelayConnect(@[r], CHOOSE k \in slots : ManagerRelay(k) = r)
                                ELSE @[r]],
    !.keep = [k \in SlotSet |-> IF k \in slots THEN JoinSlot(@[k], k) ELSE @[k]],
    !.out = [s \in SignalSet |-> IF s \in signals THEN JoinSignal(@[s], s) ELSE @[s]]]
ManagerJoins(slots, signals) ==
  /\ \A k \in slots : Len(net.keep[k]) <= MaxRelays
  /\ net' = ManagerJoined(net, slots, signals)
  /\ joined' = [signals |-> joined.signals \cup signals, slots |-> joined.slots \cup slots]
  /\ up' = {l \in up : IsVoid(l[2]) \/ l[2] \notin signals}
  /\ UNCHANGED <<present, records>>

SlotsOf(o) == {k \in SlotSet : k[1] = o}
SignalsOf(o) == {s \in SignalSet : s[1] = o}

ConnectSlotToManager(k) == Alive(k) /\ ManagerJoins({k}, {})
ConnectSignalToManager(s) == Alive(s) /\ ManagerJoins({}, {s})
SetupSignals(o) == o \in present /\ ManagerJoins(SlotsOf(o), SignalsOf(o))

\* SlotConnection::Disconnect
CutSlot(k, r) ==
  /\ Alive(k) /\ Contains(net.keep[k], r)
  /\ net' = Leave(net, k, r)
  /\ up' = {l \in up : l[1] # r \/ l[3] # k}
  /\ joined' = [joined EXCEPT !.slots = IF r = ManagerRelay(k) THEN @ \ {k} ELSE @]
  /\ UNCHANGED <<present, records>>

\* SignalConnection::Disconnect, and TypedSignal::Disconnect(slot), which takes
\* the relay of the slot away from the signal with everybody in it.
CutSignal(s, r) ==
  /\ Alive(s) /\ Contains(net.out[s], r)
  /\ net' = [net EXCEPT !.out[s] = Detach(@, s, r)]
  /\ up' = {l \in up : l[1] # r}
  /\ joined' = [joined EXCEPT !.signals = IF r = ManagerRelay(s) THEN @ \ {s} ELSE @]
  /\ UNCHANGED <<present, records>>

CutSignalFrom(s, k) == RelaysTo(net, s, k) # {} /\ CutSignal(s, FirstTo(net, s, k))

\* DisconnectByName: the signals of that name let go of all their relays.  The
\* records stay.  (Disconnect(ISignal*) and Disconnect(IMetaObject*) do nothing.)
DisconnectByName(o, n) ==
  LET signals == SignalsNamed(o, n) IN
  /\ o \in present
  /\ net' = LetGo(net, signals)
  /\ up' = {l \in up : l[2] \notin signals}
  /\ joined' = [joined EXCEPT !.signals = @ \ signals]
  /\ UNCHANGED <<present, records>>

-----------------------------------------------------------------------------
(* Objects come and go *)

\* ~TypedSlot: every relay that the slots keep disconnects them; a signal's
\* relays go with it.
Without(w, objs) ==
  LetGo([w EXCEPT
           !.hold = [r \in DOMAIN @ |-> {k \in @[r] : k[1] \notin objs \/ ~Contains(w.keep[k], r)}],
           !.keep = [k \in SlotSet |-> IF k[1] \in objs THEN <<>> ELSE @[k]]],
        {s \in SignalSet : s[1] \in objs})

Untouched(objs) == {l \in up : l[2][1] \notin objs /\ l[3][1] \notin objs}
StillJoined(objs) == [signals |-> {s \in joined.signals : s[1] \notin objs},
                      slots |-> {k \in joined.slots : k[1] \notin objs}]

Unlink(o) ==
  /\ o \in present
  /\ present' = present \ {o}
  /\ net' = Without(net, {o})
  /\ records' = [records EXCEPT ![o] = <<>>]
  /\ up' = Untouched({o}) /\ joined' = StillJoined({o})

\* One record of Init(false): what has a receiver that exists is connected again.
\* A receiver that was replaced too and is not initialised yet is told to bind its
\* slots, so the slot is found in whatever order they are initialised.
Relink(e, p) == IF Alive(p[2]) THEN Linked(e, p[1], p[2], TRUE) ELSE e

\* Mutant: the records are cleared before they are walked.
RelinkedNone(e, o) == e

\* Init(false) of one replaced object.
Relinked(e, o) == FoldLeft(Relink, e, records[o])

\* A recompile replaces the objects whose code changed, and each is given its
\* records.  Each connects its own signals, so the order is of no consequence.
Rewire(objs) ==
  LET gone == [net |-> Without(net, objs), up |-> Untouched(objs)]
      again == FoldLeft(Relinked, gone, SetToSeq(objs))
  IN /\ objs # {} /\ objs \subseteq present
     /\ UNCHANGED <<present, records>>
     /\ joined' = StillJoined(objs)
     /\ again.net.made <= MaxRelays
     /\ Become(again)

WireNext ==
  \/ \E s \in SignalSet, k \in SlotSet :
        ConnectPair(s, k) \/ ConnectBare(s, k) \/ CutSignalFrom(s, k)
  \/ \E k \in SlotSet : ConnectSlotToManager(k) \/ \E r \in DOMAIN net.hold : CutSlot(k, r)
  \/ \E s \in SignalSet : ConnectSignalToManager(s) \/ \E r \in DOMAIN net.hold : CutSignal(s, r)
  \/ \E o \in Objects :
        SetupSignals(o) \/ Unlink(o) \/ \E n \in {y[1] : y \in Keys} : DisconnectByName(o, n)
  \/ \E objs \in SUBSET Objects : Rewire(objs)

WireSpec == WireInit /\ [][WireNext]_wireVars

-----------------------------------------------------------------------------
(* Properties *)

WireTypeOK ==
  /\ net.made \in Nat
  /\ net.hold \in [Relays(net.made) -> SUBSET SlotSet]
  /\ net.keep \in [SlotSet -> Seq(Relays(net.made))]
  /\ net.out \in [SignalSet -> Seq(Relays(net.made))]
  /\ records \in [Objects -> Seq(SignalSet \X SlotSet)]
  /\ \A l \in up : l \in Relays(net.made) \X SignalSet \X SlotSet \X BOOLEAN

\* A relay has only slots that keep it, so that their destructor takes them
\* off: whatever was connected, cut, destroyed or replaced, no relay of a
\* signal or of the manager is left with the pointer to a slot that is gone.
RelaysForgetSlots ==
  \A r \in DOMAIN net.hold : \A k \in net.hold[r] :
    Alive(k) /\ Contains(net.keep[k], r)

\* An emission calls a slot once for each direct connection in force and once
\* more when both joined the manager's relay, however often they joined.
ReachesOncePerLink ==
  \A s \in SignalSet, k \in SlotSet : IsVoid(s) /\ Matching(s, k) =>
    Reached(s, k) = Cardinality({l \in up : l[2] = s /\ l[3] = k})
                  + (IF s \in joined.signals /\ k \in joined.slots /\ Key(s) = Key(k)
                     THEN 1 ELSE 0)

\* A recompile keeps what was recorded: an emission of a replaced object calls
\* each slot as often as its recorded connections did, whether the receiver was
\* replaced too or not, and links between other objects are as they were.
LinksKept ==
  \A objs \in SUBSET present : Rewire(objs) =>
     \A s \in SignalSet, k \in SlotSet : IsVoid(s) =>
       /\ s[1] \in objs =>
            Reached(s, k)' >= Cardinality({l \in up : l[2] = s /\ l[3] = k /\ l[4]})
       /\ {s[1], k[1]} \cap objs = {} => Reached(s, k)' = Reached(s, k)

\* LinksKept, of every step that changes something.
RecompileKeepsLinks == [][wireVars' # wireVars => LinksKept]_wireVars

\* A signal that returns a value is answered by the slot it was linked to last,
\* and by nobody once that is cut or gone: no earlier link comes back.
LastAnswers ==
  \A s \in SignalSet : ~IsVoid(s) =>
    LET mine == {l \in up : l[2] = s} IN
    /\ s \notin joined.signals => Answers(s) = {l[3] : l \in mine}
    /\ mine # {} => Answers(s) = {l[3] : l \in mine}

\* Relays and slots know each other (RelaysForgetSlots) and an emission reaches
\* a slot as often as it is connected (ReachesOncePerLink, LastAnswers).
LinksSound == WireTypeOK /\ RelaysForgetSlots /\ ReachesOncePerLink /\ LastAnswers

===============================================================================
