-------------------------------- MODULE Buffers --------------------------------
(***************************************************************************)
(* The buffers between an output and an input on another thread            *)
(* (include/MetaObject/Parameters/Buffers/detail of src): a Map from time  *)
(* stamps to values, a StreamBuffer that prunes what the reader has        *)
(* passed, a BlockingStreamBuffer that also makes the producer wait, and a *)
(* CircularBuffer.  IMetaObject::ConnectInput puts one wherever data       *)
(* crosses threads.                                                        *)
(*                                                                         *)
(* The producer updates the output; the buffer's onInputUpdate stores the  *)
(* value under the buffer's mutex, still holds it in the emission that     *)
(* commits the input, and that needs the mutex of the input.  The consumer *)
(* asks the input: GetData and GetDataPtr go straight to the buffer, while *)
(* GetInput holds the input's mutex meanwhile.                             *)
(*                                                                         *)
(* An entry is its stamp: value and stamp are stored together.  A Map is   *)
(* kept as a sequence in the order of its keys.  Which kind of buffer      *)
(* there is, and whether the two threads are orderly (the stamps 0, 1, 2,  *)
(* ... are written, and asked for until they come, as in the tests of the  *)
(* buffers), is chosen in the beginning.                                   *)
(***************************************************************************)
EXTENDS Integers, Sequences, SequencesExt

CONSTANTS
  Kinds,      (* the kinds of buffer to choose from                           *)
  InputKinds, (* the kinds whose consumer uses GetInput                       *)
  Capacity,   (* of a CircularBuffer (10)                                     *)
  Padding,    (* StreamBuffer::_padding (5)                                   *)
  Size,       (* BlockingStreamBuffer::_size (100)                            *)
  MaxStamp,   (* bound: the largest stamp of threads that are not orderly     *)
  MaxUpdates, (* bound: updates of the output                                 *)
  MaxResize,  (* bound: calls of SetSize                                      *)
  None

MapKinds == {"map", "stream", "blocking"}
StreamKinds == {"stream", "blocking"}

ASSUME BuffersAssumption ==
  /\ Kinds \subseteq MapKinds \cup {"circular"} /\ InputKinds \subseteq Kinds
  /\ Capacity \in Nat \ {0} /\ Padding \in Nat
  /\ Size \in Nat /\ Size >= Padding + 2
  /\ MaxStamp \in Nat /\ MaxUpdates \in Nat /\ MaxResize \in Nat
  /\ None \notin Int

VARIABLES
  kind, orderly,
  buf,      (* _data_buffer                                                   *)
  limit,    (* capacity of a circular buffer, _size of a blocking one         *)
  padding,  (* _padding                                                       *)
  current,  (* _current_timestamp                                             *)
  bufMtx, inMtx, (* owner of the mutexes of the buffer and of the input       *)
  pc,       (* the producer: "idle", "push", "wait" (on _cv), "emit", "return"*)
  new,      (* the entry it stores                                            *)
  clock,    (* the updates so far                                             *)
  rpc,      (* the consumer: "idle", "data", "ptr", "prune", "return"         *)
  want,     (* the stamp it asks for                                          *)
  next,     (* the stamp an orderly consumer is waiting for                   *)
  held,     (* the stamp of the entry GetDataPtr has returned a pointer to    *)
  resized   (* calls of SetSize so far                                        *)

shape == <<kind, orderly>>
sizes == <<limit, padding, resized>>
producer == <<pc, new, clock>>
consumer == <<rpc, want, next, held>>
vars == <<shape, buf, sizes, current, bufMtx, inMtx, producer,
          consumer>>

Init ==
  /\ kind \in Kinds /\ orderly \in BOOLEAN
  /\ buf = IF kind = "circular" THEN <<-1>> ELSE <<>>
  /\ limit = IF kind = "circular" THEN Capacity ELSE Size
  /\ padding = Padding /\ resized = 0
  /\ current = -1
  /\ bufMtx = None /\ inMtx = None
  /\ pc = "idle" /\ new = -1 /\ clock = 0
  /\ rpc = "idle" /\ want = -1 /\ next = 0 /\ held = None

----------------------------------------------------------------------------
(* The producer                                                            *)

(* UpdateData of the output calls onInputUpdate of the buffer.             *)
UpdateOutput ==
  /\ pc = "idle" /\ clock < MaxUpdates
  /\ clock' = clock + 1
  /\ \E s \in IF orderly THEN {clock} ELSE 0..MaxStamp :
       new' = s
  /\ pc' = "push"
  /\ UNCHANGED <<shape, buf, sizes, current, bufMtx, inMtx,
                 consumer>>

(* push_back of boost::circular_buffer overwrites the oldest.              *)
PushBack(b, e) == IF Len(b) < limit THEN Append(b, e) ELSE Append(Tail(b), e)

(* Mutants: a vector for the map, and a map that evicts the oldest.        *)
StoreLast(b, e) == Append(b, e)
StoreEvict(b, e) == IF Len(b) < limit THEN Append(b, e) ELSE Append(Tail(b), e)

(* The entries of b whose stamps are in S, in their order: a walk over b,  *)
(* up to its element k.                                                    *)
Those(b, S) ==
  LET those[k \in 0..Len(b)] ==
        IF k = 0 THEN <<>>
        ELSE IF b[k] \in S THEN Append(those[k - 1], b[k]) ELSE those[k - 1]
  IN those[Len(b)]

Below(e) == {x \in Int : x < e}
Above(e) == {x \in Int : x > e}

(* operator[] of std::map.                                                 *)
Store(b, e) == Append(Those(b, Below(e)), e) \o Those(b, Above(e))

Full == kind = "blocking" /\ Len(buf) >= limit

(* UpdateData of the buffer.  A blocking buffer that is full gives up its  *)
(* mutex and waits.                                                        *)
PushWait ==
  /\ pc = "push" /\ bufMtx = None /\ Full
  /\ pc' = "wait"
  /\ UNCHANGED <<shape, buf, sizes, current, bufMtx, inMtx,
                 new, clock, consumer>>

Push ==
  /\ pc = "push" /\ bufMtx = None /\ ~Full
  /\ buf' = IF kind = "circular" THEN PushBack(buf, new) ELSE Store(buf, new)
  /\ bufMtx' = "producer" /\ pc' = "emit"
  /\ UNCHANGED <<shape, sizes, current, inMtx, new, clock, consumer>>

(* _cv.wait returns without a reason.                                      *)
SpuriousWake ==
  /\ pc = "wait" /\ pc' = "push"
  /\ UNCHANGED <<shape, buf, sizes, current, bufMtx, inMtx,
                 new, clock, consumer>>

(* OnUpdate: onInputUpdate of the input commits it, under the mutex of the *)
(* input.                                                                  *)
CommitInput ==
  /\ pc = "emit" /\ inMtx = None
  /\ pc' = "return"
  /\ UNCHANGED <<shape, buf, sizes, current, bufMtx, inMtx, new, clock,
                 consumer>>

(* Mutant: the mutex is not released.                                      *)
UpdateKeeps ==
  /\ pc = "return"
  /\ pc' = "idle"
  /\ UNCHANGED <<shape, buf, sizes, current, bufMtx, inMtx, new,
                 clock, consumer>>

UpdateReturn ==
  /\ pc = "return"
  /\ bufMtx' = None /\ pc' = "idle"
  /\ UNCHANGED <<shape, buf, sizes, current, inMtx, new, clock,
                 consumer>>

----------------------------------------------------------------------------
(* The consumer                                                            *)

Request(op) ==
  /\ rpc = "idle"
  /\ \E s \in IF orderly THEN {next} ELSE -1..MaxStamp : want' = s
  /\ rpc' = op /\ held' = None
  /\ UNCHANGED <<shape, buf, sizes, current, bufMtx, producer,
                 next>>

GetData == Request("data") /\ UNCHANGED inMtx
GetDataPtr == Request("ptr") /\ UNCHANGED inMtx

(* TypedInputParameterPtr::GetInput takes the input's mutex.               *)
GetInput == kind \in InputKinds /\ inMtx = None /\ Request("ptr") /\ inMtx' = "consumer"

(* Stamp -1 asks for the newest: the last of a circular buffer, the        *)
(* largest stamp of a map.                                                 *)
Found == IF want = -1 THEN buf # <<>> ELSE Contains(buf, want)

Answer(points) ==
  /\ next' = IF Found /\ orderly THEN next + 1 ELSE next
  /\ held' = IF Found /\ points
               THEN IF want = -1 THEN Last(buf) ELSE want
               ELSE None

(* GetData of the buffer: StreamBuffer remembers the stamp.                *)
Copy ==
  /\ rpc = "data" /\ bufMtx = None
  /\ Answer(FALSE)
  /\ LET prunes == kind \in StreamKinds /\ Found IN
       /\ current' = IF prunes THEN want ELSE current
       /\ rpc' = IF prunes THEN "prune" ELSE "return"
  /\ UNCHANGED <<shape, buf, sizes, bufMtx, inMtx, producer, want>>

(* GetDataPtr of the buffer; a circular buffer takes no mutex.             *)
Point ==
  /\ rpc = "ptr" /\ (kind = "circular" \/ bufMtx = None)
  /\ Answer(TRUE)
  /\ LET prunes == kind \in StreamKinds /\ Found /\ want # -1 IN
       /\ current' = IF prunes THEN want ELSE current
       /\ rpc' = IF prunes THEN "prune" ELSE "return"
  /\ UNCHANGED <<shape, buf, sizes, bufMtx, inMtx, producer, want>>

(* Mutants: one stamp too many is erased; the padding is forgotten.        *)
PrunedOff ==
  IF current = -1 THEN buf ELSE Those(buf, Above(current - padding))
PrunedAll ==
  IF current = -1 THEN buf ELSE Those(buf, Above(current))

(* What the reader has passed by more than the padding is erased.  The     *)
(* blocking buffer then notifies its producer.                             *)
Pruned ==
  IF current = -1 THEN buf ELSE Those(buf, Int \ Below(current - padding))

(* Mutant: nobody is notified.                                             *)
PruneSilent ==
  /\ rpc = "prune" /\ bufMtx = None
  /\ buf' = Pruned
  /\ rpc' = "return"
  /\ UNCHANGED <<shape, sizes, current, bufMtx, inMtx, producer,
                 want, next, held>>

Prune ==
  /\ rpc = "prune" /\ bufMtx = None
  /\ buf' = Pruned
  /\ pc' = IF kind = "blocking" /\ pc = "wait" THEN "push" ELSE pc
  /\ rpc' = "return"
  /\ UNCHANGED <<shape, sizes, current, bufMtx, inMtx, new,
                 clock, want, next, held>>

ReadReturn ==
  /\ rpc = "return"
  /\ rpc' = "idle" /\ inMtx' = None
  /\ UNCHANGED <<shape, buf, sizes, current, bufMtx, producer,
                 want, next, held>>

(* SetSize: the capacity of a circular buffer, which loses its newest      *)
(* entries (boost::circular_buffer::set_capacity), the padding of a stream *)
(* buffer, the size of a blocking one; nothing for a map.  The last two    *)
(* take no mutex.                                                          *)
SetSize(n) ==
  /\ rpc = "idle" /\ ~orderly
  /\ resized < MaxResize /\ resized' = resized + 1
  /\ \/ /\ kind = "circular" /\ bufMtx = None
        /\ limit' = n
        /\ buf' = IF n < Len(buf) THEN SubSeq(buf, 1, n) ELSE buf
        /\ held' = None
        /\ UNCHANGED padding
     \/ kind = "stream" /\ padding' = n /\ UNCHANGED <<limit, buf, held>>
     \/ kind = "blocking" /\ limit' = n /\ UNCHANGED <<padding, buf, held>>
  /\ UNCHANGED <<shape, current, bufMtx, inMtx, producer, rpc,
                 want, next>>

----------------------------------------------------------------------------
ProducerStep == PushWait \/ Push \/ CommitInput \/ UpdateReturn

ConsumerStep == Copy \/ Point \/ Prune \/ ReadReturn

Next ==
  \/ UpdateOutput \/ ProducerStep \/ SpuriousWake
  \/ GetData \/ GetDataPtr \/ GetInput \/ ConsumerStep
  \/ \E n \in 1..Capacity : SetSize(n)

Spec == Init /\ [][Next]_vars

(* Calls that have begun go on when they can, and an orderly consumer      *)
(* comes back as long as what it asks for will be written.                 *)
FairSpec ==
  /\ Spec
  /\ SF_vars(ProducerStep) /\ SF_vars(ConsumerStep)
  /\ WF_vars(orderly /\ next < MaxUpdates /\ (GetData \/ GetDataPtr))

----------------------------------------------------------------------------
(* Properties                                                              *)

(* Types; the keys of a map are ordered, and the mutex of the buffer is    *)
(* held by the producer in its emission only.                              *)
TypeOK ==
  /\ kind \in Kinds /\ orderly \in BOOLEAN
  /\ buf \in Seq(Int) /\ new \in Int
  /\ kind \in MapKinds => \A k, l \in DOMAIN buf : k < l => buf[k] < buf[l]
  /\ limit \in Nat /\ padding \in Nat /\ current \in Int
  /\ bufMtx = (IF pc \in {"emit", "return"} THEN "producer" ELSE None)
  /\ inMtx \in {None, "consumer"} /\ (inMtx # None => rpc # "idle")
  /\ pc \in {"idle", "push", "wait", "emit", "return"}
  /\ rpc \in {"idle", "data", "ptr", "prune", "return"}
  /\ next \in Nat /\ clock \in 0..MaxUpdates

(* Nothing leaves a buffer that its reader may still ask for: a map keeps  *)
(* everything, a stream what is at most the padding behind the stamp read  *)
(* last, a circular buffer loses the oldest and only when it is full.      *)
Retains ==
  [][\A k \in DOMAIN buf :
       LET e == buf[k] IN
       ~Contains(buf', e) /\ resized' = resized =>
         \/ kind \in StreamKinds /\ current # -1 /\ e < current - padding
         \/ kind = "circular" /\ k = 1 /\ Len(buf) = limit
    ]_vars

(* The pointer that GetDataPtr has returned is to an entry of the map for  *)
(* as long as the reader asks for nothing else, although its own pruning   *)
(* follows and the producer goes on.                                       *)
PointerValid ==
  kind \in MapKinds /\ held # None => Contains(buf, held)

(* Maps are ordered, the mutex is held in emissions only (TypeOK), and no   *)
(* reader has a pointer to an entry that was erased (PointerValid).        *)
BuffersSound == TypeOK /\ PointerValid

(* An orderly consumer gets every stamp, as the test threaded_stream_buffer*)
(* expects: a stream is pruned only behind it, a blocking buffer is large  *)
(* enough for more than the padding.                                       *)
EachArrives ==
  orderly /\ kind \in MapKinds =>
    \A n \in 1..MaxUpdates : (clock = n) ~> (next >= n)

(* An update returns: to an orderly consumer even when it must wait for    *)
(* room, and always when the buffer does not block.                        *)
UpdateReturns ==
  orderly \/ kind # "blocking" => (pc # "idle" ~> pc = "idle")

(* Reading never waits for ever.                                           *)
ReadReturns == rpc # "idle" ~> rpc = "idle"

(* UpdateReturns and ReadReturns: neither side waits for ever.             *)
BothReturn == UpdateReturns /\ ReadReturns

(* GetInput "loads the value at the requested timestamp into the input     *)
(* parameter such that it can be read" (InputParameter.hpp): it returns.   *)
GetInputReturns == inMtx = "consumer" ~> inMtx = None
=============================================================================
