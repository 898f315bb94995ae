----------------------------- MODULE ThreadContexts -----------------------------
(***************************************************************************)
(* What a thread finds under its own identity: the registry of threads by  *)
(* type (src/thread_registry.cpp), its default context (src/Context.cpp)    *)
(* and the allocator that the thread adapters use (src/Allocator.cpp).      *)
(*                                                                         *)
(* The registry knows threads by the number that std::this_thread::get_id   *)
(* prints, and forgets none.  A matrix on the host remembers the allocator  *)
(* that made it; one on the device remembers the adapter, which asks for    *)
(* the allocator of the thread that frees.  Inside an allocator, see        *)
(* HostAllocators and DeviceAllocators.                                     *)
(***************************************************************************)
EXTENDS Integers, Sequences, SequencesExt, FiniteSets

CONSTANTS
  Workers,       (* threads                                                    *)
  ThreadTypes,   (* ThreadRegistry::ThreadType                                 *)
  Matrices,      (* device matrices of the clients                             *)
  MaxContexts    (* bound: contexts made                                       *)

VARIABLES
  registry, (* _thread_map                                                     *)
  contexts, (* the contexts made so far: the thread of each, and who made it   *)
  specific, (* thread_specific_context: the one made for want of another       *)
  set,      (* thread_set_context                                              *)
  own,      (* t_gpuAllocator                                                  *)
  common,   (* g_gpuAllocator                                                  *)
  origin,   (* of each matrix: the allocator and the thread it came from       *)
  strays    (* history: how a matrix went to an allocator it is not from       *)

contextVars == <<registry, contexts, specific, set, own, common, origin, strays>>

NoContextYet == 0
NoAllocator == "none"
ThreadSafe == "safe"  \* Allocator::GetThreadSafeAllocator, one for the process
Allocators == Workers \cup {ThreadSafe}
Free == <<>>

ContextsInit ==
  /\ registry = [y \in ThreadTypes |-> <<>>]
  /\ contexts = <<>>
  /\ specific = [t \in Workers |-> NoContextYet] /\ set = [t \in Workers |-> NoContextYet]
  /\ own = [t \in Workers |-> NoAllocator] /\ common = NoAllocator
  /\ origin = [m \in Matrices |-> Free] /\ strays = {}

-----------------------------------------------------------------------------
(* The registry *)

\* RegisterThread: t enters itself or another thread, once.
RegisterThread(y, t) ==
  /\ registry' = [registry EXCEPT ![y] = IF Contains(@, t) THEN @ ELSE Append(@, t)]
  /\ UNCHANGED <<contexts, specific, set, own, common, origin, strays>>

\* Mutant: a thread of the type is sent to another one of it as well.
LastOfType(t, y) == IF registry[y] = <<>> THEN t ELSE Last(registry[y])

\* GetThread(type), called on t
GetThread(t, y) ==
  IF registry[y] # <<>> /\ ~Contains(registry[y], t) THEN Last(registry[y]) ELSE t

-----------------------------------------------------------------------------
(* Contexts *)

NewContext(t) == Append(contexts, t)

\* GetDefaultThreadContext, on t: the one that was set, else one of its own.
DefaultOf(t) == IF set[t] # NoContextYet THEN set[t] ELSE specific[t]

GetDefaultThreadContext(t) ==
  /\ DefaultOf(t) = NoContextYet /\ Len(contexts) < MaxContexts
  /\ contexts' = NewContext(t)
  /\ specific' = [specific EXCEPT ![t] = Len(contexts) + 1]
  /\ UNCHANGED <<registry, set, own, common, origin, strays>>

\* Mutant: the pointer is one for all threads.
SetForAll(t, c) == set' = [u \in Workers |-> c]

SetDefaultThreadContext(t, c) == set' = [set EXCEPT ![t] = c]

\* Thread::Main makes a context of its own and sets it; nullptr takes it back.
BeginThread(t) ==
  /\ Len(contexts) < MaxContexts
  /\ contexts' = NewContext(t)
  /\ SetDefaultThreadContext(t, Len(contexts) + 1)
  /\ UNCHANGED <<registry, specific, own, common, origin, strays>>

ResetContext(t) ==
  /\ SetDefaultThreadContext(t, NoContextYet)
  /\ UNCHANGED <<registry, contexts, specific, own, common, origin, strays>>

-----------------------------------------------------------------------------
(* Allocators *)

\* What was made under another setting is marked: its origin may be unreachable.
Marked(ms) == [m \in Matrices |-> IF m \in ms /\ origin[m] # Free
                                  THEN [origin[m] EXCEPT !.reset = TRUE] ELSE origin[m]]

SetThreadAllocator(t, a) ==
  /\ own' = [own EXCEPT ![t] = a]
  /\ origin' = IF own[t] = a THEN origin
               ELSE Marked({m \in Matrices : origin[m] # Free /\ origin[m].thread = t})
  /\ UNCHANGED <<registry, contexts, specific, set, common, strays>>

SetGlobalAllocator(a) ==
  /\ common' = a
  /\ origin' = IF common = a THEN origin ELSE Marked(Matrices)
  /\ UNCHANGED <<registry, contexts, specific, set, own, strays>>

\* The adapters: without an allocator of the thread the common one serves,
\* which is the thread safe allocator unless another was set.
Common == IF common = NoAllocator THEN ThreadSafe ELSE common

\* Mutant: a matrix is given back to the common allocator.
CommonFor(t) == Common

Serving(t) == IF own[t] # NoAllocator THEN own[t] ELSE Common
CommonAfter(t) == IF own[t] # NoAllocator THEN common ELSE Common

\* GpuAllocatorThreadAdapter::allocate
AllocateOn(t, m) ==
  /\ origin[m] = Free
  /\ origin' = [origin EXCEPT ![m] = [from |-> Serving(t), thread |-> t, reset |-> FALSE]]
  /\ common' = CommonAfter(t)
  /\ UNCHANGED <<registry, contexts, specific, set, own, strays>>

\* Who takes a matrix that t frees.
Taker(t) == Serving(t)

\* GpuAllocatorThreadAdapter::free
FreeOn(t, m) ==
  /\ origin[m] # Free
  /\ strays' = IF Taker(t) = origin[m].from THEN strays
               ELSE strays \cup {[moved |-> origin[m].thread # t, reset |-> origin[m].reset]}
  /\ origin' = [origin EXCEPT ![m] = Free]
  /\ common' = CommonAfter(t)
  /\ UNCHANGED <<registry, contexts, specific, set, own>>

RegistryNext == \E t \in Workers, y \in ThreadTypes : RegisterThread(y, t)

DefaultsNext ==
  \E t \in Workers : GetDefaultThreadContext(t) \/ BeginThread(t) \/ ResetContext(t)

AdaptersNext ==
  \/ \E t \in Workers :
        \/ \E a \in {NoAllocator, ThreadSafe, t} : SetThreadAllocator(t, a)
        \/ \E m \in Matrices : AllocateOn(t, m) \/ FreeOn(t, m)
  \/ \E a \in Allocators \cup {NoAllocator} : SetGlobalAllocator(a)

ContextsNext == RegistryNext \/ DefaultsNext \/ AdaptersNext

ContextsSpec == ContextsInit /\ [][ContextsNext]_contextVars

-----------------------------------------------------------------------------
(* Properties *)

ContextsTypeOK ==
  /\ registry \in [ThreadTypes -> Seq(Workers)]
  /\ \A y \in ThreadTypes : IsInjective(registry[y])
  /\ contexts \in Seq(Workers)
  /\ specific \in [Workers -> 0..Len(contexts)] /\ set \in [Workers -> 0..Len(contexts)]
  /\ own \in [Workers -> Allocators \cup {NoAllocator}]
  /\ common \in Allocators \cup {NoAllocator}

\* Work that is sent to a type of thread arrives with one hop: where GetThread
\* sends it, a thread of the type if there is one, GetThread sends it no
\* further, and a thread of the type keeps its own work.
OneHop ==
  \A y \in ThreadTypes : \A t \in Workers :
    /\ registry[y] # <<>> => Contains(registry[y], GetThread(t, y))
    /\ GetThread(GetThread(t, y), y) = GetThread(t, y)
    /\ Contains(registry[y], t) => GetThread(t, y) = t

\* The default context of a thread names that thread, whatever the others make
\* and set: an emission with it knows which slots are at home.
OwnContext ==
  \A t \in Workers : DefaultOf(t) # NoContextYet => contexts[DefaultOf(t)] = t

\* A device matrix goes back to the allocator it came from, unless another
\* thread frees it or the allocators were set anew while it was in use.
ReturnsHome == \A s \in strays : s.moved \/ s.reset

\* Threads find their own: work its thread, a thread its context, a matrix its
\* allocator.
ContextsSound == ContextsTypeOK /\ OneHop /\ OwnContext /\ ReturnsHome

===============================================================================
