------------------------------- MODULE ThreadPool -------------------------------
(***************************************************************************)
(* The pool of threads and the handles that count references to them       *)
(* (src/thread/ThreadPool.cpp, ThreadHandle.cpp).                          *)
(*                                                                         *)
(* A handle shares the count that lives in the pool's entry.  The last     *)
(* handle to go returns its thread, which the pool stops and marks         *)
(* available.  RequestThread leaves the mark where it is, so a thread that *)
(* was once returned can be given to several clients; a handle that is     *)
(* moved over keeps its reference for ever.  Both are recorded in history  *)
(* variables.  The pool has no mutex: its clients are one thread.          *)
(***************************************************************************)
EXTENDS Integers, Sequences, FiniteSets

CONSTANTS
  Handles,    (* the places where a client may keep a ThreadHandle            *)
  MaxThreads, (* bound: entries of the pool                                   *)
  MaxCalls    (* bound: calls of RequestThread                                *)

ASSUME ThreadPoolAssumption ==
  IsFiniteSet(Handles) /\ MaxThreads \in Nat /\ MaxCalls \in Nat

VARIABLES
  pooled,  (* _threads: available, ref_count and whether the thread runs      *)
  handle,  (* the thread of each handle: 0 for nullptr, Gone when not built   *)
  client,  (* history: the request a handle comes from                        *)
  requests,
  shared,  (* history: marked available and given out while somebody held them *)
  leaked   (* history: threads whose handle was moved over                    *)

poolVars == <<pooled, handle, client, requests, shared, leaked>>

Gone == -1
Entries == 1..Len(pooled)
Holders(t) == {h \in Handles : handle[h] = t}
Built(h) == handle[h] # Gone

PoolInit ==
  /\ pooled = <<>> /\ handle = [h \in Handles |-> Gone]
  /\ client = [h \in Handles |-> 0] /\ requests = 0
  /\ shared = {} /\ leaked = {}

Incremented(p, t) == IF t = 0 THEN p ELSE [p EXCEPT ![t].count = @ + 1]

\* ReturnThread: the thread may be taken again and is paused.
ReturnThread(p, t) == [p EXCEPT ![t].available = TRUE, ![t].run = FALSE]

\* decrement: the last reference returns the thread; so does every later one,
\* when the count was reset below its handles.
Decremented(p, t) ==
  IF t = 0 THEN p
  ELSE LET q == [p EXCEPT ![t].count = @ - 1]
       IN IF q[t].count <= 0 THEN ReturnThread(q, t) ELSE q

\* Mutant: a request takes the first thread, available or not.
AllAvailable == Entries

Available == {t \in Entries : pooled[t].available}

\* The first available entry; its count starts anew.
RequestThread(h) ==
  /\ ~Built(h) /\ requests < MaxCalls
  /\ requests' = requests + 1 /\ client' = [client EXCEPT ![h] = requests + 1]
  /\ \/ \E t \in Available :
          /\ \A u \in Available : t <= u
          /\ pooled' = Incremented([pooled EXCEPT ![t].count = 0], t)
          /\ handle' = [handle EXCEPT ![h] = t]
          /\ shared' = IF pooled[t].available /\ Holders(t) # {} THEN shared \cup {t} ELSE shared
     \/ /\ Available = {} /\ Len(pooled) < MaxThreads
        /\ pooled' = Append(pooled, [available |-> FALSE, count |-> 1, run |-> FALSE])
        /\ handle' = [handle EXCEPT ![h] = Len(pooled) + 1]
        /\ UNCHANGED shared
  /\ UNCHANGED leaked

\* Mutant: a copy does not raise the count.
CopyUncounted(h, g) ==
  /\ ~Built(h) /\ Built(g)
  /\ handle' = [handle EXCEPT ![h] = handle[g]]
  /\ client' = [client EXCEPT ![h] = client[g]]
  /\ UNCHANGED <<pooled, requests, shared, leaked>>

\* ThreadHandle(const ThreadHandle&)
CopyTo(h, g) ==
  /\ ~Built(h) /\ Built(g)
  /\ pooled' = Incremented(pooled, handle[g])
  /\ handle' = [handle EXCEPT ![h] = handle[g]]
  /\ client' = [client EXCEPT ![h] = client[g]]
  /\ UNCHANGED <<requests, shared, leaked>>

\* ThreadHandle(ThreadHandle&&), and operator=(ThreadHandle&&) when h is built:
\* what h held is overwritten, without a decrement.
MoveTo(h, g) ==
  /\ Built(g)
  /\ handle[h] \notin leaked  \* bound: a thread loses one reference
  /\ handle' = [handle EXCEPT ![h] = handle[g], ![g] = 0]
  /\ client' = [client EXCEPT ![h] = client[g], ![g] = 0]
  /\ leaked' = leaked \cup ({handle[h]} \ {0, Gone})
  /\ UNCHANGED <<pooled, requests, shared>>

\* operator=(const ThreadHandle&): the old reference goes first, also when
\* both are the same handle.
Assign(h, g) ==
  /\ Built(h) /\ Built(g)
  /\ pooled' = Incremented(Decremented(pooled, handle[h]), handle[g])
  /\ handle' = [handle EXCEPT ![h] = handle[g]]
  /\ client' = [client EXCEPT ![h] = client[g]]
  /\ UNCHANGED <<requests, shared, leaked>>

Drop(h) ==
  /\ Built(h)
  /\ pooled' = Decremented(pooled, handle[h])
  /\ handle' = [handle EXCEPT ![h] = Gone] /\ client' = [client EXCEPT ![h] = 0]
  /\ UNCHANGED <<requests, shared, leaked>>

\* The calls that a handle forwards to its thread, which an empty one drops.
Forward(h) ==
  /\ Built(h) /\ handle[h] # 0
  /\ \E run \in BOOLEAN : pooled' = [pooled EXCEPT ![handle[h]].run = run]
  /\ UNCHANGED <<handle, client, requests, shared, leaked>>

\* Cleanup deletes the threads and the counts; with a handle left the next use
\* of it is undefined behaviour.
Cleanup ==
  /\ \A h \in Handles : handle[h] \in {0, Gone}
  /\ pooled' = <<>> /\ shared' = {} /\ leaked' = {}
  /\ UNCHANGED <<handle, client, requests>>

PoolNext ==
  \/ \E h \in Handles : RequestThread(h) \/ Drop(h) \/ Forward(h)
  \/ \E h, g \in Handles : CopyTo(h, g) \/ MoveTo(h, g) \/ Assign(h, g)
  \/ Cleanup

PoolSpec == PoolInit /\ [][PoolNext]_poolVars

-----------------------------------------------------------------------------
(* Properties *)

PoolTypeOK ==
  /\ pooled \in Seq([available : BOOLEAN, count : Int, run : BOOLEAN])
  /\ handle \in [Handles -> {Gone, 0} \cup Entries]
  /\ requests \in Nat /\ client \in [Handles -> 0..requests]
  /\ shared \subseteq Entries /\ leaked \subseteq Entries

\* Whatever sequence of copies, moves, assignments and destructions the
\* handles go through, a thread that was given out once and lost no reference
\* counts its handles exactly, and waits in the pool when it has none: it
\* never stays taken with nobody left to return it.
CountsHandles ==
  \A t \in Entries \ (shared \cup leaked) :
    /\ pooled[t].count = Cardinality(Holders(t))
    /\ Holders(t) = {} => pooled[t].available

\* Clients of different requests never meet on a thread that RequestThread did
\* not itself give out twice.
Exclusive ==
  \A h, g \in Handles :
    handle[h] = handle[g] /\ handle[h] \in Entries \ shared => client[h] = client[g]

\* References are counted and returned as ThreadPool.cpp and ThreadHandle.cpp
\* promise: the counts are right, no thread is stranded, and clients share only
\* what RequestThread gave out twice.
PoolSound == PoolTypeOK /\ CountsHandles /\ Exclusive

===============================================================================
