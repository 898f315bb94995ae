----------------------------- MODULE SignalsProofs -----------------------------
(***************************************************************************)
(* Proofs about signals, relays and slots, for every set of threads,       *)
(* slots, signals and relays and every bound.  First: an emission never    *)
(* reaches a slot whose destructor has passed the relays, and the          *)
(* destructor begins to empty the queues only when nothing is on its way   *)
(* into them, which is what InterThread demands of its callers.  Then,     *)
(* when emissions pass the Context of the emitting thread: a slot executes *)
(* only on the thread of its own Context, and two emissions of one signal  *)
(* reach all slots of other threads in the same order.  Slots may emit,    *)
(* and destroy other slots, while they are called.                         *)
(***************************************************************************)
EXTENDS Signals, InterThreadProofs

----------------------------------------------------------------------------
(* Stacks                                                                  *)

(* A stack with one more frame.                                            *)
LEMMA Pushed ==
  ASSUME NEW S, NEW s \in Seq(S), NEW f \in S
  PROVE  LET r == <<f>> \o s IN
         /\ r \in Seq(S) /\ r # <<>>
         /\ Len(s) \in Nat /\ DOMAIN s = 1 .. Len(s)
         /\ DOMAIN r = 1 .. Len(s) + 1
         /\ r[1] = f /\ Head(r) = f
         /\ \A k \in 1 .. Len(s) : r[k + 1] = s[k]
<1> DEFINE r == <<f>> \o s
<1>1. Len(s) \in Nat /\ DOMAIN s = 1 .. Len(s)
  BY LenProperties
<1>2. <<f>> \in Seq(S) /\ Len(<<f>>) = 1 /\ <<f>>[1] = f
  OBVIOUS
<1>3. /\ r \in Seq(S) /\ Len(r) = 1 + Len(s)
      /\ \A i \in 1 .. 1 + Len(s) : r[i] = IF i <= 1 THEN <<f>>[i] ELSE s[i - 1]
  BY <1>2, ConcatProperties
<1> HIDE DEF r
<1>4. DOMAIN r = 1 .. Len(s) + 1
  BY <1>1, <1>3, LenProperties
<1>5. r[1] = f /\ \A k \in 1 .. Len(s) : r[k + 1] = s[k]
  BY <1>1, <1>2, <1>3
<1>6. r # <<>> /\ Head(r) = r[1]
  BY <1>1, <1>3, EmptySeq
<1> QED BY <1>1, <1>3, <1>4, <1>5, <1>6 DEF r

(* A stack without its innermost frame.                                    *)
LEMMA Popped ==
  ASSUME NEW S, NEW s \in Seq(S), s # <<>>
  PROVE  /\ Len(s) \in Nat /\ Len(s) >= 1 /\ DOMAIN s = 1 .. Len(s)
         /\ 1 \in DOMAIN s /\ Head(s) = s[1] /\ Head(s) \in S
         /\ Tail(s) \in Seq(S) /\ DOMAIN Tail(s) = 1 .. Len(s) - 1
         /\ \A k \in 1 .. Len(s) - 1 : Tail(s)[k] = s[k + 1]
<1>1. Len(s) \in Nat \ {0} /\ DOMAIN s = 1 .. Len(s)
  BY LenProperties, EmptySeq
<1>2. /\ Head(s) \in S /\ Tail(s) \in Seq(S) /\ Len(Tail(s)) = Len(s) - 1
      /\ \A k \in 1 .. Len(Tail(s)) : Tail(s)[k] = s[k + 1]
  BY HeadTailProperties
<1>3. DOMAIN Tail(s) = 1 .. Len(s) - 1
  BY <1>2, LenProperties
<1> QED BY <1>1, <1>2, <1>3

(* A stack whose innermost frame has changed.                              *)
LEMMA Changed ==
  ASSUME NEW S, NEW s \in Seq(S), s # <<>>, NEW f \in S
  PROVE  LET r == <<f>> \o Tail(s) IN
         /\ r \in Seq(S) /\ r # <<>>
         /\ DOMAIN r = DOMAIN s /\ 1 \in DOMAIN s
         /\ r[1] = f /\ Head(r) = f
         /\ \A k \in DOMAIN s : k # 1 => r[k] = s[k]
<1> DEFINE r == <<f>> \o Tail(s)
<1>1. /\ Len(s) \in Nat /\ Len(s) >= 1 /\ DOMAIN s = 1 .. Len(s)
      /\ Tail(s) \in Seq(S) /\ DOMAIN Tail(s) = 1 .. Len(s) - 1
      /\ \A k \in 1 .. Len(s) - 1 : Tail(s)[k] = s[k + 1]
  BY Popped
<1>2. /\ r \in Seq(S) /\ r # <<>>
      /\ Len(Tail(s)) \in Nat /\ DOMAIN Tail(s) = 1 .. Len(Tail(s))
      /\ DOMAIN r = 1 .. Len(Tail(s)) + 1
      /\ r[1] = f /\ Head(r) = f
      /\ \A k \in 1 .. Len(Tail(s)) : r[k + 1] = Tail(s)[k]
  BY <1>1, Pushed
<1>3. Len(Tail(s)) = Len(s) - 1
  BY HeadTailProperties
<1> HIDE DEF r
<1>4. DOMAIN r = DOMAIN s /\ 1 \in DOMAIN s
  BY <1>1, <1>2, <1>3
<1>5. ASSUME NEW k \in DOMAIN s, k # 1
      PROVE  r[k] = s[k]
  <2>1. k - 1 \in 1 .. Len(s) - 1 /\ (k - 1) + 1 = k
    BY <1>1, <1>5
  <2> QED BY <1>1, <1>2, <1>3, <2>1
<1> QED BY <1>2, <1>4, <1>5 DEF r

----------------------------------------------------------------------------
(* The invariant                                                           *)

(* A frame of an emission holds the signal from the first relay on, and a  *)
(* relay while it goes through the slots of that relay.                    *)
HoldsSig(f) == f.op = "emit" /\ f.phase \in {"next", "slots", "called", "pushing"}
HoldsRelay(f) == f.op = "emit" /\ f.phase \in {"slots", "called", "pushing"}

(* What a frame f of thread t implies of the mutexes sm and rm, the relays *)
(* rs of the signals, the slots cn of the relays and the loops lp.         *)
FrameOK(t, f, sm, rm, rs, cn, lp) ==
  /\ f.op = "emit" =>
       /\ f.sig \in Sigs
       /\ f.phase \in {"sig", "next", "slots", "called", "pushing"}
  /\ f.op = "destroy" =>
       /\ f.obj \in Objects /\ f.phase \in {"relays", "queue"}
       /\ t \in Removers /\ (lp[t] = "call" => t \in NestedRemove)
  /\ HoldsSig(f) => sm[f.sig] = t
  /\ HoldsRelay(f) =>
       /\ f.relay \in Relays /\ rm[f.relay] = t
       /\ InSeq(f.relay, rs[f.sig])
       /\ Reaching(f) \subseteq cn[f.relay]
  /\ ~HoldsRelay(f) => f.todo = {}

(* Two frames of one thread hold different signals and relays: the mutexes *)
(* are not recursive.                                                      *)
Apart(f, g) ==
  /\ HoldsSig(f) /\ HoldsSig(g) => f.sig # g.sig
  /\ HoldsRelay(f) /\ HoldsRelay(g) => f.relay # g.relay

FramesInv ==
  \A t \in Threads :
    /\ \A k \in DOMAIN stack[t] :
         FrameOK(t, stack[t][k], sigMtx, relayMtx, relays, conn, loop)
    /\ \A j, k \in DOMAIN stack[t] : j # k => Apart(stack[t][j], stack[t][k])

(* A slot that has passed its relays is in none.                           *)
Detached == \A o \in Objects : slot[o] # "live" => mine[o] = <<>>

(* The call of a queue that is under way is the one of the innermost frame.*)
CallFrame ==
  \A t \in Threads :
    /\ pc[t] \in {"push_map", "push_queue"} =>
         In(t, "emit", "pushing") /\ Top(t).obj = msg[t].obj
    /\ pc[t] \in {"remove_map", "remove_scan", "remove_erase"} =>
         In(t, "destroy", "queue")
    /\ Busy(t) => loop[t] \in {"out", "call"}

SigInv == SigTypes /\ Linked /\ FramesInv /\ Detached /\ CallFrame

LEMMA SigInvInit == SigInit => SigInv
BY EmptySeq DEF SigInit, Init, SigInv, SigTypes, Linked, FramesInv, Detached, CallFrame,
   Busy, In, InSeq

----------------------------------------------------------------------------
(* Steps on the stack                                                      *)

(* The frames that exist stay in order when the rest of the state moves.   *)
Kept(u, k) ==
  FrameOK(u, stack[u][k], sigMtx', relayMtx', relays', conn', loop')

LEMMA EnterFrames ==
  ASSUME stack \in [Threads -> Seq(Frames)], FramesInv,
         NEW t \in Threads, NEW f \in Frames, Enter(t, f), ~HoldsSig(f),
         FrameOK(t, f, sigMtx', relayMtx', relays', conn', loop'),
         \A u \in Threads : \A k \in DOMAIN stack[u] : Kept(u, k)
  PROVE  /\ stack' \in [Threads -> Seq(Frames)] /\ FramesInv'
         /\ Busy(t)' /\ Top(t)' = f
         /\ \A u \in Threads \ {t} : stack'[u] = stack[u]
<1>1. stack' = [stack EXCEPT ![t] = <<f>> \o stack[t]] /\ stack[t] \in Seq(Frames)
  BY DEF Enter
<1>2. /\ stack'[t] \in Seq(Frames) /\ stack'[t] # <<>>
      /\ Len(stack[t]) \in Nat /\ DOMAIN stack[t] = 1 .. Len(stack[t])
      /\ DOMAIN stack'[t] = 1 .. Len(stack[t]) + 1
      /\ stack'[t][1] = f /\ Head(stack'[t]) = f
      /\ \A k \in 1 .. Len(stack[t]) : stack'[t][k + 1] = stack[t][k]
  BY <1>1, Pushed
<1>3. \A u \in Threads \ {t} : stack'[u] = stack[u]
  BY <1>1
<1>4. stack' \in [Threads -> Seq(Frames)]
  BY <1>1, <1>2
<1>5. \A k \in DOMAIN stack'[t] :
        \/ k = 1 /\ stack'[t][k] = f
        \/ k - 1 \in DOMAIN stack[t] /\ stack'[t][k] = stack[t][k - 1]
  <2> SUFFICES ASSUME NEW k \in DOMAIN stack'[t], k # 1
               PROVE  k - 1 \in DOMAIN stack[t] /\ stack'[t][k] = stack[t][k - 1]
    BY <1>2
  <2>1. k - 1 \in 1 .. Len(stack[t]) /\ (k - 1) + 1 = k
    BY <1>2
  <2> QED BY <1>2, <2>1
<1>6. ASSUME NEW u \in Threads, NEW k \in DOMAIN stack'[u]
      PROVE  FrameOK(u, stack'[u][k], sigMtx', relayMtx', relays', conn', loop')
  <2>1. CASE u = t
    BY <1>5, <2>1 DEF Kept
  <2>2. CASE u # t
    BY <1>3, <2>2 DEF Kept
  <2> QED BY <2>1, <2>2
<1>7. ASSUME NEW u \in Threads, NEW j \in DOMAIN stack'[u], NEW k \in DOMAIN stack'[u],
             j # k
      PROVE  Apart(stack'[u][j], stack'[u][k])
  <2>1. CASE u = t
    <3>1. CASE j = 1 \/ k = 1
      <4>1. ~HoldsRelay(f)
        BY DEF HoldsSig, HoldsRelay
      <4> QED BY <1>2, <2>1, <3>1, <4>1 DEF Apart
    <3>2. CASE j # 1 /\ k # 1
      <4>1. /\ j - 1 \in DOMAIN stack[t] /\ k - 1 \in DOMAIN stack[t] /\ j - 1 # k - 1
            /\ stack'[t][j] = stack[t][j - 1] /\ stack'[t][k] = stack[t][k - 1]
        BY <1>2, <1>5, <1>7, <2>1, <3>2
      <4> QED BY <2>1, <4>1 DEF FramesInv
    <3> QED BY <3>1, <3>2
  <2>2. CASE u # t
    BY <1>3, <1>7, <2>2 DEF FramesInv
  <2> QED BY <2>1, <2>2
<1>8. FramesInv'
  BY <1>6, <1>7 DEF FramesInv
<1> QED BY <1>2, <1>3, <1>4, <1>8 DEF Busy, Top

LEMMA LeaveFrames ==
  ASSUME stack \in [Threads -> Seq(Frames)], FramesInv,
         NEW t \in Threads, Busy(t), Leave(t),
         \A u \in Threads : \A k \in DOMAIN stack[u] : u # t \/ k # 1 => Kept(u, k)
  PROVE  /\ stack' \in [Threads -> Seq(Frames)] /\ FramesInv'
         /\ \A u \in Threads \ {t} : stack'[u] = stack[u]
<1>1. stack' = [stack EXCEPT ![t] = Tail(stack[t])] /\ stack[t] \in Seq(Frames)
      /\ stack[t] # <<>>
  BY DEF Leave, Busy
<1>2. /\ Len(stack[t]) \in Nat /\ DOMAIN stack[t] = 1 .. Len(stack[t])
      /\ stack'[t] \in Seq(Frames) /\ DOMAIN stack'[t] = 1 .. Len(stack[t]) - 1
      /\ \A k \in 1 .. Len(stack[t]) - 1 : stack'[t][k] = stack[t][k + 1]
  BY <1>1, Popped
<1>3. \A u \in Threads \ {t} : stack'[u] = stack[u]
  BY <1>1
<1>4. stack' \in [Threads -> Seq(Frames)]
  BY <1>1, <1>2
<1>5. \A k \in DOMAIN stack'[t] :
        k + 1 \in DOMAIN stack[t] /\ k + 1 # 1 /\ stack'[t][k] = stack[t][k + 1]
  BY <1>2
<1>6. ASSUME NEW u \in Threads, NEW k \in DOMAIN stack'[u]
      PROVE  FrameOK(u, stack'[u][k], sigMtx', relayMtx', relays', conn', loop')
  <2>1. CASE u = t
    BY <1>5, <2>1 DEF Kept
  <2>2. CASE u # t
    BY <1>3, <2>2 DEF Kept
  <2> QED BY <2>1, <2>2
<1>7. ASSUME NEW u \in Threads, NEW j \in DOMAIN stack'[u], NEW k \in DOMAIN stack'[u],
             j # k
      PROVE  Apart(stack'[u][j], stack'[u][k])
  <2>1. CASE u = t
    <3>1. j + 1 # k + 1
      BY <1>2, <1>7, <2>1
    <3> QED BY <1>5, <2>1, <3>1 DEF FramesInv
  <2>2. CASE u # t
    BY <1>3, <1>7, <2>2 DEF FramesInv
  <2> QED BY <2>1, <2>2
<1>8. FramesInv'
  BY <1>6, <1>7 DEF FramesInv
<1> QED BY <1>3, <1>4, <1>8

LEMMA BecomeFrames ==
  ASSUME stack \in [Threads -> Seq(Frames)], FramesInv,
         NEW t \in Threads, NEW f \in Frames, Busy(t), Become(t, f),
         FrameOK(t, f, sigMtx', relayMtx', relays', conn', loop'),
         \A k \in DOMAIN stack[t] : k # 1 => Apart(f, stack[t][k]),
         \A u \in Threads : \A k \in DOMAIN stack[u] : u # t \/ k # 1 => Kept(u, k)
  PROVE  /\ stack' \in [Threads -> Seq(Frames)] /\ FramesInv'
         /\ Busy(t)' /\ Top(t)' = f
         /\ \A u \in Threads \ {t} : stack'[u] = stack[u]
<1>1. stack' = [stack EXCEPT ![t] = <<f>> \o Tail(stack[t])]
      /\ stack[t] \in Seq(Frames) /\ stack[t] # <<>>
  BY DEF Become, Busy
<1>2. /\ stack'[t] \in Seq(Frames) /\ stack'[t] # <<>>
      /\ DOMAIN stack'[t] = DOMAIN stack[t] /\ 1 \in DOMAIN stack[t]
      /\ stack'[t][1] = f /\ Head(stack'[t]) = f
      /\ \A k \in DOMAIN stack[t] : k # 1 => stack'[t][k] = stack[t][k]
  BY <1>1, Changed
<1>3. \A u \in Threads \ {t} : stack'[u] = stack[u]
  BY <1>1
<1>4. stack' \in [Threads -> Seq(Frames)]
  BY <1>1, <1>2
<1>6. ASSUME NEW u \in Threads, NEW k \in DOMAIN stack'[u]
      PROVE  FrameOK(u, stack'[u][k], sigMtx', relayMtx', relays', conn', loop')
  <2>1. CASE u = t
    BY <1>2, <2>1 DEF Kept
  <2>2. CASE u # t
    BY <1>3, <2>2 DEF Kept
  <2> QED BY <2>1, <2>2
<1>7. ASSUME NEW u \in Threads, NEW j \in DOMAIN stack'[u], NEW k \in DOMAIN stack'[u],
             j # k
      PROVE  Apart(stack'[u][j], stack'[u][k])
  <2>1. CASE u = t
    <3>1. CASE j = 1
      BY <1>2, <1>7, <2>1, <3>1
    <3>2. CASE k = 1
      <4>1. Apart(f, stack[t][j])
        BY <1>2, <1>7, <2>1, <3>2
      <4> QED BY <1>2, <1>7, <2>1, <3>2, <4>1 DEF Apart
    <3>3. CASE j # 1 /\ k # 1
      BY <1>2, <1>7, <2>1, <3>3 DEF FramesInv
    <3> QED BY <3>1, <3>2, <3>3
  <2>2. CASE u # t
    BY <1>3, <1>7, <2>2 DEF FramesInv
  <2> QED BY <2>1, <2>2
<1>8. FramesInv'
  BY <1>6, <1>7 DEF FramesInv
<1> QED BY <1>2, <1>3, <1>4, <1>8 DEF Busy, Top

----------------------------------------------------------------------------
(* The innermost frame                                                     *)

LEMMA TopFrame ==
  ASSUME SigTypes, FramesInv, NEW t \in Threads, Busy(t)
  PROVE  /\ Top(t) \in Frames /\ 1 \in DOMAIN stack[t] /\ Top(t) = stack[t][1]
         /\ FrameOK(t, Top(t), sigMtx, relayMtx, relays, conn, loop)
         /\ \A k \in DOMAIN stack[t] : k # 1 => Apart(Top(t), stack[t][k])
<1>1. stack[t] \in Seq(Frames) /\ stack[t] # <<>>
  BY DEF SigTypes, Busy
<1>2. 1 \in DOMAIN stack[t] /\ Top(t) = stack[t][1] /\ Top(t) \in Frames
  BY <1>1, Popped DEF Top
<1> QED BY <1>2 DEF FramesInv

(* A frame that holds no more than the innermost one is apart from the     *)
(* frames below.                                                           *)
LEMMA Inherits ==
  ASSUME SigTypes, FramesInv, NEW t \in Threads, Busy(t), NEW f,
         HoldsSig(f) => HoldsSig(Top(t)) /\ f.sig = Top(t).sig,
         HoldsRelay(f) => HoldsRelay(Top(t)) /\ f.relay = Top(t).relay
  PROVE  \A k \in DOMAIN stack[t] : k # 1 => Apart(f, stack[t][k])
BY TopFrame DEF Apart

LEMMA SameFrames ==
  ASSUME FramesInv, UNCHANGED <<sigMtx, relayMtx, relays, conn, loop>>
  PROVE  \A u \in Threads : \A k \in DOMAIN stack[u] : Kept(u, k)
BY DEF FramesInv, Kept

(* A slot that a frame can still call is connected to a relay: it lives.   *)
LEMMA ReachedLives ==
  ASSUME SigInv, NEW t \in Threads, NEW k \in DOMAIN stack[t],
         NEW o \in Reaching(stack[t][k])
  PROVE  /\ HoldsRelay(stack[t][k]) /\ o \in conn[stack[t][k].relay]
         /\ o \in Objects /\ mine[o] # <<>> /\ slot[o] = "live"
<1> DEFINE f == stack[t][k]
<1>1. FrameOK(t, f, sigMtx, relayMtx, relays, conn, loop)
  BY DEF SigInv, FramesInv
<1>2. f \in Frames
  <2>1. stack[t] \in Seq(Frames)
    BY DEF SigInv, SigTypes
  <2> QED BY <2>1, LenProperties
<1>3. HoldsRelay(f)
  BY <1>1, <1>2 DEF FrameOK, Reaching, HoldsRelay, Frames
<1>4. f.relay \in Relays /\ o \in conn[f.relay]
  BY <1>1, <1>3 DEF FrameOK
<1>5. o \in Objects /\ InSeq(f.relay, mine[o])
  BY <1>4 DEF SigInv, SigTypes, Linked
<1>6. mine[o] # <<>>
  <2>1. mine[o] \in Seq(Relays)
    BY <1>5 DEF SigInv, SigTypes
  <2> QED BY <1>5, <2>1 DEF InSeq
<1>7. slot[o] = "live"
  BY <1>5, <1>6 DEF SigInv, Detached
<1> QED BY <1>3, <1>4, <1>5, <1>6, <1>7

(* Where the innermost frame is not in a call of a queue, nor is the       *)
(* thread.                                                                 *)
LEMMA NotInQueue ==
  ASSUME TypeOK, CallFrame, NEW t \in Threads,
         ~In(t, "emit", "pushing"), ~In(t, "destroy", "queue")
  PROVE  pc[t] = "user"
BY DEF TypeOK, CallFrame

(* The thread that moves is in no call of a queue; the others stay.        *)
LEMMA UserStep ==
  ASSUME CallFrame, UNCHANGED vars, NEW t \in Threads,
         pc[t] = "user", loop[t] \in {"out", "call"},
         \A u \in Threads \ {t} : stack'[u] = stack[u]
  PROVE  CallFrame'
<1>1. pc' = pc /\ loop' = loop /\ msg' = msg
  BY DEF vars, runVars, opVars
<1> QED BY <1>1 DEF CallFrame, In, Busy, Top

----------------------------------------------------------------------------
(* Connections                                                             *)

LEMMA AppendHas ==
  ASSUME NEW S, NEW s \in Seq(S), NEW e \in S
  PROVE  /\ Append(s, e) \in Seq(S) /\ InSeq(e, Append(s, e))
         /\ \A d : InSeq(d, s) => InSeq(d, Append(s, e))
<1>1. /\ Len(s) \in Nat /\ DOMAIN s = 1 .. Len(s)
      /\ Append(s, e) \in Seq(S) /\ Len(Append(s, e)) = Len(s) + 1
      /\ \A i \in 1 .. Len(s) : Append(s, e)[i] = s[i]
      /\ Append(s, e)[Len(s) + 1] = e
  BY LenProperties, AppendProperties
<1>2. DOMAIN Append(s, e) = 1 .. Len(s) + 1
  BY <1>1, LenProperties
<1>3. Len(s) + 1 \in DOMAIN Append(s, e)
  BY <1>1, <1>2
<1>4. ASSUME NEW d, InSeq(d, s) PROVE InSeq(d, Append(s, e))
  <2>1. PICK i \in 1 .. Len(s) : s[i] = d
    BY <1>1, <1>4 DEF InSeq
  <2>2. i \in DOMAIN Append(s, e) /\ Append(s, e)[i] = d
    BY <1>1, <1>2, <2>1
  <2> QED BY <2>2 DEF InSeq
<1> QED BY <1>1, <1>3, <1>4 DEF InSeq

LEMMA ErasedHas ==
  ASSUME NEW S, NEW s \in Seq(S), NEW k \in DOMAIN s,
         NEW e, InSeq(e, s), e # s[k]
  PROVE  InSeq(e, RemoveAt(s, k))
<1>1. PICK i \in DOMAIN s : s[i] = e
  BY DEF InSeq
<1> QED BY <1>1, EraseKeepsOthers

(* A change of the connections that the frames survive.                    *)
LEMMA EditFrames ==
  ASSUME SigInv, UNCHANGED <<vars, stack>>,
         \A u \in Threads : \A k \in DOMAIN stack[u] : Kept(u, k)
  PROVE  FramesInv' /\ CallFrame'
<1>1. FramesInv'
  BY DEF SigInv, FramesInv, Kept
<1>2. pc' = pc /\ loop' = loop /\ msg' = msg
  BY DEF vars, runVars, opVars
<1>3. CallFrame'
  BY <1>2 DEF SigInv, CallFrame, In, Busy, Top
<1> QED BY <1>1, <1>3

(* A free mutex is not the one of a frame.                                 *)
LEMMA FreeLocks ==
  ASSUME SigInv, NEW u \in Threads, NEW k \in DOMAIN stack[u]
  PROVE  /\ FrameOK(u, stack[u][k], sigMtx, relayMtx, relays, conn, loop)
         /\ HoldsSig(stack[u][k]) => sigMtx[stack[u][k].sig] # None
         /\ HoldsRelay(stack[u][k]) =>
              /\ relayMtx[stack[u][k].relay] # None
              /\ sigMtx[stack[u][k].sig] # None
              /\ stack[u][k].sig \in Sigs
BY ThreadAssumption DEF SigInv, FramesInv, FrameOK, HoldsSig, HoldsRelay

LEMMA ConnectStep ==
  ASSUME SigInv, NEW t \in Threads, NEW o \in Objects, NEW s \in Sigs, Connect(t, o, s)
  PROVE  SigInv'
<1>1. PICK r \in Relays :
        /\ ~InUse(r)
        /\ conn' = [conn EXCEPT ![r] = {o}]
        /\ relays' = [relays EXCEPT ![s] = Append(@, r)]
        /\ mine' = [mine EXCEPT ![o] = Append(@, r)]
  BY DEF Connect
<1>2. /\ slot[o] = "live" /\ sigMtx[s] = None /\ edits' = edits + 1
      /\ UNCHANGED <<vars, sigMtx, relayMtx, ending, stack, emitted, wave>>
  BY DEF Connect, Edit, Attached, sigLocks
<1>3. /\ Append(relays[s], r) \in Seq(Relays) /\ Append(mine[o], r) \in Seq(Relays)
      /\ InSeq(r, Append(mine[o], r))
      /\ \A q : InSeq(q, mine[o]) => InSeq(q, Append(mine[o], r))
  BY AppendHas DEF SigInv, SigTypes
<1>4. slot' = slot /\ loop' = loop
  BY <1>2 DEF vars, runVars
<1>5. SigTypes'
  BY <1>1, <1>2, <1>3 DEF SigInv, SigTypes
<1>6. Linked'
  BY <1>1, <1>3 DEF SigInv, SigTypes, Linked
<1>7. Detached'
  BY <1>1, <1>2, <1>4 DEF SigInv, SigTypes, Detached
<1>8. ASSUME NEW u \in Threads, NEW k \in DOMAIN stack[u]
      PROVE  Kept(u, k)
  <2> DEFINE f == stack[u][k]
  <2>1. FrameOK(u, f, sigMtx, relayMtx, relays, conn, loop)
    BY FreeLocks
  <2>2. ASSUME HoldsRelay(f)
        PROVE  conn'[f.relay] = conn[f.relay] /\ relays'[f.sig] = relays[f.sig]
    <3>1. f.sig \in Sigs /\ f.sig # s
      BY <1>2, <2>2, FreeLocks
    <3>2. InSeq(f.relay, relays[f.sig])
      BY <2>1, <2>2 DEF FrameOK
    <3>3. f.relay # r
      BY <1>1, <3>1, <3>2 DEF InUse
    <3> QED BY <1>1, <3>1, <3>3 DEF SigInv, SigTypes
  <2> QED BY <1>2, <1>4, <2>1, <2>2 DEF Kept, FrameOK
<1>9. FramesInv' /\ CallFrame'
  BY <1>2, <1>8, EditFrames
<1> QED BY <1>5, <1>6, <1>7, <1>9 DEF SigInv

LEMMA JoinStep ==
  ASSUME SigInv, NEW t \in Threads, NEW o \in Objects, NEW r \in Relays, Join(t, o, r)
  PROVE  SigInv'
<1>1. /\ slot[o] = "live" /\ relayMtx[r] = None /\ edits' = edits + 1
      /\ conn' = [conn EXCEPT ![r] = @ \cup {o}]
      /\ mine' = [mine EXCEPT ![o] = Append(@, r)]
      /\ UNCHANGED <<vars, sigMtx, relayMtx, relays, ending, stack, emitted, wave>>
  BY DEF Join, Edit, Attached, sigLocks
<1>2. /\ Append(mine[o], r) \in Seq(Relays) /\ InSeq(r, Append(mine[o], r))
      /\ \A q : InSeq(q, mine[o]) => InSeq(q, Append(mine[o], r))
  BY AppendHas DEF SigInv, SigTypes
<1>3. slot' = slot /\ loop' = loop
  BY <1>1 DEF vars, runVars
<1>4. SigTypes'
  BY <1>1, <1>2 DEF SigInv, SigTypes
<1>5. Linked'
  BY <1>1, <1>2 DEF SigInv, SigTypes, Linked
<1>6. Detached'
  BY <1>1, <1>3 DEF SigInv, SigTypes, Detached
<1>7. ASSUME NEW u \in Threads, NEW k \in DOMAIN stack[u]
      PROVE  Kept(u, k)
  <2>1. FrameOK(u, stack[u][k], sigMtx, relayMtx, relays, conn, loop)
        /\ (HoldsRelay(stack[u][k]) => stack[u][k].relay # r)
    BY <1>1, FreeLocks
  <2> QED BY <1>1, <1>3, <2>1 DEF Kept, FrameOK, SigInv, SigTypes
<1>8. FramesInv' /\ CallFrame'
  BY <1>1, <1>7, EditFrames
<1> QED BY <1>4, <1>5, <1>6, <1>8 DEF SigInv

(* A relay and one of its slots part, under the relay's mutex.             *)
LEMMA PartFrames ==
  ASSUME SigInv, NEW o \in Objects, NEW r \in Relays, relayMtx[r] = None,
         conn' = [conn EXCEPT ![r] = @ \ {o}],
         UNCHANGED <<sigMtx, relayMtx, relays, loop>>,
         NEW u \in Threads, NEW k \in DOMAIN stack[u]
  PROVE  Kept(u, k)
<1>1. FrameOK(u, stack[u][k], sigMtx, relayMtx, relays, conn, loop)
      /\ (HoldsRelay(stack[u][k]) => stack[u][k].relay # r)
  BY FreeLocks
<1> QED BY <1>1 DEF Kept, FrameOK, SigInv, SigTypes

LEMMA DisconnectStep ==
  ASSUME SigInv, NEW t \in Threads, NEW o \in Objects, NEW r \in Relays,
         Disconnect(t, o, r)
  PROVE  SigInv'
<1>1. PICK k \in DOMAIN mine[o] :
        FirstRelay(mine[o], r, k) /\ mine' = [mine EXCEPT ![o] = RemoveAt(@, k)]
  BY DEF Disconnect
<1>2. /\ slot[o] = "live" /\ relayMtx[r] = None /\ edits' = edits + 1
      /\ conn' = [conn EXCEPT ![r] = @ \ {o}] /\ mine[o][k] = r
      /\ UNCHANGED <<vars, sigMtx, relayMtx, relays, ending, stack, emitted, wave>>
  BY <1>1 DEF Disconnect, Edit, Attached, FirstRelay, sigLocks
<1>3. slot' = slot /\ loop' = loop
  BY <1>2 DEF vars, runVars
<1>4. mine[o] \in Seq(Relays)
  BY DEF SigInv, SigTypes
<1>5. RemoveAt(mine[o], k) \in Seq(Relays)
  BY <1>4, EraseKeeps
<1>6. \A q \in Relays \ {r} : InSeq(q, mine[o]) => InSeq(q, RemoveAt(mine[o], k))
  BY <1>2, <1>4, ErasedHas
<1>7. SigTypes'
  BY <1>1, <1>2, <1>5 DEF SigInv, SigTypes
<1>8. Linked'
  BY <1>1, <1>2, <1>6 DEF SigInv, SigTypes, Linked
<1>9. Detached'
  BY <1>1, <1>2, <1>3 DEF SigInv, SigTypes, Detached
<1>10. \A u \in Threads : \A j \in DOMAIN stack[u] : Kept(u, j)
  BY <1>2, <1>3, PartFrames
<1>11. FramesInv' /\ CallFrame'
  BY <1>2, <1>10, EditFrames
<1> QED BY <1>7, <1>8, <1>9, <1>11 DEF SigInv

LEMMA DropStep ==
  ASSUME SigInv, NEW t \in Threads, NEW s \in Sigs,
         DisconnectSignal(t, s) \/ \E r \in Relays : DisconnectRelay(t, s, r)
  PROVE  SigInv'
<1>1. /\ sigMtx[s] = None /\ edits' = edits + 1
      /\ UNCHANGED <<vars, sigMtx, relayMtx, conn, mine, ending, stack, emitted, wave>>
  BY DEF DisconnectSignal, DisconnectRelay, Edit, sigLocks
<1>2. slot' = slot /\ loop' = loop
  BY <1>1 DEF vars, runVars
<1>3. \E l \in Seq(Relays) : relays' = [relays EXCEPT ![s] = l]
  <2>1. CASE DisconnectSignal(t, s)
    BY <2>1, EmptySeq DEF DisconnectSignal
  <2>2. CASE \E r \in Relays : DisconnectRelay(t, s, r)
    <3>1. PICK k \in DOMAIN relays[s] : relays' = [relays EXCEPT ![s] = RemoveAt(@, k)]
      BY <2>2 DEF DisconnectRelay
    <3>2. relays[s] \in Seq(Relays)
      BY DEF SigInv, SigTypes
    <3>3. RemoveAt(relays[s], k) \in Seq(Relays)
      BY <3>1, <3>2, EraseKeeps
    <3> QED BY <3>1, <3>3
  <2> QED BY <2>1, <2>2
<1>4. SigTypes' /\ \A q \in Sigs \ {s} : relays'[q] = relays[q]
  BY <1>1, <1>3 DEF SigInv, SigTypes
<1>5. Linked' /\ Detached'
  BY <1>1, <1>2 DEF SigInv, Linked, Detached
<1>6. ASSUME NEW u \in Threads, NEW k \in DOMAIN stack[u]
      PROVE  Kept(u, k)
  <2>1. FrameOK(u, stack[u][k], sigMtx, relayMtx, relays, conn, loop)
        /\ (HoldsRelay(stack[u][k]) => stack[u][k].sig \in Sigs \ {s})
    BY <1>1, FreeLocks
  <2> QED BY <1>1, <1>2, <1>4, <2>1 DEF Kept, FrameOK
<1>7. FramesInv' /\ CallFrame'
  BY <1>1, <1>6, EditFrames
<1> QED BY <1>4, <1>5, <1>7 DEF SigInv

----------------------------------------------------------------------------
(* Emission                                                                *)

LEMMA FrameType ==
  ASSUME NEW op \in {"emit", "destroy"}, NEW s \in Sigs \cup {None},
         NEW o \in Objects \cup {None}, NEW c \in Threads \cup {None},
         NEW w \in {"sig", "next", "slots", "called", "pushing", "relays", "queue"},
         NEW n \in Nat
  PROVE  Frame(op, s, o, c, w, n) \in Frames
BY DEF Frame, Frames

LEMMA EmitCallStep ==
  ASSUME TypeOK, SigInv, NEW t \in Threads, NEW s \in Sigs, EmitCall(t, s)
  PROVE  SigInv'
<1> DEFINE f == Frame("emit", s, None, IF OwnContext THEN t ELSE SigHome[s], "sig",
                   emitted[t] + 1)
<1>1. /\ InUserCode(t) /\ Enter(t, f)
      /\ emitted' = [emitted EXCEPT ![t] = @ + 1]
      /\ UNCHANGED <<vars, sigMtx, relayMtx, relays, conn, mine, edits, ending, wave>>
  BY DEF EmitCall, MayEmit, Outside, InSlot, sigLocks, graph
<1>2. slot' = slot /\ loop' = loop
  BY <1>1 DEF vars, runVars
<1>3. (IF OwnContext THEN t ELSE SigHome[s]) \in Threads \cup {None}
      /\ emitted[t] + 1 \in Nat
  BY SignalAssumption DEF SigInv, SigTypes
<1>4. f \in Frames
  BY <1>3, FrameType
<1>5. ~HoldsSig(f) /\ FrameOK(t, f, sigMtx', relayMtx', relays', conn', loop')
  BY DEF Frame, FrameOK, HoldsSig, HoldsRelay
<1>6. stack \in [Threads -> Seq(Frames)] /\ FramesInv
  BY DEF SigInv, SigTypes
<1>7. \A u \in Threads : \A k \in DOMAIN stack[u] : Kept(u, k)
  BY <1>1, <1>2, <1>6, SameFrames
<1> HIDE DEF f
<1>8. /\ stack' \in [Threads -> Seq(Frames)] /\ FramesInv'
      /\ \A u \in Threads \ {t} : stack'[u] = stack[u]
  BY <1>1, <1>4, <1>5, <1>6, <1>7, EnterFrames
<1>9. pc[t] = "user" /\ loop[t] \in {"out", "call"}
  BY <1>1 DEF InUserCode
<1>10. CallFrame'
  BY <1>1, <1>8, <1>9, UserStep DEF SigInv
<1>11. emitted' \in [Threads -> Nat]
  BY <1>1 DEF SigInv, SigTypes
<1>12. SigTypes'
  BY <1>1, <1>8, <1>11 DEF SigInv, SigTypes
<1> QED BY <1>1, <1>2, <1>8, <1>10, <1>12 DEF SigInv, Linked, Detached

(* A step inside an emission that only moves the innermost frame, and      *)
(* takes or releases mutexes.                                              *)
LEMMA FrameStep ==
  ASSUME TypeOK, SigInv, NEW t \in Threads, NEW f \in Frames,
         Busy(t), Become(t, f), pc[t] = "user",
         UNCHANGED <<vars, graph, emitted, wave>>,
         sigMtx' \in [Sigs -> Threads \cup {None}],
         relayMtx' \in [Relays -> Threads \cup {None}],
         FrameOK(t, f, sigMtx', relayMtx', relays', conn', loop'),
         \A k \in DOMAIN stack[t] : k # 1 => Apart(f, stack[t][k]),
         \A u \in Threads : \A k \in DOMAIN stack[u] : u # t \/ k # 1 => Kept(u, k)
  PROVE  SigInv'
<1>1. stack \in [Threads -> Seq(Frames)] /\ FramesInv
  BY DEF SigInv, SigTypes
<1>2. /\ stack' \in [Threads -> Seq(Frames)] /\ FramesInv'
      /\ \A u \in Threads \ {t} : stack'[u] = stack[u]
  BY <1>1, BecomeFrames
<1>3. slot' = slot /\ loop[t] \in {"out", "call"}
  BY DEF vars, SigInv, CallFrame
<1>4. CallFrame'
  BY <1>2, <1>3, UserStep DEF SigInv
<1>5. SigTypes'
  BY <1>2 DEF SigInv, SigTypes, graph
<1> QED BY <1>2, <1>3, <1>4, <1>5 DEF SigInv, Linked, Detached, graph

LEMMA EmitLockStep ==
  ASSUME TypeOK, SigInv, NEW t \in Threads, EmitLock(t)
  PROVE  SigInv'
<1> DEFINE f == [Top(t) EXCEPT !.phase = "next"]
<1>1. /\ Busy(t) /\ Top(t).op = "emit" /\ Top(t).phase = "sig" /\ Become(t, f)
      /\ sigMtx[Top(t).sig] = None /\ sigMtx' = [sigMtx EXCEPT ![Top(t).sig] = t]
      /\ UNCHANGED <<vars, relayMtx, graph, emitted, wave>>
  BY DEF EmitLock, In, Phase
<1>2. /\ Top(t) \in Frames /\ 1 \in DOMAIN stack[t]
      /\ FrameOK(t, Top(t), sigMtx, relayMtx, relays, conn, loop)
  BY <1>1, TopFrame DEF SigInv
<1>3. /\ f \in Frames /\ f.op = "emit" /\ f.phase = "next" /\ f.sig = Top(t).sig
      /\ f.todo = Top(t).todo /\ f.sig \in Sigs
  BY <1>1, <1>2 DEF Frames, FrameOK
<1> HIDE DEF f
<1>4. pc[t] = "user"
  BY <1>1, NotInQueue DEF SigInv, In
<1>5. sigMtx'[f.sig] = t
  BY <1>1, <1>3 DEF SigInv, SigTypes
<1>6. FrameOK(t, f, sigMtx', relayMtx', relays', conn', loop')
  BY <1>1, <1>2, <1>3, <1>5 DEF FrameOK, HoldsSig, HoldsRelay
<1>7. \A k \in DOMAIN stack[t] : k # 1 => Apart(f, stack[t][k])
  BY <1>1, <1>3, FreeLocks DEF Apart, HoldsRelay
<1>8. ASSUME NEW u \in Threads, NEW k \in DOMAIN stack[u]
      PROVE  Kept(u, k)
  <2>1. FrameOK(u, stack[u][k], sigMtx, relayMtx, relays, conn, loop)
        /\ (HoldsSig(stack[u][k]) => stack[u][k].sig # f.sig)
    BY <1>1, <1>3, FreeLocks
  <2>2. UNCHANGED <<relayMtx, relays, conn, loop>>
    BY <1>1 DEF graph, vars, runVars
  <2>3. HoldsSig(stack[u][k]) => stack[u][k].op = "emit"
    BY DEF HoldsSig
  <2> QED BY <1>1, <1>3, <2>1, <2>2, <2>3 DEF Kept, FrameOK, SigInv, SigTypes
<1>9. sigMtx' \in [Sigs -> Threads \cup {None}] /\ relayMtx' \in [Relays -> Threads \cup {None}]
  BY <1>1, <1>3 DEF SigInv, SigTypes
<1> QED BY <1>1, <1>3, <1>4, <1>6, <1>7, <1>8, <1>9, FrameStep

LEMMA EmitRelayStep ==
  ASSUME TypeOK, SigInv, NEW t \in Threads, EmitRelay(t)
  PROVE  SigInv'
<1> DEFINE r == NextRelay(Top(t))
           f == [Top(t) EXCEPT !.phase = "slots", !.relay = r, !.todo = conn[r]]
<1>1. /\ Busy(t) /\ Top(t).op = "emit" /\ Top(t).phase = "next" /\ Become(t, f)
      /\ Top(t).at <= Len(relays[Top(t).sig])
      /\ relayMtx[r] = None /\ relayMtx' = [relayMtx EXCEPT ![r] = t]
      /\ UNCHANGED <<vars, sigMtx, graph, emitted, wave>>
  BY DEF EmitRelay, In, MoreRelays
<1>2. /\ Top(t) \in Frames /\ 1 \in DOMAIN stack[t]
      /\ FrameOK(t, Top(t), sigMtx, relayMtx, relays, conn, loop)
      /\ \A k \in DOMAIN stack[t] : k # 1 => Apart(Top(t), stack[t][k])
  BY <1>1, TopFrame DEF SigInv
<1>3. /\ Top(t).sig \in Sigs /\ HoldsSig(Top(t)) /\ sigMtx[Top(t).sig] = t
      /\ Top(t).at \in Nat \ {0}
  BY <1>1, <1>2 DEF FrameOK, HoldsSig, Frames
<1>4. r \in Relays /\ InSeq(r, relays[Top(t).sig])
  <2>1. relays[Top(t).sig] \in Seq(Relays)
    BY <1>3 DEF SigInv, SigTypes
  <2>2. Top(t).at \in DOMAIN relays[Top(t).sig]
    BY <1>1, <1>3, <2>1, LenProperties
  <2>3. relays[Top(t).sig][Top(t).at] \in Relays
    BY <2>1, <2>2, LenProperties
  <2> QED BY <2>2, <2>3 DEF NextRelay, InSeq
<1> HIDE DEF r
<1>5. conn[r] \subseteq Objects
  BY <1>4 DEF SigInv, SigTypes
<1>6. /\ f \in Frames /\ f.op = "emit" /\ f.phase = "slots" /\ f.sig = Top(t).sig
      /\ f.todo = conn[r] /\ f.relay = r
  BY <1>1, <1>2, <1>4, <1>5 DEF Frames
<1> HIDE DEF f
<1>7. pc[t] = "user"
  BY <1>1, NotInQueue DEF SigInv, In
<1>8. UNCHANGED <<sigMtx, relays, conn, loop>> /\ relayMtx'[r] = t
  BY <1>1, <1>4 DEF graph, vars, runVars, SigInv, SigTypes
<1>9. Reaching(f) = conn[r]
  BY <1>6 DEF Reaching
<1>10. FrameOK(t, f, sigMtx', relayMtx', relays', conn', loop')
  BY <1>2, <1>3, <1>4, <1>6, <1>8, <1>9 DEF FrameOK, HoldsSig, HoldsRelay
<1>11. \A k \in DOMAIN stack[t] : k # 1 => Apart(f, stack[t][k])
  BY <1>1, <1>2, <1>3, <1>6, FreeLocks DEF Apart, HoldsRelay, HoldsSig
<1>12. ASSUME NEW u \in Threads, NEW k \in DOMAIN stack[u]
       PROVE  Kept(u, k)
  <2>1. FrameOK(u, stack[u][k], sigMtx, relayMtx, relays, conn, loop)
        /\ (HoldsRelay(stack[u][k]) => stack[u][k].relay # r)
    BY <1>1, FreeLocks
  <2> QED BY <1>1, <1>8, <2>1 DEF Kept, FrameOK, SigInv, SigTypes
<1>13. sigMtx' \in [Sigs -> Threads \cup {None}] /\ relayMtx' \in [Relays -> Threads \cup {None}]
  BY <1>1, <1>4 DEF SigInv, SigTypes
<1> QED BY <1>1, <1>6, <1>7, <1>10, <1>11, <1>12, <1>13, FrameStep

LEMMA EmitDirectStep ==
  ASSUME TypeOK, SigInv, NEW t \in Threads, NEW o \in Objects, EmitDirect(t, o)
  PROVE  SigInv'
<1> DEFINE f == [Top(t) EXCEPT !.phase = "called", !.obj = o, !.todo = @ \ {o}]
<1>1. /\ Busy(t) /\ Top(t).op = "emit" /\ Top(t).phase = "slots" /\ Become(t, f)
      /\ o \in Top(t).todo
      /\ UNCHANGED <<vars, sigMtx, relayMtx, graph, emitted, wave>>
  BY DEF EmitDirect, In, Visit, sigLocks
<1>2. /\ Top(t) \in Frames /\ 1 \in DOMAIN stack[t]
      /\ FrameOK(t, Top(t), sigMtx, relayMtx, relays, conn, loop)
  BY <1>1, TopFrame DEF SigInv
<1>3. /\ f \in Frames /\ f.op = "emit" /\ f.phase = "called" /\ f.sig = Top(t).sig
      /\ f.todo = Top(t).todo \ {o} /\ f.obj = o /\ f.relay = Top(t).relay
  BY <1>1, <1>2 DEF Frames
<1> HIDE DEF f
<1>4. pc[t] = "user"
  BY <1>1, NotInQueue DEF SigInv, In
<1>5. UNCHANGED <<sigMtx, relayMtx, relays, conn, loop>>
  BY <1>1 DEF graph, vars, runVars
<1>6. Reaching(f) \subseteq Reaching(Top(t))
  BY <1>1, <1>3 DEF Reaching
<1>7. FrameOK(t, f, sigMtx', relayMtx', relays', conn', loop')
  BY <1>1, <1>2, <1>3, <1>5, <1>6 DEF FrameOK, HoldsSig, HoldsRelay
<1>8. \A k \in DOMAIN stack[t] : k # 1 => Apart(f, stack[t][k])
  BY <1>1, <1>3, Inherits DEF HoldsSig, HoldsRelay, SigInv
<1>9. \A u \in Threads : \A k \in DOMAIN stack[u] : Kept(u, k)
  BY <1>5, SameFrames DEF SigInv
<1>10. sigMtx' \in [Sigs -> Threads \cup {None}] /\ relayMtx' \in [Relays -> Threads \cup {None}]
  BY <1>1 DEF SigInv, SigTypes
<1> QED BY <1>1, <1>3, <1>4, <1>7, <1>8, <1>9, <1>10, FrameStep

LEMMA EmitReturnStep ==
  ASSUME TypeOK, SigInv, NEW t \in Threads, EmitReturn(t)
  PROVE  SigInv'
<1> DEFINE f == [Top(t) EXCEPT !.phase = "slots"]
<1>1. /\ Busy(t) /\ Top(t).op = "emit" /\ Top(t).phase \in {"called", "pushing"}
      /\ Become(t, f) /\ pc[t] = "user"
      /\ UNCHANGED <<vars, sigMtx, relayMtx, graph, emitted, wave>>
  BY DEF EmitReturn, In, Phase, sigLocks
<1>2. /\ Top(t) \in Frames /\ 1 \in DOMAIN stack[t]
      /\ FrameOK(t, Top(t), sigMtx, relayMtx, relays, conn, loop)
  BY <1>1, TopFrame DEF SigInv
<1>3. /\ f \in Frames /\ f.op = "emit" /\ f.phase = "slots" /\ f.sig = Top(t).sig
      /\ f.todo = Top(t).todo /\ f.relay = Top(t).relay
  BY <1>1, <1>2 DEF Frames
<1> HIDE DEF f
<1>5. UNCHANGED <<sigMtx, relayMtx, relays, conn, loop>>
  BY <1>1 DEF graph, vars, runVars
<1>6. Reaching(f) \subseteq Reaching(Top(t))
  BY <1>1, <1>3 DEF Reaching
<1>7. FrameOK(t, f, sigMtx', relayMtx', relays', conn', loop')
  BY <1>1, <1>2, <1>3, <1>5, <1>6 DEF FrameOK, HoldsSig, HoldsRelay
<1>8. \A k \in DOMAIN stack[t] : k # 1 => Apart(f, stack[t][k])
  BY <1>1, <1>3, Inherits DEF HoldsSig, HoldsRelay, SigInv
<1>9. \A u \in Threads : \A k \in DOMAIN stack[u] : Kept(u, k)
  BY <1>5, SameFrames DEF SigInv
<1>10. sigMtx' \in [Sigs -> Threads \cup {None}] /\ relayMtx' \in [Relays -> Threads \cup {None}]
  BY <1>1 DEF SigInv, SigTypes
<1> QED BY <1>1, <1>3, <1>7, <1>8, <1>9, <1>10, FrameStep

LEMMA EmitNextStep ==
  ASSUME TypeOK, SigInv, NEW t \in Threads, EmitNext(t)
  PROVE  SigInv'
<1> DEFINE f == [Top(t) EXCEPT !.phase = "next", !.at = @ + 1, !.obj = None]
<1>1. /\ Busy(t) /\ Top(t).op = "emit" /\ Top(t).phase = "slots"
      /\ Top(t).todo = {} /\ Become(t, f)
      /\ relayMtx' = [relayMtx EXCEPT ![Top(t).relay] = None]
      /\ UNCHANGED <<vars, sigMtx, graph, emitted, wave>>
  BY DEF EmitNext, In
<1>2. /\ Top(t) \in Frames /\ 1 \in DOMAIN stack[t]
      /\ FrameOK(t, Top(t), sigMtx, relayMtx, relays, conn, loop)
      /\ \A k \in DOMAIN stack[t] : k # 1 => Apart(Top(t), stack[t][k])
  BY <1>1, TopFrame DEF SigInv
<1>a. Top(t).at + 1 \in Nat \ {0}
  BY <1>2 DEF Frames
<1>3. /\ f \in Frames /\ f.op = "emit" /\ f.phase = "next" /\ f.sig = Top(t).sig
      /\ f.todo = {}
  <2>1. \A n \in Nat \ {0} :
          [Top(t) EXCEPT !.phase = "next", !.at = n, !.obj = None] \in Frames
    BY <1>1, <1>2 DEF Frames
  <2> QED BY <1>1, <1>2, <1>a, <2>1 DEF Frames
<1> HIDE DEF f
<1>4. pc[t] = "user"
  BY <1>1, NotInQueue DEF SigInv, In
<1>5. UNCHANGED <<sigMtx, relays, conn, loop>>
  BY <1>1 DEF graph, vars, runVars
<1>6. HoldsSig(Top(t)) /\ HoldsRelay(Top(t)) /\ relayMtx[Top(t).relay] = t
      /\ Top(t).relay \in Relays
  BY <1>1, <1>2 DEF FrameOK, HoldsSig, HoldsRelay
<1>7. FrameOK(t, f, sigMtx', relayMtx', relays', conn', loop')
  BY <1>2, <1>3, <1>5, <1>6 DEF FrameOK, HoldsSig, HoldsRelay
<1>8. \A k \in DOMAIN stack[t] : k # 1 => Apart(f, stack[t][k])
  BY <1>1, <1>3, <1>6, Inherits DEF HoldsRelay, SigInv
<1>9. ASSUME NEW u \in Threads, NEW k \in DOMAIN stack[u], u # t \/ k # 1
      PROVE  Kept(u, k)
  <2>1. FrameOK(u, stack[u][k], sigMtx, relayMtx, relays, conn, loop)
    BY FreeLocks
  <2>2. HoldsRelay(stack[u][k]) => stack[u][k].relay # Top(t).relay
    <3>1. CASE u # t
      BY <1>6, <2>1, <3>1 DEF FrameOK
    <3>2. CASE u = t
      BY <1>2, <1>6, <1>9, <3>2 DEF Apart
    <3> QED BY <3>1, <3>2
  <2> QED BY <1>1, <1>5, <2>1, <2>2 DEF Kept, FrameOK, SigInv, SigTypes
<1>10. sigMtx' \in [Sigs -> Threads \cup {None}] /\ relayMtx' \in [Relays -> Threads \cup {None}]
  BY <1>1, <1>6 DEF SigInv, SigTypes
<1> QED BY <1>1, <1>3, <1>4, <1>7, <1>8, <1>9, <1>10, FrameStep

LEMMA EmitDoneStep ==
  ASSUME TypeOK, SigInv, NEW t \in Threads, EmitDone(t)
  PROVE  SigInv'
<1>1. /\ Busy(t) /\ Top(t).op = "emit" /\ Top(t).phase = "next" /\ Leave(t)
      /\ sigMtx' = [sigMtx EXCEPT ![Top(t).sig] = None]
      /\ UNCHANGED <<vars, relayMtx, graph, emitted, wave>>
  BY DEF EmitDone, In
<1>2. /\ Top(t) \in Frames /\ 1 \in DOMAIN stack[t] /\ Top(t) = stack[t][1]
      /\ FrameOK(t, Top(t), sigMtx, relayMtx, relays, conn, loop)
      /\ \A k \in DOMAIN stack[t] : k # 1 => Apart(Top(t), stack[t][k])
  BY <1>1, TopFrame DEF SigInv
<1>3. pc[t] = "user" /\ loop[t] \in {"out", "call"}
  BY <1>1, NotInQueue DEF SigInv, In, CallFrame
<1>4. UNCHANGED <<relayMtx, relays, conn, loop, slot, mine, edits, ending>>
  BY <1>1 DEF graph, vars, runVars
<1>5. HoldsSig(Top(t)) /\ sigMtx[Top(t).sig] = t /\ Top(t).sig \in Sigs
  BY <1>1, <1>2 DEF FrameOK, HoldsSig
<1>6. ASSUME NEW u \in Threads, NEW k \in DOMAIN stack[u], u # t \/ k # 1
      PROVE  Kept(u, k)
  <2>1. FrameOK(u, stack[u][k], sigMtx, relayMtx, relays, conn, loop)
    BY FreeLocks
  <2>2. HoldsSig(stack[u][k]) => stack[u][k].sig # Top(t).sig
    <3>1. CASE u # t
      BY <1>5, <2>1, <3>1 DEF FrameOK
    <3>2. CASE u = t
      BY <1>2, <1>5, <1>6, <3>2 DEF Apart
    <3> QED BY <3>1, <3>2
  <2>3. HoldsSig(stack[u][k]) => stack[u][k].op = "emit"
    BY DEF HoldsSig
  <2> QED BY <1>1, <1>4, <2>1, <2>2, <2>3 DEF Kept, FrameOK, SigInv, SigTypes
<1>7. stack \in [Threads -> Seq(Frames)] /\ FramesInv
  BY DEF SigInv, SigTypes
<1>8. /\ stack' \in [Threads -> Seq(Frames)] /\ FramesInv'
      /\ \A u \in Threads \ {t} : stack'[u] = stack[u]
  BY <1>1, <1>6, <1>7, LeaveFrames
<1>9. CallFrame'
  BY <1>1, <1>3, <1>8, UserStep DEF SigInv
<1>10. sigMtx' \in [Sigs -> Threads \cup {None}]
  BY <1>1, <1>5 DEF SigInv, SigTypes
<1>11. SigTypes'
  BY <1>1, <1>4, <1>8, <1>10 DEF SigInv, SigTypes
<1> QED BY <1>4, <1>8, <1>9, <1>11 DEF SigInv, Linked, Detached

----------------------------------------------------------------------------
(* The destructor                                                          *)

LEMMA DestroyCallStep ==
  ASSUME TypeOK, SigInv, NEW t \in Threads, NEW o \in Objects, DestroyCall(t, o)
  PROVE  SigInv'
<1> DEFINE f == Frame("destroy", None, o, None, "relays", 0)
<1>1. /\ t \in Removers /\ (loop[t] = "call" => t \in NestedRemove)
      /\ InUserCode(t) /\ Enter(t, f) /\ ending' = ending \cup {o}
      /\ UNCHANGED <<vars, sigMtx, relayMtx, relays, conn, mine, edits, emitted, wave>>
  BY DEF DestroyCall, MayDestroy, Outside, InSlot, sigLocks
<1>2. slot' = slot /\ loop' = loop
  BY <1>1 DEF vars, runVars
<1>3. f \in Frames
  BY FrameType
<1>4. ~HoldsSig(f) /\ FrameOK(t, f, sigMtx', relayMtx', relays', conn', loop')
  BY <1>1, <1>2 DEF Frame, FrameOK, HoldsSig, HoldsRelay
<1>5. stack \in [Threads -> Seq(Frames)] /\ FramesInv
  BY DEF SigInv, SigTypes
<1>6. \A u \in Threads : \A k \in DOMAIN stack[u] : Kept(u, k)
  BY <1>1, <1>2, <1>5, SameFrames
<1> HIDE DEF f
<1>7. /\ stack' \in [Threads -> Seq(Frames)] /\ FramesInv'
      /\ \A u \in Threads \ {t} : stack'[u] = stack[u]
  BY <1>1, <1>3, <1>4, <1>5, <1>6, EnterFrames
<1>8. pc[t] = "user" /\ loop[t] \in {"out", "call"}
  BY <1>1 DEF InUserCode
<1>9. CallFrame'
  BY <1>1, <1>7, <1>8, UserStep DEF SigInv
<1>10. SigTypes'
  BY <1>1, <1>7 DEF SigInv, SigTypes
<1> QED BY <1>1, <1>2, <1>7, <1>9, <1>10 DEF SigInv, Linked, Detached

LEMMA DestroyRelayStep ==
  ASSUME SigInv, NEW t \in Threads, DestroyRelay(t)
  PROVE  SigInv'
<1> DEFINE o == Top(t).obj
           r == Head(mine[o])
<1>1. /\ Busy(t) /\ Top(t).op = "destroy" /\ mine[o] # <<>> /\ relayMtx[r] = None
      /\ conn' = [conn EXCEPT ![r] = @ \ {o}] /\ mine' = [mine EXCEPT ![o] = Tail(@)]
      /\ UNCHANGED <<vars, sigMtx, relayMtx, relays, edits, ending, stack, emitted, wave>>
  BY DEF DestroyRelay, In, Left, sigLocks
<1>2. o \in Objects
  BY <1>1, TopFrame DEF SigInv, FrameOK
<1> HIDE DEF o
<1>3. mine[o] \in Seq(Relays)
  BY <1>2 DEF SigInv, SigTypes
<1>4. /\ Len(mine[o]) \in Nat /\ DOMAIN mine[o] = 1 .. Len(mine[o])
      /\ r = mine[o][1] /\ r \in Relays
      /\ Tail(mine[o]) \in Seq(Relays) /\ DOMAIN Tail(mine[o]) = 1 .. Len(mine[o]) - 1
      /\ \A k \in 1 .. Len(mine[o]) - 1 : Tail(mine[o])[k] = mine[o][k + 1]
  BY <1>1, <1>3, Popped
<1>5. ASSUME NEW q \in Relays \ {r}, InSeq(q, mine[o])
      PROVE  InSeq(q, Tail(mine[o]))
  <2>1. PICK i \in 1 .. Len(mine[o]) : mine[o][i] = q
    BY <1>4, <1>5 DEF InSeq
  <2>2. i - 1 \in 1 .. Len(mine[o]) - 1 /\ (i - 1) + 1 = i
    BY <1>4, <2>1
  <2>3. i - 1 \in DOMAIN Tail(mine[o]) /\ Tail(mine[o])[i - 1] = q
    BY <1>4, <2>1, <2>2
  <2> QED BY <2>3 DEF InSeq
<1> HIDE DEF r
<1>6. slot' = slot /\ loop' = loop
  BY <1>1 DEF vars, runVars
<1>7. SigTypes'
  BY <1>1, <1>2, <1>4 DEF SigInv, SigTypes
<1>8. Linked'
  BY <1>1, <1>2, <1>5 DEF SigInv, SigTypes, Linked
<1>9. Detached'
  BY <1>1, <1>2, <1>6 DEF SigInv, SigTypes, Detached
<1>10. \A u \in Threads : \A j \in DOMAIN stack[u] : Kept(u, j)
  BY <1>1, <1>2, <1>4, <1>6, PartFrames
<1>11. FramesInv' /\ CallFrame'
  BY <1>1, <1>10, EditFrames
<1> QED BY <1>7, <1>8, <1>9, <1>11 DEF SigInv

LEMMA DestroyDoneStep ==
  ASSUME SigInv, NEW t \in Threads, DestroyDone(t)
  PROVE  SigInv'
<1>1. /\ Busy(t) /\ pc[t] = "user" /\ Leave(t)
      /\ UNCHANGED <<vars, sigMtx, relayMtx, relays, conn, mine, edits, ending,
                     emitted, wave>>
  BY DEF DestroyDone, In, sigLocks, graph
<1>2. loop' = loop /\ slot' = slot
  BY <1>1 DEF vars, runVars
<1>3. \A u \in Threads : \A k \in DOMAIN stack[u] : Kept(u, k)
  BY <1>1, <1>2, SameFrames DEF SigInv
<1>4. stack \in [Threads -> Seq(Frames)] /\ FramesInv
  BY DEF SigInv, SigTypes
<1>5. /\ stack' \in [Threads -> Seq(Frames)] /\ FramesInv'
      /\ \A u \in Threads \ {t} : stack'[u] = stack[u]
  BY <1>1, <1>3, <1>4, LeaveFrames
<1>6. loop[t] \in {"out", "call"}
  BY <1>1 DEF SigInv, CallFrame
<1>7. CallFrame'
  BY <1>1, <1>5, <1>6, UserStep DEF SigInv
<1>8. SigTypes'
  BY <1>1, <1>5 DEF SigInv, SigTypes
<1> QED BY <1>1, <1>2, <1>5, <1>7, <1>8 DEF SigInv, Linked, Detached

----------------------------------------------------------------------------
(* Calls of the queues                                                     *)

(* When the slot has left its relays nobody is pushing a call of it.       *)
LEMMA NoneOnTheWay ==
  ASSUME TypeOK, SigInv, NEW o \in Objects, mine[o] = <<>>
  PROVE  NonePushedFor(o)
<1> SUFFICES ASSUME NEW u \in Threads, msg[u] # None, msg[u].obj = o
             PROVE  FALSE
  BY DEF NonePushedFor
<1>1. pc[u] \in {"push_map", "push_queue"}
  BY DEF TypeOK
<1>2. Busy(u) /\ Top(u).phase = "pushing" /\ Top(u).obj = o
  BY <1>1 DEF SigInv, CallFrame, In
<1>3. 1 \in DOMAIN stack[u] /\ Top(u) = stack[u][1]
  BY <1>2, TopFrame DEF SigInv
<1>4. o \in Reaching(stack[u][1])
  BY <1>2, <1>3 DEF Reaching
<1> QED BY <1>3, <1>4, ReachedLives

(* ~ISlot begins to empty the queues only when it may: RemoveCall.         *)
LEMMA DestroyQueueCalls ==
  ASSUME TypeOK, SigInv, NEW t \in Threads, DestroyQueue(t)
  PROVE  Top(t).obj \in Objects /\ RemoveCall(t, Top(t).obj)
<1>1. /\ Busy(t) /\ Top(t).op = "destroy" /\ Top(t).phase = "relays"
      /\ mine[Top(t).obj] = <<>> /\ RemoveBegin(t, Top(t).obj)
  BY DEF DestroyQueue, In, Left
<1>2. FrameOK(t, Top(t), sigMtx, relayMtx, relays, conn, loop)
  BY <1>1, TopFrame DEF SigInv
<1>3. /\ Top(t).obj \in Objects /\ t \in Removers
      /\ loop[t] = "call" => t \in NestedRemove
  BY <1>1, <1>2 DEF FrameOK
<1>4. pc[t] = "user" /\ loop[t] \in {"out", "call"}
  BY <1>1, NotInQueue DEF SigInv, In, CallFrame
<1>5. NonePushedFor(Top(t).obj)
  BY <1>1, <1>3, NoneOnTheWay
<1> QED BY <1>1, <1>3, <1>4, <1>5 DEF RemoveCall, InUserCode

LEMMA DestroyQueueStep ==
  ASSUME TypeOK, SigInv, NEW t \in Threads, DestroyQueue(t)
  PROVE  SigInv'
<1> DEFINE o == Top(t).obj
           f == [Top(t) EXCEPT !.phase = "queue"]
<1>1. /\ Busy(t) /\ Top(t).op = "destroy" /\ Top(t).phase = "relays"
      /\ mine[o] = <<>> /\ Become(t, f)
      /\ slot' = [slot EXCEPT ![o] = "dying"]
      /\ pc' = [pc EXCEPT ![t] = "remove_map"]
      /\ UNCHANGED <<loop, msg, sigMtx, relayMtx, relays, conn, mine, edits, ending,
                     emitted, wave>>
  BY DEF DestroyQueue, In, Left, Phase, RemoveBegin, sigLocks, graph, runVars
<1>2. /\ Top(t) \in Frames
      /\ FrameOK(t, Top(t), sigMtx, relayMtx, relays, conn, loop)
  BY <1>1, TopFrame DEF SigInv
<1>3. /\ f \in Frames /\ f.op = "destroy" /\ f.phase = "queue" /\ f.obj = Top(t).obj
      /\ f.todo = Top(t).todo
  BY <1>1, <1>2 DEF Frames
<1> HIDE DEF f
<1>4. FrameOK(t, f, sigMtx', relayMtx', relays', conn', loop')
  BY <1>1, <1>2, <1>3 DEF FrameOK, HoldsSig, HoldsRelay
<1>5. \A k \in DOMAIN stack[t] : k # 1 => Apart(f, stack[t][k])
  BY <1>3 DEF Apart, HoldsSig, HoldsRelay
<1>6. stack \in [Threads -> Seq(Frames)] /\ FramesInv
  BY DEF SigInv, SigTypes
<1>7. \A u \in Threads : \A k \in DOMAIN stack[u] : Kept(u, k)
  BY <1>1, <1>6, SameFrames
<1>8. /\ stack' \in [Threads -> Seq(Frames)] /\ FramesInv' /\ Busy(t)' /\ Top(t)' = f
      /\ \A u \in Threads \ {t} : stack'[u] = stack[u]
  BY <1>1, <1>3, <1>4, <1>5, <1>6, <1>7, BecomeFrames
<1>9. CallFrame'
  <2>1. pc'[t] = "remove_map" /\ \A u \in Threads \ {t} : pc'[u] = pc[u]
    BY <1>1 DEF TypeOK
  <2>2. In(t, "destroy", "queue")'
    BY <1>3, <1>8 DEF In
  <2>3. loop[t] \in {"out", "call"}
    BY <1>1 DEF SigInv, CallFrame
  <2>4. ASSUME NEW u \in Threads \ {t}
        PROVE  /\ pc'[u] \in {"push_map", "push_queue"} =>
                    In(u, "emit", "pushing")' /\ Top(u)'.obj = msg'[u].obj
               /\ pc'[u] \in {"remove_map", "remove_scan", "remove_erase"} =>
                    In(u, "destroy", "queue")'
               /\ Busy(u)' => loop'[u] \in {"out", "call"}
    BY <1>1, <1>8, <2>1 DEF SigInv, CallFrame, In, Busy, Top
  <2> QED BY <1>1, <2>1, <2>2, <2>3, <2>4 DEF CallFrame
<1>10. SigTypes'
  BY <1>1, <1>8 DEF SigInv, SigTypes
<1>11. Linked' /\ Detached'
  BY <1>1 DEF SigInv, Linked, Detached, TypeOK
<1> QED BY <1>8, <1>9, <1>10, <1>11 DEF SigInv

LEMMA EmitPushStep ==
  ASSUME TypeOK, SigInv, NEW t \in Threads, NEW o \in Objects, EmitPush(t, o)
  PROVE  SigInv'
<1> DEFINE g(w) == [Top(t) EXCEPT !.phase = w, !.obj = o, !.todo = @ \ {o}]
<1>1. /\ Busy(t) /\ Top(t).op = "emit" /\ Top(t).phase = "slots" /\ o \in Top(t).todo
      /\ wave' = [wave EXCEPT ![t] = Append(@, <<Top(t).sig, Top(t).num>>)]
      /\ UNCHANGED <<sigMtx, relayMtx, relays, conn, mine, edits, ending, emitted>>
  BY DEF EmitPush, In, sigLocks, graph
<1>2. \/ PushInline(t, o) /\ Become(t, g("called"))
      \/ PushCall(t, Home[o], o) /\ Become(t, g("pushing"))
  BY DEF EmitPush, Visit
<1>3. PICK w \in {"called", "pushing"} :
        /\ Become(t, g(w))
        /\ \/ w = "called" /\ PushInline(t, o)
           \/ w = "pushing" /\ PushCall(t, Home[o], o)
  BY <1>2
<1> DEFINE f == g(w)
<1>4. UNCHANGED <<loop, slot>> /\ pc[t] = "user"
  BY <1>3 DEF PushInline, PushCall, CanPush, InUserCode, runVars
<1>5. /\ Top(t) \in Frames /\ 1 \in DOMAIN stack[t]
      /\ FrameOK(t, Top(t), sigMtx, relayMtx, relays, conn, loop)
  BY <1>1, TopFrame DEF SigInv
<1>6. /\ f \in Frames /\ f.op = "emit" /\ f.phase = w /\ f.sig = Top(t).sig
      /\ f.todo = Top(t).todo \ {o} /\ f.obj = o /\ f.relay = Top(t).relay
  BY <1>1, <1>5 DEF Frames
<1>a. Become(t, f)
  BY <1>3
<1> HIDE DEF g, f
<1>7. Reaching(f) \subseteq Reaching(Top(t))
  BY <1>1, <1>6 DEF Reaching
<1>8. FrameOK(t, f, sigMtx', relayMtx', relays', conn', loop')
  BY <1>1, <1>4, <1>5, <1>6, <1>7 DEF FrameOK, HoldsSig, HoldsRelay
<1>9. \A k \in DOMAIN stack[t] : k # 1 => Apart(f, stack[t][k])
  BY <1>1, <1>6, Inherits DEF HoldsSig, HoldsRelay, SigInv
<1>10. \A u \in Threads : \A k \in DOMAIN stack[u] : Kept(u, k)
  BY <1>1, <1>4, SameFrames DEF SigInv
<1>11. stack \in [Threads -> Seq(Frames)] /\ FramesInv
  BY DEF SigInv, SigTypes
<1>12. /\ stack' \in [Threads -> Seq(Frames)] /\ FramesInv' /\ Busy(t)' /\ Top(t)' = f
       /\ \A u \in Threads \ {t} : stack'[u] = stack[u]
  BY <1>a, <1>1, <1>6, <1>8, <1>9, <1>10, <1>11, BecomeFrames
<1>13. loop[t] \in {"out", "call"}
  BY <1>1 DEF SigInv, CallFrame
<1>14. /\ pc'[t] \in {"push_map", "push_queue"} =>
            In(t, "emit", "pushing")' /\ Top(t)'.obj = msg'[t].obj
       /\ pc'[t] \notin {"remove_map", "remove_scan", "remove_erase"}
       /\ \A u \in Threads \ {t} : pc'[u] = pc[u] /\ msg'[u] = msg[u]
  <2>1. CASE w = "called" /\ PushInline(t, o)
    <3>1. pc' = pc /\ msg' = msg
      BY <2>1 DEF PushInline, opVars
    <3> QED BY <1>4, <3>1
  <2>2. CASE w = "pushing" /\ PushCall(t, Home[o], o)
    <3>1. /\ msg' = [msg EXCEPT ![t] = NewItem(t, Home[o], o)]
          /\ pc' = [pc EXCEPT ![t] = "push_map"]
      BY <2>2 DEF PushCall
    <3>2. pc'[t] = "push_map" /\ msg'[t].obj = o
      BY <3>1 DEF TypeOK, NewItem
    <3>3. In(t, "emit", "pushing")' /\ Top(t)'.obj = o
      BY <1>6, <1>12, <2>2 DEF In
    <3> QED BY <3>1, <3>2, <3>3 DEF TypeOK
  <2> QED BY <1>3, <2>1, <2>2
<1>15. ASSUME NEW u \in Threads \ {t}
       PROVE  /\ pc'[u] \in {"push_map", "push_queue"} =>
                   In(u, "emit", "pushing")' /\ Top(u)'.obj = msg'[u].obj
              /\ pc'[u] \in {"remove_map", "remove_scan", "remove_erase"} =>
                   In(u, "destroy", "queue")'
              /\ Busy(u)' => loop'[u] \in {"out", "call"}
  BY <1>4, <1>12, <1>14 DEF SigInv, CallFrame, In, Busy, Top
<1>16. CallFrame'
  BY <1>4, <1>13, <1>14, <1>15 DEF CallFrame
<1>17. wave' \in [Threads -> Seq(Sigs \X Nat)]
  <2>1. <<Top(t).sig, Top(t).num>> \in Sigs \X Nat
    BY <1>1, <1>5 DEF FrameOK, Frames
  <2>2. wave[t] \in Seq(Sigs \X Nat)
    BY DEF SigInv, SigTypes
  <2>3. Append(wave[t], <<Top(t).sig, Top(t).num>>) \in Seq(Sigs \X Nat)
    BY <2>1, <2>2, AppendProperties
  <2> QED BY <1>1, <2>3 DEF SigInv, SigTypes
<1>18. SigTypes'
  BY <1>1, <1>12, <1>17 DEF SigInv, SigTypes
<1> QED BY <1>1, <1>4, <1>12, <1>16, <1>18 DEF SigInv, Linked, Detached

(* A step inside Push, Run or RemoveFromQueue: the frames do not move.     *)
LEMMA QueueKeeps ==
  ASSUME SigInv, UNCHANGED sigVars,
         \A u \in Threads :
           /\ pc'[u] \in {"push_map", "push_queue"} =>
                pc[u] \in {"push_map", "push_queue"} /\ msg'[u] = msg[u]
           /\ pc'[u] \in {"remove_map", "remove_scan", "remove_erase"} =>
                pc[u] \in {"remove_map", "remove_scan", "remove_erase"}
           /\ Busy(u) => loop'[u] = loop[u],
         \A o \in Objects : slot'[o] # "live" => slot[o] # "live"
  PROVE  SigInv'
<1>1. UNCHANGED <<sigMtx, relayMtx, relays, conn, mine, edits, ending, stack,
                  emitted, wave>>
  BY DEF sigVars, sigLocks, graph
<1>2. SigTypes' /\ Linked' /\ Detached'
  BY <1>1 DEF SigInv, SigTypes, Linked, Detached
<1>3. CallFrame'
  BY <1>1 DEF SigInv, CallFrame, In, Busy, Top
<1>4. FramesInv'
  <2>1. ASSUME NEW u \in Threads, NEW k \in DOMAIN stack[u]
        PROVE  FrameOK(u, stack[u][k], sigMtx, relayMtx, relays, conn, loop')
    <3>1. stack[u] \in Seq(Frames) /\ Busy(u)
      BY <2>1 DEF SigInv, SigTypes, Busy
    <3>2. FrameOK(u, stack[u][k], sigMtx, relayMtx, relays, conn, loop)
      BY DEF SigInv, FramesInv
    <3> QED BY <3>1, <3>2 DEF FrameOK
  <2> QED BY <1>1, <2>1 DEF SigInv, FramesInv
<1> QED BY <1>2, <1>3, <1>4 DEF SigInv

LEMMA QueueSteps ==
  ASSUME TypeOK, RemovalInv, SigInv, NEW t \in Threads,
         QueueStep(t) \/ \E b \in BOOLEAN : RunOnce(t, b)
  PROVE  SigInv'
<1> DEFINE Same == \A u \in Threads :
             /\ pc'[u] \in {"push_map", "push_queue"} =>
                  pc[u] \in {"push_map", "push_queue"} /\ msg'[u] = msg[u]
             /\ pc'[u] \in {"remove_map", "remove_scan", "remove_erase"} =>
                  pc[u] \in {"remove_map", "remove_scan", "remove_erase"}
             /\ Busy(u) => loop'[u] = loop[u]
           Dead == \A o \in Objects : slot'[o] # "live" => slot[o] # "live"
<1>1. UNCHANGED sigVars
  BY DEF QueueStep, RunOnce
<1>3. CASE RemoveStep(t)
  <2>1. Same
    BY <1>3 DEF RemoveStep, RemoveLock, RemoveEnter, RemoveErase, RemoveLeave,
                RemoveReturn, runVars, opVars, TypeOK
  <2>2. Dead
    <3>1. CASE RemoveReturn(t)
      <4>1. pc[t] = "remove_scan" /\ slot' = [slot EXCEPT ![victim[t]] = "dead"]
        BY <3>1 DEF RemoveReturn
      <4>2. victim[t] # None
        BY <4>1 DEF TypeOK
      <4>3. slot[victim[t]] = "dying"
        BY <4>2 DEF RemovalInv, OneDestroyer
      <4> QED BY <4>1, <4>3 DEF TypeOK
    <3>2. CASE ~RemoveReturn(t)
      BY <1>3, <3>2 DEF RemoveStep, RemoveLock, RemoveEnter, RemoveErase, RemoveLeave
    <3> QED BY <3>1, <3>2
  <2> QED BY <1>1, <2>1, <2>2, QueueKeeps
<1>4. CASE (RunStep(t) /\ ~Busy(t)) \/ \E b \in BOOLEAN : RunOnce(t, b)
  <2>1. ~Busy(t) /\ UNCHANGED <<opVars, slot>>
    BY <1>4 DEF RunStep, RunMap, RunLock, RunPop, RunEmpty, RunReturn, RunOnce, RunCall
  <2>2. \A u \in Threads \ {t} : loop'[u] = loop[u]
    BY <1>4 DEF RunStep, RunMap, RunLock, RunPop, RunEmpty, RunReturn, LeaveRun,
                RunOnce, RunCall, TypeOK
  <2>3. Same /\ Dead
    BY <2>1, <2>2 DEF opVars
  <2> QED BY <1>1, <2>3, QueueKeeps
<1>5. CASE PushStep(t)
  <2>1. Same /\ Dead
    BY <1>5 DEF PushStep, PushMap, PushQueue, runVars, TypeOK
  <2> QED BY <1>1, <2>1, QueueKeeps
<1> QED BY <1>3, <1>4, <1>5 DEF QueueStep

----------------------------------------------------------------------------
(* Together                                                                *)

(* The steps that leave the queues alone.                                  *)
LEMMA OtherSteps ==
  ASSUME NEW t \in Threads,
         \/ Begin(t) \/ EmitLock(t) \/ EmitRelay(t)
         \/ \E o \in Objects : EmitDirect(t, o)
         \/ EmitReturn(t) \/ EmitNext(t) \/ EmitDone(t)
         \/ DestroyRelay(t) \/ DestroyDone(t)
  PROVE  UNCHANGED vars
BY DEF Begin, EmitCall, DisconnectSignal, Connect, DisconnectRelay, DestroyCall,
       Join, Disconnect, EmitLock, EmitRelay, EmitDirect, EmitReturn, EmitNext,
       EmitDone, DestroyRelay, DestroyDone

(* Every step is one of InterThread, or the queues do not see it.          *)
LEMMA SigUses ==
  TypeOK /\ SigInv /\ [SigNext]_<<vars, sigVars>> => [Next]_vars
<1> SUFFICES ASSUME TypeOK, SigInv, [SigNext]_<<vars, sigVars>>
             PROVE  Next \/ UNCHANGED vars
  OBVIOUS
<1>1. ASSUME NEW t \in Threads, QueueStep(t) PROVE Next
  BY <1>1 DEF QueueStep, Next, Progress
<1>2. ASSUME NEW t \in Threads, NEW o \in Objects, EmitPush(t, o) PROVE Next
  <2>1. PushInline(t, o) \/ PushCall(t, Home[o], o)
    BY <1>2 DEF EmitPush
  <2>2. Home[o] \in Threads
    BY <1>2, SignalAssumption DEF EmitPush, IsDirect
  <2> QED BY <2>1, <2>2 DEF Next
<1>3. ASSUME NEW t \in Threads, DestroyQueue(t) PROVE Next
  BY <1>3, DestroyQueueCalls DEF Next
<1>4. ASSUME NEW t \in Threads, NEW b \in BOOLEAN, RunOnce(t, b) PROVE Next
  BY <1>4 DEF RunOnce, Next
<1>5. ASSUME NEW t \in Threads,
             \/ Begin(t) \/ EmitLock(t) \/ EmitRelay(t)
             \/ \E o \in Objects : EmitDirect(t, o)
             \/ EmitReturn(t) \/ EmitNext(t) \/ EmitDone(t)
             \/ DestroyRelay(t) \/ DestroyDone(t)
      PROVE  UNCHANGED vars
  BY <1>5, OtherSteps
<1> QED BY <1>1, <1>2, <1>3, <1>4, <1>5
        DEF SigNext, SigProgress, EmitStep, DestroyStep

LEMMA SigInvStep ==
  TypeOK /\ RemovalInv /\ SigInv /\ [SigNext]_<<vars, sigVars>> => SigInv'
<1> SUFFICES ASSUME TypeOK, RemovalInv, SigInv, [SigNext]_<<vars, sigVars>>
             PROVE  SigInv'
  OBVIOUS
<1>1. ASSUME NEW t \in Threads, Begin(t) PROVE SigInv'
  BY <1>1, EmitCallStep, DropStep, ConnectStep, DestroyCallStep, JoinStep, DisconnectStep
     DEF Begin
<1>2. ASSUME NEW t \in Threads, QueueStep(t) \/ \E b \in BOOLEAN : RunOnce(t, b)
      PROVE  SigInv'
  BY <1>2, QueueSteps
<1>3. ASSUME NEW t \in Threads, EmitStep(t) PROVE SigInv'
  BY <1>3, EmitLockStep, EmitRelayStep, EmitDirectStep, EmitPushStep, EmitReturnStep,
     EmitNextStep, EmitDoneStep DEF EmitStep
<1>4. ASSUME NEW t \in Threads, DestroyStep(t) PROVE SigInv'
  BY <1>4, DestroyRelayStep, DestroyQueueStep, DestroyDoneStep DEF DestroyStep
<1>5. CASE UNCHANGED <<vars, sigVars>>
  <2>1. UNCHANGED <<vars, sigMtx, relayMtx, relays, conn, mine, edits, ending, stack,
                    emitted, wave>>
    BY <1>5 DEF sigVars, sigLocks, graph
  <2>2. UNCHANGED <<pc, msg, loop, slot>>
    BY <2>1 DEF vars, runVars, opVars
  <2> QED BY <1>5, <2>2, QueueKeeps
<1> QED BY <1>1, <1>2, <1>3, <1>4, <1>5 DEF SigNext, SigProgress

(* The queues keep their invariants under the signals: what is proved of   *)
(* InterThread holds of them.                                              *)
THEOREM SigInvariant == SigSpec => [](TypeOK /\ LockInv /\ RemovalInv /\ SigInv)
<1> DEFINE Inv == TypeOK /\ LockInv /\ RemovalInv /\ SigInv
<1>1. SigInit => Init
  BY DEF SigInit
<1>2. SigInit => Inv
  BY <1>1, TypeInit, LockInit, RemovalInit, SigInvInit
<1>3. Inv /\ [SigNext]_<<vars, sigVars>> => Inv'
  BY SigUses, TypeStep, LockStep, RemovalStep, SigInvStep
<1> QED BY <1>2, <1>3, PTL DEF SigSpec

(* The signals use the queues as InterThread demands: in particular the    *)
(* destructor of a slot begins to empty the queues only when no push of a  *)
(* call of that slot is under way, although it asks for no such thing.     *)
THEOREM SafeUse == SigSpec => UsesQueuesSafely
<1>1. SigInit => Init
  BY DEF SigInit
<1> QED BY <1>1, SigUses, SigInvariant, PTL DEF SigSpec, UsesQueuesSafely, Spec

(* An emission never reaches a slot whose destructor has passed the relays,*)
(* whatever the functions of slots emit and destroy.                       *)
THEOREM DyingSlotNotCalled == SigSpec => []NoCallOfDyingSlot
<1>1. SigInv => NoCallOfDyingSlot
  BY ReachedLives DEF NoCallOfDyingSlot
<1> QED BY <1>1, SigInvariant, PTL

(* The variables have their types, a relay is known to its slots, and a    *)
(* thread is in Push or RemoveFromQueue only from the frame that called.   *)
THEOREM SigTypeCorrect == SigSpec => []SigTypeOK
<1>1. TypeOK /\ SigInv => SigTypeOK
  BY DEF TypeOK, SigInv, CallFrame, SigTypeOK
<1> QED BY <1>1, SigInvariant, PTL

----------------------------------------------------------------------------
(* No deadlock among slots that neither emit nor destroy                   *)

LeafSlots == Calls = {} /\ Kills = {}

(* A thread has at most one frame, and it is not in Run then.              *)
OneFrameEach ==
  \A t \in Threads :
    /\ stack[t] = <<>> \/ \E f \in Frames : stack[t] = <<f>>
    /\ Busy(t) => loop[t] = "out"

(* A thread owns the mutexes that its frame holds, and no others.          *)
Owned ==
  \A t \in Threads :
    /\ \A s \in Sigs : sigMtx[s] = t => Busy(t) /\ HoldsSig(Top(t)) /\ Top(t).sig = s
    /\ \A r \in Relays :
         relayMtx[r] = t => Busy(t) /\ HoldsRelay(Top(t)) /\ Top(t).relay = r

SigLeafInv == OneFrameEach /\ Owned

(* What a step does to the frame of its thread.                            *)
LEMMA OnlyFrame ==
  ASSUME SigTypes, OneFrameEach, NEW t \in Threads, NEW f
  PROVE  /\ Enter(t, f) /\ ~Busy(t) => stack' = [stack EXCEPT ![t] = <<f>>]
         /\ Become(t, f) /\ Busy(t) => stack' = [stack EXCEPT ![t] = <<f>>]
         /\ Leave(t) /\ Busy(t) => stack' = [stack EXCEPT ![t] = <<>>]
<1>1. stack \in [Threads -> Seq(Frames)]
  BY DEF SigTypes
<1>2. \A g : Tail(<<g>>) = <<>> /\ <<f>> \o <<>> = <<f>>
  OBVIOUS
<1>3. Busy(t) => Tail(stack[t]) = <<>>
  BY <1>2 DEF OneFrameEach, Busy
<1> QED BY <1>1, <1>2, <1>3 DEF Enter, Become, Leave, Busy

LEMMA OwnedFrame ==
  ASSUME SigTypes, SigLeafInv, NEW t \in Threads, NEW f \in Frames,
         (Enter(t, f) /\ ~Busy(t)) \/ (Become(t, f) /\ Busy(t)),
         loop[t] = "out", loop' = loop,
         \A s \in Sigs : sigMtx'[s] = t => HoldsSig(f) /\ f.sig = s,
         \A r \in Relays : relayMtx'[r] = t => HoldsRelay(f) /\ f.relay = r,
         \A u \in Threads \ {t} :
           /\ \A s \in Sigs : sigMtx'[s] = u => sigMtx[s] = u
           /\ \A r \in Relays : relayMtx'[r] = u => relayMtx[r] = u
  PROVE  SigLeafInv'
<1>1. stack \in [Threads -> Seq(Frames)]
  BY DEF SigTypes
<1>2. stack' = [stack EXCEPT ![t] = <<f>>]
  BY OnlyFrame DEF SigLeafInv
<1>3. stack'[t] = <<f>> /\ Head(<<f>>) = f /\ <<f>> # <<>>
  BY <1>1, <1>2
<1>4. \A u \in Threads \ {t} : stack'[u] = stack[u]
  BY <1>1, <1>2
<1>5. OneFrameEach'
  BY <1>3, <1>4 DEF SigLeafInv, OneFrameEach, Busy
<1>6. Owned'
  BY <1>3, <1>4 DEF SigLeafInv, Owned, Busy, Top
<1> QED BY <1>5, <1>6 DEF SigLeafInv

LEMMA OwnedLeave ==
  ASSUME SigTypes, SigLeafInv, NEW t \in Threads, Leave(t), Busy(t), loop' = loop,
         \A s \in Sigs : sigMtx'[s] # t, \A r \in Relays : relayMtx'[r] # t,
         \A u \in Threads \ {t} :
           /\ \A s \in Sigs : sigMtx'[s] = u => sigMtx[s] = u
           /\ \A r \in Relays : relayMtx'[r] = u => relayMtx[r] = u
  PROVE  SigLeafInv'
<1>1. stack \in [Threads -> Seq(Frames)]
  BY DEF SigTypes
<1>2. stack' = [stack EXCEPT ![t] = <<>>]
  BY OnlyFrame DEF SigLeafInv
<1>3. stack'[t] = <<>> /\ \A u \in Threads \ {t} : stack'[u] = stack[u]
  BY <1>1, <1>2
<1>4. OneFrameEach'
  BY <1>3 DEF SigLeafInv, OneFrameEach, Busy
<1>5. Owned'
  BY <1>3 DEF SigLeafInv, Owned, Busy, Top
<1> QED BY <1>4, <1>5 DEF SigLeafInv

(* A step that moves neither frames nor mutexes.                           *)
LEMMA OwnedSame ==
  ASSUME SigLeafInv, UNCHANGED <<stack, sigMtx, relayMtx>>,
         \A u \in Threads : Busy(u) => loop'[u] = loop[u]
  PROVE  SigLeafInv'
BY DEF SigLeafInv, OneFrameEach, Owned, Busy, Top

LEMMA LeafBegins ==
  ASSUME LeafSlots, TypeOK, SigInv, SigLeafInv, NEW t \in Threads, Begin(t)
  PROVE  SigLeafInv'
<1>a. UNCHANGED vars
  BY OtherSteps
<1>b. loop' = loop
  BY <1>a DEF vars, runVars
<1>c. ~Busy(t) => (\A s \in Sigs : sigMtx[s] # t) /\ (\A r \in Relays : relayMtx[r] # t)
  BY DEF SigLeafInv, Owned
<1>1. ASSUME NEW f \in Frames, Enter(t, f), Outside(t), UNCHANGED <<sigMtx, relayMtx>>
      PROVE  SigLeafInv'
  <2>1. ~Busy(t) /\ loop[t] = "out"
    BY <1>1 DEF Outside
  <2> QED BY <1>1, <1>b, <1>c, <2>1, OwnedFrame DEF SigInv
<1>2. ASSUME NEW s \in Sigs, EmitCall(t, s) PROVE SigLeafInv'
  <2> DEFINE f == Frame("emit", s, None, IF OwnContext THEN t ELSE SigHome[s], "sig",
                        emitted[t] + 1)
  <2>1. (IF OwnContext THEN t ELSE SigHome[s]) \in Threads \cup {None}
        /\ emitted[t] + 1 \in Nat
    BY SignalAssumption DEF SigInv, SigTypes
  <2>2. f \in Frames
    BY <2>1, FrameType
  <2>3. Enter(t, f) /\ Outside(t) /\ UNCHANGED <<sigMtx, relayMtx>>
    BY <1>2 DEF EmitCall, MayEmit, LeafSlots, sigLocks
  <2> QED BY <1>1, <2>2, <2>3
<1>3. ASSUME NEW o \in Objects, DestroyCall(t, o) PROVE SigLeafInv'
  <2> DEFINE f == Frame("destroy", None, o, None, "relays", 0)
  <2>1. f \in Frames
    BY FrameType
  <2>2. Enter(t, f) /\ Outside(t) /\ UNCHANGED <<sigMtx, relayMtx>>
    BY <1>3 DEF DestroyCall, MayDestroy, LeafSlots, sigLocks
  <2> QED BY <1>1, <2>1, <2>2
<1>4. CASE ~(\E s \in Sigs : EmitCall(t, s)) /\ ~(\E o \in Objects : DestroyCall(t, o))
  <2>1. UNCHANGED <<stack, sigMtx, relayMtx>>
    BY <1>4 DEF Begin, DisconnectSignal, Connect, DisconnectRelay, Join, Disconnect, sigLocks
  <2> QED BY <1>b, <2>1, OwnedSame
<1> QED BY <1>2, <1>3, <1>4

LEMMA LeafEmits ==
  ASSUME LeafSlots, TypeOK, SigInv, SigLeafInv, NEW t \in Threads,
         EmitStep(t) \/ DestroyStep(t)
  PROVE  SigLeafInv'
<1>a. loop' = loop
  <2>1. ASSUME NEW o \in Objects, EmitPush(t, o) PROVE loop' = loop
    BY <2>1 DEF EmitPush, PushInline, PushCall, runVars
  <2>2. CASE DestroyQueue(t)
    BY <2>2 DEF DestroyQueue, RemoveBegin, runVars
  <2>3. CASE ~DestroyQueue(t) /\ \A o \in Objects : ~EmitPush(t, o)
    <3>1. UNCHANGED vars
      BY <2>3, OtherSteps DEF EmitStep, DestroyStep
    <3> QED BY <3>1 DEF vars, runVars
  <2> QED BY <2>1, <2>2, <2>3
<1>b. Busy(t) => Top(t) \in Frames /\ loop[t] = "out"
  BY TopFrame DEF SigInv, SigLeafInv, OneFrameEach
<1>c. /\ \A s \in Sigs : sigMtx[s] = t => HoldsSig(Top(t)) /\ Top(t).sig = s
      /\ \A r \in Relays : relayMtx[r] = t => HoldsRelay(Top(t)) /\ Top(t).relay = r
  BY DEF SigLeafInv, Owned
<1>d. t # None
  BY ThreadAssumption
<1>1. CASE EmitLock(t)
  <2> DEFINE f == [Top(t) EXCEPT !.phase = "next"]
  <2>1. /\ Busy(t) /\ Top(t).op = "emit" /\ Top(t).phase = "sig" /\ Become(t, f)
        /\ sigMtx' = [sigMtx EXCEPT ![Top(t).sig] = t] /\ relayMtx' = relayMtx
    BY <1>1 DEF EmitLock, In, Phase
  <2>2. /\ f \in Frames /\ f.op = "emit" /\ f.phase = "next" /\ f.sig = Top(t).sig
    BY <1>b, <2>1 DEF Frames
  <2>3. ~HoldsSig(Top(t)) /\ ~HoldsRelay(Top(t)) /\ HoldsSig(f)
    BY <2>1, <2>2 DEF HoldsSig, HoldsRelay
  <2> HIDE DEF f
  <2>4. \A s \in Sigs : sigMtx'[s] = t => HoldsSig(f) /\ f.sig = s
    BY <1>c, <2>1, <2>2, <2>3 DEF SigInv, SigTypes
  <2>5. \A u \in Threads \ {t} : \A s \in Sigs : sigMtx'[s] = u => sigMtx[s] = u
    BY <2>1 DEF SigInv, SigTypes
  <2> QED BY <1>a, <1>b, <1>c, <2>1, <2>2, <2>3, <2>4, <2>5, OwnedFrame DEF SigInv
<1>2. CASE EmitRelay(t)
  <2> DEFINE r == NextRelay(Top(t))
             f == [Top(t) EXCEPT !.phase = "slots", !.relay = r, !.todo = conn[r]]
  <2>1. /\ Busy(t) /\ Top(t).op = "emit" /\ Top(t).phase = "next" /\ Become(t, f)
        /\ relayMtx' = [relayMtx EXCEPT ![r] = t] /\ sigMtx' = sigMtx
        /\ Top(t).at <= Len(relays[Top(t).sig])
    BY <1>2 DEF EmitRelay, In, MoreRelays
  <2>2. Top(t).sig \in Sigs /\ Top(t).at \in Nat \ {0}
    BY <1>b, <2>1, TopFrame DEF SigInv, FrameOK, Frames
  <2>3. relays[Top(t).sig] \in Seq(Relays)
    BY <2>2 DEF SigInv, SigTypes
  <2>4. r \in Relays
    BY <2>1, <2>2, <2>3, LenProperties DEF NextRelay
  <2>5. conn[r] \subseteq Objects
    BY <2>4 DEF SigInv, SigTypes
  <2> HIDE DEF r
  <2>6. /\ f \in Frames /\ f.op = "emit" /\ f.phase = "slots" /\ f.sig = Top(t).sig
        /\ f.relay = r
    BY <1>b, <2>1, <2>4, <2>5 DEF Frames
  <2>7. ~HoldsRelay(Top(t)) /\ HoldsSig(f) /\ HoldsRelay(f)
    BY <2>1, <2>6 DEF HoldsSig, HoldsRelay
  <2> HIDE DEF f
  <2>8. \A q \in Relays : relayMtx'[q] = t => HoldsRelay(f) /\ f.relay = q
    BY <1>c, <2>1, <2>6, <2>7 DEF SigInv, SigTypes
  <2>9. \A u \in Threads \ {t} : \A q \in Relays : relayMtx'[q] = u => relayMtx[q] = u
    BY <2>1 DEF SigInv, SigTypes
  <2>10. \A s \in Sigs : sigMtx'[s] = t => HoldsSig(f) /\ f.sig = s
    BY <1>c, <2>1, <2>6, <2>7
  <2> QED BY <1>a, <1>b, <2>1, <2>6, <2>8, <2>9, <2>10, OwnedFrame DEF SigInv
<1>3. ASSUME NEW f \in Frames, Busy(t), Become(t, f), UNCHANGED <<sigMtx, relayMtx>>,
             HoldsSig(Top(t)) => HoldsSig(f) /\ f.sig = Top(t).sig,
             HoldsRelay(Top(t)) => HoldsRelay(f) /\ f.relay = Top(t).relay
      PROVE  SigLeafInv'
  <2>1. loop[t] = "out"
    BY <1>3, <1>b
  <2>2. /\ \A s \in Sigs : sigMtx'[s] = t => HoldsSig(f) /\ f.sig = s
        /\ \A r \in Relays : relayMtx'[r] = t => HoldsRelay(f) /\ f.relay = r
    BY <1>3, <1>c
  <2> QED BY <1>3, <1>a, <2>1, <2>2, OwnedFrame DEF SigInv
<1>4. ASSUME NEW o \in Objects, EmitDirect(t, o) \/ EmitPush(t, o) PROVE SigLeafInv'
  <2>1. PICK w \in {"called", "pushing"} :
          Become(t, [Top(t) EXCEPT !.phase = w, !.obj = o, !.todo = @ \ {o}])
    BY <1>4 DEF EmitDirect, EmitPush, Visit
  <2>2. Busy(t) /\ Top(t).op = "emit" /\ UNCHANGED <<sigMtx, relayMtx>>
    BY <1>4 DEF EmitDirect, EmitPush, In, sigLocks
  <2> DEFINE f == [Top(t) EXCEPT !.phase = w, !.obj = o, !.todo = @ \ {o}]
  <2>3. /\ f \in Frames /\ f.op = "emit" /\ f.phase = w /\ f.sig = Top(t).sig
        /\ f.relay = Top(t).relay
    BY <1>b, <2>2 DEF Frames
  <2> QED BY <1>3, <2>1, <2>2, <2>3 DEF HoldsSig, HoldsRelay
<1>5. CASE EmitReturn(t)
  <2> DEFINE f == [Top(t) EXCEPT !.phase = "slots"]
  <2>1. /\ Busy(t) /\ Top(t).op = "emit" /\ UNCHANGED <<sigMtx, relayMtx>> /\ Become(t, f)
    BY <1>5 DEF EmitReturn, In, Phase, sigLocks
  <2>2. /\ f \in Frames /\ f.op = "emit" /\ f.phase = "slots" /\ f.sig = Top(t).sig
        /\ f.relay = Top(t).relay
    BY <1>b, <2>1 DEF Frames
  <2> QED BY <1>3, <2>1, <2>2 DEF HoldsSig, HoldsRelay
<1>6. CASE DestroyQueue(t)
  <2> DEFINE f == [Top(t) EXCEPT !.phase = "queue"]
  <2>1. /\ Busy(t) /\ Top(t).op = "destroy" /\ UNCHANGED <<sigMtx, relayMtx>> /\ Become(t, f)
    BY <1>6 DEF DestroyQueue, In, Phase, sigLocks
  <2>2. f \in Frames
    BY <1>b, <2>1 DEF Frames
  <2> QED BY <1>3, <2>1, <2>2 DEF HoldsSig, HoldsRelay
<1>7. CASE EmitNext(t)
  <2> DEFINE f == [Top(t) EXCEPT !.phase = "next", !.at = @ + 1, !.obj = None]
  <2>1. /\ Busy(t) /\ Top(t).op = "emit" /\ Top(t).phase = "slots" /\ Become(t, f)
        /\ relayMtx' = [relayMtx EXCEPT ![Top(t).relay] = None] /\ sigMtx' = sigMtx
    BY <1>7 DEF EmitNext, In
  <2>2. Top(t).at + 1 \in Nat \ {0}
    BY <1>b, <2>1 DEF Frames
  <2>3. \A n \in Nat \ {0} :
          [Top(t) EXCEPT !.phase = "next", !.at = n, !.obj = None] \in Frames
    BY <1>b, <2>1 DEF Frames
  <2>4. f \in Frames /\ f.op = "emit" /\ f.phase = "next" /\ f.sig = Top(t).sig
    BY <1>b, <2>1, <2>2, <2>3 DEF Frames
  <2> HIDE DEF f
  <2>5. \A s \in Sigs : sigMtx'[s] = t => HoldsSig(f) /\ f.sig = s
    BY <1>c, <2>1, <2>4 DEF HoldsSig
  <2>6. \A r \in Relays : relayMtx'[r] # t
    BY <1>c, <1>d, <2>1 DEF SigInv, SigTypes
  <2>7. \A u \in Threads \ {t} : \A r \in Relays : relayMtx'[r] = u => relayMtx[r] = u
    BY <2>1, ThreadAssumption DEF SigInv, SigTypes
  <2> QED BY <1>a, <1>b, <2>1, <2>4, <2>5, <2>6, <2>7, OwnedFrame DEF SigInv
<1>8. CASE EmitDone(t)
  <2>1. /\ Busy(t) /\ Top(t).op = "emit" /\ Top(t).phase = "next" /\ Leave(t)
        /\ sigMtx' = [sigMtx EXCEPT ![Top(t).sig] = None] /\ relayMtx' = relayMtx
    BY <1>8 DEF EmitDone, In
  <2>2. \A r \in Relays : relayMtx'[r] # t
    BY <1>c, <2>1 DEF HoldsRelay
  <2>3. \A s \in Sigs : sigMtx'[s] # t
    BY <1>c, <1>d, <2>1 DEF SigInv, SigTypes
  <2>4. \A u \in Threads \ {t} : \A s \in Sigs : sigMtx'[s] = u => sigMtx[s] = u
    BY <2>1, ThreadAssumption DEF SigInv, SigTypes
  <2> QED BY <1>a, <2>1, <2>2, <2>3, <2>4, OwnedLeave DEF SigInv
<1>9. CASE DestroyDone(t)
  <2>1. /\ Busy(t) /\ Top(t).op = "destroy" /\ Leave(t) /\ UNCHANGED <<sigMtx, relayMtx>>
    BY <1>9 DEF DestroyDone, In, sigLocks
  <2>2. (\A s \in Sigs : sigMtx'[s] # t) /\ (\A r \in Relays : relayMtx'[r] # t)
    BY <1>c, <2>1 DEF HoldsSig, HoldsRelay
  <2> QED BY <1>a, <2>1, <2>2, OwnedLeave DEF SigInv
<1>10. CASE DestroyRelay(t)
  BY <1>a, <1>10, OwnedSame DEF DestroyRelay, sigLocks
<1> QED BY <1>1, <1>2, <1>4, <1>5, <1>6, <1>7, <1>8, <1>9, <1>10 DEF EmitStep, DestroyStep

LEMMA LeafQueues ==
  ASSUME TypeOK, SigLeafInv, NEW t \in Threads,
         QueueStep(t) \/ \E b \in BOOLEAN : RunOnce(t, b)
  PROVE  SigLeafInv'
<1>1. UNCHANGED <<stack, sigMtx, relayMtx>>
  BY DEF QueueStep, RunOnce, sigVars, sigLocks
<1>2. CASE PushStep(t) \/ RemoveStep(t)
  <2>1. loop' = loop
    BY <1>2 DEF PushStep, PushMap, PushQueue, RemoveStep, RemoveLock, RemoveEnter,
                RemoveErase, RemoveLeave, RemoveReturn, runVars
  <2> QED BY <1>1, <2>1, OwnedSame
<1>3. CASE (RunStep(t) /\ ~Busy(t)) \/ \E b \in BOOLEAN : RunOnce(t, b)
  <2>1. ~Busy(t)
    BY <1>3 DEF RunOnce
  <2>2. \A u \in Threads \ {t} : loop'[u] = loop[u]
    BY <1>3 DEF RunStep, RunMap, RunLock, RunPop, RunEmpty, RunReturn, LeaveRun,
                RunOnce, RunCall, TypeOK
  <2> QED BY <1>1, <2>1, <2>2, OwnedSame
<1> QED BY <1>2, <1>3 DEF QueueStep

LEMMA SigLeafStep ==
  ASSUME LeafSlots, TypeOK, SigInv, SigLeafInv, [SigNext]_<<vars, sigVars>>
  PROVE  SigLeafInv'
<1>1. CASE UNCHANGED <<vars, sigVars>>
  BY <1>1, OwnedSame DEF vars, runVars, sigVars, sigLocks
<1> QED BY <1>1, LeafBegins, LeafEmits, LeafQueues DEF SigNext, SigProgress

LEMMA LeafQueueWaits ==
  ASSUME TypeOK, SigInv, SigLeafInv
  PROVE  LeafInv
<1> SUFFICES ASSUME NEW t \in Threads, pc[t] # "user" PROVE loop[t] = "out"
  BY DEF LeafInv
<1>1. Busy(t)
  BY DEF TypeOK, SigInv, CallFrame, In
<1> QED BY <1>1 DEF SigLeafInv, OneFrameEach

(* The owner of a queue or of the map waits at most for another queue.     *)
LEMMA QueueOwners ==
  ASSUME TypeOK, LockInv, SigInv, SigLeafInv, NEW t \in Threads, NEW u \in WaitsFor(t)
  PROVE  u \in Threads /\ SigWaitsFor(u) = WaitsFor(u)
<1> USE ThreadAssumption
<1>1. ASSUME NEW v \in Threads, InQueue(v) \/ pc[v] \in {"remove_scan", "remove_erase"}
      PROVE  SigWaitsFor(v) = WaitsFor(v)
  <2>1. CASE InQueue(v)
    <3>1. ~Busy(v)
      BY <2>1 DEF InQueue, SigLeafInv, OneFrameEach
    <3> QED BY <3>1 DEF SigWaitsFor, In
  <2>2. CASE pc[v] \in {"remove_scan", "remove_erase"}
    <3>1. In(v, "destroy", "queue")
      BY <2>2 DEF SigInv, CallFrame
    <3> QED BY <3>1 DEF SigWaitsFor, In
  <2> QED BY <1>1, <2>1, <2>2
<1>2. ASSUME NEW v \in Threads, NEW x \in Threads, queueMtx[x] = v
      PROVE  SigWaitsFor(v) = WaitsFor(v)
  BY <1>1, <1>2 DEF LockInv, Erasing
<1>3. ASSUME mtx \in Threads PROVE SigWaitsFor(mtx) = WaitsFor(mtx)
  BY <1>1, <1>3 DEF LockInv
<1>4. mtx = u \/ \E x \in Threads : queueMtx[x] = u
  <2>1. CASE pc[t] = "push_queue"
    <3>1. msg[t] \in Items /\ msg[t].to \in Threads
      BY <2>1 DEF TypeOK, Items
    <3> QED BY <2>1, <3>1 DEF WaitsFor, Blocked
  <2>2. CASE pc[t] = "remove_scan"
    <3>1. PICK x \in Threads : u \in Blocked(t, queueMtx[x])
      BY <2>2 DEF WaitsFor
    <3> QED BY <3>1 DEF Blocked
  <2>3. CASE pc[t] \notin {"push_queue", "remove_scan"}
    BY <2>3 DEF WaitsFor, Blocked, TypeOK
  <2> QED BY <2>1, <2>2, <2>3
<1>5. u \in Threads
  BY WaitChain, LeafQueueWaits
<1> QED BY <1>2, <1>3, <1>4, <1>5

(* A thread waits for the queues, or for the owner of a relay, who waits   *)
(* for the queues at most, or for the owner of a signal, who waits for the *)
(* queues or the owner of a relay at most.                                 *)
LEMMA RelayOwner ==
  ASSUME SigInv, SigLeafInv, NEW r \in Relays, NEW u \in Blocked(r, relayMtx[r])
  PROVE  u \in Threads /\ SigWaitsFor(u) = WaitsFor(u)
<1>1. u \in Threads /\ relayMtx[r] = u
  BY DEF Blocked, SigInv, SigTypes
<1>2. Busy(u) /\ HoldsRelay(Top(u))
  BY <1>1 DEF SigLeafInv, Owned
<1> QED BY <1>1, <1>2 DEF HoldsRelay, SigWaitsFor, In

RelayWait(t) == \E r \in Relays : SigWaitsFor(t) = Blocked(t, relayMtx[r])
SigWait(t) == \E s \in Sigs : SigWaitsFor(t) = Blocked(t, sigMtx[s])

LEMMA WaitKinds ==
  ASSUME SigInv, NEW t \in Threads
  PROVE  \/ SigWaitsFor(t) = WaitsFor(t)
         \/ RelayWait(t)
         \/ SigWait(t) /\ In(t, "emit", "sig")
<1>1. Busy(t) => /\ Top(t) \in Frames
                 /\ FrameOK(t, Top(t), sigMtx, relayMtx, relays, conn, loop)
  BY TopFrame DEF SigInv
<1>2. CASE In(t, "emit", "sig")
  BY <1>1, <1>2 DEF In, FrameOK, SigWait, SigWaitsFor
<1>3. CASE In(t, "emit", "next") /\ MoreRelays(Top(t))
  <2>1. /\ Top(t).sig \in Sigs /\ Top(t).at \in Nat \ {0}
        /\ Top(t).at <= Len(relays[Top(t).sig])
    BY <1>1, <1>3 DEF In, FrameOK, Frames, MoreRelays
  <2>2. relays[Top(t).sig] \in Seq(Relays)
    BY <2>1 DEF SigInv, SigTypes
  <2>3. NextRelay(Top(t)) \in Relays
    BY <2>1, <2>2, LenProperties DEF NextRelay
  <2>4. SigWaitsFor(t) = Blocked(t, relayMtx[NextRelay(Top(t))])
    BY <1>3 DEF SigWaitsFor, In
  <2> QED BY <2>3, <2>4 DEF RelayWait
<1>4. CASE In(t, "destroy", "relays") /\ Left(Top(t)) # <<>>
  <2>1. Top(t).obj \in Objects
    BY <1>1, <1>4 DEF In, FrameOK
  <2>2. mine[Top(t).obj] \in Seq(Relays)
    BY <2>1 DEF SigInv, SigTypes
  <2>3. Head(Left(Top(t))) \in Relays
    BY <1>4, <2>2, Popped DEF Left
  <2>4. SigWaitsFor(t) = Blocked(t, relayMtx[Head(Left(Top(t)))])
    BY <1>4 DEF SigWaitsFor, In
  <2> QED BY <2>3, <2>4 DEF RelayWait
<1>5. CASE /\ ~In(t, "emit", "sig") /\ ~(In(t, "emit", "next") /\ MoreRelays(Top(t)))
           /\ ~(In(t, "destroy", "relays") /\ Left(Top(t)) # <<>>)
  BY <1>5 DEF SigWaitsFor
<1> QED BY <1>2, <1>3, <1>4, <1>5

LEMMA LeafNoDeadlock ==
  ASSUME TypeOK, LockInv, SigInv, SigLeafInv
  PROVE  SignalsNoDeadlock
<1> SUFFICES ASSUME NEW S \in SUBSET Threads, S # {},
                    \A t \in S : SigWaitsFor(t) \cap S # {}
             PROVE  FALSE
  BY DEF SignalsNoDeadlock
<1>1. ASSUME NEW t \in S, SigWaitsFor(t) = WaitsFor(t) PROVE FALSE
  <2>1. PICK u \in S : u \in WaitsFor(t)
    BY <1>1
  <2>2. SigWaitsFor(u) = WaitsFor(u)
    BY <2>1, QueueOwners
  <2>3. PICK v \in S : v \in WaitsFor(u)
    BY <2>2
  <2>4. SigWaitsFor(v) = WaitsFor(v)
    BY <2>3, QueueOwners
  <2>5. WaitsFor(v) = {}
    BY <2>1, <2>3, LeafQueueWaits, WaitChain
  <2> QED BY <2>4, <2>5
<1>2. ASSUME NEW t \in S, RelayWait(t) PROVE FALSE
  <2>1. PICK r \in Relays : SigWaitsFor(t) = Blocked(t, relayMtx[r])
    BY <1>2 DEF RelayWait
  <2>2. PICK u \in S : u \in Blocked(r, relayMtx[r])
    BY <2>1 DEF Blocked
  <2> QED BY <1>1, <2>2, RelayOwner
<1>3. ASSUME NEW t \in S, SigWait(t) PROVE FALSE
  <2>1. PICK s \in Sigs : SigWaitsFor(t) = Blocked(t, sigMtx[s])
    BY <1>3 DEF SigWait
  <2>2. PICK u \in S : sigMtx[s] = u
    BY <2>1 DEF Blocked
  <2>3. HoldsSig(Top(u))
    BY <2>2 DEF SigLeafInv, Owned
  <2>4. ~In(u, "emit", "sig")
    BY <2>3 DEF In, HoldsSig
  <2> QED BY <1>1, <1>2, <2>4, WaitKinds
<1>4. PICK t \in S : TRUE
  OBVIOUS
<1> QED BY <1>1, <1>2, <1>3, WaitKinds

(* When slots neither emit nor destroy, no set of threads, however large,  *)
(* waits for mutexes of signals, relays and queues that only its own       *)
(* members can let go; with the types, which need no such condition.       *)
THEOREM LeafSlotsSound ==
  ASSUME LeafSlots
  PROVE  SigSpec => []SignalsSound
<1>1. SigInit => SigLeafInv
  BY ThreadAssumption DEF SigInit, Init, SigLeafInv, OneFrameEach, Owned, Busy
<1>2. TypeOK /\ SigInv /\ SigLeafInv /\ [SigNext]_<<vars, sigVars>> => SigLeafInv'
  BY SigLeafStep
<1>3. TypeOK /\ LockInv /\ SigInv /\ SigLeafInv => SignalsNoDeadlock
  BY LeafNoDeadlock
<1> QED BY <1>1, <1>2, <1>3, SigInvariant, SigTypeCorrect, PTL DEF SigSpec, SignalsSound


----------------------------------------------------------------------------
(* Emissions that pass the Context of their own thread                     *)

(* A frame of an emission has the context of its thread, and calls only    *)
(* slots of that thread.                                                   *)
HomeFrame(t, f) ==
  /\ f.op = "emit" => f.ctx = t
  /\ f.phase = "called" => Home[f.obj] \in {None, t}

HomeFrames == \A t \in Threads : \A k \in DOMAIN stack[t] : HomeFrame(t, stack[t][k])

(* A call is pushed to the thread of its slot.                             *)
HomeItems ==
  \A t \in Threads :
    /\ msg[t] # None => Home[msg[t].obj] = msg[t].to
    /\ \A k \in DOMAIN queue[t] : Home[queue[t][k].obj] = t
    /\ \A k \in DOMAIN log[t] : Home[log[t][k].obj] = t

HomeInv == HomeFrames /\ HomeItems

(* A frame of the next state was there before, or is the one of the step.  *)
Becomes(t, f) == Enter(t, f) \/ (Busy(t) /\ (Become(t, f) \/ Leave(t)))

LEMMA NewFrames ==
  ASSUME SigTypes, NEW t \in Threads, NEW f \in Frames, Becomes(t, f),
         NEW u \in Threads, NEW k \in DOMAIN stack'[u]
  PROVE  \/ u = t /\ stack'[u][k] = f
         \/ \E j \in DOMAIN stack[u] : stack'[u][k] = stack[u][j]
<1>1. stack[t] \in Seq(Frames) /\ stack \in [Threads -> Seq(Frames)]
  BY DEF SigTypes
<1>2. CASE u # t
  BY <1>1, <1>2 DEF Becomes, Enter, Become, Leave
<1>3. CASE u = t /\ Enter(t, f)
  <2>1. stack'[t] = <<f>> \o stack[t]
    BY <1>1, <1>3 DEF Enter
  <2>2. /\ Len(stack[t]) \in Nat /\ DOMAIN stack[t] = 1 .. Len(stack[t])
        /\ DOMAIN stack'[t] = 1 .. Len(stack[t]) + 1 /\ stack'[t][1] = f
        /\ \A i \in 1 .. Len(stack[t]) : stack'[t][i + 1] = stack[t][i]
    BY <1>1, <2>1, Pushed
  <2>3. CASE k = 1
    BY <1>3, <2>2, <2>3
  <2>4. CASE k # 1
    <3>1. k - 1 \in DOMAIN stack[t] /\ (k - 1) + 1 = k
      BY <1>3, <2>2, <2>4
    <3>2. stack'[u][k] = stack[u][k - 1]
      BY <1>3, <2>2, <3>1
    <3> QED BY <1>3, <3>1, <3>2
  <2> QED BY <2>3, <2>4
<1>4. CASE u = t /\ Busy(t) /\ Become(t, f)
  <2>1. stack'[t] = <<f>> \o Tail(stack[t]) /\ stack[t] # <<>>
    BY <1>1, <1>4 DEF Become, Busy
  <2>2. /\ DOMAIN stack'[t] = DOMAIN stack[t] /\ stack'[t][1] = f
        /\ \A i \in DOMAIN stack[t] : i # 1 => stack'[t][i] = stack[t][i]
    BY <1>1, <2>1, Changed
  <2> QED BY <1>4, <2>2
<1>5. CASE u = t /\ Busy(t) /\ Leave(t)
  <2>1. stack'[t] = Tail(stack[t]) /\ stack[t] # <<>>
    BY <1>1, <1>5 DEF Leave, Busy
  <2>2. /\ Len(stack[t]) \in Nat /\ DOMAIN stack[t] = 1 .. Len(stack[t])
        /\ DOMAIN stack'[t] = 1 .. Len(stack[t]) - 1
        /\ \A i \in 1 .. Len(stack[t]) - 1 : stack'[t][i] = stack[t][i + 1]
    BY <1>1, <2>1, Popped
  <2>3. k + 1 \in DOMAIN stack[t] /\ stack'[u][k] = stack[u][k + 1]
    BY <1>5, <2>2
  <2> QED BY <1>5, <2>3
<1> QED BY <1>2, <1>3, <1>4, <1>5 DEF Becomes

(* What a step does to the stack of its thread: a frame leaves, one of a   *)
(* destructor begins or goes on, an emission begins, or one goes on and    *)
(* keeps its signal, its number and its context.                           *)
Leaves(t) == Busy(t) /\ Leave(t)
Destroys(t, f) == Becomes(t, f) /\ f.op = "destroy" /\ f.phase # "called"
Emits(t, f) ==
  /\ Enter(t, f)
  /\ f.op = "emit" /\ f.phase = "sig" /\ (OwnContext => f.ctx = t)
  /\ f.num = emitted[t] + 1 /\ emitted' = [emitted EXCEPT ![t] = f.num]
GoesOn(t, f) ==
  /\ Busy(t) /\ Become(t, f) /\ emitted' = emitted
  /\ Top(t).op = "emit" /\ f.op = "emit" /\ f.sig = Top(t).sig
  /\ f.num = Top(t).num /\ f.ctx = Top(t).ctx
  /\ HoldsSig(f)
  /\ f.phase = "called" => IsDirect(Top(t), f.obj) \/ Home[f.obj] = t

LEMMA StepFrame ==
  ASSUME TypeOK, SigInv, NEW t \in Threads,
         Begin(t) \/ EmitStep(t) \/ DestroyStep(t)
  PROVE  \/ UNCHANGED <<stack, emitted>>
         \/ Leaves(t) /\ emitted' = emitted
         \/ \E f \in Frames : Destroys(t, f) /\ emitted' = emitted
         \/ \E f \in Frames : Emits(t, f)
         \/ \E f \in Frames : GoesOn(t, f)
<1> DEFINE Goal ==
             \/ UNCHANGED <<stack, emitted>>
             \/ Leaves(t) /\ emitted' = emitted
             \/ \E f \in Frames : Destroys(t, f) /\ emitted' = emitted
             \/ \E f \in Frames : Emits(t, f)
             \/ \E f \in Frames : GoesOn(t, f)
<1>a. Busy(t) => Top(t) \in Frames
  BY TopFrame DEF SigInv
<1>1. ASSUME NEW s \in Sigs, EmitCall(t, s) PROVE Goal
  <2> DEFINE f == Frame("emit", s, None, IF OwnContext THEN t ELSE SigHome[s], "sig",
                        emitted[t] + 1)
  <2>1. (IF OwnContext THEN t ELSE SigHome[s]) \in Threads \cup {None}
        /\ emitted[t] + 1 \in Nat
    BY SignalAssumption DEF SigInv, SigTypes
  <2>2. f \in Frames
    BY <2>1, FrameType
  <2>3. Enter(t, f) /\ emitted' = [emitted EXCEPT ![t] = emitted[t] + 1]
    BY <1>1 DEF EmitCall
  <2>4. /\ f.op = "emit" /\ f.phase = "sig" /\ f.num = emitted[t] + 1
        /\ (OwnContext => f.ctx = t)
    BY DEF Frame
  <2> QED BY <2>2, <2>3, <2>4 DEF Emits
<1>2. ASSUME NEW o \in Objects, DestroyCall(t, o) PROVE Goal
  <2> DEFINE f == Frame("destroy", None, o, None, "relays", 0)
  <2>1. f \in Frames
    BY FrameType
  <2>2. Enter(t, f) /\ emitted' = emitted
    BY <1>2 DEF DestroyCall
  <2>3. f.op = "destroy" /\ f.phase # "called"
    BY DEF Frame
  <2> QED BY <2>1, <2>2, <2>3 DEF Destroys, Becomes
<1>3. CASE DestroyQueue(t)
  <2> DEFINE f == [Top(t) EXCEPT !.phase = "queue"]
  <2>1. Busy(t) /\ Top(t).op = "destroy" /\ Become(t, f) /\ emitted' = emitted
    BY <1>3 DEF DestroyQueue, In, Phase
  <2>2. f \in Frames /\ f.op = "destroy" /\ f.phase # "called"
    BY <1>a, <2>1 DEF Frames
  <2> QED BY <2>1, <2>2 DEF Destroys, Becomes
<1>4. CASE EmitLock(t) \/ EmitReturn(t)
  <2>1. PICK w \in {"next", "slots"} :
          Become(t, [Top(t) EXCEPT !.phase = w])
    BY <1>4 DEF EmitLock, EmitReturn, Phase
  <2>2. Busy(t) /\ Top(t).op = "emit" /\ emitted' = emitted
    BY <1>4 DEF EmitLock, EmitReturn, In
  <2> DEFINE f == [Top(t) EXCEPT !.phase = w]
  <2>3. /\ f \in Frames /\ f.op = "emit" /\ f.phase = w /\ f.sig = Top(t).sig
        /\ f.num = Top(t).num /\ f.ctx = Top(t).ctx
    BY <1>a, <2>2 DEF Frames
  <2> QED BY <2>1, <2>2, <2>3 DEF GoesOn, HoldsSig
<1>5. CASE EmitRelay(t)
  <2> DEFINE r == NextRelay(Top(t))
             f == [Top(t) EXCEPT !.phase = "slots", !.relay = r, !.todo = conn[r]]
  <2>1. /\ Busy(t) /\ Top(t).op = "emit" /\ Top(t).phase = "next" /\ Become(t, f)
        /\ emitted' = emitted /\ Top(t).at <= Len(relays[Top(t).sig])
    BY <1>5 DEF EmitRelay, In, MoreRelays
  <2>2. Top(t).sig \in Sigs /\ Top(t).at \in Nat \ {0}
    BY <1>a, <2>1, TopFrame DEF SigInv, FrameOK, Frames
  <2>3. relays[Top(t).sig] \in Seq(Relays)
    BY <2>2 DEF SigInv, SigTypes
  <2>4. r \in Relays
    BY <2>1, <2>2, <2>3, LenProperties DEF NextRelay
  <2>5. conn[r] \subseteq Objects
    BY <2>4 DEF SigInv, SigTypes
  <2> HIDE DEF r
  <2>6. /\ f \in Frames /\ f.op = "emit" /\ f.phase = "slots" /\ f.sig = Top(t).sig
        /\ f.num = Top(t).num /\ f.ctx = Top(t).ctx
    BY <1>a, <2>1, <2>4, <2>5 DEF Frames
  <2> QED BY <2>1, <2>6 DEF GoesOn, HoldsSig
<1>6. ASSUME NEW o \in Objects, EmitDirect(t, o) \/ EmitPush(t, o) PROVE Goal
  <2>1. PICK w \in {"called", "pushing"} :
          /\ Become(t, [Top(t) EXCEPT !.phase = w, !.obj = o, !.todo = @ \ {o}])
          /\ w = "called" => IsDirect(Top(t), o) \/ Home[o] = t
    BY <1>6 DEF EmitDirect, EmitPush, Visit
  <2>2. Busy(t) /\ Top(t).op = "emit" /\ emitted' = emitted
    BY <1>6 DEF EmitDirect, EmitPush, In
  <2> DEFINE f == [Top(t) EXCEPT !.phase = w, !.obj = o, !.todo = @ \ {o}]
  <2>3. /\ f \in Frames /\ f.op = "emit" /\ f.phase = w /\ f.sig = Top(t).sig
        /\ f.num = Top(t).num /\ f.ctx = Top(t).ctx /\ f.obj = o
    BY <1>a, <2>2 DEF Frames
  <2> QED BY <2>1, <2>2, <2>3 DEF GoesOn, HoldsSig
<1>7. CASE EmitNext(t)
  <2> DEFINE f == [Top(t) EXCEPT !.phase = "next", !.at = @ + 1, !.obj = None]
  <2>1. Busy(t) /\ Top(t).op = "emit" /\ Become(t, f) /\ emitted' = emitted
    BY <1>7 DEF EmitNext, In
  <2>2. Top(t).at + 1 \in Nat \ {0}
    BY <1>a, <2>1 DEF Frames
  <2>3. \A n \in Nat \ {0} :
          [Top(t) EXCEPT !.phase = "next", !.at = n, !.obj = None] \in Frames
    BY <1>a, <2>1 DEF Frames
  <2>4. /\ f \in Frames /\ f.op = "emit" /\ f.phase = "next" /\ f.sig = Top(t).sig
        /\ f.num = Top(t).num /\ f.ctx = Top(t).ctx
    BY <1>a, <2>1, <2>2, <2>3 DEF Frames
  <2> QED BY <2>1, <2>4 DEF GoesOn, HoldsSig
<1>8. CASE EmitDone(t) \/ DestroyDone(t)
  BY <1>8 DEF EmitDone, DestroyDone, In, Leaves
<1>9. CASE DestroyRelay(t)
  BY <1>9 DEF DestroyRelay
<1>10. CASE Begin(t)
  <2>1. CASE \E s \in Sigs : EmitCall(t, s)
    BY <1>1, <2>1
  <2>2. CASE \E o \in Objects : DestroyCall(t, o)
    BY <1>2, <2>2
  <2>3. CASE ~(\E s \in Sigs : EmitCall(t, s)) /\ ~(\E o \in Objects : DestroyCall(t, o))
    BY <1>10, <2>3 DEF Begin, DisconnectSignal, Connect, DisconnectRelay, Join, Disconnect
  <2> QED BY <2>1, <2>2, <2>3
<1> QED BY <1>3, <1>4, <1>5, <1>6, <1>7, <1>8, <1>9, <1>10 DEF EmitStep, DestroyStep

(* Where the callbacks in the queues and the logs come from.               *)
LEMMA ItemMoves ==
  ASSUME TypeOK, NEW t \in Threads, PushStep(t) \/ RemoveStep(t) \/ RunStep(t),
         NEW u \in Threads
  PROVE  /\ \A k \in DOMAIN queue'[u] :
              \/ \E j \in DOMAIN queue[u] : queue'[u][k] = queue[u][j]
              \/ msg[t] # None /\ msg[t].to = u /\ queue'[u][k] = msg[t]
         /\ \A k \in DOMAIN log'[u] :
              \/ \E j \in DOMAIN log[u] : log'[u][k] = log[u][j]
              \/ \E j \in DOMAIN queue[u] : log'[u][k] = queue[u][j]
         /\ msg'[u] = msg[u] \/ msg'[u] = None
<1>0. queue[u] \in Seq(Items) /\ log[u] \in Seq(Items)
  BY DEF TypeOK
<1>1. CASE PushQueue(t)
  <2>1. /\ queue' = [queue EXCEPT ![msg[t].to] = Append(@, msg[t])]
        /\ pc[t] = "push_queue" /\ msg' = [msg EXCEPT ![t] = None] /\ log' = log
    BY <1>1 DEF PushQueue, history
  <2>2. msg[t] # None /\ msg[t] \in Items /\ msg[t].to \in Threads
    BY <2>1 DEF TypeOK, Items
  <2>3. CASE msg[t].to = u
    <3>1. queue'[u] = Append(queue[u], msg[t])
      BY <2>1, <2>3 DEF TypeOK
    <3>2. /\ Len(queue[u]) \in Nat /\ DOMAIN queue[u] = 1 .. Len(queue[u])
          /\ queue'[u] \in Seq(Items) /\ Len(queue'[u]) = Len(queue[u]) + 1
          /\ \A i \in 1 .. Len(queue[u]) : queue'[u][i] = queue[u][i]
          /\ queue'[u][Len(queue[u]) + 1] = msg[t]
      BY <1>0, <2>2, <3>1, LenProperties, AppendProperties
    <3>3. DOMAIN queue'[u] = 1 .. Len(queue[u]) + 1
      BY <3>2, LenProperties
    <3>4. \A k \in DOMAIN queue'[u] : k \in 1 .. Len(queue[u]) \/ k = Len(queue[u]) + 1
      BY <3>2, <3>3
    <3> QED BY <2>1, <2>2, <2>3, <3>2, <3>4 DEF TypeOK
  <2>4. CASE msg[t].to # u
    <3>1. queue'[u] = queue[u]
      BY <2>1, <2>4 DEF TypeOK
    <3> QED BY <2>1, <3>1 DEF TypeOK
  <2> QED BY <2>3, <2>4
<1>2. CASE RunPop(t)
  <2>1. /\ queue[t] # <<>> /\ queue' = [queue EXCEPT ![t] = Tail(@)]
        /\ log' = [log EXCEPT ![t] = Append(@, Head(queue[t]))] /\ msg' = msg
    BY <1>2 DEF RunPop, opVars
  <2>2. CASE u = t
    <3>1. queue'[u] = Tail(queue[u]) /\ log'[u] = Append(log[u], Head(queue[u]))
          /\ queue[u] # <<>>
      BY <2>1, <2>2 DEF TypeOK
    <3>2. /\ Len(queue[u]) \in Nat /\ DOMAIN queue[u] = 1 .. Len(queue[u])
          /\ 1 \in DOMAIN queue[u] /\ Head(queue[u]) = queue[u][1]
          /\ Head(queue[u]) \in Items
          /\ DOMAIN queue'[u] = 1 .. Len(queue[u]) - 1
          /\ \A k \in 1 .. Len(queue[u]) - 1 : queue'[u][k] = queue[u][k + 1]
      BY <1>0, <3>1, Popped
    <3>3. \A k \in DOMAIN queue'[u] : k + 1 \in DOMAIN queue[u]
      BY <3>2
    <3>4. /\ Len(log[u]) \in Nat /\ DOMAIN log[u] = 1 .. Len(log[u])
          /\ log'[u] \in Seq(Items) /\ Len(log'[u]) = Len(log[u]) + 1
          /\ \A i \in 1 .. Len(log[u]) : log'[u][i] = log[u][i]
          /\ log'[u][Len(log[u]) + 1] = Head(queue[u])
      BY <1>0, <3>1, <3>2, LenProperties, AppendProperties
    <3>5. DOMAIN log'[u] = 1 .. Len(log[u]) + 1
      BY <3>4, LenProperties
    <3>6. \A k \in DOMAIN log'[u] : k \in DOMAIN log[u] \/ k = Len(log[u]) + 1
      BY <3>4, <3>5
    <3> QED BY <2>1, <3>2, <3>3, <3>4, <3>6
  <2>3. CASE u # t
    BY <2>1, <2>3 DEF TypeOK
  <2> QED BY <2>2, <2>3
<1>3. ASSUME NEW v \in Threads, RemoveErase(t, v)
      PROVE  /\ \A k \in DOMAIN queue'[u] :
                  \E j \in DOMAIN queue[u] : queue'[u][k] = queue[u][j]
             /\ log' = log /\ msg' = msg
  <2>1. PICK k \in DOMAIN queue[v] : queue' = [queue EXCEPT ![v] = RemoveAt(@, k)]
    BY <1>3 DEF RemoveErase
  <2>2. log' = log /\ msg' = msg
    BY <1>3 DEF RemoveErase, history, opVars
  <2>3. CASE u = v
    <3>1. queue'[u] = RemoveAt(queue[u], k) /\ k \in DOMAIN queue[u]
      BY <2>1, <2>3 DEF TypeOK
    <3>2. /\ DOMAIN RemoveAt(queue[u], k) = 1 .. Len(queue[u]) - 1
          /\ \A j \in 1 .. Len(queue[u]) - 1 :
               /\ Before(j, k) \in DOMAIN queue[u]
               /\ RemoveAt(queue[u], k)[j] = queue[u][Before(j, k)]
      BY <1>0, <3>1, EraseElements
    <3> QED BY <2>2, <3>1, <3>2
  <2>4. CASE u # v
    BY <2>1, <2>2, <2>4 DEF TypeOK
  <2> QED BY <2>3, <2>4
<1>4. CASE UNCHANGED <<queue, log, msg>>
  BY <1>4
<1>5. CASE PushMap(t) \/ RunMap(t) \/ RunLock(t) \/ RunEmpty(t) \/ RunReturn(t)
  BY <1>4, <1>5 DEF PushMap, RunMap, RunLock, RunEmpty, RunReturn, opVars, history
<1>6. CASE \/ RemoveLock(t) \/ RemoveReturn(t)
           \/ \E v \in Threads : RemoveEnter(t, v) \/ RemoveLeave(t, v)
  BY <1>4, <1>6 DEF RemoveLock, RemoveReturn, RemoveEnter, RemoveLeave, history
<1> QED BY <1>1, <1>2, <1>3, <1>5, <1>6 DEF PushStep, RemoveStep, RunStep

(* With its own context an emission pushes only to other threads.          *)
LEMMA PushesAway ==
  ASSUME OwnContext, TypeOK, SigInv, HomeInv,
         NEW t \in Threads, NEW o \in Objects, EmitPush(t, o)
  PROVE  /\ Home[o] \in Threads /\ PushCall(t, Home[o], o)
         /\ Busy(t) /\ HoldsRelay(Top(t)) /\ HoldsSig(Top(t))
         /\ Become(t, [Top(t) EXCEPT !.phase = "pushing", !.obj = o, !.todo = @ \ {o}])
<1>1. /\ Busy(t) /\ Top(t).op = "emit" /\ Top(t).phase = "slots" /\ ~IsDirect(Top(t), o)
  BY DEF EmitPush, In
<1>2. Top(t).ctx = t
  BY <1>1, TopFrame DEF SigInv, HomeInv, HomeFrames, HomeFrame
<1>3. Home[o] # None /\ Home[o] # t /\ Home[o] \in Threads
  BY <1>1, <1>2, SignalAssumption DEF IsDirect
<1> QED BY <1>1, <1>3 DEF EmitPush, Visit, HoldsRelay, HoldsSig

LEMMA HomeFramesStep ==
  ASSUME OwnContext, TypeOK, SigInv, HomeInv, [SigNext]_<<vars, sigVars>>
  PROVE  HomeFrames'
<1>1. ASSUME UNCHANGED stack PROVE HomeFrames'
  BY <1>1 DEF HomeInv, HomeFrames
<1>2. ASSUME NEW t \in Threads, NEW f \in Frames, Becomes(t, f), HomeFrame(t, f)
      PROVE  HomeFrames'
  <2> SUFFICES ASSUME NEW u \in Threads, NEW k \in DOMAIN stack'[u]
               PROVE  HomeFrame(u, stack'[u][k])
    BY DEF HomeFrames
  <2> QED BY <1>2, NewFrames DEF SigInv, HomeInv, HomeFrames
<1>3. ASSUME NEW t \in Threads, Begin(t) \/ EmitStep(t) \/ DestroyStep(t)
      PROVE  HomeFrames'
  <2>1. CASE UNCHANGED <<stack, emitted>>
    BY <1>1, <2>1
  <2>2. CASE Leaves(t)
    <3>1. /\ Top(t) \in Frames /\ Becomes(t, Top(t)) /\ HomeFrame(t, Top(t))
      BY <2>2, TopFrame DEF Leaves, Becomes, SigInv, HomeInv, HomeFrames
    <3> QED BY <1>2, <3>1
  <2>3. ASSUME NEW f \in Frames, Destroys(t, f) PROVE HomeFrames'
    BY <1>2, <2>3 DEF Destroys, HomeFrame
  <2>4. ASSUME NEW f \in Frames, Emits(t, f) PROVE HomeFrames'
    BY <1>2, <2>4 DEF Emits, Becomes, HomeFrame
  <2>5. ASSUME NEW f \in Frames, GoesOn(t, f) PROVE HomeFrames'
    <3>1. Becomes(t, f) /\ Top(t).op = "emit" /\ f.op = "emit" /\ f.ctx = Top(t).ctx
      BY <2>5 DEF GoesOn, Becomes
    <3>2. f.ctx = t
      BY <2>5, <3>1, TopFrame DEF GoesOn, SigInv, HomeInv, HomeFrames, HomeFrame
    <3>3. t # None
      BY ThreadAssumption
    <3>4. HomeFrame(t, f)
      BY <2>5, <3>1, <3>2, <3>3 DEF GoesOn, IsDirect, HomeFrame
    <3> QED BY <1>2, <3>1, <3>4
  <2> QED BY <1>3, <2>1, <2>2, <2>3, <2>4, <2>5, StepFrame
<1>4. ASSUME NEW t \in Threads, QueueStep(t) \/ \E b \in BOOLEAN : RunOnce(t, b)
      PROVE  HomeFrames'
  BY <1>1, <1>4 DEF QueueStep, RunOnce, sigVars
<1>5. CASE UNCHANGED <<vars, sigVars>>
  BY <1>1, <1>5 DEF sigVars
<1> QED BY <1>3, <1>4, <1>5 DEF SigNext, SigProgress

LEMMA HomeItemsStep ==
  ASSUME OwnContext, TypeOK, SigInv, HomeInv, [SigNext]_<<vars, sigVars>>
  PROVE  HomeItems'
<1> USE NoneAssumption
<1>1. ASSUME UNCHANGED <<queue, log, msg>> PROVE HomeItems'
  BY <1>1 DEF HomeInv, HomeItems
<1>2. ASSUME NEW t \in Threads, PushStep(t) \/ RemoveStep(t) \/ RunStep(t)
      PROVE  HomeItems'
  <2> SUFFICES ASSUME NEW u \in Threads
               PROVE  /\ msg'[u] # None => Home[msg'[u].obj] = msg'[u].to
                      /\ \A k \in DOMAIN queue'[u] : Home[queue'[u][k].obj] = u
                      /\ \A k \in DOMAIN log'[u] : Home[log'[u][k].obj] = u
    BY DEF HomeItems
  <2> QED BY <1>2, ItemMoves DEF HomeInv, HomeItems
<1>3. ASSUME NEW t \in Threads, NEW o \in Objects, EmitPush(t, o)
      PROVE  HomeItems'
  <2>1. PushCall(t, Home[o], o)
    BY <1>3, PushesAway
  <2>2. UNCHANGED <<queue, log>> /\ msg' = [msg EXCEPT ![t] = NewItem(t, Home[o], o)]
    BY <2>1 DEF PushCall
  <2> QED BY <2>2 DEF HomeInv, HomeItems, NewItem, TypeOK
<1>4. ASSUME NEW t \in Threads, DestroyQueue(t) PROVE HomeItems'
  BY <1>1, <1>4 DEF DestroyQueue, RemoveBegin, history
<1>5. ASSUME NEW t \in Threads, NEW b \in BOOLEAN, RunOnce(t, b) PROVE HomeItems'
  BY <1>1, <1>5 DEF RunOnce, RunCall, history, opVars
<1>6. ASSUME UNCHANGED vars PROVE HomeItems'
  BY <1>1, <1>6 DEF vars, history, opVars
<1>7. ASSUME NEW t \in Threads,
             \/ Begin(t) \/ EmitLock(t) \/ EmitRelay(t)
             \/ \E o \in Objects : EmitDirect(t, o)
             \/ EmitReturn(t) \/ EmitNext(t) \/ EmitDone(t)
             \/ DestroyRelay(t) \/ DestroyDone(t)
      PROVE  HomeItems'
  BY <1>6, <1>7, OtherSteps
<1> QED BY <1>2, <1>3, <1>4, <1>5, <1>6, <1>7
        DEF SigNext, SigProgress, QueueStep, EmitStep, DestroyStep

LEMMA HomeInit == SigInit => HomeInv
BY DEF SigInit, Init, HomeInv, HomeFrames, HomeItems

(* The lemma: the invariant of the contexts, for emissions that pass the   *)
(* Context of the emitting thread.                                         *)
LEMMA HomeInvariant ==
  ASSUME OwnContext
  PROVE  SigSpec => []HomeInv
<1>1. TypeOK /\ SigInv /\ HomeInv /\ [SigNext]_<<vars, sigVars>> => HomeInv'
  BY HomeFramesStep, HomeItemsStep DEF HomeInv
<1> QED BY <1>1, HomeInit, SigInvariant, PTL DEF SigSpec

(* A slot with a Context executes only on the thread of that Context when  *)
(* the emissions pass the Context of the emitting thread: called there, or *)
(* executed from the queue of that thread.                                 *)
THEOREM SlotsStayHome ==
  ASSUME OwnContext
  PROVE  SigSpec => []OnHomeThread
<1>1. SigInv /\ HomeInv => OnHomeThread
  BY DEF HomeInv, HomeFrames, HomeFrame, HomeItems, OnHomeThread
<1> QED BY <1>1, HomeInvariant, SigInvariant, PTL

----------------------------------------------------------------------------
(* The order of emissions                                                  *)

(* Callback i comes before callback j in the log l or the queue q behind   *)
(* it.                                                                     *)
OrderIn(l, q, i, j) ==
  \/ \E a, b \in DOMAIN l : a < b /\ l[a] = i /\ l[b] = j
  \/ \E a \in DOMAIN l, b \in DOMAIN q : l[a] = i /\ q[b] = j
  \/ \E a, b \in DOMAIN q : a < b /\ q[a] = i /\ q[b] = j

SignedIn(i, w) == i.n \in DOMAIN w[i.from]
Signed(i) == SignedIn(i, wave)

(* Every push is signed; an emission pushes for one signal.                *)
Numbered ==
  \A t \in Threads :
    /\ Len(wave[t]) = sent[t]
    /\ \A m \in DOMAIN wave[t] : wave[t][m][2] <= emitted[t]
    /\ \A m, n \in DOMAIN wave[t] :
         wave[t][m][2] = wave[t][n][2] => wave[t][m][1] = wave[t][n][1]

(* The emission of a frame f has pushed only for its signal, and nothing   *)
(* before it held that signal; w are the signatures and e the emissions of *)
(* the thread.                                                             *)
FrameNum(f, w, e) ==
  f.op = "emit" =>
    /\ f.num <= e
    /\ \A m \in DOMAIN w : w[m][2] = f.num => HoldsSig(f) /\ w[m][1] = f.sig

FrameNums ==
  \A t \in Threads : \A k \in DOMAIN stack[t] : FrameNum(stack[t][k], wave[t], emitted[t])

(* The frames of a thread are of different emissions.                      *)
OtherNum(f, g) == f.op = "emit" /\ g.op = "emit" => f.num # g.num
NumsApart ==
  \A t \in Threads : \A j, k \in DOMAIN stack[t] :
    j # k => OtherNum(stack[t][j], stack[t][k])

(* Every callback is signed; the one being pushed by the innermost frame.  *)
SignedItems ==
  \A t \in Threads :
    /\ msg[t] # None =>
         /\ msg[t].from = t /\ Signed(msg[t])
         /\ wave[t][msg[t].n] = <<Top(t).sig, Top(t).num>>
    /\ \A k \in DOMAIN queue[t] : Signed(queue[t][k])
    /\ \A k \in DOMAIN log[t] : Signed(log[t][k])

(* No two queues have two emissions of one signal in different orders.     *)
Agree ==
  \A u, v \in Threads : \A i, j, x, y \in Items :
    /\ OrderIn(log[u], queue[u], i, j) /\ OrderIn(log[v], queue[v], y, x)
    /\ Emission(i) = Emission(x) /\ Emission(j) = Emission(y)
    /\ SignalOf(i) = SignalOf(j)
    => Emission(i) = Emission(j)

(* Nothing of the signal an emission holds comes after what it has pushed. *)
Latest ==
  \A t \in Threads : \A k \in DOMAIN stack[t] : HoldsSig(stack[t][k]) =>
    \A u \in Threads : \A i, j \in Items :
      /\ OrderIn(log[u], queue[u], i, j)
      /\ Emission(i) = <<t, stack[t][k].num>> /\ SignalOf(j) = stack[t][k].sig
      => Emission(j) = Emission(i)

OrderInv ==
  Numbered /\ FrameNums /\ NumsApart /\ SignedItems /\ Agree /\ Latest

LEMMA OrderInit == SigInit => OrderInv
BY DEF SigInit, Init, OrderInv, Numbered, FrameNums, NumsApart, SignedItems, Agree,
   Latest, OrderIn

(* The frames of the next state are different frames, or one is new.       *)
LEMMA NewPairs ==
  ASSUME SigTypes, NEW t \in Threads, NEW f \in Frames, Becomes(t, f),
         NEW u \in Threads, NEW j \in DOMAIN stack'[u], NEW k \in DOMAIN stack'[u],
         j # k
  PROVE  \/ \E p, q \in DOMAIN stack[u] :
              p # q /\ stack'[u][j] = stack[u][p] /\ stack'[u][k] = stack[u][q]
         \/ /\ u = t
            /\ \E q \in DOMAIN stack[t] :
                 /\ Enter(t, f) \/ q # 1
                 /\ \/ stack'[t][j] = f /\ stack'[t][k] = stack[t][q]
                    \/ stack'[t][k] = f /\ stack'[t][j] = stack[t][q]
<1>1. stack[t] \in Seq(Frames) /\ stack \in [Threads -> Seq(Frames)]
  BY DEF SigTypes
<1>2. CASE u # t
  <2>1. stack'[u] = stack[u]
    BY <1>1, <1>2 DEF Becomes, Enter, Become, Leave
  <2> QED BY <2>1
<1>3. CASE u = t /\ Enter(t, f)
  <2>1. stack'[t] = <<f>> \o stack[t]
    BY <1>1, <1>3 DEF Enter
  <2>2. /\ Len(stack[t]) \in Nat /\ DOMAIN stack[t] = 1 .. Len(stack[t])
        /\ DOMAIN stack'[t] = 1 .. Len(stack[t]) + 1 /\ stack'[t][1] = f
        /\ \A i \in 1 .. Len(stack[t]) : stack'[t][i + 1] = stack[t][i]
    BY <1>1, <2>1, Pushed
  <2>3. \A i \in DOMAIN stack'[t] : i # 1 =>
          i - 1 \in DOMAIN stack[t] /\ stack'[t][i] = stack[t][i - 1]
    <3> SUFFICES ASSUME NEW i \in DOMAIN stack'[t], i # 1
                 PROVE  i - 1 \in DOMAIN stack[t] /\ stack'[t][i] = stack[t][i - 1]
      OBVIOUS
    <3>1. i - 1 \in DOMAIN stack[t] /\ (i - 1) + 1 = i
      BY <2>2
    <3> QED BY <2>2, <3>1
  <2>4. CASE j = 1
    BY <1>3, <2>2, <2>3, <2>4
  <2>5. CASE k = 1
    BY <1>3, <2>2, <2>3, <2>5
  <2>6. CASE j # 1 /\ k # 1
    <3>1. j - 1 # k - 1
      BY <1>3, <2>2
    <3> QED BY <1>3, <2>3, <2>6, <3>1
  <2> QED BY <2>4, <2>5, <2>6
<1>4. CASE u = t /\ Busy(t) /\ Become(t, f)
  <2>1. stack'[t] = <<f>> \o Tail(stack[t]) /\ stack[t] # <<>>
    BY <1>1, <1>4 DEF Become, Busy
  <2>2. /\ DOMAIN stack'[t] = DOMAIN stack[t] /\ stack'[t][1] = f
        /\ \A i \in DOMAIN stack[t] : i # 1 => stack'[t][i] = stack[t][i]
    BY <1>1, <2>1, Changed
  <2>3. CASE j = 1
    BY <1>4, <2>2, <2>3
  <2>4. CASE k = 1
    BY <1>4, <2>2, <2>4
  <2>5. CASE j # 1 /\ k # 1
    BY <1>4, <2>2, <2>5
  <2> QED BY <2>3, <2>4, <2>5
<1>5. CASE u = t /\ Busy(t) /\ Leave(t)
  <2>1. stack'[t] = Tail(stack[t]) /\ stack[t] # <<>>
    BY <1>1, <1>5 DEF Leave, Busy
  <2>2. /\ Len(stack[t]) \in Nat /\ DOMAIN stack[t] = 1 .. Len(stack[t])
        /\ DOMAIN stack'[t] = 1 .. Len(stack[t]) - 1
        /\ \A i \in 1 .. Len(stack[t]) - 1 : stack'[t][i] = stack[t][i + 1]
    BY <1>1, <2>1, Popped
  <2>3. /\ j + 1 \in DOMAIN stack[t] /\ stack'[u][j] = stack[u][j + 1]
        /\ k + 1 \in DOMAIN stack[t] /\ stack'[u][k] = stack[u][k + 1]
        /\ j + 1 # k + 1
    BY <1>5, <2>2
  <2> QED BY <1>5, <2>3
<1> QED BY <1>2, <1>3, <1>4, <1>5 DEF Becomes

(* A thread that moves in its frames is in no call of a queue.             *)
LEMMA MovesFromUser ==
  ASSUME TypeOK, SigInv, NEW t \in Threads,
         Begin(t) \/ EmitStep(t) \/ DestroyStep(t)
  PROVE  pc[t] = "user" /\ msg[t] = None
<1> SUFFICES pc[t] = "user"
  BY DEF TypeOK
<1>1. ASSUME ~In(t, "emit", "pushing"), ~In(t, "destroy", "queue") PROVE pc[t] = "user"
  BY <1>1, NotInQueue DEF SigInv
<1>2. ASSUME InUserCode(t) PROVE pc[t] = "user"
  BY <1>2 DEF InUserCode
<1>3. CASE Begin(t)
  <2>1. ASSUME NEW s \in Sigs, EmitCall(t, s) PROVE InUserCode(t)
    BY <2>1 DEF EmitCall, MayEmit, Outside, InSlot
  <2>2. ASSUME NEW o \in Objects, DestroyCall(t, o) PROVE InUserCode(t)
    BY <2>2 DEF DestroyCall, MayDestroy, Outside, InSlot
  <2>3. ASSUME NEW s \in Sigs, DisconnectSignal(t, s) PROVE InUserCode(t)
    BY <2>3 DEF DisconnectSignal, Edit, Outside
  <2>4. ASSUME NEW s \in Sigs, NEW r \in Relays, DisconnectRelay(t, s, r)
        PROVE  InUserCode(t)
    BY <2>4 DEF DisconnectRelay, Edit, Outside
  <2>5. ASSUME NEW o \in Objects, NEW s \in Sigs, Connect(t, o, s) PROVE InUserCode(t)
    BY <2>5 DEF Connect, Edit, Outside
  <2>6. ASSUME NEW o \in Objects, NEW r \in Relays, Join(t, o, r) \/ Disconnect(t, o, r)
        PROVE  InUserCode(t)
    BY <2>6 DEF Join, Disconnect, Edit, Outside
  <2> QED BY <1>2, <1>3, <2>1, <2>2, <2>3, <2>4, <2>5, <2>6 DEF Begin
<1>4. CASE EmitStep(t) \/ DestroyStep(t)
  <2>1. ASSUME NEW op \in {"emit", "destroy"}, NEW w \in {"sig", "next", "slots", "relays"},
               In(t, op, w)
        PROVE  pc[t] = "user"
    BY <1>1, <2>1 DEF In
  <2>2. CASE \/ EmitLock(t) \/ EmitRelay(t) \/ EmitNext(t) \/ EmitDone(t)
             \/ DestroyRelay(t) \/ DestroyQueue(t)
    BY <2>1, <2>2 DEF EmitLock, EmitRelay, EmitNext, EmitDone, DestroyRelay, DestroyQueue
  <2>3. CASE \E o \in Objects : EmitDirect(t, o) \/ EmitPush(t, o)
    BY <2>1, <2>3 DEF EmitDirect, EmitPush
  <2>4. CASE EmitReturn(t) \/ DestroyDone(t)
    BY <2>4 DEF EmitReturn, DestroyDone
  <2> QED BY <1>4, <2>2, <2>3, <2>4 DEF EmitStep, DestroyStep
<1> QED BY <1>3, <1>4

(* The elements of the queues and logs.                                    *)
LEMMA OrderElements ==
  ASSUME TypeOK, SignedItems, NEW u \in Threads, NEW i, NEW j,
         OrderIn(log[u], queue[u], i, j)
  PROVE  /\ i \in Items /\ j \in Items /\ Signed(i) /\ Signed(j)
         /\ i.from \in Threads /\ j.from \in Threads
<1>1. /\ \A k \in DOMAIN queue[u] : queue[u][k] \in Items
      /\ \A k \in DOMAIN log[u] : log[u][k] \in Items
  BY Elements
<1>2. i \in Items /\ j \in Items /\ Signed(i) /\ Signed(j)
  BY <1>1 DEF OrderIn, SignedItems
<1> QED BY <1>2 DEF Items

(* An emission pushes for one signal.                                      *)
LEMMA EmissionSignal ==
  ASSUME Numbered, NEW i \in Items, NEW j \in Items, Signed(i), Signed(j),
         Emission(i) = Emission(j)
  PROVE  SignalOf(i) = SignalOf(j)
<1>1. i.from = j.from /\ wave[i.from][i.n][2] = wave[j.from][j.n][2] /\ i.from \in Threads
  BY DEF Emission, Items
<1> QED BY <1>1 DEF Numbered, Signed, SignedIn, SignalOf

(* A push is signed with the signal and the number of its emission.        *)
LEMMA PushSigns ==
  ASSUME OwnContext, TypeOK, SigInv, HomeInv, Numbered,
         NEW t \in Threads, NEW o \in Objects, EmitPush(t, o)
  PROVE  /\ UNCHANGED <<queue, log, emitted>>
         /\ msg' = [msg EXCEPT ![t] = NewItem(t, Home[o], o)]
         /\ \A u \in Threads : Len(wave'[u]) = sent'[u]
         /\ sent[t] + 1 \in DOMAIN wave'[t]
         /\ wave'[t][sent[t] + 1] = <<Top(t).sig, Top(t).num>>
         /\ \A u \in Threads : \A m \in DOMAIN wave[u] :
              m \in DOMAIN wave'[u] /\ wave'[u][m] = wave[u][m]
         /\ \A u \in Threads : \A m \in DOMAIN wave'[u] :
              m \in DOMAIN wave[u] \/ (u = t /\ m = sent[t] + 1)
         /\ \A i \in Items : Signed(i) =>
              Signed(i)' /\ Emission(i)' = Emission(i) /\ SignalOf(i)' = SignalOf(i)
<1>1. PushCall(t, Home[o], o) /\ Home[o] \in Threads /\ Busy(t)
  BY PushesAway
<1>2. /\ UNCHANGED <<queue, log>> /\ msg' = [msg EXCEPT ![t] = NewItem(t, Home[o], o)]
      /\ sent' = [sent EXCEPT ![t] = sent[t] + 1]
  BY <1>1 DEF PushCall, Issue, NewItem
<1>3. /\ wave' = [wave EXCEPT ![t] = Append(@, <<Top(t).sig, Top(t).num>>)]
      /\ emitted' = emitted
  BY DEF EmitPush
<1>4. <<Top(t).sig, Top(t).num>> \in Sigs \X Nat
  <2>1. Top(t).op = "emit" /\ Top(t) \in Frames
        /\ FrameOK(t, Top(t), sigMtx, relayMtx, relays, conn, loop)
    BY <1>1, TopFrame DEF SigInv, EmitPush, In
  <2> QED BY <2>1 DEF FrameOK, Frames
<1>5. wave \in [Threads -> Seq(Sigs \X Nat)]
  BY DEF SigInv, SigTypes
<1>6. /\ Len(wave[t]) = sent[t] /\ sent[t] \in Nat
      /\ DOMAIN wave[t] = 1 .. sent[t]
      /\ wave'[t] = Append(wave[t], <<Top(t).sig, Top(t).num>>)
      /\ wave'[t] \in Seq(Sigs \X Nat)
      /\ Len(wave'[t]) = sent[t] + 1
      /\ \A m \in 1 .. sent[t] : wave'[t][m] = wave[t][m]
      /\ wave'[t][sent[t] + 1] = <<Top(t).sig, Top(t).num>>
  <2>1. wave'[t] = Append(wave[t], <<Top(t).sig, Top(t).num>>) /\ wave[t] \in Seq(Sigs \X Nat)
    BY <1>3, <1>5
  <2>2. Len(wave[t]) = sent[t]
    BY DEF Numbered
  <2>3. sent[t] \in Nat /\ DOMAIN wave[t] = 1 .. sent[t]
    BY <2>1, <2>2, LenProperties
  <2>4. /\ wave'[t] \in Seq(Sigs \X Nat)
        /\ Len(wave'[t]) = sent[t] + 1
        /\ \A m \in 1 .. sent[t] : wave'[t][m] = wave[t][m]
        /\ wave'[t][sent[t] + 1] = <<Top(t).sig, Top(t).num>>
    BY <1>4, <2>1, <2>2, AppendProperties
  <2> QED BY <2>1, <2>2, <2>3, <2>4
<1>7. DOMAIN wave'[t] = 1 .. sent[t] + 1
  BY <1>6, LenProperties
<1>8. \A u \in Threads \ {t} : wave'[u] = wave[u] /\ sent'[u] = sent[u]
  BY <1>2, <1>3, <1>5 DEF TypeOK
<1>9. \A u \in Threads : Len(wave'[u]) = sent'[u]
  <2>1. sent'[t] = sent[t] + 1
    BY <1>2 DEF TypeOK
  <2> QED BY <1>6, <1>8, <2>1 DEF Numbered
<1>10. \A u \in Threads : \A m \in DOMAIN wave[u] :
         m \in DOMAIN wave'[u] /\ wave'[u][m] = wave[u][m]
  <2>1. \A m \in 1 .. sent[t] : m \in 1 .. sent[t] + 1
    BY <1>6
  <2>2. \A m \in DOMAIN wave[t] : m \in DOMAIN wave'[t] /\ wave'[t][m] = wave[t][m]
    BY <1>6, <1>7, <2>1
  <2>3. \A u \in Threads \ {t} : \A m \in DOMAIN wave[u] :
          m \in DOMAIN wave'[u] /\ wave'[u][m] = wave[u][m]
    BY <1>8
  <2> QED BY <2>2, <2>3
<1>11. \A u \in Threads : \A m \in DOMAIN wave'[u] :
         m \in DOMAIN wave[u] \/ (u = t /\ m = sent[t] + 1)
  <2>1. \A m \in 1 .. sent[t] + 1 : m \in 1 .. sent[t] \/ m = sent[t] + 1
    BY <1>6
  <2> QED BY <1>6, <1>7, <1>8, <2>1
<1>12. ASSUME NEW i \in Items, Signed(i)
       PROVE  Signed(i)' /\ Emission(i)' = Emission(i) /\ SignalOf(i)' = SignalOf(i)
  <2>1. i.from \in Threads /\ i.n \in DOMAIN wave[i.from]
    BY <1>12 DEF Items, Signed, SignedIn
  <2>2. i.n \in DOMAIN wave'[i.from] /\ wave'[i.from][i.n] = wave[i.from][i.n]
    BY <1>10, <2>1
  <2> QED BY <2>2 DEF Signed, SignedIn, Emission, SignalOf
<1>13. sent[t] + 1 \in DOMAIN wave'[t]
  BY <1>6, <1>7
<1> QED BY <1>2, <1>3, <1>6, <1>9, <1>10, <1>11, <1>12, <1>13

(* The other steps of frames leave pushes and signatures alone.            *)
LEMMA FrameOnly ==
  ASSUME NEW t \in Threads, Begin(t) \/ EmitStep(t) \/ DestroyStep(t),
         \A o \in Objects : ~EmitPush(t, o)
  PROVE  UNCHANGED <<queue, log, msg, sent, wave>>
<1>1. UNCHANGED <<queue, log, msg, sent>>
  <2>1. CASE DestroyQueue(t)
    BY <2>1 DEF DestroyQueue, RemoveBegin, history
  <2>2. CASE ~DestroyQueue(t)
    <3>1. UNCHANGED vars
      BY <2>2, OtherSteps DEF EmitStep, DestroyStep
    <3> QED BY <3>1 DEF vars, history, opVars
  <2> QED BY <2>1, <2>2
<1>2. CASE Begin(t)
  BY <1>1, <1>2 DEF Begin, EmitCall, DisconnectSignal, Connect, DisconnectRelay,
                    DestroyCall, Join, Disconnect
<1>3. CASE EmitStep(t)
  BY <1>1, <1>3 DEF EmitStep, EmitLock, EmitRelay, EmitDirect, EmitReturn, EmitNext, EmitDone
<1>4. CASE DestroyStep(t)
  BY <1>1, <1>4 DEF DestroyStep, DestroyRelay, DestroyQueue, DestroyDone
<1> QED BY <1>2, <1>3, <1>4

(* The steps of the queues leave frames and signatures alone.              *)
LEMMA QueueOnly ==
  ASSUME NEW t \in Threads, QueueStep(t) \/ \E b \in BOOLEAN : RunOnce(t, b)
  PROVE  UNCHANGED <<stack, emitted, wave, sent, sigMtx>>
<1>1. UNCHANGED <<stack, emitted, wave, sigMtx>>
  BY DEF QueueStep, RunOnce, sigVars, sigLocks
<1>2. CASE PushStep(t)
  BY <1>1, <1>2 DEF PushStep, PushMap, PushQueue, history
<1>3. CASE RunStep(t) \/ \E b \in BOOLEAN : RunOnce(t, b)
  BY <1>1, <1>3 DEF RunStep, RunMap, RunLock, RunPop, RunEmpty, RunReturn, RunOnce,
                    RunCall, history
<1>4. CASE RemoveStep(t)
  BY <1>1, <1>4 DEF RemoveStep, RemoveLock, RemoveEnter, RemoveErase, RemoveLeave,
                    RemoveReturn, history
<1> QED BY <1>2, <1>3, <1>4 DEF QueueStep

(* What a step of frames does, in one form: frame f is new, or none is.    *)
NewFrame(t, f) ==
  /\ Becomes(t, f)
  /\ \/ Leaves(t) /\ f = Top(t) /\ emitted' = emitted
     \/ Destroys(t, f) /\ emitted' = emitted
     \/ Emits(t, f)
     \/ GoesOn(t, f)

LEMMA OneFrame ==
  ASSUME TypeOK, SigInv, NEW t \in Threads,
         Begin(t) \/ EmitStep(t) \/ DestroyStep(t)
  PROVE  UNCHANGED <<stack, emitted>> \/ \E f \in Frames : NewFrame(t, f)
<1>1. ASSUME Leaves(t) PROVE Top(t) \in Frames
  BY <1>1, TopFrame DEF Leaves, SigInv
<1>2. ASSUME Leaves(t), emitted' = emitted PROVE NewFrame(t, Top(t))
  BY <1>2 DEF NewFrame, Leaves, Becomes
<1>3. ASSUME NEW f \in Frames, Destroys(t, f), emitted' = emitted PROVE NewFrame(t, f)
  BY <1>3 DEF NewFrame, Destroys
<1>4. ASSUME NEW f \in Frames, Emits(t, f) \/ GoesOn(t, f) PROVE NewFrame(t, f)
  BY <1>4 DEF NewFrame, Emits, GoesOn, Becomes
<1> QED BY <1>1, <1>2, <1>3, <1>4, StepFrame

(* A push is a step of the innermost frame.                                *)
LEMMA PushGoesOn ==
  ASSUME OwnContext, TypeOK, SigInv, HomeInv,
         NEW t \in Threads, NEW o \in Objects, EmitPush(t, o)
  PROVE  /\ HoldsSig(Top(t))
         /\ \E f \in Frames : GoesOn(t, f) /\ f.phase = "pushing" /\ NewFrame(t, f)
<1> DEFINE f == [Top(t) EXCEPT !.phase = "pushing", !.obj = o, !.todo = @ \ {o}]
<1>1. Busy(t) /\ HoldsRelay(Top(t)) /\ HoldsSig(Top(t)) /\ Become(t, f)
  BY PushesAway
<1>2. Top(t) \in Frames /\ Top(t).op = "emit"
  BY <1>1, TopFrame DEF SigInv, HoldsSig
<1>3. /\ f \in Frames /\ f.op = "emit" /\ f.phase = "pushing" /\ f.sig = Top(t).sig
      /\ f.num = Top(t).num /\ f.ctx = Top(t).ctx
  BY <1>2 DEF Frames
<1>4. emitted' = emitted
  BY DEF EmitPush
<1> HIDE DEF f
<1>5. GoesOn(t, f)
  BY <1>1, <1>2, <1>3, <1>4 DEF GoesOn, HoldsSig
<1>6. NewFrame(t, f)
  BY <1>5 DEF NewFrame, GoesOn, Becomes
<1> QED BY <1>1, <1>3, <1>5, <1>6

LEMMA NumberedStep ==
  ASSUME OwnContext, TypeOK, SigInv, HomeInv, OrderInv, [SigNext]_<<vars, sigVars>>
  PROVE  Numbered'
<1>1. ASSUME UNCHANGED <<wave, sent>>,
             \A t \in Threads : emitted'[t] \in Nat /\ emitted[t] <= emitted'[t]
      PROVE  Numbered'
  <2>1. \A t \in Threads : \A m \in DOMAIN wave[t] : wave[t][m][2] \in Nat
    <3> SUFFICES ASSUME NEW t \in Threads, NEW m \in DOMAIN wave[t]
                 PROVE  wave[t][m][2] \in Nat
      OBVIOUS
    <3>1. wave[t] \in Seq(Sigs \X Nat)
      BY DEF SigInv, SigTypes
    <3>2. wave[t][m] \in Sigs \X Nat
      BY <3>1, LenProperties
    <3> QED BY <3>2
  <2>2. emitted \in [Threads -> Nat]
    BY DEF SigInv, SigTypes
  <2>3. \A t \in Threads : \A m \in DOMAIN wave[t] : wave[t][m][2] <= emitted'[t]
    <3> SUFFICES ASSUME NEW t \in Threads, NEW m \in DOMAIN wave[t]
                 PROVE  wave[t][m][2] <= emitted'[t]
      OBVIOUS
    <3> DEFINE n == wave[t][m][2]
    <3>1. n \in Nat /\ n <= emitted[t] /\ emitted[t] \in Nat
      BY <2>1, <2>2 DEF OrderInv, Numbered
    <3>2. emitted[t] <= emitted'[t] /\ emitted'[t] \in Nat
      BY <1>1
    <3> HIDE DEF n
    <3>3. n <= emitted'[t]
      BY <3>1, <3>2
    <3> QED BY <3>3 DEF n
  <2> QED BY <1>1, <2>3 DEF OrderInv, Numbered
<1>2. ASSUME NEW t \in Threads, NEW o \in Objects, EmitPush(t, o)
      PROVE  Numbered'
  <2>1. HoldsSig(Top(t)) /\ Busy(t)
    BY <1>2, PushesAway
  <2>2. FrameNum(Top(t), wave[t], emitted[t]) /\ Top(t).op = "emit"
    BY <2>1, TopFrame DEF SigInv, OrderInv, FrameNums, HoldsSig
  <2>3. /\ \A u \in Threads : Len(wave'[u]) = sent'[u]
        /\ wave'[t][sent[t] + 1] = <<Top(t).sig, Top(t).num>>
        /\ \A u \in Threads : \A m \in DOMAIN wave[u] : wave'[u][m] = wave[u][m]
        /\ \A u \in Threads : \A m \in DOMAIN wave'[u] :
              m \in DOMAIN wave[u] \/ (u = t /\ m = sent[t] + 1)
        /\ emitted' = emitted
    BY <1>2, PushSigns DEF OrderInv
  <2>4. \A u \in Threads : \A m \in DOMAIN wave'[u] : wave'[u][m][2] <= emitted[u]
    BY <2>2, <2>3 DEF OrderInv, Numbered, FrameNum
  <2>5. \A u \in Threads : \A m, n \in DOMAIN wave'[u] :
          wave'[u][m][2] = wave'[u][n][2] => wave'[u][m][1] = wave'[u][n][1]
    <3> SUFFICES ASSUME NEW u \in Threads, NEW m \in DOMAIN wave'[u],
                        NEW n \in DOMAIN wave'[u], wave'[u][m][2] = wave'[u][n][2]
                 PROVE  wave'[u][m][1] = wave'[u][n][1]
      OBVIOUS
    <3>1. CASE m \in DOMAIN wave[u] /\ n \in DOMAIN wave[u]
      BY <2>3, <3>1 DEF OrderInv, Numbered
    <3>2. CASE m \in DOMAIN wave[u] /\ n \notin DOMAIN wave[u]
      BY <2>2, <2>3, <3>2 DEF FrameNum
    <3>3. CASE m \notin DOMAIN wave[u] /\ n \in DOMAIN wave[u]
      BY <2>2, <2>3, <3>3 DEF FrameNum
    <3>4. CASE m \notin DOMAIN wave[u] /\ n \notin DOMAIN wave[u]
      BY <2>3, <3>4
    <3> QED BY <3>1, <3>2, <3>3, <3>4
  <2> QED BY <2>3, <2>4, <2>5 DEF Numbered
<1>3. ASSUME NEW t \in Threads, Begin(t) \/ EmitStep(t) \/ DestroyStep(t),
             \A o \in Objects : ~EmitPush(t, o)
      PROVE  Numbered'
  <2>1. UNCHANGED <<wave, sent>>
    BY <1>3, FrameOnly
  <2>2. emitted \in [Threads -> Nat]
    BY DEF SigInv, SigTypes
  <2>3. emitted' = emitted \/ emitted' = [emitted EXCEPT ![t] = emitted[t] + 1]
    BY <1>3, StepFrame DEF Emits, GoesOn
  <2>4. \A u \in Threads : emitted'[u] \in Nat /\ emitted[u] <= emitted'[u]
    BY <2>2, <2>3
  <2> QED BY <1>1, <2>1, <2>4
<1>4. ASSUME UNCHANGED <<wave, sent, emitted>> PROVE Numbered'
  BY <1>4 DEF OrderInv, Numbered
<1>5. ASSUME NEW t \in Threads, QueueStep(t) \/ \E b \in BOOLEAN : RunOnce(t, b)
      PROVE  Numbered'
  BY <1>4, <1>5, QueueOnly
<1>6. CASE UNCHANGED <<vars, sigVars>>
  BY <1>4, <1>6 DEF sigVars, vars, history
<1> QED BY <1>2, <1>3, <1>5, <1>6 DEF SigNext, SigProgress, EmitStep

(* The emissions of a thread only become more.                             *)
LEMMA MoreEmitted ==
  ASSUME SigInv, NEW t \in Threads, NEW f, NewFrame(t, f)
  PROVE  /\ \A u \in Threads :
              emitted[u] \in Nat /\ emitted'[u] \in Nat /\ emitted[u] <= emitted'[u]
         /\ Emits(t, f) => f.num = emitted[t] + 1 /\ emitted'[t] = f.num
<1>1. emitted \in [Threads -> Nat]
  BY DEF SigInv, SigTypes
<1>2. emitted' = emitted \/ (Emits(t, f) /\ emitted' = [emitted EXCEPT ![t] = emitted[t] + 1])
  BY DEF NewFrame, Emits, GoesOn
<1> QED BY <1>1, <1>2 DEF Emits

(* The numbers of frames and signatures are numbers.                       *)
LEMMA NumTypes ==
  ASSUME SigInv, NEW t \in Threads
  PROVE  /\ \A k \in DOMAIN stack[t] : stack[t][k] \in Frames /\ stack[t][k].num \in Nat
         /\ \A m \in DOMAIN wave[t] : wave[t][m][1] \in Sigs /\ wave[t][m][2] \in Nat
<1>1. stack[t] \in Seq(Frames) /\ wave[t] \in Seq(Sigs \X Nat)
  BY DEF SigInv, SigTypes
<1>2. \A k \in DOMAIN stack[t] : stack[t][k] \in Frames
  BY <1>1, LenProperties
<1>3. \A m \in DOMAIN wave[t] : wave[t][m] \in Sigs \X Nat
  BY <1>1, LenProperties
<1> QED BY <1>2, <1>3 DEF Frames

LEMMA FrameNumsStep ==
  ASSUME OwnContext, TypeOK, SigInv, HomeInv, OrderInv, [SigNext]_<<vars, sigVars>>
  PROVE  FrameNums'
<1>1. ASSUME UNCHANGED <<stack, wave, emitted>> PROVE FrameNums'
  BY <1>1 DEF OrderInv, FrameNums
<1>2. ASSUME NEW t \in Threads, NEW o \in Objects, EmitPush(t, o)
      PROVE  FrameNums'
  <2>1. PICK f \in Frames : GoesOn(t, f) /\ NewFrame(t, f)
    BY <1>2, PushGoesOn
  <2>2. /\ HoldsSig(Top(t)) /\ HoldsSig(f) /\ Busy(t) /\ f.sig = Top(t).sig
        /\ f.num = Top(t).num /\ f.op = "emit" /\ Top(t).op = "emit"
    BY <1>2, <2>1, PushGoesOn DEF GoesOn
  <2>3. /\ emitted' = emitted
        /\ wave'[t][sent[t] + 1] = <<Top(t).sig, Top(t).num>>
        /\ \A u \in Threads : \A m \in DOMAIN wave[u] : wave'[u][m] = wave[u][m]
        /\ \A u \in Threads : \A m \in DOMAIN wave'[u] :
              m \in DOMAIN wave[u] \/ (u = t /\ m = sent[t] + 1)
    BY <1>2, PushSigns DEF OrderInv
  <2>4. 1 \in DOMAIN stack[t] /\ Top(t) = stack[t][1]
    BY <2>2, TopFrame DEF SigInv
  <2>5. FrameNum(Top(t), wave[t], emitted[t])
    BY <2>4 DEF OrderInv, FrameNums
  <2>6. \A m \in DOMAIN wave'[t] : wave'[t][m][2] = Top(t).num => wave'[t][m][1] = Top(t).sig
    BY <2>2, <2>3, <2>5 DEF FrameNum
  <2>7. Top(t).num <= emitted'[t]
    BY <2>2, <2>3, <2>5 DEF FrameNum
  <2>8. FrameNum(f, wave'[t], emitted'[t]) /\ FrameNum(Top(t), wave'[t], emitted'[t])
    BY <2>2, <2>6, <2>7 DEF FrameNum
  <2>9. ASSUME NEW u \in Threads, NEW j \in DOMAIN stack[u]
        PROVE  FrameNum(stack[u][j], wave'[u], emitted'[u])
    <3>1. FrameNum(stack[u][j], wave[u], emitted[u])
      BY DEF OrderInv, FrameNums
    <3>2. CASE u = t /\ j = 1
      BY <2>4, <2>8, <3>2
    <3>3. CASE u = t /\ j # 1
      <4>1. OtherNum(Top(t), stack[u][j])
        BY <2>4, <3>3 DEF OrderInv, NumsApart
      <4> QED BY <2>2, <2>3, <3>1, <3>3, <4>1 DEF FrameNum, OtherNum
    <3>4. CASE u # t
      BY <2>3, <3>1, <3>4 DEF FrameNum
    <3> QED BY <3>2, <3>3, <3>4
  <2> SUFFICES ASSUME NEW u \in Threads, NEW k \in DOMAIN stack'[u]
               PROVE  FrameNum(stack'[u][k], wave'[u], emitted'[u])
    BY DEF FrameNums
  <2> QED BY <2>1, <2>8, <2>9, NewFrames DEF NewFrame, SigInv
<1>3. ASSUME NEW t \in Threads, Begin(t) \/ EmitStep(t) \/ DestroyStep(t),
             \A o \in Objects : ~EmitPush(t, o)
      PROVE  FrameNums'
  <2>1. wave' = wave
    BY <1>3, FrameOnly
  <2>2. CASE UNCHANGED <<stack, emitted>>
    BY <1>1, <2>1, <2>2
  <2>3. ASSUME NEW f \in Frames, NewFrame(t, f) PROVE FrameNums'
    <3>1. /\ \A u \in Threads :
               emitted[u] \in Nat /\ emitted'[u] \in Nat /\ emitted[u] <= emitted'[u]
          /\ Emits(t, f) => f.num = emitted[t] + 1 /\ emitted'[t] = f.num
      BY <2>3, MoreEmitted
    <3>2. ASSUME NEW u \in Threads, NEW j \in DOMAIN stack[u]
          PROVE  FrameNum(stack[u][j], wave'[u], emitted'[u])
      <4>1. FrameNum(stack[u][j], wave[u], emitted[u]) /\ stack[u][j].num \in Nat
        BY NumTypes DEF OrderInv, FrameNums
      <4>2. emitted[u] \in Nat /\ emitted'[u] \in Nat /\ emitted[u] <= emitted'[u]
        BY <3>1
      <4> DEFINE n == stack[u][j].num
      <4> HIDE DEF n
      <4>3. n \in Nat /\ n <= emitted[u] => n <= emitted'[u]
        BY <4>2
      <4> QED BY <2>1, <4>1, <4>3 DEF FrameNum, n
    <3>3. Busy(t) => 1 \in DOMAIN stack[t] /\ Top(t) = stack[t][1]
      BY TopFrame DEF SigInv
    <3>4. FrameNum(f, wave'[t], emitted'[t])
      <4>1. CASE Leaves(t) /\ f = Top(t)
        BY <3>2, <3>3, <4>1 DEF Leaves
      <4>2. CASE Destroys(t, f)
        BY <4>2 DEF Destroys, FrameNum
      <4>3. CASE Emits(t, f)
        <5>1. f.num = emitted[t] + 1 /\ emitted'[t] = f.num /\ emitted[t] \in Nat
          BY <3>1, <4>3
        <5>2. \A m \in DOMAIN wave[t] : wave[t][m][2] \in Nat /\ wave[t][m][2] <= emitted[t]
          BY NumTypes DEF OrderInv, Numbered
        <5>3. \A n \in Nat : n <= emitted[t] => n # f.num
          BY <5>1
        <5>4. f.num <= emitted'[t]
          BY <5>1
        <5> QED BY <2>1, <5>2, <5>3, <5>4 DEF FrameNum
      <4>4. CASE GoesOn(t, f)
        <5>1. /\ Busy(t) /\ HoldsSig(f) /\ f.sig = Top(t).sig
              /\ f.num = Top(t).num /\ Top(t).op = "emit"
          BY <4>4 DEF GoesOn
        <5>2. FrameNum(Top(t), wave'[t], emitted'[t])
          BY <3>2, <3>3, <5>1
        <5> QED BY <5>1, <5>2 DEF FrameNum
      <4> QED BY <2>3, <4>1, <4>2, <4>3, <4>4 DEF NewFrame
    <3> SUFFICES ASSUME NEW u \in Threads, NEW k \in DOMAIN stack'[u]
                 PROVE  FrameNum(stack'[u][k], wave'[u], emitted'[u])
      BY DEF FrameNums
    <3> QED BY <2>3, <3>2, <3>4, NewFrames DEF NewFrame, SigInv
  <2> QED BY <1>3, <2>2, <2>3, OneFrame
<1>4. ASSUME NEW t \in Threads, QueueStep(t) \/ \E b \in BOOLEAN : RunOnce(t, b)
      PROVE  FrameNums'
  BY <1>1, <1>4, QueueOnly
<1>5. CASE UNCHANGED <<vars, sigVars>>
  BY <1>1, <1>5 DEF sigVars
<1> QED BY <1>2, <1>3, <1>4, <1>5 DEF SigNext, SigProgress, EmitStep

LEMMA NumsApartStep ==
  ASSUME OwnContext, TypeOK, SigInv, HomeInv, OrderInv, [SigNext]_<<vars, sigVars>>
  PROVE  NumsApart'
<1>1. ASSUME UNCHANGED stack PROVE NumsApart'
  BY <1>1 DEF OrderInv, NumsApart
<1>2. ASSUME NEW t \in Threads, Begin(t) \/ EmitStep(t) \/ DestroyStep(t)
      PROVE  NumsApart'
  <2>1. CASE UNCHANGED <<stack, emitted>>
    BY <1>1, <2>1
  <2>2. ASSUME NEW f \in Frames, NewFrame(t, f) PROVE NumsApart'
    <3>1. Busy(t) => 1 \in DOMAIN stack[t] /\ Top(t) = stack[t][1]
      BY TopFrame DEF SigInv
    <3>2. ASSUME NEW q \in DOMAIN stack[t], Enter(t, f) \/ q # 1
          PROVE  OtherNum(f, stack[t][q])
      <4>1. stack[t][q].num \in Nat /\ FrameNum(stack[t][q], wave[t], emitted[t])
        BY NumTypes DEF OrderInv, FrameNums
      <4>2. CASE Emits(t, f)
        <5>1. f.num = emitted[t] + 1 /\ emitted[t] \in Nat
          BY <2>2, <4>2, MoreEmitted
        <5>2. \A n \in Nat : n <= emitted[t] => n # f.num
          BY <5>1
        <5> QED BY <4>1, <5>2 DEF FrameNum, OtherNum
      <4>3. CASE Destroys(t, f)
        BY <4>3 DEF Destroys, OtherNum
      <4>4. CASE (Leaves(t) /\ f = Top(t)) \/ GoesOn(t, f)
        <5>1. Busy(t) /\ stack[t] \in Seq(Frames) /\ stack[t] # <<>>
              /\ stack \in [Threads -> Seq(Frames)]
          BY <4>4 DEF Leaves, GoesOn, SigInv, SigTypes, Busy
        <5>2. ~Enter(t, f)
          <6> SUFFICES ASSUME Enter(t, f) PROVE FALSE
            OBVIOUS
          <6>1. stack'[t] = <<f>> \o stack[t]
            BY <5>1 DEF Enter
          <6>2. /\ Len(stack[t]) \in Nat /\ DOMAIN stack[t] = 1 .. Len(stack[t])
                /\ DOMAIN stack'[t] = 1 .. Len(stack[t]) + 1
            BY <5>1, <6>1, Pushed
          <6>3. CASE Leaves(t)
            <7>1. stack'[t] = Tail(stack[t])
              BY <5>1, <6>3 DEF Leaves, Leave
            <7>2. DOMAIN stack'[t] = 1 .. Len(stack[t]) - 1
              BY <5>1, <7>1, Popped
            <7>3. Len(stack[t]) + 1 \in DOMAIN stack'[t]
              BY <6>2
            <7> QED BY <6>2, <7>2, <7>3
          <6>4. CASE GoesOn(t, f)
            <7>1. stack'[t] = <<f>> \o Tail(stack[t])
              BY <5>1, <6>4 DEF GoesOn, Become
            <7>2. DOMAIN stack'[t] = DOMAIN stack[t]
              BY <5>1, <7>1, Changed
            <7>3. Len(stack[t]) + 1 \in DOMAIN stack'[t]
              BY <6>2
            <7> QED BY <6>2, <7>2, <7>3
          <6> QED BY <4>4, <6>3, <6>4
        <5>3. q # 1 /\ OtherNum(Top(t), stack[t][q])
          BY <3>1, <3>2, <5>1, <5>2 DEF OrderInv, NumsApart
        <5>4. f = Top(t) \/ (f.num = Top(t).num /\ Top(t).op = "emit")
          BY <4>4 DEF GoesOn
        <5> QED BY <5>3, <5>4 DEF OtherNum
      <4> QED BY <2>2, <4>2, <4>3, <4>4 DEF NewFrame
    <3>3. \A g, h : OtherNum(g, h) => OtherNum(h, g)
      BY DEF OtherNum
    <3> SUFFICES ASSUME NEW u \in Threads, NEW j \in DOMAIN stack'[u],
                        NEW k \in DOMAIN stack'[u], j # k
                 PROVE  OtherNum(stack'[u][j], stack'[u][k])
      BY DEF NumsApart
    <3>4. CASE \E p, q \in DOMAIN stack[u] :
                 p # q /\ stack'[u][j] = stack[u][p] /\ stack'[u][k] = stack[u][q]
      BY <3>4 DEF OrderInv, NumsApart
    <3>5. CASE /\ u = t
               /\ \E q \in DOMAIN stack[t] :
                    /\ Enter(t, f) \/ q # 1
                    /\ \/ stack'[t][j] = f /\ stack'[t][k] = stack[t][q]
                       \/ stack'[t][k] = f /\ stack'[t][j] = stack[t][q]
      BY <3>2, <3>3, <3>5
    <3> QED BY <2>2, <3>4, <3>5, NewPairs DEF NewFrame, SigInv
  <2> QED BY <1>2, <2>1, <2>2, OneFrame
<1>3. ASSUME NEW t \in Threads, QueueStep(t) \/ \E b \in BOOLEAN : RunOnce(t, b)
      PROVE  NumsApart'
  BY <1>1, <1>3, QueueOnly
<1>4. CASE UNCHANGED <<vars, sigVars>>
  BY <1>1, <1>4 DEF sigVars
<1> QED BY <1>2, <1>3, <1>4 DEF SigNext, SigProgress

(* Who is on top of the stack of a thread that does not move stays.        *)
LEMMA OtherTops ==
  ASSUME SigTypes, NEW t \in Threads, NEW f, NewFrame(t, f), NEW u \in Threads, u # t
  PROVE  stack'[u] = stack[u]
<1>1. stack \in [Threads -> Seq(Frames)]
  BY DEF SigTypes
<1> QED BY <1>1 DEF NewFrame, Becomes, Enter, Become, Leave

LEMMA SignedItemsStep ==
  ASSUME OwnContext, TypeOK, SigInv, HomeInv, OrderInv, [SigNext]_<<vars, sigVars>>
  PROVE  SignedItems'
<1> USE NoneAssumption
<1>1. ASSUME UNCHANGED <<queue, log, msg, stack, wave>> PROVE SignedItems'
  BY <1>1 DEF OrderInv, SignedItems, Signed, SignedIn, Top
<1>2. ASSUME NEW t \in Threads, NEW o \in Objects, EmitPush(t, o)
      PROVE  SignedItems'
  <2>1. PICK f \in Frames : GoesOn(t, f) /\ NewFrame(t, f)
    BY <1>2, PushGoesOn
  <2>2. Top(t)' = f /\ Busy(t) /\ f.sig = Top(t).sig /\ f.num = Top(t).num
    <3>1. /\ Busy(t) /\ stack' = [stack EXCEPT ![t] = <<f>> \o Tail(stack[t])]
          /\ f.sig = Top(t).sig /\ f.num = Top(t).num
      BY <2>1 DEF GoesOn, Become
    <3>2. stack[t] \in Seq(Frames) /\ stack[t] # <<>> /\ stack \in [Threads -> Seq(Frames)]
      BY <3>1 DEF SigInv, SigTypes, Busy
    <3>3. stack'[t] = <<f>> \o Tail(stack[t])
      BY <3>1, <3>2
    <3>4. Head(stack'[t]) = f
      BY <3>2, <3>3, Changed
    <3> QED BY <3>1, <3>4 DEF Top
  <2>3. /\ UNCHANGED <<queue, log>>
        /\ msg' = [msg EXCEPT ![t] = NewItem(t, Home[o], o)]
        /\ sent[t] + 1 \in DOMAIN wave'[t]
        /\ wave'[t][sent[t] + 1] = <<Top(t).sig, Top(t).num>>
        /\ \A u \in Threads : \A m \in DOMAIN wave[u] :
              m \in DOMAIN wave'[u] /\ wave'[u][m] = wave[u][m]
        /\ \A i \in Items : Signed(i) => Signed(i)'
    BY <1>2, PushSigns DEF OrderInv
  <2>4. \A u \in Threads :
          /\ \A k \in DOMAIN queue'[u] : SignedIn(queue'[u][k], wave')
          /\ \A k \in DOMAIN log'[u] : SignedIn(log'[u][k], wave')
    BY <2>3, Elements DEF OrderInv, SignedItems, Signed, SignedIn
  <2>5. ASSUME NEW u \in Threads, msg'[u] # None
        PROVE  /\ msg'[u].from = u /\ SignedIn(msg'[u], wave')
               /\ wave'[u][msg'[u].n] = <<Top(u)'.sig, Top(u)'.num>>
    <3>1. CASE u = t
      <4>1. msg'[t] = NewItem(t, Home[o], o)
        BY <2>3 DEF TypeOK
      <4>2. msg'[t].from = t /\ msg'[t].n = sent[t] + 1
        BY <4>1 DEF NewItem
      <4> QED BY <2>2, <2>3, <3>1, <4>2 DEF SignedIn
    <3>2. CASE u # t
      <4>1. msg'[u] = msg[u] /\ stack'[u] = stack[u]
        BY <2>1, <2>3, <3>2, OtherTops DEF TypeOK, SigInv
      <4>2. /\ msg[u].from = u /\ msg[u].n \in DOMAIN wave[u]
            /\ wave[u][msg[u].n] = <<Top(u).sig, Top(u).num>>
        BY <2>5, <4>1 DEF OrderInv, SignedItems, Signed, SignedIn
      <4> QED BY <2>3, <4>1, <4>2 DEF SignedIn, Top
    <3> QED BY <3>1, <3>2
  <2> QED BY <2>4, <2>5 DEF SignedItems, Signed, SignedIn
<1>3. ASSUME NEW t \in Threads, Begin(t) \/ EmitStep(t) \/ DestroyStep(t),
             \A o \in Objects : ~EmitPush(t, o)
      PROVE  SignedItems'
  <2>1. UNCHANGED <<queue, log, msg, wave>> /\ msg[t] = None
    BY <1>3, FrameOnly, MovesFromUser
  <2>2. CASE UNCHANGED <<stack, emitted>>
    BY <1>1, <2>1, <2>2
  <2>3. ASSUME NEW f \in Frames, NewFrame(t, f) PROVE SignedItems'
    <3>1. \A u \in Threads : u # t => stack'[u] = stack[u]
      BY <2>3, OtherTops DEF SigInv
    <3> QED BY <2>1, <3>1 DEF OrderInv, SignedItems, Signed, SignedIn, Top
  <2> QED BY <1>3, <2>2, <2>3, OneFrame
<1>4. ASSUME NEW t \in Threads, PushStep(t) \/ RemoveStep(t) \/ RunStep(t),
             UNCHANGED <<stack, wave>>
      PROVE  SignedItems'
  <2> SUFFICES ASSUME NEW u \in Threads
               PROVE  /\ msg'[u] # None =>
                           /\ msg'[u].from = u /\ SignedIn(msg'[u], wave')
                           /\ wave'[u][msg'[u].n] = <<Top(u)'.sig, Top(u)'.num>>
                      /\ \A k \in DOMAIN queue'[u] : SignedIn(queue'[u][k], wave')
                      /\ \A k \in DOMAIN log'[u] : SignedIn(log'[u][k], wave')
    BY DEF SignedItems, Signed
  <2>1. /\ \A k \in DOMAIN queue'[u] :
             \/ \E j \in DOMAIN queue[u] : queue'[u][k] = queue[u][j]
             \/ msg[t] # None /\ msg[t].to = u /\ queue'[u][k] = msg[t]
        /\ \A k \in DOMAIN log'[u] :
             \/ \E j \in DOMAIN log[u] : log'[u][k] = log[u][j]
             \/ \E j \in DOMAIN queue[u] : log'[u][k] = queue[u][j]
        /\ msg'[u] = msg[u] \/ msg'[u] = None
    BY <1>4, ItemMoves
  <2>2. wave' = wave /\ stack' = stack
    BY <1>4
  <2> QED BY <2>1, <2>2 DEF OrderInv, SignedItems, Signed, SignedIn, Top
<1>5. ASSUME NEW t \in Threads, QueueStep(t) \/ \E b \in BOOLEAN : RunOnce(t, b)
      PROVE  SignedItems'
  <2>1. UNCHANGED <<stack, wave>>
    BY <1>5, QueueOnly
  <2>2. CASE QueueStep(t)
    BY <1>4, <2>1, <2>2 DEF QueueStep
  <2>3. CASE \E b \in BOOLEAN : RunOnce(t, b)
    BY <1>1, <2>1, <2>3 DEF RunOnce, RunCall, history, opVars
  <2> QED BY <1>5, <2>2, <2>3
<1>6. CASE UNCHANGED <<vars, sigVars>>
  BY <1>1, <1>6 DEF sigVars, vars, opVars, history
<1> QED BY <1>2, <1>3, <1>5, <1>6 DEF SigNext, SigProgress, EmitStep

(* What the moves of callbacks do to the order: a callback that is pushed  *)
(* comes after the others, and those that are executed or erased leave the *)
(* order of the rest as it was.                                            *)
LEMMA PostOrder ==
  ASSUME NEW l \in Seq(Items), NEW q \in Seq(Items), NEW m \in Items, NEW i, NEW j,
         OrderIn(l, Append(q, m), i, j)
  PROVE  OrderIn(l, q, i, j) \/ (j = m /\ (InSeq(i, l) \/ InSeq(i, q)))
<1> DEFINE r == Append(q, m)
<1>1. /\ Len(q) \in Nat /\ DOMAIN q = 1 .. Len(q)
      /\ DOMAIN r = 1 .. Len(q) + 1
      /\ \A k \in 1 .. Len(q) : r[k] = q[k]
      /\ r[Len(q) + 1] = m
  BY LenProperties, AppendProperties
<1> HIDE DEF r
<1>2. \A k \in DOMAIN r : (k \in DOMAIN q /\ r[k] = q[k]) \/ (k = Len(q) + 1 /\ r[k] = m)
  <2>1. \A k \in 1 .. Len(q) + 1 : k \in 1 .. Len(q) \/ k = Len(q) + 1
    BY <1>1
  <2> QED BY <1>1, <2>1
<1>3. \A a, b \in DOMAIN r : a < b => a \in DOMAIN q /\ r[a] = q[a]
  BY <1>1
<1>4. OrderIn(l, r, i, j)
  BY DEF r
<1>5. CASE \E a, b \in DOMAIN l : a < b /\ l[a] = i /\ l[b] = j
  BY <1>5 DEF OrderIn
<1>6. CASE \E a \in DOMAIN l, b \in DOMAIN r : l[a] = i /\ r[b] = j
  BY <1>2, <1>6 DEF OrderIn, InSeq
<1>7. CASE \E a, b \in DOMAIN r : a < b /\ r[a] = i /\ r[b] = j
  BY <1>2, <1>3, <1>7 DEF OrderIn, InSeq
<1> QED BY <1>4, <1>5, <1>6, <1>7 DEF OrderIn

LEMMA PopOrder ==
  ASSUME NEW l \in Seq(Items), NEW q \in Seq(Items), q # <<>>, NEW i, NEW j,
         OrderIn(Append(l, Head(q)), Tail(q), i, j)
  PROVE  OrderIn(l, q, i, j)
<1> DEFINE r == Append(l, Head(q))  p == Tail(q)
<1>1. /\ Len(q) \in Nat /\ DOMAIN q = 1 .. Len(q) /\ 1 \in DOMAIN q
      /\ Head(q) = q[1] /\ Head(q) \in Items
      /\ DOMAIN p = 1 .. Len(q) - 1
      /\ \A k \in 1 .. Len(q) - 1 : p[k] = q[k + 1]
  BY Popped
<1>2. /\ Len(l) \in Nat /\ DOMAIN l = 1 .. Len(l)
      /\ DOMAIN r = 1 .. Len(l) + 1
      /\ \A k \in 1 .. Len(l) : r[k] = l[k]
      /\ r[Len(l) + 1] = q[1]
  BY <1>1, LenProperties, AppendProperties
<1>3. OrderIn(r, p, i, j)
  OBVIOUS
<1> HIDE DEF r, p
<1>4. \A k \in DOMAIN r : (k \in DOMAIN l /\ r[k] = l[k]) \/ (k = Len(l) + 1 /\ r[k] = q[1])
  <2>1. \A k \in 1 .. Len(l) + 1 : k \in 1 .. Len(l) \/ k = Len(l) + 1
    BY <1>2
  <2> QED BY <1>2, <2>1
<1>5. \A a, b \in DOMAIN r : a < b => a \in DOMAIN l /\ r[a] = l[a]
  BY <1>2
<1>6. \A k \in DOMAIN p : k + 1 \in DOMAIN q /\ 1 < k + 1 /\ p[k] = q[k + 1]
  BY <1>1
<1>7. \A a, b \in DOMAIN p : a < b => a + 1 < b + 1
  BY <1>1
<1>8. CASE \E a, b \in DOMAIN r : a < b /\ r[a] = i /\ r[b] = j
  BY <1>1, <1>4, <1>5, <1>8 DEF OrderIn
<1>9. CASE \E a \in DOMAIN r, b \in DOMAIN p : r[a] = i /\ p[b] = j
  <2>1. PICK a \in DOMAIN r, b \in DOMAIN p : r[a] = i /\ p[b] = j
    BY <1>9
  <2>2. b + 1 \in DOMAIN q /\ 1 < b + 1 /\ q[b + 1] = j
    BY <1>6, <2>1
  <2>3. (a \in DOMAIN l /\ l[a] = i) \/ q[1] = i
    BY <1>4, <2>1
  <2> QED BY <1>1, <2>2, <2>3 DEF OrderIn
<1>10. CASE \E a, b \in DOMAIN p : a < b /\ p[a] = i /\ p[b] = j
  BY <1>6, <1>7, <1>10 DEF OrderIn
<1> QED BY <1>3, <1>8, <1>9, <1>10 DEF OrderIn

LEMMA EraseOrder ==
  ASSUME NEW l \in Seq(Items), NEW q \in Seq(Items), NEW k \in DOMAIN q, NEW i, NEW j,
         OrderIn(l, RemoveAt(q, k), i, j)
  PROVE  OrderIn(l, q, i, j)
<1> DEFINE r == RemoveAt(q, k)
<1>1. /\ Len(q) \in Nat /\ DOMAIN q = 1 .. Len(q)
      /\ DOMAIN r = 1 .. Len(q) - 1
      /\ \A b \in 1 .. Len(q) - 1 :
           Before(b, k) \in DOMAIN q /\ r[b] = q[Before(b, k)]
  BY LenProperties, EraseElements
<1>2. OrderIn(l, r, i, j)
  OBVIOUS
<1> HIDE DEF r
<1>3. \A a, b \in DOMAIN r : a < b => Before(a, k) < Before(b, k)
  BY <1>1 DEF Before
<1>4. CASE \E a, b \in DOMAIN l : a < b /\ l[a] = i /\ l[b] = j
  BY <1>4 DEF OrderIn
<1>5. CASE \E a \in DOMAIN l, b \in DOMAIN r : l[a] = i /\ r[b] = j
  BY <1>1, <1>5 DEF OrderIn
<1>6. CASE \E a, b \in DOMAIN r : a < b /\ r[a] = i /\ r[b] = j
  BY <1>1, <1>3, <1>6 DEF OrderIn
<1> QED BY <1>2, <1>4, <1>5, <1>6 DEF OrderIn

LEMMA OrderMoves ==
  ASSUME TypeOK, NEW t \in Threads, PushStep(t) \/ RemoveStep(t) \/ RunStep(t),
         NEW u \in Threads, NEW i, NEW j, OrderIn(log'[u], queue'[u], i, j)
  PROVE  \/ OrderIn(log[u], queue[u], i, j)
         \/ /\ msg[t] # None /\ j = msg[t]
            /\ InSeq(i, log[u]) \/ InSeq(i, queue[u])
<1>0. queue[u] \in Seq(Items) /\ log[u] \in Seq(Items)
  BY DEF TypeOK
<1>1. CASE PushQueue(t)
  <2>1. /\ queue' = [queue EXCEPT ![msg[t].to] = Append(@, msg[t])]
        /\ pc[t] = "push_queue" /\ log' = log
    BY <1>1 DEF PushQueue, history
  <2>2. msg[t] # None /\ msg[t] \in Items
    BY <2>1 DEF TypeOK
  <2>3. queue'[u] = Append(queue[u], msg[t]) \/ queue'[u] = queue[u]
    BY <2>1 DEF TypeOK
  <2>4. CASE queue'[u] = Append(queue[u], msg[t])
    BY <1>0, <2>1, <2>2, <2>4, PostOrder
  <2>5. CASE queue'[u] = queue[u]
    BY <2>1, <2>5
  <2> QED BY <2>3, <2>4, <2>5
<1>2. CASE RunPop(t)
  <2>1. /\ queue[t] # <<>> /\ queue' = [queue EXCEPT ![t] = Tail(@)]
        /\ log' = [log EXCEPT ![t] = Append(@, Head(queue[t]))]
    BY <1>2 DEF RunPop
  <2>2. CASE u = t
    <3>1. queue'[u] = Tail(queue[u]) /\ log'[u] = Append(log[u], Head(queue[u]))
          /\ queue[u] # <<>>
      BY <2>1, <2>2 DEF TypeOK
    <3> QED BY <1>0, <3>1, PopOrder
  <2>3. CASE u # t
    BY <2>1, <2>3 DEF TypeOK
  <2> QED BY <2>2, <2>3
<1>3. ASSUME NEW v \in Threads, RemoveErase(t, v)
      PROVE  OrderIn(log[u], queue[u], i, j)
  <2>1. PICK k \in DOMAIN queue[v] : queue' = [queue EXCEPT ![v] = RemoveAt(@, k)]
    BY <1>3 DEF RemoveErase
  <2>2. log' = log
    BY <1>3 DEF RemoveErase, history
  <2>3. CASE u = v
    <3>1. queue'[u] = RemoveAt(queue[u], k) /\ k \in DOMAIN queue[u]
      BY <2>1, <2>3 DEF TypeOK
    <3> QED BY <1>0, <2>2, <3>1, EraseOrder
  <2>4. CASE u # v
    BY <2>1, <2>2, <2>4 DEF TypeOK
  <2> QED BY <2>3, <2>4
<1>4. CASE UNCHANGED <<queue, log>>
  BY <1>4
<1>5. CASE PushMap(t) \/ RunMap(t) \/ RunLock(t) \/ RunEmpty(t) \/ RunReturn(t)
  BY <1>4, <1>5 DEF PushMap, RunMap, RunLock, RunEmpty, RunReturn, history
<1>6. CASE \/ RemoveLock(t) \/ RemoveReturn(t)
           \/ \E v \in Threads : RemoveEnter(t, v) \/ RemoveLeave(t, v)
  BY <1>4, <1>6 DEF RemoveLock, RemoveReturn, RemoveEnter, RemoveLeave, history
<1> QED BY <1>1, <1>2, <1>3, <1>5, <1>6 DEF PushStep, RemoveStep, RunStep

(* The callback a thread is pushing belongs to the emission that holds the *)
(* signal: no queue has a callback of another emission of the signal       *)
(* behind one of this emission, and no other frame holds the signal.       *)
LEMMA PushedIsLatest ==
  ASSUME TypeOK, SigInv, SignedItems, Latest, NEW t \in Threads, msg[t] # None
  PROVE  /\ msg[t] \in Items /\ Signed(msg[t])
         /\ \A u \in Threads : \A i, j \in Items :
              /\ OrderIn(log[u], queue[u], i, j)
              /\ Emission(i) = Emission(msg[t]) /\ SignalOf(j) = SignalOf(msg[t])
              => Emission(j) = Emission(i)
         /\ \A u \in Threads : \A k \in DOMAIN stack[u] :
              HoldsSig(stack[u][k]) /\ SignalOf(msg[t]) = stack[u][k].sig
              => Emission(msg[t]) = <<u, stack[u][k].num>>
<1>1. msg[t] \in Items /\ pc[t] \in {"push_map", "push_queue"}
  BY DEF TypeOK
<1>2. Busy(t) /\ HoldsSig(Top(t))
  BY <1>1 DEF SigInv, CallFrame, In, HoldsSig
<1>3. /\ 1 \in DOMAIN stack[t] /\ Top(t) = stack[t][1]
      /\ sigMtx[Top(t).sig] = t
      /\ \A k \in DOMAIN stack[t] : k # 1 => Apart(Top(t), stack[t][k])
  BY <1>2, TopFrame DEF SigInv, FrameOK
<1>4. /\ Signed(msg[t]) /\ Emission(msg[t]) = <<t, Top(t).num>>
      /\ SignalOf(msg[t]) = Top(t).sig
  BY DEF SignedItems, Emission, SignalOf
<1>5. ASSUME NEW u \in Threads, NEW k \in DOMAIN stack[u],
             HoldsSig(stack[u][k]), SignalOf(msg[t]) = stack[u][k].sig
      PROVE  Emission(msg[t]) = <<u, stack[u][k].num>>
  <2>1. sigMtx[stack[u][k].sig] = u
    BY <1>5 DEF SigInv, FramesInv, FrameOK
  <2>2. u = t
    BY <1>3, <1>4, <1>5, <2>1
  <2>3. k = 1
    BY <1>2, <1>3, <1>4, <1>5, <2>2 DEF Apart
  <2> QED BY <1>3, <1>4, <2>2, <2>3
<1>6. ASSUME NEW u \in Threads, NEW i \in Items, NEW j \in Items,
             OrderIn(log[u], queue[u], i, j),
             Emission(i) = Emission(msg[t]), SignalOf(j) = SignalOf(msg[t])
      PROVE  Emission(j) = Emission(i)
  <2>1. Emission(i) = <<t, stack[t][1].num>> /\ SignalOf(j) = stack[t][1].sig
    BY <1>3, <1>4, <1>6
  <2> QED BY <1>2, <1>3, <1>6, <2>1 DEF Latest
<1> QED BY <1>1, <1>4, <1>5, <1>6

LEMMA AgreeStep ==
  ASSUME OwnContext, TypeOK, SigInv, HomeInv, OrderInv, [SigNext]_<<vars, sigVars>>
  PROVE  Agree'
<1>1. ASSUME UNCHANGED <<queue, log, wave>> PROVE Agree'
  <2>1. \A i : Emission(i)' = Emission(i) /\ SignalOf(i)' = SignalOf(i)
    BY <1>1 DEF Emission, SignalOf
  <2> QED BY <1>1, <2>1 DEF OrderInv, Agree
<1>2. ASSUME NEW t \in Threads, NEW o \in Objects, EmitPush(t, o)
      PROVE  Agree'
  <2>1. /\ UNCHANGED <<queue, log>>
        /\ \A i \in Items : Signed(i) =>
             Emission(i)' = Emission(i) /\ SignalOf(i)' = SignalOf(i)
    BY <1>2, PushSigns DEF OrderInv
  <2> SUFFICES ASSUME NEW u \in Threads, NEW v \in Threads,
                      NEW i \in Items, NEW j \in Items, NEW x \in Items, NEW y \in Items,
                      OrderIn(log[u], queue[u], i, j), OrderIn(log[v], queue[v], y, x),
                      Emission(i)' = Emission(x)', Emission(j)' = Emission(y)',
                      SignalOf(i)' = SignalOf(j)'
               PROVE  Emission(i)' = Emission(j)'
    BY <2>1 DEF Agree
  <2>2. Signed(i) /\ Signed(j) /\ Signed(x) /\ Signed(y)
    BY OrderElements DEF OrderInv
  <2> QED BY <2>1, <2>2 DEF OrderInv, Agree
<1>3. ASSUME NEW t \in Threads, PushStep(t) \/ RemoveStep(t) \/ RunStep(t), wave' = wave
      PROVE  Agree'
  <2> DEFINE Fresh(w, i, j) ==
               /\ msg[t] # None /\ j = msg[t]
               /\ InSeq(i, log[w]) \/ InSeq(i, queue[w])
  <2>1. \A i : Emission(i)' = Emission(i) /\ SignalOf(i)' = SignalOf(i)
    BY <1>3 DEF Emission, SignalOf
  <2> SUFFICES ASSUME NEW u \in Threads, NEW v \in Threads,
                      NEW i \in Items, NEW j \in Items, NEW x \in Items, NEW y \in Items,
                      OrderIn(log'[u], queue'[u], i, j), OrderIn(log'[v], queue'[v], y, x),
                      Emission(i) = Emission(x), Emission(j) = Emission(y),
                      SignalOf(i) = SignalOf(j)
               PROVE  Emission(i) = Emission(j)
    BY <2>1 DEF Agree
  <2>2. OrderIn(log[u], queue[u], i, j) \/ Fresh(u, i, j)
    BY <1>3, OrderMoves
  <2>3. OrderIn(log[v], queue[v], y, x) \/ Fresh(v, y, x)
    BY <1>3, OrderMoves
  <2>4. \A w \in Threads : \A a \in Items : InSeq(a, log[w]) \/ InSeq(a, queue[w]) => Signed(a)
    BY DEF OrderInv, SignedItems, InSeq
  <2>5. msg[t] # None => Signed(msg[t]) /\ msg[t] \in Items
    BY PushedIsLatest DEF OrderInv
  <2>6. \A w \in Threads : \A a, b \in Items :
          OrderIn(log[w], queue[w], a, b) => Signed(a) /\ Signed(b)
    BY OrderElements DEF OrderInv
  <2>7. Signed(i) /\ Signed(j) /\ Signed(x) /\ Signed(y)
    BY <2>2, <2>3, <2>4, <2>5, <2>6
  <2>8. SignalOf(x) = SignalOf(i) /\ SignalOf(y) = SignalOf(j)
    BY <2>7, EmissionSignal DEF OrderInv
  <2>9. CASE OrderIn(log[u], queue[u], i, j) /\ OrderIn(log[v], queue[v], y, x)
    BY <2>9 DEF OrderInv, Agree
  <2>10. CASE OrderIn(log[v], queue[v], y, x) /\ Fresh(u, i, j)
    BY <2>8, <2>10, PushedIsLatest DEF OrderInv
  <2>11. CASE OrderIn(log[u], queue[u], i, j) /\ Fresh(v, y, x)
    BY <2>8, <2>11, PushedIsLatest DEF OrderInv
  <2>12. CASE Fresh(u, i, j) /\ Fresh(v, y, x)
    BY <2>12
  <2> QED BY <2>2, <2>3, <2>9, <2>10, <2>11, <2>12
<1>4. ASSUME NEW t \in Threads, Begin(t) \/ EmitStep(t) \/ DestroyStep(t),
             \A o \in Objects : ~EmitPush(t, o)
      PROVE  Agree'
  BY <1>1, <1>4, FrameOnly
<1>5. ASSUME NEW t \in Threads, QueueStep(t) \/ \E b \in BOOLEAN : RunOnce(t, b)
      PROVE  Agree'
  <2>1. wave' = wave
    BY <1>5, QueueOnly
  <2>2. CASE QueueStep(t)
    BY <1>3, <2>1, <2>2 DEF QueueStep
  <2>3. CASE \E b \in BOOLEAN : RunOnce(t, b)
    BY <1>1, <2>1, <2>3 DEF RunOnce, RunCall, history
  <2> QED BY <1>5, <2>2, <2>3
<1>6. CASE UNCHANGED <<vars, sigVars>>
  BY <1>1, <1>6 DEF sigVars, vars, history
<1> QED BY <1>2, <1>4, <1>5, <1>6 DEF SigNext, SigProgress, EmitStep

LEMMA LatestStep ==
  ASSUME OwnContext, TypeOK, SigInv, HomeInv, OrderInv, [SigNext]_<<vars, sigVars>>
  PROVE  Latest'
<1> DEFINE
      After(t, n, s) ==
        \A u \in Threads : \A i, j \in Items :
          /\ OrderIn(log[u], queue[u], i, j)
          /\ Emission(i) = <<t, n>> /\ SignalOf(j) = s
          => Emission(j) = Emission(i)
<1>1. ASSUME UNCHANGED <<queue, log, wave, stack>> PROVE Latest'
  BY <1>1 DEF OrderInv, Latest, Emission, SignalOf
<1>2. \A t \in Threads : \A k \in DOMAIN stack[t] :
        HoldsSig(stack[t][k]) => After(t, stack[t][k].num, stack[t][k].sig)
  BY DEF OrderInv, Latest
<1>3. \A t \in Threads : Busy(t) => 1 \in DOMAIN stack[t] /\ Top(t) = stack[t][1]
  BY TopFrame DEF SigInv
<1> HIDE DEF After
<1>4. ASSUME NEW t \in Threads, NEW f \in Frames, NewFrame(t, f), HoldsSig(f)
      PROVE  After(t, f.num, f.sig)
  <2>1. CASE Leaves(t) /\ f = Top(t)
    BY <1>2, <1>3, <1>4, <2>1 DEF Leaves
  <2>2. CASE Destroys(t, f) \/ Emits(t, f)
    BY <1>4, <2>2 DEF Destroys, Emits, HoldsSig
  <2>3. CASE GoesOn(t, f)
    <3>1. Busy(t) /\ Top(t).op = "emit" /\ f.sig = Top(t).sig /\ f.num = Top(t).num
      BY <2>3 DEF GoesOn
    <3>2. CASE HoldsSig(Top(t))
      BY <1>2, <1>3, <3>1, <3>2
    <3>3. CASE ~HoldsSig(Top(t))
      <4>1. FrameNum(Top(t), wave[t], emitted[t])
        BY <1>3, <3>1 DEF OrderInv, FrameNums
      <4>2. \A m \in DOMAIN wave[t] : wave[t][m][2] # f.num
        BY <3>1, <3>3, <4>1 DEF FrameNum
      <4>3. ASSUME NEW u \in Threads, NEW i \in Items, NEW j \in Items,
                   OrderIn(log[u], queue[u], i, j)
            PROVE  Emission(i) # <<t, f.num>>
        <5>1. Signed(i)
          BY <4>3, OrderElements DEF OrderInv
        <5> QED BY <4>2, <5>1 DEF Signed, SignedIn, Emission
      <4> QED BY <4>3 DEF After
    <3> QED BY <3>2, <3>3
  <2> QED BY <1>4, <2>1, <2>2, <2>3 DEF NewFrame
<1>5. ASSUME NEW t \in Threads, NEW f \in Frames, NewFrame(t, f), UNCHANGED <<queue, log>>,
             \A i \in Items : Signed(i) =>
               Emission(i)' = Emission(i) /\ SignalOf(i)' = SignalOf(i)
      PROVE  Latest'
  <2> SUFFICES ASSUME NEW w \in Threads, NEW k \in DOMAIN stack'[w], HoldsSig(stack'[w][k]),
                      NEW u \in Threads, NEW i \in Items, NEW j \in Items,
                      OrderIn(log[u], queue[u], i, j),
                      Emission(i)' = <<w, stack'[w][k].num>>,
                      SignalOf(j)' = stack'[w][k].sig
               PROVE  Emission(j)' = Emission(i)'
    BY <1>5 DEF Latest
  <2>1. Signed(i) /\ Signed(j)
    BY OrderElements DEF OrderInv
  <2>2. After(w, stack'[w][k].num, stack'[w][k].sig)
    BY <1>2, <1>4, <1>5, NewFrames DEF NewFrame, SigInv
  <2> QED BY <1>5, <2>1, <2>2 DEF After
<1>6. ASSUME NEW t \in Threads, NEW o \in Objects, EmitPush(t, o)
      PROVE  Latest'
  BY <1>5, <1>6, PushSigns, PushGoesOn DEF OrderInv
<1>7. ASSUME NEW t \in Threads, Begin(t) \/ EmitStep(t) \/ DestroyStep(t),
             \A o \in Objects : ~EmitPush(t, o)
      PROVE  Latest'
  <2>1. UNCHANGED <<queue, log, wave>>
    BY <1>7, FrameOnly
  <2>2. \A i \in Items : Emission(i)' = Emission(i) /\ SignalOf(i)' = SignalOf(i)
    BY <2>1 DEF Emission, SignalOf
  <2> QED BY <1>1, <1>5, <1>7, <2>1, <2>2, OneFrame
<1>8. ASSUME NEW t \in Threads, PushStep(t) \/ RemoveStep(t) \/ RunStep(t),
             UNCHANGED <<wave, stack>>
      PROVE  Latest'
  <2>1. \A i : Emission(i)' = Emission(i) /\ SignalOf(i)' = SignalOf(i)
    BY <1>8 DEF Emission, SignalOf
  <2> SUFFICES ASSUME NEW w \in Threads, NEW k \in DOMAIN stack[w], HoldsSig(stack[w][k]),
                      NEW u \in Threads, NEW i \in Items, NEW j \in Items,
                      OrderIn(log'[u], queue'[u], i, j),
                      Emission(i) = <<w, stack[w][k].num>>,
                      SignalOf(j) = stack[w][k].sig
               PROVE  Emission(j) = Emission(i)
    BY <1>8, <2>1 DEF Latest
  <2>2. OrderIn(log[u], queue[u], i, j) \/ (msg[t] # None /\ j = msg[t])
    BY <1>8, OrderMoves
  <2>3. CASE OrderIn(log[u], queue[u], i, j)
    BY <1>2, <2>3 DEF After
  <2>4. CASE msg[t] # None /\ j = msg[t]
    BY <2>4, PushedIsLatest DEF OrderInv
  <2> QED BY <2>2, <2>3, <2>4
<1>9. ASSUME NEW t \in Threads, QueueStep(t) \/ \E b \in BOOLEAN : RunOnce(t, b)
      PROVE  Latest'
  <2>1. UNCHANGED <<wave, stack>>
    BY <1>9, QueueOnly
  <2>2. CASE QueueStep(t)
    BY <1>8, <2>1, <2>2 DEF QueueStep
  <2>3. CASE \E b \in BOOLEAN : RunOnce(t, b)
    BY <1>1, <2>1, <2>3 DEF RunOnce, RunCall, history
  <2> QED BY <1>9, <2>2, <2>3
<1>10. CASE UNCHANGED <<vars, sigVars>>
  BY <1>1, <1>10 DEF sigVars, vars, history
<1> QED BY <1>6, <1>7, <1>9, <1>10 DEF SigNext, SigProgress, EmitStep

LEMMA OrderSame ==
  ASSUME TypeOK, Agree, SignalAssumption
  PROVE  SameOrder
<1> SUFFICES ASSUME NEW o \in Objects, NEW p \in Objects, Home[o] # None, Home[p] # None,
                    NEW a \in DOMAIN log[Home[o]], NEW b \in DOMAIN log[Home[o]],
                    NEW c \in DOMAIN log[Home[p]], NEW d \in DOMAIN log[Home[p]],
                    Emission(log[Home[o]][a]) = Emission(log[Home[p]][c]),
                    Emission(log[Home[o]][b]) = Emission(log[Home[p]][d]),
                    Emission(log[Home[o]][a]) # Emission(log[Home[o]][b]),
                    SignalOf(log[Home[o]][a]) = SignalOf(log[Home[o]][b]),
                    a < b
             PROVE  c < d
  BY DEF SameOrder
<1>1. Home[o] \in Threads /\ Home[p] \in Threads
  BY DEF SignalAssumption
<1>2. /\ DOMAIN log[Home[p]] = 1 .. Len(log[Home[p]]) /\ Len(log[Home[p]]) \in Nat
      /\ log[Home[o]][a] \in Items /\ log[Home[o]][b] \in Items
      /\ log[Home[p]][c] \in Items /\ log[Home[p]][d] \in Items
  BY <1>1, Elements, LenProperties
<1>3. c # d
  OBVIOUS
<1>4. ~(d < c)
  <2>1. OrderIn(log[Home[o]], queue[Home[o]], log[Home[o]][a], log[Home[o]][b])
    BY DEF OrderIn
  <2>2. d < c =>
          OrderIn(log[Home[p]], queue[Home[p]], log[Home[p]][d], log[Home[p]][c])
    BY DEF OrderIn
  <2> QED BY <1>1, <1>2, <2>1, <2>2 DEF Agree
<1>5. c \in Nat /\ d \in Nat
  BY <1>2
<1> QED BY <1>3, <1>4, <1>5

(* Two emissions of one signal reach all slots that have another thread in *)
(* the same order, from any number of threads and however emissions nest.  *)
THEOREM EmissionsInOrder ==
  ASSUME OwnContext
  PROVE  SigSpec => []SameOrder
<1>1. /\ TypeOK /\ SigInv /\ HomeInv /\ OrderInv /\ [SigNext]_<<vars, sigVars>>
      => OrderInv'
  BY NumberedStep, FrameNumsStep, NumsApartStep, SignedItemsStep, AgreeStep, LatestStep
     DEF OrderInv
<1>2. TypeOK /\ OrderInv => SameOrder
  BY OrderSame, SignalAssumption DEF OrderInv
<1> QED BY <1>1, <1>2, OrderInit, HomeInvariant, SigInvariant, PTL DEF SigSpec

================================================================================
