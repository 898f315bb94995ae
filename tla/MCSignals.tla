------------------------------- MODULE MCSignals -------------------------------
(* Instances of Signals for TLC.                                           *)
EXTENDS Signals, TLC

CONSTANTS o1, o2, s1, s2, r1, r2

Symmetry == Permutations({s1, s2}) \cup Permutations({r1, r2})

RelaySymmetry == Permutations({r1, r2})

TwoThreads == 1..2
ThreeThreads == 1..3
AllPairs == {<<t, u>> \in Threads \X Threads : t # u}
NoPairs == {}
NoThreads == {}
FirstTwo == 1..2
LastThread == {Cardinality(Threads)}
OneThread == {1}
EveryCall == Objects \X Sigs
EveryKill == Objects \X Objects

NoSigHome == [s \in Sigs |-> None]
SigHomeLast == [s \in Sigs |-> Cardinality(Threads)]
AllAtFirst == [o \in Objects |-> 1]
HomeAtLast == [o \in Objects |-> IF o = o1 THEN Cardinality(Threads) ELSE None]
AllAtLast == [o \in Objects |-> Cardinality(Threads)]

================================================================================
