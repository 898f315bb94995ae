----------------------------- MODULE MCInterThread -----------------------------
(* Instances of InterThread for TLC: two threads, two slots.               *)
EXTENDS InterThread, TLC

CONSTANTS o1, o2

SlotSymmetry == Permutations({o1, o2})

TwoThreads == 1..2
AllPairs == {<<t, u>> \in Threads \X Threads : t # u}

================================================================================
