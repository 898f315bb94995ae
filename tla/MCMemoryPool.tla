------------------------------ MODULE MCMemoryPool -----------------------------
(* Instances of MemoryPool for TLC, and in the same run of HostAllocators and *)
(* DeviceAllocators: focus names the one that a behaviour is about, the       *)
(* others stay in their initial states.                                      *)
EXTENDS MemoryPool, HostAllocators, DeviceAllocators, TLC

VARIABLE focus

ThreeShapes == {<<1, 3>>, <<2, 2>>, <<2, 3>>}

MemoryInit ==
  /\ focus \in {"pool", "host", "device"}
  /\ Init /\ HostInit /\ DeviceInit
  /\ focus # "device" => policy = "plain"
  /\ focus # "pool" => blocks[1].begin = 0

MemoryNext ==
  /\ \/ focus = "pool" /\ Next /\ UNCHANGED <<hostVars, devVars>>
     \/ focus = "host" /\ HostNext /\ UNCHANGED <<vars, devVars>>
     \/ focus = "device" /\ DeviceNext /\ UNCHANGED <<vars, hostVars>>
  /\ UNCHANGED focus

MemorySpec == MemoryInit /\ [][MemoryNext]_<<focus, vars, hostVars, devVars>>

Symmetry == Permutations(Threads) \cup Permutations(Mats)

================================================================================
