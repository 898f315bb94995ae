----------------------------- MODULE MCParameters -----------------------------
(* Instances of Parameters for TLC: object A has the output a1, B the      *)
(* input i1 and the output b1, C the input j1.                             *)
EXTENDS Parameters, TLC

CONSTANTS a1, b1, i1, j1, A, B, C

ObjectOf == [p \in Params |-> IF p = a1 THEN A ELSE IF p = j1 THEN C ELSE B]
LevelOf == [o \in Objects |-> IF o = A THEN 0 ELSE IF o = B THEN 1 ELSE 2]
HomeOf == [p \in Params |-> IF p = a1 THEN 1 ELSE 2]
Flow == {<<i1, a1>>, <<j1, a1>>, <<j1, b1>>, <<j1, i1>>}
ThreadSet == 1..2
TypedOne == {b1}
===============================================================================
