------------------------------- MODULE MCThread --------------------------------
(* Instances of Thread for TLC.                                            *)
EXTENDS Thread

CONSTANTS e1, e2, e3, w1, w2
================================================================================
