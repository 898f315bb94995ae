------------------------------- MODULE MCBuffers -------------------------------
(* Instances of Buffers for TLC.                                           *)
EXTENDS Buffers

AllKinds == {"map", "stream", "blocking", "circular"}
CircularOnly == {"circular"}
================================================================================
