----------------------------- MODULE MCIoBuffers -----------------------------
(* Instances of IoBuffers for TLC.                                         *)
EXTENDS IoBuffers
=============================================================================
