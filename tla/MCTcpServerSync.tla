--------------------------- MODULE MCTcpServerSync ---------------------------
(* Instances of TcpServerSync for TLC.                                     *)
EXTENDS TcpServerSync
=============================================================================
