-------------------------- MODULE MCTcpServerAsync --------------------------
(* Instances of TcpServerAsync for TLC.                                    *)
EXTENDS TcpServerAsync
=============================================================================
