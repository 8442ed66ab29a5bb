------------------------- MODULE MCTcpClientAsync -------------------------
(* Instances of TcpClientAsync for TLC.                                    *)
EXTENDS TcpClientAsync, TLC

\* The sessions, the request ids and the callers are interchangeable.
Symmetry ==
  Permutations(Sessions) \cup Permutations(Ids) \cup Permutations(Callers)
=============================================================================
