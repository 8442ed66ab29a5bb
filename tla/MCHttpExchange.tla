--------------------------- MODULE MCHttpExchange ---------------------------
(* Instances of HttpExchange for TLC.                                      *)
EXTENDS HttpExchange, FiniteSets, TLC

\* The requests are interchangeable.
Symmetry == Permutations(Requests)

\* How much was done to the exchange from outside, apart from the end of the
\* client: cancellations, faults, close, Stop.
Disturbances ==
  Cardinality({r \in Requests : m_was_cancelled[r]})
    + Cardinality({r \in Requests : fault[r]})
    + (IF m_work THEN 0 ELSE 1)
    + (IF stopFlag_ THEN 1 ELSE 0)

\* Bound: states after a second disturbance are not followed any further.
AtMostOneDisturbance == Disturbances <= 1
=============================================================================
