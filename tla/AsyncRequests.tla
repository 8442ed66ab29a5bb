--------------------------- MODULE AsyncRequests ---------------------------
(***************************************************************************)
(* What an asynchronous client of this library promises to its caller: a   *)
(* request that was submitted is answered through its callback once, with  *)
(* an error code that does not contradict what the caller did.  The TCP    *)
(* client (asiolib/tcp-client-async.hpp) and the HTTP client               *)
(* (asiolib/http-client-async.hpp) implement it; they differ in whether a  *)
(* cancellation outweighs an answer that arrived in spite of it.           *)
(***************************************************************************)
CONSTANTS
  Requests,     \* the requests
  CancelWins    \* Boolean: is a cancelled request never reported as successful?

VARIABLES
  status,       \* "idle", "active" or "done"
  cancelled,    \* did the caller cancel the request?
  outcome       \* the error code its callback got

absVars == <<status, cancelled, outcome>>

Outcomes == {"ok", "aborted", "failed"}

AbsInit ==
  /\ status = [r \in Requests |-> "idle"]
  /\ cancelled = [r \in Requests |-> FALSE]
  /\ outcome = [r \in Requests |-> "none"]

Submit(r) ==
  /\ status[r] = "idle"
  /\ status' = [status EXCEPT ![r] = "active"]
  /\ UNCHANGED <<cancelled, outcome>>

Cancel(r) ==
  /\ cancelled' = [cancelled EXCEPT ![r] = TRUE]
  /\ UNCHANGED <<status, outcome>>

\* The callback runs: success is not claimed for what was cancelled (where
\* cancellation wins), cancellation is not claimed for what was not.
Complete(r, o) ==
  /\ status[r] = "active"
  /\ CancelWins /\ cancelled[r] => o # "ok"
  /\ o = "aborted" => cancelled[r]
  /\ status' = [status EXCEPT ![r] = "done"]
  /\ outcome' = [outcome EXCEPT ![r] = o]
  /\ UNCHANGED cancelled

AbsNext ==
  \E r \in Requests :
    \/ Submit(r)
    \/ Cancel(r)
    \/ \E o \in Outcomes : Complete(r, o)

AbsSpec == AbsInit /\ [][AbsNext]_absVars
=============================================================================
