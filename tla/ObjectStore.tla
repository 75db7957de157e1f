----------------------------- MODULE ObjectStore -----------------------------
(***************************************************************************)
(* What the upload route of the daemon promises to a git-lfs client, with  *)
(* no handler, no file and no chunk in sight: a set of stored objects that *)
(* only grows, and uploads each of which ends in exactly one outcome.  An  *)
(* upload that is accepted has its object stored; one that fails or is cut *)
(* off promises nothing, and may still leave parts of its object behind.   *)
(***************************************************************************)
CONSTANTS
  Uploads,   \* upload requests
  Object,    \* Object[u]: the object that u is to store
  Parts      \* Parts[u]: the objects that u may store on the way

VARIABLES
  stored,    \* objects that can be fetched by their oid
  status     \* "new", "open", "accepted", "failed" or "cut"

ovars == <<stored, status>>

Init == stored = {} /\ status = [u \in Uploads |-> "new"]

Open(u) ==
  /\ status[u] = "new"
  /\ status' = [status EXCEPT ![u] = "open"]
  /\ UNCHANGED stored

\* Turned down before, or failed after, something was stored.
Refuse(u) ==
  /\ status[u] = "new"
  /\ status' = [status EXCEPT ![u] = "failed"]
  /\ UNCHANGED stored

Put(u) ==
  /\ status[u] = "open"
  /\ \E S \in SUBSET Parts[u] : stored' = stored \cup S
  /\ UNCHANGED status

Accept(u) ==
  /\ status[u] = "open"
  /\ Object[u] \in stored
  /\ status' = [status EXCEPT ![u] = "accepted"]
  /\ UNCHANGED stored

Fail(u) ==
  /\ status[u] = "open"
  /\ \E S \in SUBSET Parts[u] : stored' = stored \cup S
  /\ status' = [status EXCEPT ![u] = "failed"]

\* The connections of some uploads die; a panic may cut one not yet open.
Cut ==
  /\ \E U \in SUBSET {u \in Uploads : status[u] \in {"new", "open"}} :
       status' = [u \in Uploads |-> IF u \in U THEN "cut" ELSE status[u]]
  /\ UNCHANGED stored

Next ==
  \/ \E u \in Uploads : Open(u) \/ Refuse(u) \/ Put(u) \/ Accept(u) \/ Fail(u)
  \/ Cut

Spec == Init /\ [][Next]_ovars

=============================================================================
