---------------------------- MODULE UploadRefines ----------------------------
(***************************************************************************)
(* The upload handlers, with at most one at a time on a temporary file and *)
(* a disk that reports its errors, implement ObjectStore.                  *)
(***************************************************************************)
EXTENDS Upload

\* The objects that clients want stored, named by their content.
Objects == {Body[r] : r \in Requests}

\* A handler may store any run of units of its body on the way: a chunk, or the
\* prefix that arrived before the body broke off.
Slices(d) == {SubSeq(d, i, j) : i \in 1 .. Len(d) + 1, j \in 0 .. Len(d)}

\* A client whose body broke off has lost its connection, whatever the handler
\* that took the fragment for the whole answers to it.
StatusOf(r) ==
  IF pc[r] = "idle" THEN "new"
  ELSE IF InFlight(r) THEN "open"
  ELSE IF resp[r] \in {"rejected", "error"} THEN "failed"
  ELSE IF Accepted(r) THEN "accepted" ELSE "cut"

Abstract == INSTANCE ObjectStore WITH
  Uploads <- Requests,
  Object  <- Body,
  Parts   <- [r \in Requests |-> Objects \cap Slices(Body[r])],
  stored  <- {o \in Objects : RawBlob(o) \in store},
  status  <- [r \in Requests |-> StatusOf(r)]

\* Every behaviour of the handlers is one of the object store: no answer, race,
\* failure or restart shows the client anything else (daemon.rs:556-702).
ImplementsObjectStore == Abstract!Spec

=============================================================================
