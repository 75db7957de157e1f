---------------------------- MODULE UploadClaims ----------------------------
(***************************************************************************)
(* Statements that the documentation and the tests of the repository make  *)
(* about uploads and that the handlers do not keep.                        *)
(***************************************************************************)
EXTENDS Upload

\* tests/concurrent_tests.rs:96-98, uploads of one blob at the same time: "At
\* least one should succeed (200) ... Then download once and verify content
\* matches" (daemon.rs:583-657).
SameBlobOutcome ==
  (\A r \in Requests : pc[r] = "done" /\ resp[r] # "rejected") =>
    /\ \E r \in Requests : resp[r] = "ok"
    /\ \A r \in Requests : RawBlob(Body[r]) \in store

\* chunking/manifest.rs:28-30: "The OID used by Git LFS points to this manifest,
\* which in turn references the individual chunk blobs": the oid of a file that
\* was chunked does not name a blob with the whole file (daemon.rs:617-647).
OidPointsToManifest ==
  \A r \in Requests :
    Accepted(r) /\ Len(Body[r]) > ChunkSize => RawBlob(Body[r]) \notin store

=============================================================================
