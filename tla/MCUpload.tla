------------------------------ MODULE MCUpload ------------------------------
(***************************************************************************)
(* Instances of Upload for TLC: bodies over three units, chunks of two.    *)
(* ABC is chunked into AB and C, AB is not chunked and equals the first    *)
(* chunk of ABC, so that deduplication between uploads happens.            *)
(***************************************************************************)
EXTENDS UploadRefines, UploadClaims, TLC

CONSTANTS r1, r2, r3, a, b, c, p1, p2

ABC == <<a, b, c>>
AB  == <<a, b>>

\* Two files, and a second attempt r3 at the first of them.
RetryBody == [r \in Requests |-> IF r = r2 THEN AB ELSE ABC]
RetryTmp  == [r \in Requests |-> IF r = r2 THEN p2 ELSE p1]

\* The same file twice: a retry, or two pushes from one repository.
SharedBody == [r \in Requests |-> ABC]
SmallBody  == [r \in Requests |-> AB]
SharedTmp  == [r \in Requests |-> p1]

=============================================================================
