------------------------------ MODULE MCLocks ------------------------------
(***************************************************************************)
(* Instances of Locks.  The commands of ann and ben are in working copies  *)
(* of one repository with different remotes and transports; the server of  *)
(* the other repository has no locks.                                      *)
(***************************************************************************)
EXTENDS Locks

CONSTANTS ann1, ann2, ben1, ben2, cat, ann, ben, p, q, shared, other

Copy(repo, user, form, via, api, kinds) ==
  [repo |-> repo, user |-> user, form |-> form, via |-> via, api |-> api, kinds |-> kinds]

Unused == Copy(other, ben, "ssh", "http", FALSE, {})

\* Ann and ben, an admin, lock and unlock; one of the locks is taken over iroh.
Unlocking ==
  [c \in Clients |->
     CASE c = ann1 -> Copy(shared, ann, "https", "iroh", TRUE, {"lock"})
       [] c = ann2 -> Copy(shared, ann, "git@", "http", TRUE, {"lock", "unlock"})
       [] c = ben1 -> Copy(shared, ben, "git@", "http", TRUE, {"lock", "unlock"})
       [] OTHER    -> Unused]

\* Ann locks; ben pushes, from here and from the other repository.
Pushing(via) ==
  [c \in Clients |->
     CASE c = ann1 -> Copy(shared, ann, "https", "iroh", TRUE, {"lock"})
       [] c = ben2 -> Copy(shared, ben, "git@", via, TRUE, {"push"})
       [] c = cat  -> Copy(other, ben, "ssh", via, FALSE, {"push"})
       [] OTHER    -> Unused]

MCClones == {Unlocking, Pushing("http"), Pushing("iroh")}

\* Everybody on iroh.
IrohClones == {[c \in Clients |-> [Unlocking[c] EXCEPT !.via = "iroh"]]}

\* The words in the errors of the server: those of the tests over HTTP, and those
\* that an iroh error may or may not contain.
MCTexts ==
  [via \in {"http", "iroh"} |->
     [code \in {"conflict", "not_found", "forbidden", "no_api"} |->
        CASE code = "not_found" -> IF via = "http" THEN {{"not found"}} ELSE {{"not found"}, {}}
          [] code = "forbidden" -> {{"owner"}, {"forbidden"}}
          [] code = "conflict"  -> {{"already locked"}, {}}
          [] OTHER              -> {{}}]]

=============================================================================
