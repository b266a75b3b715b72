------------------------------ MODULE MCAccess ------------------------------
(***************************************************************************)
(* Instances of Access for TLC.                                            *)
(***************************************************************************)
EXTENDS Access, TLC

\* Tokens, requests, secrets and keys are interchangeable among themselves.
Symmetry == Permutations(Tokens) \union Permutations(Requests)
              \union Permutations(Secrets) \union Permutations(Keys)
=============================================================================
