--------------------------- MODULE MCEventPipeline ---------------------------
(***************************************************************************)
(* Instances of EventPipeline for TLC.                                     *)
(***************************************************************************)
EXTENDS EventPipeline, TLC

\* Requests and workers of one kind are interchangeable.
Symmetry == Permutations(Handlers) \union Permutations(Admins) \union Permutations(Workers)
=============================================================================
