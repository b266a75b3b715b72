---------------------------- MODULE MCSqsPipeline ----------------------------
(***************************************************************************)
(* Instances of SqsPipeline for TLC.                                       *)
(***************************************************************************)
EXTENDS SqsPipeline, TLC

\* Invocations are interchangeable.
Symmetry == Permutations(Lambdas)
=============================================================================
