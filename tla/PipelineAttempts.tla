--------------------------- MODULE PipelineAttempts ---------------------------
(***************************************************************************)
(* EventPipeline with a history variable: how often Process was really     *)
(* called for an entry, beside the delivery count the worker goes by.      *)
(***************************************************************************)
EXTENDS EventPipeline

ASSUME AttemptsAssumption == IsFiniteSet(Workers)

VARIABLE tried    \* entry -> calls of Process, which saturate at MaxAttempts

Taken(n) == \E w \in Workers : /\ wrk[w].pc = "idle"
                               /\ wrk'[w].pc \in {"save", "attempts"}
                               /\ wrk'[w].entry = n

TrackedInit == Init /\ tried = [n \in EntryIds |-> 0]
TrackedNext ==
    /\ Next
    /\ tried' = [n \in EntryIds |-> IF Taken(n) THEN Least(MaxAttempts, tried[n] + 1) ELSE tried[n]]
TrackedSpec == TrackedInit /\ [][TrackedNext]_<<vars, tried>>
FairTrackedSpec == TrackedSpec /\ Fairness

\* The count never falls behind.  However entries are claimed from slow and dead
\* workers, each call of Process for an entry has a delivery of its own, so that the
\* MaxAttempts-th failure of an entry finds the limit reached (process in queue.go
\* compares the count that XREADGROUP and XAUTOCLAIM raise with maxAttempts).  It may be
\* ahead: a worker that exits has used up a delivery of every entry it did not come to.
TriesAreCounted == \A n \in EntryIds : tried[n] <= deliveries[n]
=============================================================================
