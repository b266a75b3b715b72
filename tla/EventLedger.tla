----------------------------- MODULE EventLedger -----------------------------
(***************************************************************************)
(* What the pipeline promises its providers: an event that was accepted    *)
(* has been queued, a queued event leaves the queue only once its          *)
(* deployment is stored or it is parked in the dead-letter stream, and     *)
(* neither is ever undone.                                                 *)
(***************************************************************************)
CONSTANT Events

VARIABLES
    accepted,     \* events the provider was told are accepted
    open,         \* events the queue still has to work on
    deployed,     \* events whose deployment is stored
    parked        \* events given up on, kept for an operator

vars == <<accepted, open, deployed, parked>>

Init == accepted = {} /\ open = {} /\ deployed = {} /\ parked = {}

Known(e) == e \in open \union deployed \union parked

\* Queue an event, and perhaps tell the provider at once.
Enqueue(e) ==
    /\ open' = open \union {e}
    /\ accepted' \in {accepted, accepted \union {e}}
    /\ UNCHANGED <<deployed, parked>>

\* Tell the provider of a repeated event that it was taken before.
Accept(e) ==
    /\ Known(e)
    /\ accepted' = accepted \union {e}
    /\ UNCHANGED <<open, deployed, parked>>

Deploy(e) ==
    /\ Known(e)
    /\ deployed' = deployed \union {e}
    /\ UNCHANGED <<accepted, open, parked>>

\* Give up on an event, and perhaps take it off the queue at once.
Park(e) ==
    /\ Known(e)
    /\ parked' = parked \union {e}
    /\ open' \in {open, open \ {e}}
    /\ UNCHANGED <<accepted, deployed>>

\* Take settled events off the queue.
Close(done) ==
    /\ done \subseteq deployed \union parked
    /\ open' = open \ done
    /\ UNCHANGED <<accepted, deployed, parked>>

Next == \/ \E e \in Events : Enqueue(e) \/ Accept(e) \/ Deploy(e) \/ Park(e)
        \/ \E done \in SUBSET Events : Close(done)

Spec == Init /\ [][Next]_vars
=============================================================================
