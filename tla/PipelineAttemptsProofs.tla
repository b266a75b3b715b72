----------------------- MODULE PipelineAttemptsProofs -----------------------
(***************************************************************************)
(* Proofs about PipelineAttempts: for any number of workers, entries and   *)
(* faults, the delivery count an entry has in Redis covers the calls of    *)
(* Process for it.  Every delivery puts the entry into the batch of one    *)
(* worker, and every call takes it out of one.                             *)
(***************************************************************************)
EXTENDS PipelineAttempts, EventPipelineProofs, FiniteSetTheorems

\* The workers that have the entry in their batch and did not come to it yet
Holders(n) == {w \in Workers : n \in wrk[w].batch}

\* Up to the limit, calls of Process and calls to come are deliveries; an entry that was
\* never delivered has none.
CountInv ==
    /\ tried \in [EntryIds -> 0..MaxAttempts]
    /\ \A n \in EntryIds :
         \/ deliveries[n] = MaxAttempts
         \/ tried[n] + Cardinality(Holders(n)) <= deliveries[n]
    /\ \A n \in EntryIds : n > delivered => deliveries[n] = 0

\* Every entry has a number of holders.
LEMMA HoldersAreFew ==
    ASSUME NEW n
    PROVE  IsFiniteSet(Holders(n)) /\ Cardinality(Holders(n)) \in Nat
<1>1. IsFiniteSet(Holders(n))
  BY AttemptsAssumption, FS_Subset DEF Holders
<1> QED BY <1>1, FS_CardinalityType

\* A worker that takes the entry is one holder more at most, and one that comes to it is
\* one less.
LEMMA HoldersChange ==
    ASSUME NEW n, NEW w \in Workers, \A v \in Workers \ {w} : wrk'[v] = wrk[v]
    PROVE  /\ Cardinality(Holders(n)') \in Nat
           /\ Cardinality(Holders(n)') <= Cardinality(Holders(n)) + 1
           /\ wrk'[w].batch \subseteq wrk[w].batch => Cardinality(Holders(n)') <= Cardinality(Holders(n))
           /\ n \in wrk[w].batch /\ n \notin wrk'[w].batch =>
                Cardinality(Holders(n)') = Cardinality(Holders(n)) - 1
<1> DEFINE now == Holders(n)
           then == {v \in Workers : n \in wrk'[v].batch}
<1>1. Holders(n)' = then
  BY DEF Holders
<1>2. IsFiniteSet(now) /\ Cardinality(now) \in Nat
  BY HoldersAreFew
<1>3. then \subseteq now \union {w}
  BY DEF Holders
<1>4. wrk'[w].batch \subseteq wrk[w].batch => then \subseteq now
  BY DEF Holders
<1>5. n \in wrk[w].batch /\ n \notin wrk'[w].batch => then = now \ {w} /\ w \in now
  BY DEF Holders
<1>6. /\ IsFiniteSet(now \union {w}) /\ Cardinality(now \union {w}) \in Nat
      /\ Cardinality(now \union {w}) <= Cardinality(now) + 1
  <2>1. /\ IsFiniteSet(now \union {w})
        /\ Cardinality(now \union {w}) = IF w \in now THEN Cardinality(now) ELSE Cardinality(now) + 1
    BY <1>2, FS_AddElement
  <2> HIDE DEF now
  <2> QED BY <1>2, <2>1
<1>7. Cardinality(now \ {w}) = IF w \in now THEN Cardinality(now) - 1 ELSE Cardinality(now)
  BY <1>2, FS_RemoveElement
<1> HIDE DEF now, then
<1>8. IsFiniteSet(then) /\ Cardinality(then) \in Nat
  BY <1>3, <1>6, FS_Subset, FS_CardinalityType
<1>9. Cardinality(then) <= Cardinality(now \union {w})
  BY <1>3, <1>6, FS_Subset
<1>10. then \subseteq now => Cardinality(then) <= Cardinality(now)
  BY <1>2, FS_Subset
<1>11. Cardinality(then) <= Cardinality(now) + 1
  BY <1>2, <1>6, <1>8, <1>9
<1>12. n \in wrk[w].batch /\ n \notin wrk'[w].batch => Cardinality(then) = Cardinality(now) - 1
  BY <1>5, <1>7
<1> QED BY <1>1, <1>4, <1>8, <1>10, <1>11, <1>12 DEF now

\* A step in which no worker comes to a message is no call of Process.
LEMMA NothingTaken ==
    ASSUME CountInv, TrackedNext,
           \A w \in Workers : wrk[w].pc = "idle" => wrk'[w].pc \notin {"save", "attempts"}
    PROVE  tried' = tried
BY DEF CountInv, TrackedNext, Taken

\* What a worker does between two messages leaves its batch alone or drops it.
LEMMA MovesKeepBatch ==
    ASSUME TypeOK, NEW w \in Workers
    PROVE  /\ \A p : Goto(w, p) => wrk'[w].pc = p /\ wrk'[w].batch = wrk[w].batch
           /\ NextMessage(w) => wrk'[w].pc = "idle" /\ wrk'[w].batch = wrk[w].batch
           /\ Exit(w) => wrk'[w].pc = "down" /\ wrk'[w].batch = {}
<1>1. wrk \in [Workers -> Consumers] /\ wrk[w] \in Consumers
  BY DEF TypeOK
<1>2. ASSUME NEW p, Goto(w, p) PROVE wrk'[w].batch = wrk[w].batch
  <2>1. wrk'[w] = [wrk[w] EXCEPT !.pc = p]
    BY <1>1, <1>2 DEF Goto
  <2>2. [wrk[w] EXCEPT !.pc = p].batch = wrk[w].batch
    BY <1>1 DEF Consumers
  <2> QED BY <2>1, <2>2
<1>3. (NextMessage(w) => wrk'[w].batch = wrk[w].batch) /\ (Exit(w) => wrk'[w].pc = "down" /\ wrk'[w].batch = {})
  BY <1>1 DEF NextMessage, Exit
<1> QED BY <1>2, <1>3, MovesStayUp

\* Every step of a worker but the reads of entries and messages leaves the deliveries
\* alone, and its batch too unless the worker ends.
LEMMA OtherWork ==
    ASSUME TypeOK, NEW w \in Workers, WorkerStep(w), ~XReadGroup(w), ~Fetch(w),
           \A idle \in SUBSET pending : ~XAutoClaim(w, idle)
    PROVE  /\ UNCHANGED <<deliveries, delivered>>
           /\ \A v \in Workers \ {w} : wrk'[v] = wrk[v]
           /\ wrk'[w].batch \subseteq wrk[w].batch
           /\ wrk[w].pc = "idle" => wrk'[w].pc \notin {"save", "attempts"}
<1> USE DEF redisVars
<1>1. wrk \in [Workers -> Consumers] /\ wrk[w] \in Consumers
  BY DEF TypeOK
<1>2. UNCHANGED <<deliveries, delivered>>
  BY DEF WorkerStep, Progress, FailFetch, SaveDeployment, LoseCommit, DeliverNotifications, Ack, Attempts,
         DeadLetter, Forward, Crash, Restart, PruneRetained
<1>3. \/ \E p : Goto(w, p) /\ wrk[w].pc # "idle"
      \/ NextMessage(w)
      \/ Exit(w)
      \/ wrk' = [wrk EXCEPT ![w].pc = "idle"]
      \/ wrk' = wrk
  <2>1. FailFetch(w) => Goto(w, "attempts") /\ wrk[w].pc # "idle"
    BY DEF FailFetch
  <2>2. SaveDeployment(w) => (\E p : Goto(w, p)) /\ wrk[w].pc # "idle"
    BY DEF SaveDeployment
  <2>3. LoseCommit(w) => Goto(w, "attempts") /\ wrk[w].pc # "idle"
    BY DEF LoseCommit
  <2>4. DeliverNotifications(w) => Goto(w, "ack") /\ wrk[w].pc # "idle"
    BY DEF DeliverNotifications
  <2>5. Ack(w) => NextMessage(w)
    BY DEF Ack
  <2>6. Attempts(w) => NextMessage(w) \/ (Goto(w, "dead_letter") /\ wrk[w].pc # "idle")
    BY DEF Attempts
  <2>7. DeadLetter(w) => Exit(w) \/ (Goto(w, "forward") /\ wrk[w].pc # "idle")
    BY DEF DeadLetter
  <2>8. Forward(w) => Goto(w, "ack") /\ wrk[w].pc # "idle"
    BY DEF Forward
  <2>9. (Crash(w) => Exit(w)) /\ (Restart(w) => wrk' = [wrk EXCEPT ![w].pc = "idle"])
        /\ (PruneRetained(w) => wrk' = wrk)
    BY DEF Crash, Restart, PruneRetained
  <2> HIDE DEF redisVars
  <2> QED BY <2>1, <2>2, <2>3, <2>4, <2>5, <2>6, <2>7, <2>8, <2>9, Zenon DEF WorkerStep, Progress
<1>4. \A v \in Workers \ {w} : wrk'[v] = wrk[v]
  BY <1>1, <1>3 DEF Goto, NextMessage, Exit
<1>5. CASE wrk' = [wrk EXCEPT ![w].pc = "idle"]
  BY <1>1, <1>2, <1>4, <1>5 DEF Consumers
<1>6. CASE wrk' = wrk
  BY <1>2, <1>4, <1>6
<1>7. CASE (\E p : Goto(w, p) /\ wrk[w].pc # "idle") \/ NextMessage(w) \/ Exit(w)
  BY <1>2, <1>4, <1>7, MovesKeepBatch
<1> QED BY <1>3, <1>5, <1>6, <1>7

\* No entry gains a delivery or a holder: the count stays.
LEMMA CountStays ==
    ASSUME TypeOK, CountInv, UNCHANGED <<deliveries, delivered, tried>>, NEW w \in Workers,
           \A v \in Workers \ {w} : wrk'[v] = wrk[v],
           wrk'[w].batch \subseteq wrk[w].batch
    PROVE  CountInv'
<1>1. ASSUME NEW n \in EntryIds
      PROVE  deliveries[n] = MaxAttempts \/ tried[n] + Cardinality(Holders(n)') <= deliveries[n]
  <2>1. /\ Cardinality(Holders(n)') <= Cardinality(Holders(n))
        /\ Cardinality(Holders(n)') \in Nat /\ Cardinality(Holders(n)) \in Nat
    BY HoldersChange, HoldersAreFew
  <2>2. tried[n] \in Nat /\ deliveries[n] \in Nat
    BY PipelineAssumption DEF CountInv, TypeOK, PipelineAssumption
  <2> QED BY <2>1, <2>2 DEF CountInv
<1> QED BY <1>1 DEF CountInv

\* Reading new entries: each has one delivery and one holder, and was never tried.
LEMMA ReadCounts ==
    ASSUME TypeOK, TypeOK', CountInv, NEW w \in Workers, XReadGroup(w), tried' = tried
    PROVE  CountInv'
<1> DEFINE new == (delivered + 1)..delivered'
<1>1. /\ delivered \in Nat /\ delivered' \in Nat /\ delivered <= delivered'
      /\ deliveries' = [n \in EntryIds |-> IF n \in new THEN 1 ELSE deliveries[n]]
      /\ wrk' = [wrk EXCEPT ![w].batch = new]
      /\ wrk[w].batch = {}
  BY PipelineAssumption DEF XReadGroup, Polling, Least, TypeOK, PipelineAssumption
<1>2. /\ wrk'[w].batch = new
      /\ \A v \in Workers \ {w} : wrk'[v] = wrk[v]
  <2>1. wrk[w] \in Consumers
    BY DEF TypeOK
  <2>2. [wrk[w] EXCEPT !.batch = new].batch = new
    BY <2>1 DEF Consumers
  <2> QED BY <1>1, <2>2 DEF TypeOK
<1> HIDE DEF new
<1>3. ASSUME NEW n \in EntryIds
      PROVE  deliveries'[n] = MaxAttempts \/ tried[n] + Cardinality(Holders(n)') <= deliveries'[n]
  <2>1. /\ Cardinality(Holders(n)') \in Nat /\ Cardinality(Holders(n)) \in Nat
        /\ Cardinality(Holders(n)') <= Cardinality(Holders(n)) + 1
    BY <1>2, HoldersChange, HoldersAreFew
  <2>2. tried[n] \in Nat /\ deliveries[n] \in Nat /\ MaxAttempts \in Nat \ {0}
    BY PipelineAssumption DEF CountInv, TypeOK, PipelineAssumption
  <2>3. CASE n \in new
    <3>1. deliveries[n] = 0
      BY <1>1, <2>3 DEF CountInv, new
    <3>2. tried[n] = 0 /\ Cardinality(Holders(n)) = 0
      BY <2>1, <2>2, <3>1 DEF CountInv
    <3>3. deliveries'[n] = 1
      BY <1>1, <2>3
    <3> QED BY <2>1, <3>2, <3>3
  <2>4. CASE n \notin new
    <3>1. Holders(n)' = Holders(n)
      BY <1>1, <1>2, <2>4 DEF Holders
    <3> QED BY <1>1, <2>4, <3>1 DEF CountInv
  <2> QED BY <2>3, <2>4
<1>4. ASSUME NEW n \in EntryIds, n > delivered' PROVE deliveries'[n] = 0
  <2>1. n \in Int /\ n > delivered /\ n \notin new
    BY <1>1, <1>4, PipelineAssumption DEF EntryIds, PipelineAssumption, new
  <2> QED BY <1>1, <2>1 DEF CountInv
<1> QED BY <1>3, <1>4 DEF CountInv, XReadGroup

\* Claiming idle entries: each gains a delivery and at most one holder.
LEMMA ClaimCounts ==
    ASSUME TypeOK, CountInv, NEW w \in Workers, NEW idle \in SUBSET pending, XAutoClaim(w, idle),
           tried' = tried
    PROVE  CountInv'
<1>1. /\ delivered' = delivered
      /\ deliveries' = [n \in EntryIds |-> IF n \in idle THEN Least(MaxAttempts, deliveries[n] + 1)
                                           ELSE deliveries[n]]
      /\ wrk' = [wrk EXCEPT ![w].batch = idle]
      /\ wrk[w].batch = {}
  BY DEF XAutoClaim, Polling
<1>2. /\ wrk'[w].batch = idle
      /\ \A v \in Workers \ {w} : wrk'[v] = wrk[v]
  <2>1. wrk[w] \in Consumers
    BY DEF TypeOK
  <2>2. [wrk[w] EXCEPT !.batch = idle].batch = idle
    BY <2>1 DEF Consumers
  <2> QED BY <1>1, <2>2 DEF TypeOK
<1>3. ASSUME NEW n \in EntryIds
      PROVE  deliveries'[n] = MaxAttempts \/ tried[n] + Cardinality(Holders(n)') <= deliveries'[n]
  <2>1. /\ Cardinality(Holders(n)') \in Nat /\ Cardinality(Holders(n)) \in Nat
        /\ Cardinality(Holders(n)') <= Cardinality(Holders(n)) + 1
    BY <1>2, HoldersChange, HoldersAreFew
  <2>2. tried[n] \in Nat /\ deliveries[n] \in 0..MaxAttempts /\ MaxAttempts \in Nat
    BY PipelineAssumption DEF CountInv, TypeOK, PipelineAssumption
  <2>3. CASE n \in idle
    <3>1. deliveries'[n] = Least(MaxAttempts, deliveries[n] + 1)
      BY <1>1, <2>3
    <3>2. deliveries[n] = MaxAttempts \/ tried[n] + Cardinality(Holders(n)) <= deliveries[n]
      BY DEF CountInv
    <3> QED BY <2>1, <2>2, <3>1, <3>2 DEF Least
  <2>4. CASE n \notin idle
    <3>1. Holders(n)' = Holders(n)
      BY <1>1, <1>2, <2>4 DEF Holders
    <3> QED BY <1>1, <2>4, <3>1 DEF CountInv
  <2> QED BY <2>3, <2>4
<1>4. ASSUME NEW n \in EntryIds, n > delivered PROVE deliveries'[n] = 0
  <2>1. n \notin idle
    BY <1>4, PipelineAssumption DEF TypeOK, EntryIds, PipelineAssumption
  <2> QED BY <1>1, <1>4, <2>1 DEF CountInv
<1> QED BY <1>1, <1>3, <1>4 DEF CountInv

\* A call of Process: the entry has one call more and one holder less.
LEMMA FetchCounts ==
    ASSUME TypeOK, CountInv, NEW w \in Workers, Fetch(w), TrackedNext
    PROVE  CountInv'
<1>1. PICK m \in wrk[w].batch :
        wrk' = [wrk EXCEPT ![w] = [pc |-> IF Recorded(stream[m]) /\ stream[m] \notin Malformed
                                          THEN "save" ELSE "attempts",
                                   entry |-> m, batch |-> wrk[w].batch \ {m}]]
  BY DEF Fetch
<1>2. /\ wrk[w].pc = "idle" /\ wrk'[w].pc \in {"save", "attempts"} /\ wrk'[w].entry = m
      /\ wrk'[w].batch = wrk[w].batch \ {m}
      /\ \A v \in Workers \ {w} : wrk'[v] = wrk[v]
      /\ UNCHANGED <<deliveries, delivered>>
  BY <1>1 DEF Fetch, TypeOK, redisVars
<1>3. \A n \in EntryIds : Taken(n) <=> n = m
  BY <1>2 DEF Taken
<1>4. \A n \in EntryIds : tried'[n] = IF n = m THEN Least(MaxAttempts, tried[n] + 1) ELSE tried[n]
  BY <1>3 DEF TrackedNext
<1>5. ASSUME NEW n \in EntryIds
      PROVE  deliveries[n] = MaxAttempts \/ tried'[n] + Cardinality(Holders(n)') <= deliveries[n]
  <2>1. /\ Cardinality(Holders(n)') \in Nat /\ Cardinality(Holders(n)) \in Nat
        /\ Cardinality(Holders(n)') <= Cardinality(Holders(n))
        /\ n = m => Cardinality(Holders(n)') = Cardinality(Holders(n)) - 1
    BY <1>2, HoldersChange, HoldersAreFew
  <2>2. tried[n] \in Nat /\ deliveries[n] \in 0..MaxAttempts /\ MaxAttempts \in Nat
    BY PipelineAssumption DEF CountInv, TypeOK, PipelineAssumption
  <2>3. deliveries[n] = MaxAttempts \/ tried[n] + Cardinality(Holders(n)) <= deliveries[n]
    BY DEF CountInv
  <2> QED BY <1>4, <2>1, <2>2, <2>3 DEF Least
<1>6. tried' \in [EntryIds -> 0..MaxAttempts]
  <2>1. \A n \in EntryIds : tried[n] \in 0..MaxAttempts /\ Least(MaxAttempts, tried[n] + 1) \in 0..MaxAttempts
    BY PipelineAssumption DEF CountInv, Least, PipelineAssumption
  <2> QED BY <2>1 DEF TrackedNext
<1> QED BY <1>2, <1>5, <1>6 DEF CountInv

\* Every step keeps the count.
LEMMA CountStep ==
    ASSUME TypeOK, TypeOK', CountInv, TrackedNext
    PROVE  CountInv'
<1>1. CASE \E w \in Workers : WorkerStep(w)
  <2>1. PICK w \in Workers : WorkerStep(w)
    BY <1>1
  <2>2. CASE Fetch(w)
    BY <2>2, FetchCounts
  <2>3. CASE XReadGroup(w)
    <3>1. \A v \in Workers : wrk[v].pc = "idle" => wrk'[v].pc = "idle"
      BY <2>3, MovesStayUp DEF XReadGroup, TypeOK
    <3>2. tried' = tried
      BY <3>1, NothingTaken
    <3> QED BY <2>3, <3>2, ReadCounts
  <2>4. CASE \E idle \in SUBSET pending : XAutoClaim(w, idle)
    <3>1. PICK idle \in SUBSET pending : XAutoClaim(w, idle)
      BY <2>4
    <3>2. \A v \in Workers : wrk[v].pc = "idle" => wrk'[v].pc = "idle"
      BY <3>1, MovesStayUp DEF XAutoClaim, TypeOK
    <3>3. tried' = tried
      BY <3>2, NothingTaken
    <3> QED BY <3>1, <3>3, ClaimCounts
  <2>5. CASE ~Fetch(w) /\ ~XReadGroup(w) /\ ~(\E idle \in SUBSET pending : XAutoClaim(w, idle))
    <3>1. /\ UNCHANGED <<deliveries, delivered>>
          /\ \A v \in Workers \ {w} : wrk'[v] = wrk[v]
          /\ wrk'[w].batch \subseteq wrk[w].batch
          /\ wrk[w].pc = "idle" => wrk'[w].pc \notin {"save", "attempts"}
      BY <2>1, <2>5, OtherWork
    <3>2. tried' = tried
      BY <3>1, NothingTaken
    <3> QED BY <3>1, <3>2, CountStays
  <2> QED BY <2>2, <2>3, <2>4, <2>5
<1>2. CASE UNCHANGED <<wrk, deliveries, delivered>>
  <2>1. tried' = tried
    BY <1>2, NothingTaken
  <2> QED BY <1>2, <2>1 DEF CountInv, Holders
<1>3. ASSUME NEW h \in Handlers, HandlerStep(h) PROVE UNCHANGED <<wrk, deliveries, delivered>>
  BY <1>3 DEF HandlerStep, RecordWebhook, LookupDuplicate, PublishWebhook, FailWebhook, redisVars
<1>4. ASSUME NEW a \in Admins, AdminStep(a) PROVE UNCHANGED <<wrk, deliveries, delivered>>
  BY <1>4 DEF AdminStep, LookupDeadLetter, RequeueDeadLetter, PublishDeadLetter, CompleteReprocess,
              FailReprocess, redisVars
<1> QED BY <1>1, <1>2, <1>3, <1>4 DEF TrackedNext, Next

\* The count an entry has in Redis never falls behind the calls of Process for it, in
\* whatever order workers claim it from each other, die and start again: an entry that
\* keeps failing comes to its last attempt (process in queue.go).
THEOREM TriesSafety == TrackedSpec => []TriesAreCounted
<1>1. TrackedInit => Init /\ CountInv
  <2> SUFFICES ASSUME TrackedInit PROVE CountInv
    BY DEF TrackedInit
  <2>1. \A n \in EntryIds : tried[n] = 0 /\ deliveries[n] = 0 /\ Holders(n) = {}
    BY DEF TrackedInit, Init, Holders
  <2>2. \A n \in EntryIds : tried[n] + Cardinality(Holders(n)) <= deliveries[n]
    BY <2>1, FS_EmptySet
  <2> QED BY <2>1, <2>2, PipelineAssumption DEF CountInv, TrackedInit, PipelineAssumption
<1>2. [TrackedNext]_<<vars, tried>> => [Next]_vars
  BY DEF TrackedNext
<1>3. TypeOK /\ TypeOK' /\ CountInv /\ [TrackedNext]_<<vars, tried>> => CountInv'
  <2>1. CountInv /\ UNCHANGED <<vars, tried>> => CountInv'
    BY DEF CountInv, Holders, vars, redisVars
  <2> QED BY <2>1, CountStep
<1>4. TypeOK /\ CountInv => TriesAreCounted
  <2> SUFFICES ASSUME TypeOK, CountInv, NEW n \in EntryIds PROVE tried[n] <= deliveries[n]
    BY DEF TriesAreCounted
  <2>1. /\ tried[n] \in 0..MaxAttempts /\ deliveries[n] \in 0..MaxAttempts
        /\ Cardinality(Holders(n)) \in Nat
    BY HoldersAreFew DEF TypeOK, CountInv
  <2> QED BY <2>1, PipelineAssumption DEF CountInv, PipelineAssumption
<1>5. TrackedSpec => Spec
  BY <1>1, <1>2, PTL DEF TrackedSpec, Spec
<1> QED BY <1>1, <1>3, <1>4, <1>5, TypeCorrect, PTL DEF TrackedSpec
=============================================================================
