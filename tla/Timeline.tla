------------------------------ MODULE Timeline ------------------------------
(***************************************************************************)
(* What the API shows of the stored deployments: the list that a reader    *)
(* pages through with a cursor while workers store more, the analytics of  *)
(* the last days, and the log excerpt of one deployment.  Rows are never   *)
(* changed or deleted, only their excerpts age.                            *)
(*                                                                         *)
(* The database compares started_at and created_at as text.  A time is the *)
(* second it falls in and the digits of its fraction, which RFC3339Nano    *)
(* writes without trailing zeros.                                          *)
(***************************************************************************)
EXTENDS Normalization, Integers, FiniteSets

CONSTANTS
    Events,       \* events that may be processed, numbered in the order of their row ids
    Feed,         \* event -> what it carries, with the lines of its log as the times
                  \* at which they are written should the event make the row
    Instants,     \* text -> the time it denotes
    Readers,      \* clients that page through the list
    Filters,      \* the filters they use
    Limits,       \* the page lengths they ask for
    DefaultLimit, \* 25 in the code
    MaxLimit,     \* 100 in the code
    Today,        \* number of the current day
    DayLength,    \* seconds of a day
    Asked,        \* the numbers of days analytics are asked for
    DefaultDays,  \* 7 in the code
    MaxDays,      \* 90 in the code
    CutOffs,      \* the times before which retention deletes log lines
    MaxLines      \* 200 in the code

VARIABLES
    rows,         \* events with a deployments row
    excerpt,      \* event -> the lines in log_excerpts, numbered as the provider sent them
    reader        \* reader -> the list it has loaded so far

timelineVars == <<rows, excerpt, reader>>

NoCursor == 0
\* What parse makes of an event
StartOf == [e \in Events |-> StartedAt(Feed[e].provider, Feed[e].payload, Feed[e].received, Instants)]
StatusOf == [e \in Events |-> NormalizeState(OriginalStatus(Feed[e].provider, Feed[e].payload))]
Started(e) == StartOf[e]
Status(e) == StatusOf[e]

\* The unique key of a deployment: GitHub's delivery id, the provider's id, or else
\* the payload's hash, which stands for the payload.
KeyOf ==
    [e \in Events |->
       LET id == ProviderEventID(Feed[e].provider, Feed[e].payload) IN
       <<Feed[e].provider,
         CASE Feed[e].delivery # Empty -> <<Feed[e].delivery>>
           [] Feed[e].delivery = Empty /\ id # Empty -> <<id>>
           [] OTHER -> <<"payload-", Feed[e].payload>> >>]
Key(e) == KeyOf[e]

-----------------------------------------------------------------------------
(* The order of the rows.                                                  *)

Times == [sec : Nat, frac : Seq(0..9)]

\* RFC3339Nano: the second, '.' and the fraction unless there is none, 'Z'.  As
\* characters, '.' comes before the digits and 'Z' after them.
Text(t) == <<t.sec>> \o (IF t.frac = <<>> THEN <<>> ELSE <<-1>> \o t.frac) \o <<10>>
Before(t, u) ==
    LET a == Text(t)
        b == Text(u)
    IN  \E i \in DOMAIN a \intersect DOMAIN b :
          a[i] < b[i] /\ \A j \in 1..(i - 1) : a[j] = b[j]

\* ORDER BY started_at DESC, id DESC
Older == [d \in Events |-> {e \in Events : \/ Before(Started(e), Started(d))
                                           \/ Text(Started(d)) = Text(Started(e)) /\ e < d}]
Newer(d, e) == e \in Older[d]

ASSUME TimelineAssumption ==
    /\ Events \subseteq Nat \ {NoCursor}
    /\ IsFiniteSet(Events)
    /\ Limits \subseteq Int
    /\ MaxLimit \in Nat /\ DefaultLimit \in 1..MaxLimit
    /\ MaxLines \in Nat
    /\ Today \in Nat /\ DayLength \in Nat \ {0}
    /\ Asked \subseteq Int
    /\ MaxDays \in Nat /\ DefaultDays \in 1..MaxDays
    /\ CutOffs \subseteq Times
    /\ \A e \in Events : Started(e) \in Times /\ Feed[e].lines \in Seq(Times)

\* The lines of a log are written one after the other, by a clock that does not go back.
ASSUME LinesAssumption ==
    \A e \in Events : \A i, j \in DOMAIN Feed[e].lines :
        i < j => Feed[e].lines[i].sec <= Feed[e].lines[j].sec

\* Feed tells of each event with a state the outcome that its payload reports.
ASSUME FeedAssumption ==
    \A e \in Events :
        /\ Feed[e].provider \in Providers
        /\ Parses(Feed[e].provider, Feed[e].payload)
             => Reports(Feed[e].provider, Feed[e].payload, Feed[e].outcome)

Limit(asked) == IF asked < 1 \/ asked > MaxLimit THEN DefaultLimit ELSE asked

Closed == [open |-> FALSE, filter |-> {}, limit |-> 0, since |-> {}, shown |-> {}, page |-> {},
           cursor |-> NoCursor]

TimelineTypeOK ==
    /\ rows \subseteq Events
    /\ excerpt \in [Events -> SUBSET Nat]
    /\ reader \in [Readers -> {Closed} \union
                     [open : {TRUE}, filter : Filters, limit : Limits, since : SUBSET Events,
                      shown : SUBSET Events, page : SUBSET Events, cursor : Events \union {NoCursor}]]
    /\ \A r \in Readers : Cardinality(reader[r].page) <= Limit(reader[r].limit)

TimelineInit ==
    /\ rows = {}
    /\ excerpt = [e \in Events |-> {}]
    /\ reader = [r \in Readers |-> Closed]

-----------------------------------------------------------------------------
(* Storing deployments.                                                    *)

\* saveDeployment for each of the events: the first of a key makes the row.
Store(new) ==
    /\ rows' = rows \union new
    /\ excerpt' = [e \in Events |-> IF e \in new THEN KeptLines(Len(Feed[e].lines), MaxLines)
                                    ELSE excerpt[e]]
    /\ UNCHANGED reader

\* A worker processes the event; one without a state goes to the dead letters.
Process(e) ==
    /\ Parses(Feed[e].provider, Feed[e].payload)
    /\ \A d \in rows : Key(d) # Key(e)
    /\ Store({e})

\* Retention deletes the lines whose created_at is before the cut-off, as text.
PruneRetained ==
    /\ \E t \in CutOffs :
         excerpt' = [e \in Events |-> {i \in excerpt[e] : ~Before(Feed[e].lines[i], t)}]
    /\ UNCHANGED <<rows, reader>>

-----------------------------------------------------------------------------
(* The list.                                                               *)

\* Columns that are not asked for match anything.  status stands for them all.
Matches(e, filter) ==
    /\ "status" \in DOMAIN filter => Status(e) = filter.status
    /\ "start" \in DOMAIN filter => ~Before(Started(e), filter.start)
    /\ "end" \in DOMAIN filter => ~Before(filter.end, Started(e))

Found(filter, after) ==
    {e \in rows : Matches(e, filter) /\ (after # NoCursor => Newer(after, e))}

\* Mutant: the row that was fetched to see if there is more stays on the page.
PageWithExtraRow(found, n) == {e \in found : Cardinality({d \in found : Newer(d, e)}) < n + 1}

Page(found, n) == {e \in found : Cardinality({d \in found : Newer(d, e)}) < n}
Oldest(page) == CHOOSE e \in page : \A d \in page : d # e => Newer(d, e)

\* Mutant: the cursor is the row that was fetched beyond the page.
CursorBeyond(found, n) ==
    IF Page(found, n) = found THEN NoCursor ELSE Oldest(Page(found, n + 1))

\* The cursor is the last row of the page, if there is a row beyond it.
NextCursor(found, n) == IF Page(found, n) = found THEN NoCursor ELSE Oldest(Page(found, n))

\* ListDeployments: one row more than the limit is fetched to see if there is more.
\* since remembers what was there when the list was opened.
Load(r, filter, asked, since, shown, after) ==
    LET found == Found(filter, after) IN
    /\ reader' = [reader EXCEPT ![r] =
                    [open |-> TRUE, filter |-> filter, limit |-> asked, since |-> since,
                     shown |-> shown, page |-> Page(found, Limit(asked)),
                     cursor |-> NextCursor(found, Limit(asked))]]
    /\ UNCHANGED <<rows, excerpt>>

OpenList(r) == \E filter \in Filters, asked \in Limits : Load(r, filter, asked, rows, {}, NoCursor)

\* Mutant: the next page starts at the row of the cursor.
PageFromCursor(r) ==
    /\ reader[r].cursor # NoCursor
    /\ LET x == reader[r]
           found == Found(x.filter, x.cursor) \union {x.cursor} IN
       reader' = [reader EXCEPT ![r].shown = x.shown \union x.page,
                                ![r].page = Page(found, Limit(x.limit)),
                                ![r].cursor = NextCursor(found, Limit(x.limit))]
    /\ UNCHANGED <<rows, excerpt>>

NextPage(r) ==
    /\ reader[r].cursor # NoCursor
    /\ LET x == reader[r] IN
       Load(r, x.filter, x.limit, x.since, x.shown \union x.page, x.cursor)

TimelineNext == \/ \E e \in Events : Process(e)
                \/ PruneRetained
                \/ \E r \in Readers : OpenList(r) \/ NextPage(r)
TimelineSpec == TimelineInit /\ [][TimelineNext]_timelineVars

-----------------------------------------------------------------------------
(* Analytics and detail.                                                   *)

Day(e) == Started(e).sec \div DayLength
Days(asked) == IF asked < 1 THEN DefaultDays ELSE IF asked > MaxDays THEN MaxDays ELSE asked
Window(asked) == (Today + 1 - Days(asked))..Today
Midnight(day) == [sec |-> day * DayLength, frac |-> <<>>]

\* Mutant: a row is counted on whatever day the query returns it for.
AllQueried(asked) ==
    {e \in rows : /\ ~Before(Started(e), Midnight(Today + 1 - Days(asked)))
                  /\ Before(Started(e), Midnight(Today + 1))}

\* The rows of DeploymentAnalytics that fall into one of its buckets.
Counted(asked) ==
    {e \in rows : /\ ~Before(Started(e), Midnight(Today + 1 - Days(asked)))
                  /\ Before(Started(e), Midnight(Today + 1))
                  /\ Day(e) \in Window(asked)}
Summary(asked) ==
    LET having(statuses) == Cardinality({e \in Counted(asked) : Status(e) \in statuses}) IN
    [total |-> having(Statuses), success |-> having({"success"}), failed |-> having({"failed"})]

\* The last lines by number; Deployment fetches them newest first and turns them round.
LogLines(e) == {n \in excerpt[e] : Cardinality({m \in excerpt[e] : m > n}) < MaxLines}

-----------------------------------------------------------------------------
(* Properties.                                                             *)

\* Each page goes on where the last one ended: no deployment is listed twice, and
\* none after one of an earlier second, whatever is stored in between.  Within a
\* second the text order is not the order in time (encodeCursor, ListDeployments).
PagesGoBack ==
    \A r \in Readers : \A d \in reader[r].shown, e \in reader[r].page :
        d # e /\ Started(e).sec <= Started(d).sec

\* Of the deployments that were there when the list was opened, none that matches is
\* missing above the cursor, and none at all once there is no further page; however
\* many are stored while the reader pages (the extra row of ListDeployments).
NothingSkipped ==
    \A r \in Readers : \A e \in reader[r].since :
        /\ Matches(e, reader[r].filter)
        /\ reader[r].cursor = NoCursor \/ ~Newer(reader[r].cursor, e)
        => e \in reader[r].shown \union reader[r].page

\* A stored deployment has the outcome its provider reported, wherever the provider
\* puts it: a run that GitHub calls completed and failed has failed (providerFields).
OutcomeIsReported == \A e \in rows : Status(e) = Feed[e].outcome

\* Analytics count the deployments of their days and no others, with one exception:
\* a start in the first second that has a fraction sorts before midnight as text
\* (the query and the buckets of DeploymentAnalyticsFiltered).
AnalyticsCountWindow ==
    \A asked \in Asked :
        LET early(e) == /\ Started(e).sec = (Today + 1 - Days(asked)) * DayLength
                        /\ Started(e).frac # <<>>
            due == {e \in rows : Day(e) \in Window(asked) /\ ~early(e)}
        IN  Summary(asked) = [total |-> Cardinality(due),
                              success |-> Cardinality({e \in due : Feed[e].outcome = "success"}),
                              failed |-> Cardinality({e \in due : Feed[e].outcome = "failed"})]

\* The excerpt a detail shows is the end of the log, however it was cut on arrival and by
\* retention.  After a line that is shown, another one is missing only if both were
\* written in one second and the later one sorts before the earlier one as text, as
\* .123401 does before .1234, so that a cut-off fell between them (redactLines,
\* PruneRetained, and the order and limit of the query in Deployment).
ExcerptIsTail ==
    \A e \in rows :
        LET log == Feed[e].lines IN
        /\ Cardinality(LogLines(e)) <= MaxLines
        /\ \A n \in LogLines(e) : \A i \in n..Len(log) :
             \/ i \in LogLines(e)
             \/ log[i].sec = log[n].sec /\ Before(log[i], log[n])
=============================================================================
