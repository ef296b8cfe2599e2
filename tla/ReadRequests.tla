---------------------------- MODULE ReadRequests ----------------------------
(***************************************************************************)
(* A request of the public API (src/bc_auction/api.py) while scrapes       *)
(* write.                                                                  *)
(*                                                                         *)
(* The handlers of GET /api/listings and /health/operations (the latter    *)
(* also run by healthcheck.py) take the time once, and then execute        *)
(* several statements.  PostgreSQL (external) runs them at READ COMMITTED, *)
(* the default that create_postgres_engine keeps: every statement sees the *)
(* tables as they are when it starts, so the transactions of a scrape may  *)
(* commit between any two.                                                 *)
(*                                                                         *)
(* The writers are scrapes.  The scheduler's lock, while it is held, lets  *)
(* one scheduled scrape run at a time; those started by hand take no lock  *)
(* and overlap with everything.  Their records carry the time of the       *)
(* clock.  A scrape may be killed, which leaves a row that says "running", *)
(* and one that is interrupted after it has finished its run, but before   *)
(* it has noted that, finishes it again, as failed (ScrapeRun).            *)
(***************************************************************************)
EXTENDS ReadViews

CONSTANTS
    Filters,      \* the filters of requests, NoFilter among them
    PageSize, Pages,
    MaximumRun, Freshness,  \* maximum_run_seconds, freshness_max_age_seconds
    MaxTime       \* bound on the clock

ASSUME RequestsAssumption ==
    /\ {PageSize, MaximumRun, Freshness} \cup Pages \subseteq Nat \ {0}
    /\ MaxTime \in Nat /\ Times = 0..MaxTime
    /\ "scheduled" \in Modes  \* any other is that of a scrape started by hand
    /\ None \notin RunIds \cup RunRows  \* NULL is neither a key nor a row

VARIABLES
    now,          \* the clock
    live,         \* the runs whose process may still write them
    request,      \* the request being handled
    truths        \* history: the states operations_status should have reported
                  \* at the moments since the request came

tables == <<items, inventory, observations, aliases, runs>>
allVars == <<items, inventory, observations, aliases, runs, now, live, request, truths>>

Idle == [kind |-> "none"]

RequestsInit == Init /\ now = 0 /\ live = {} /\ request = Idle /\ truths = {}

-----------------------------------------------------------------------------
(* /health/operations                                                      *)

\* What the three statements of operations_status would say at one moment.
StateNow ==
    OperationsState(Row(LatestScheduled), Row(LatestComplete),
                    ConsecutiveFailures(Row(LatestComplete)), request.time,
                    MaximumRun, Freshness)

\* The history of truths is kept by every step.
Witness == truths' = IF request'.kind = "operations" THEN truths \cup {StateNow'} ELSE {}

AskOperations ==
    /\ request = Idle
    /\ request' = [kind |-> "operations", time |-> now, step |-> 0,
                   scheduled |-> None, complete |-> None, state |-> None]
    /\ UNCHANGED <<tables, now, live>>

\* Fault: the complete run is read first.
FaultReadOrder ==
    \/ request.step = 1 /\ request' = [request EXCEPT !.step = 2,
                                                      !.scheduled = Row(LatestScheduled)]
    \/ request.step = 0 /\ request' = [request EXCEPT !.step = 1,
                                                      !.complete = Row(LatestComplete)]

ReadRuns ==
    \/ request.step = 0 /\ request' = [request EXCEPT !.step = 1,
                                                      !.scheduled = Row(LatestScheduled)]
    \/ request.step = 1 /\ request' = [request EXCEPT !.step = 2,
                                                      !.complete = Row(LatestComplete)]

\* The third statement, and the state it leads to.
CountFailures ==
    /\ request.step = 2
    /\ request' = [request EXCEPT
                    !.step = 3,
                    !.state = OperationsState(request.scheduled, request.complete,
                                              ConsecutiveFailures(request.complete),
                                              request.time, MaximumRun, Freshness)]

\* 503, and exit code 1 of the health check
Unavailable(state) == state \in {"stale", "stalled"}

OperationsStep ==
    /\ request.kind = "operations"
    /\ ReadRuns \/ CountFailures
    /\ UNCHANGED <<tables, now, live>>

-----------------------------------------------------------------------------
(* /api/listings                                                           *)

AskListings(f, view, page) ==
    /\ request = Idle
    /\ ValidFilter(f)
    /\ request' = [kind |-> "listings", time |-> now, step |-> 0, filter |-> f,
                   view |-> view, page |-> page, total |-> 0, rows |-> {}]
    /\ UNCHANGED <<tables, now, live>>

Unfiltered(f) ==
    /\ f.described = MetadataHashes
    /\ {f.min_price, f.max_price, f.closing_after, f.closing_before} = {None}

Rows == Matches(request.filter, request.view, request.time)

\* SELECT count(*), and then the rows of the page
ListingsStep ==
    /\ request.kind = "listings"
    /\ \/ /\ request.step = 0
          /\ request' = [request EXCEPT !.step = 1, !.total = Cardinality(Rows)]
       \/ /\ request.step = 1
          /\ request' = [request EXCEPT
                !.step = 3,
                !.rows = PageRows(Rows, DefaultListingSort(request.view),
                                  request.page, PageSize)]
    /\ UNCHANGED <<tables, now, live>>

Answered == request # Idle /\ request.step = 3

Respond == Answered /\ request' = Idle /\ UNCHANGED <<tables, now, live>>

-----------------------------------------------------------------------------
(* The writers                                                             *)

\* Fault: the scheduler does not ask for the lock.
FaultNoLock(mode) == TRUE

\* The advisory lock is free, and the clock moves between two scrapes of the
\* scheduler.
MayStart(mode) ==
    mode = "scheduled" => \A q \in ScheduledRuns : q \notin live /\ runs[q].started_at < now

WriterStart(r, mode) ==
    /\ MayStart(mode)
    /\ StartScrapeRun(r, mode, now)
    /\ live' = live \cup {r}
    /\ UNCHANGED <<now, request>>

WriterPersist(r, s, d, m, h) ==
    /\ r \in live /\ runs[r].status = "running"
    /\ PersistReconciledRecord(r,
            [source_id |-> s, source_dis_id |-> d, metadata_hash |-> m,
             observation_hash |-> h, observed_at |-> now])
    /\ UNCHANGED <<now, live, request>>

\* The run is finished; its process has yet to note that.
WriterFinish(r, status, coverage, counts, ids) ==
    /\ r \in live /\ runs[r].status = "running"
    /\ FinishScrapeRun(r, status, coverage, counts, ids, now)
    /\ UNCHANGED <<now, live, request>>

\* Fault: the scrape goes on after it has given up its run.
FaultGoesOn(r, coverage, counts) ==
    /\ r \in live
    /\ FinishScrapeRun(r, "failed", coverage, counts, {}, now)
    /\ UNCHANGED <<now, live, request>>

\* An interrupt, also between the commit of WriterFinish and the note of it.
WriterFails(r, coverage, counts) ==
    /\ r \in live
    /\ FinishScrapeRun(r, "failed", coverage, counts, {}, now)
    /\ live' = live \ {r}
    /\ UNCHANGED <<now, request>>

\* The process is killed, or notes that its run is finished.
WriterEnds(r) ==
    /\ r \in live /\ live' = live \ {r}
    /\ UNCHANGED <<tables, now, request>>

Tick == now < MaxTime /\ now' = now + 1 /\ UNCHANGED <<tables, live, request>>

-----------------------------------------------------------------------------
Write ==
    \E r \in RunIds :
        \/ \E mode \in Modes : WriterStart(r, mode)
        \/ \E s \in SourceIds, d \in DisIds, m \in MetadataHashes, h \in ObservationHashes :
            WriterPersist(r, s, d, m, h)
        \/ \E status \in {"succeeded", "partial"}, coverage \in Coverages, counts \in Counts,
             ids \in SUBSET DOMAIN items : WriterFinish(r, status, coverage, counts, ids)
        \/ \E coverage \in Coverages, counts \in Counts : WriterFails(r, coverage, counts)
        \/ WriterEnds(r)

Handle ==
    \/ AskOperations
    \/ OperationsStep
    \/ \E f \in Filters, view \in ListingViews, page \in Pages : AskListings(f, view, page)
    \/ ListingsStep
    \/ Respond

RequestsNext == (Write \/ Handle \/ Tick) /\ Witness

RequestsSpec == RequestsInit /\ [][RequestsNext]_allVars

-----------------------------------------------------------------------------
(* Properties                                                              *)

\* The clock, the requests and the processes: the table says of none that is
\* alive that it has failed or will start, and one of them is the scheduler's
\* at most.
RequestsTypeOK ==
    /\ TypeOK
    /\ now \in Times
    /\ live \subseteq DOMAIN runs
    /\ \A r \in live : runs[r].status # "failed" /\ runs[r].started_at <= now
    /\ \A q, r \in live \cap ScheduledRuns : q = r
    /\ request.kind \in {"none", "operations", "listings"}
    /\ request # Idle => request.step \in 0..3 /\ request.time <= now

\* The complete run that was read still is one.
CompleteStands == request.complete # None => \E r \in DOMAIN runs : runs[r] = request.complete

\* The state /health/operations reports is one that held at some moment while
\* the request was handled, although it is put together from three
\* statements with other transactions between them.  The exception: the
\* complete run it read was finished again, as failed, before the answer.
StatusWasTrue ==
    Answered /\ request.kind = "operations" /\ CompleteStands => request.state \in truths

\* Once there has been a complete scheduled scrape, the end of scraping is
\* noticed: when the last complete one finished longer ago than the freshness
\* limit, and nothing was started within the time a run may take, the answer
\* is 503 - also when the scheduler died and left a row that says "running".
DeadServiceNoticed ==
    /\ Answered /\ request.kind = "operations" /\ CompleteStands
    /\ \E r \in ScheduledRuns : IsComplete(r)
    /\ \A r \in ScheduledRuns :
        /\ Age(request.time, runs[r].started_at) > MaximumRun
        /\ IsComplete(r) => Age(request.time, runs[r].finished_at) > Freshness
    => Unavailable(request.state)

\* /api/scrape-status takes the complete run that started last, of every mode, and
\* /health/operations the scheduled one that finished last.  When they report
\* different ages, that of the first is of a scrape started by hand: among
\* the scheduled ones, which do not overlap, the two orders agree.
EndpointsAgree ==
    /\ LatestComplete # None
    /\ Row(LatestComplete).finished_at # Row(LatestCompleteOfAll).finished_at
    => Row(LatestCompleteOfAll).mode # "scheduled"

\* Without filters, a page of all listings has the rows its page_info
\* promises, also when a scrape commits between the count and the rows.
PageNeverShort ==
    /\ Answered /\ request.kind = "listings"
    /\ request.view = "all" /\ Unfiltered(request.filter)
    => LET promised == request.total - (request.page - 1) * PageSize
       IN  /\ Cardinality(request.rows) <= PageSize
           /\ promised > 0 => Cardinality(request.rows)
                                >= (IF promised < PageSize THEN promised ELSE PageSize)

\* The pages 1 .. total_pages of what is asked for have every match exactly
\* once, in every order and whatever ties and NULLs the sort column has.
PagesPartition ==
    request.kind = "listings" /\ request.step = 1 =>
        LET rows == Rows
            pages == 1..TotalPages(Cardinality(rows), PageSize)
        IN  \A sort \in ListingSorts, s \in rows :
                Cardinality({p \in pages : s \in PageRows(rows, sort, p, PageSize)}) = 1

\* The two SQL expressions agree at every moment: the ended view has exactly
\* the listings whose availability says so, and the active view none of them.
\* Every stored item is in the view of all, once, and can be fetched, and
\* listing_count counts it.
ViewsAgree ==
    /\ \A s \in DOMAIN items :
        /\ GetListing(s) /\ Cardinality(Selected(s)) = 1
        /\ InView("ended", s, now) <=>
            Availability(s, now) \in {"closed", "withdrawn", "scheduled_closing_passed"}
        /\ InView("active", s, now) => Availability(s, now) \in {"active", "unknown"}
    /\ ListingCounts.listing_count = Cardinality(CurrentListings)
    /\ ListingCounts.active_listing_count + ListingCounts.stale_listing_count
        <= ListingCounts.listing_count

=============================================================================
