----------------------------- MODULE ReadViews -----------------------------
(***************************************************************************)
(* The queries of the public API: class AuctionReadRepository of           *)
(* src/bc_auction/read_repository.py, over the tables of                   *)
(* AuctionRepository.  Each operator is what one SQL statement returns on  *)
(* the tables as they are.                                                 *)
(*                                                                         *)
(* Data.  The bid columns are part of the bid content, so they are         *)
(* functions of its hash.  The keyword, the location and the category of a *)
(* request select descriptive contents.  A comparison with NULL selects    *)
(* nothing.                                                                *)
(***************************************************************************)
EXTENDS AuctionRepository, FiniteSets

CONSTANTS
    ClosingOf, BidOf, BidCountOf,  \* the columns of a bid content
    Second                         \* ticks of the clock in a second

ASSUME ViewsAssumption ==
    /\ Second \in Nat \ {0}
    /\ SourceIds \subseteq Nat  \* ordered as the auction numbers are
    /\ {ClosingOf, BidOf, BidCountOf} \subseteq [ObservationHashes -> Nat \cup {None}]

ListingViews == {"active", "ended", "all"}
ListingSorts == {"closing_soon", "closing_latest", "price_low", "price_high",
                 "newest_seen", "most_bids"}

-----------------------------------------------------------------------------
(* _current_listing_statement                                              *)

\* Observations of an item that carry its current hash, joined to their run.
Candidates(s) ==
    {o \in History(s) : /\ o.observation_hash = items[s].current_observation_hash
                        /\ o.run_id \in DOMAIN runs}

\* The ORDER BY of the window: the observation made when the item was last
\* seen, then one not after it, then the newest, then the newest run.
RanksBefore(s, o, p) ==
    LET Bit(b) == IF b THEN 1 ELSE 0
        Key(x) == <<Bit(x.observed_at = items[s].last_seen_at),
                    Bit(x.observed_at <= items[s].last_seen_at),
                    x.observed_at, runs[x.run_id].started_at>>
    IN  \E i \in 1..4 : /\ Key(o)[i] > Key(p)[i]
                        /\ \A j \in 1..(i - 1) : Key(o)[j] = Key(p)[j]

\* selection_rank = 1
Selected(s) == {o \in Candidates(s) : \A p \in Candidates(s) : ~RanksBefore(s, p, o)}

CurrentListings == {s \in DOMAIN items : Selected(s) # {}}

\* get_listing: one_or_none, where none is a 404
GetListing(s) == s \in CurrentListings

BidContent(s) == (CHOOSE o \in Selected(s) : TRUE).observation_hash

ClosingAt(s) == ClosingOf[BidContent(s)]

-----------------------------------------------------------------------------
(* Views, filters, order, pages                                            *)

IsOpen(s) == items[s].status = "open"

\* Fault: the two expressions disagree about the very moment of closing.
FaultClosingPassed(s, t) == IsOpen(s) /\ ClosingAt(s) # None /\ ClosingAt(s) < t

ClosingPassed(s, t) == IsOpen(s) /\ ClosingAt(s) # None /\ ClosingAt(s) <= t

\* _view_condition, at request_time t
InView(view, s, t) ==
    CASE view = "active" -> /\ inventory[s].inventory_state = "current"
                            /\ IsOpen(s)
                            /\ ClosingAt(s) = None \/ ClosingAt(s) > t
      [] view = "ended" -> IsTerminal(items[s].status) \/ ClosingPassed(s, t)
      [] view = "all" -> TRUE

\* _availability_expression
Availability(s, t) ==
    CASE IsTerminal(items[s].status) -> items[s].status
      [] IsOpen(s) /\ ClosingAt(s) # None /\ ClosingAt(s) <= t -> "scheduled_closing_passed"
      [] IsOpen(s) /\ ClosingAt(s) # None /\ ClosingAt(s) > t -> "active"
      [] OTHER -> "unknown"

\* minimum <= value <= maximum, where a bound may be missing
Within(value, minimum, maximum) ==
    /\ minimum # None => value # None /\ value >= minimum
    /\ maximum # None => value # None /\ value <= maximum

Ordered(minimum, maximum) == minimum # None /\ maximum # None => minimum <= maximum

\* The API refuses (422) a filter with an empty range.
ValidFilter(f) ==
    Ordered(f.min_price, f.max_price) /\ Ordered(f.closing_after, f.closing_before)

\* _listing_conditions
Matches(f, view, t) ==
    {s \in CurrentListings :
        /\ InView(view, s, t)
        /\ items[s].metadata_hash \in f.described
        /\ Within(BidOf[BidContent(s)], f.min_price, f.max_price)
        /\ Within(ClosingAt(s), f.closing_after, f.closing_before)}

DefaultListingSort(view) == IF view = "ended" THEN "closing_latest" ELSE "closing_soon"

SortColumn(sort, s) ==
    CASE sort \in {"closing_soon", "closing_latest"} -> ClosingAt(s)
      [] sort \in {"price_low", "price_high"} -> BidOf[BidContent(s)]
      [] sort = "newest_seen" -> items[s].last_seen_at
      [] sort = "most_bids" -> BidCountOf[BidContent(s)]

\* _listing_order: NULLS LAST, and the auction number decides a tie
Precedes(sort, s, u) ==
    LET a == SortColumn(sort, s)
        b == SortColumn(sort, u)
    IN  \/ a # None /\ b = None
        \/ /\ a # None /\ b # None
           /\ IF sort \in {"closing_soon", "price_low"} THEN a < b ELSE a > b
        \/ a = b /\ s < u

\* Fault: the offset counts pages from zero.
FaultOffset(rows, sort, page, size) ==
    {s \in rows : Cardinality({u \in rows : Precedes(sort, u, s)})
                    \in (page * size)..((page + 1) * size - 1)}

\* LIMIT page_size OFFSET (page - 1) * page_size
PageRows(rows, sort, page, size) ==
    {s \in rows : Cardinality({u \in rows : Precedes(sort, u, s)})
                    \in ((page - 1) * size)..(page * size - 1)}

\* _page_info
TotalPages(total, size) == IF total = 0 THEN 0 ELSE (total + size - 1) \div size

-----------------------------------------------------------------------------
(* The runs                                                                *)

\* The first row ORDER BY ... DESC: the latest, by the given column, of the
\* runs in the set.  (Runs that start at the same moment are told apart by
\* created_at, which is the same moment, and by their random id.)
Latest(set, column) ==
    IF set = {} THEN None
    ELSE CHOOSE r \in set : \A q \in set : runs[q][column] <= runs[r][column]

IsComplete(r) == runs[r].status = "succeeded" /\ runs[r].completion_status = "complete"

ScheduledRuns == {r \in DOMAIN runs : runs[r].mode = "scheduled"}

\* The statements of operations_status: two rows, and the number of
\* scheduled runs that ended otherwise since the complete one started.
LatestScheduled == Latest(ScheduledRuns, "started_at")

LatestComplete == Latest({r \in ScheduledRuns : IsComplete(r)}, "finished_at")

ConsecutiveFailures(complete) ==
    Cardinality({r \in ScheduledRuns :
        /\ runs[r].status # "running" /\ ~IsComplete(r)
        /\ complete # None => runs[r].started_at > complete.started_at})

Row(r) == IF r = None THEN None ELSE runs[r]

\* max(0, int((t - since).total_seconds())): whole seconds, cut at zero
Age(t, since) == IF t <= since THEN 0 ELSE (t - since) \div Second

\* Fault: a run that is too old is still running.
FaultNeverStalled(scheduled, complete, failures, t, maximum_run, freshness) ==
    IF scheduled # None /\ scheduled.status = "running" THEN "running"
    ELSE IF complete = None THEN IF scheduled = None THEN "starting" ELSE "degraded"
    ELSE IF Age(t, complete.finished_at) > freshness THEN "stale"
    ELSE IF failures > 0 THEN "degraded" ELSE "healthy"

\* _operations_state, on rows
OperationsState(scheduled, complete, failures, t, maximum_run, freshness) ==
    IF scheduled # None /\ scheduled.status = "running"
    THEN IF Age(t, scheduled.started_at) > maximum_run THEN "stalled" ELSE "running"
    ELSE IF complete = None THEN IF scheduled = None THEN "starting" ELSE "degraded"
    ELSE IF Age(t, complete.finished_at) > freshness THEN "stale"
    ELSE IF failures > 0 THEN "degraded" ELSE "healthy"

\* The statements of scrape_status, over the runs of every mode
LatestRun == Latest(DOMAIN runs, "started_at")

LatestSuccessful == Latest({r \in DOMAIN runs : runs[r].status = "succeeded"}, "started_at")

LatestCompleteOfAll == Latest({r \in DOMAIN runs : IsComplete(r)}, "started_at")

ListingCounts ==
    [listing_count |-> Cardinality(DOMAIN items),
     active_listing_count |->
        Cardinality({s \in DOMAIN items : inventory[s].inventory_state = "current"}),
     stale_listing_count |->
        Cardinality({s \in DOMAIN items : inventory[s].inventory_state = "stale"})]

=============================================================================
