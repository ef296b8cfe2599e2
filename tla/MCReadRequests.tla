--------------------------- MODULE MCReadRequests ---------------------------
(***************************************************************************)
(* A finite instance of ReadRequests for TLC.                              *)
(***************************************************************************)
EXTENDS ReadRequests, TLC

CONSTANTS MaxObservations, MaxListingTime, MaxManualTime

\* Bid contents: open until time 1, open without a closing time, closed.
MCStatusOf == (1 :> "open") @@ (2 :> "open") @@ (3 :> "closed")
MCClosingOf == (1 :> 1) @@ (2 :> None) @@ (3 :> 1)
MCBidOf == (1 :> 5) @@ (2 :> None) @@ (3 :> 5)
MCBidCountOf == (1 :> 2) @@ (2 :> 0) @@ (3 :> None)

MCLocationOf == [m \in MetadataHashes |-> None]

NoFilter ==
    [described |-> MetadataHashes, min_price |-> None, max_price |-> None,
     closing_after |-> None, closing_before |-> None]

MCFilters ==
    {NoFilter, [NoFilter EXCEPT !.min_price = 3, !.max_price = 5],
     [NoFilter EXCEPT !.closing_after = 2, !.closing_before = 1]}

Coverage(persisted) ==
    [expected_product_groups |-> 1, processed_product_groups |-> 1,
     unique_listings_enumerated |-> 1, detail_attempted |-> 1, detail_succeeded |-> 1,
     persistence_succeeded |-> persisted, persistence_failures |-> 0,
     enumeration_complete |-> TRUE]

MCCoverages == {Coverage(1), Coverage(0)}

MCTimes == 0..MaxTime

\* Many runs over empty tables, or listings and a shorter time: a request reads
\* either the runs or the listings.
OneOrTheOther ==
    /\ DOMAIN items # {} \/ request.kind = "listings" =>
        /\ Cardinality(ScheduledRuns) <= 1 /\ now <= MaxListingTime
        \* two runs overlap only while there is no request, since no listing tells
        \* them apart, nor whether their processes are alive
        /\ DOMAIN runs = ScheduledRuns \/ request.kind = "none"
        /\ DOMAIN runs = live
        /\ request.kind # "operations"
        /\ \A s \in DOMAIN items : items[s].source_dis_id = s
        /\ \A r \in DOMAIN runs : runs[r].status # "failed"
    /\ request.kind = "operations" => now \in request.time..(request.time + 1)
    /\ \/ DOMAIN runs = ScheduledRuns
       \/ now <= MaxManualTime /\ Cardinality(DOMAIN runs \ ScheduledRuns) = 1
    /\ Cardinality(observations) <= MaxObservations

\* The listings that are asked for: the pages of one view, the other views,
\* and the matches of a filter.
AskedFor ==
    request.kind = "listings" =>
        IF Unfiltered(request.filter) THEN request.page = 1 \/ request.view = "all"
                                      ELSE request.page = 1 /\ request.view = "all"

\* No statement of a request tells a run that is partial, or incomplete, from
\* one that failed, or looks at the coverage of a failed one.
Distinguished ==
    \A r \in DOMAIN runs :
        runs[r].status # "running" =>
            (runs[r].status = "failed" <=> runs[r].completion_status = "incomplete")
            /\ runs[r].status # "partial"

\* The steps that stay within these bounds.  (As a CONSTRAINT they would let
\* TLC check the invariants again and again on the states just outside.)
BoundedSpec ==
    RequestsInit /\ [][RequestsNext /\ (OneOrTheOther /\ AskedFor /\ Distinguished)']_allVars

Interchangeable == Permutations(RunIds)

=============================================================================
