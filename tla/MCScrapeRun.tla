---------------------------- MODULE MCScrapeRun ----------------------------
(***************************************************************************)
(* Finite instances of ScrapeRun for TLC.                                  *)
(***************************************************************************)
EXTENDS ScrapeRun, TLC

CONSTANTS p1, p2, s1, s2, d1

MCStatusOf == [h \in ObservationHashes |-> IF h = 1 THEN "open" ELSE "closed"]

MCLocationOf == [m \in MetadataHashes |-> None]

\* No --keyword.
MCUnfiltered == [p \in Processes |-> SourceIds]

\* The second scrape searches for a keyword that only s1 matches.
MCKeyword == (p1 :> SourceIds) @@ (p2 :> {s1})

\* The second scrape has a limit that the source can reach.
MCLimits == (p1 :> 5) @@ (p2 :> 1)

\* Bound: the clock moves only between two scrapes.  When it moves within one
\* matters to the dates of one item, the subject of AuctionRepository.
TickBetweenRuns ==
    now' = now \/ /\ \A p \in Processes : ~Active(p)
                  /\ DOMAIN runs \notin {{}, Processes}

\* Bound: two listings in all, of two auctions or of one in two groups.
TwoListings == Cardinality({x \in SourceIds \X (1..Groups) : x[2] \in listed[x[1]]}) <= 2

\* Bound: an auction keeps its document, also between runs.  What becomes of a
\* batch with a conflict is the subject of the instance for overlapping runs.
NoRenumbering ==
    \A p \in Processes : \A d \in proc[p].records :
        \A s \in DOMAIN items : (s = d.source_id) <=> (items[s].source_dis_id = d.source_dis_id)

\* Bound: the scheduled scrape is interrupted or killed and the other is not.
\* (Both are in the instance for overlapping runs.)
ScheduledMishap == \A p \in Manual : ~proc[p].interrupted /\ proc[p].pc # "killed"

\* The steps that stay within these bounds.
WithinBounds == TickBetweenRuns /\ (TwoListings /\ NoRenumbering /\ ScheduledMishap)'

\* Bound: one auction has bids and one document, the other one bid content and
\* any document, the first one's among them.
OneChangesEach ==
    \A p \in Processes : \A d \in proc[p].records :
        IF d.source_id = s1 THEN d.source_dis_id = d1 ELSE d.observation_hash = 1

\* Auctions and display documents are interchangeable; the processes are not.
Interchangeable == Permutations(SourceIds) \cup Permutations(DisIds)

MCNoLimits == [p \in Processes |-> 5]

=============================================================================
