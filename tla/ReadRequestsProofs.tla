------------------------ MODULE ReadRequestsProofs -------------------------
(***************************************************************************)
(* What a request of the public API may rely on while scheduled scrapes,   *)
(* and scrapes started by hand, write: for any number of runs, listings,   *)
(* pages and any length of time.                                           *)
(***************************************************************************)
EXTENDS ReadRequests, AuctionRepositoryProofs, FiniteSetTheorems

\* The processes seen in the table: none that is alive has a failed run, and
\* while the scheduler's is, the advisory lock lets no other start after it.
LiveIsLast ==
    /\ live \subseteq DOMAIN runs
    /\ \A z \in live :
        /\ runs[z].status # "failed"
        /\ z \in ScheduledRuns =>
            \A r \in ScheduledRuns : runs[r].started_at <= runs[z].started_at

\* A run that ended otherwise than complete.
IsFailure(r) == runs[r].status # "running" /\ ~IsComplete(r)

\* The scheduled runs follow one another: each has a start of its own, and if
\* it was finished, that was before the next one started.
RunsFollow ==
    /\ IsFiniteSet(DOMAIN runs)
    /\ \A r \in DOMAIN runs :
        /\ runs[r].status = "running" <=> runs[r].finished_at = None
        /\ runs[r].finished_at # None => runs[r].started_at <= runs[r].finished_at
    /\ \A q, r \in ScheduledRuns :
        /\ runs[q].started_at = runs[r].started_at => q = r
        /\ runs[q].started_at < runs[r].started_at /\ runs[q].finished_at # None =>
            runs[q].finished_at <= runs[r].started_at

\* The complete scheduled runs.
CompleteRuns == {r \in ScheduledRuns : IsComplete(r)}

\* Nothing in the table is ahead of the clock.
ClockAhead ==
    /\ now \in Times
    /\ \A r \in DOMAIN runs :
        /\ runs[r].started_at <= now
        /\ runs[r].finished_at # None => runs[r].finished_at <= now

OperationsRequests ==
    [kind: {"operations"}, time: Times, step: {0, 1, 2, 3}, scheduled: RunRows \cup {None},
     complete: RunRows \cup {None},
     state: {None, "starting", "running", "stalled", "stale", "degraded", "healthy"}]

ListingsRequests ==
    [kind: {"listings"}, time: Times, step: {0, 1, 3}, filter: Filters,
     view: ListingViews, page: Pages, total: Nat, rows: SUBSET SourceIds]

RequestTyped ==
    /\ request \in {Idle} \cup OperationsRequests \cup ListingsRequests
    /\ request # Idle => request.time <= now

\* What the statements of an operations request have read is still in the
\* table, or was too new to matter.  Of a complete run, its end may be gone.
ReadsKept ==
    request.kind = "operations" =>
        /\ request.step >= 1 /\ request.scheduled # None =>
            \E r \in ScheduledRuns : request.scheduled.started_at = runs[r].started_at
        /\ request.step >= 2 =>
            IF request.complete = None
            THEN \A r \in CompleteRuns : runs[r].finished_at >= request.time
            ELSE /\ request.complete.mode = "scheduled"
                 /\ request.complete.status = "succeeded"
                 /\ request.complete.completion_status = "complete"
                 /\ \E r \in ScheduledRuns : /\ request.complete.started_at = runs[r].started_at
                                             /\ runs[r].status # "running"
        /\ request.step = 3 =>
            \E n \in 0..1 : request.state =
                OperationsState(request.scheduled, request.complete, n, request.time,
                                MaximumRun, Freshness)

\* The answer of an operations request if the statements that are left, after the
\* first or after the second, were executed now.
AnswerFromScheduled ==
    OperationsState(request.scheduled, Row(LatestComplete),
                    ConsecutiveFailures(Row(LatestComplete)), request.time,
                    MaximumRun, Freshness)

AnswerFromComplete ==
    OperationsState(request.scheduled, request.complete,
                    ConsecutiveFailures(request.complete), request.time,
                    MaximumRun, Freshness)

\* Both the truth of this moment and that answer have been true, unless the
\* complete run that was read has been finished again.
AnswerTrue ==
    request.kind = "operations" =>
        /\ StateNow \in truths
        /\ request.step >= 1 /\ request.scheduled = None => "starting" \in truths
        /\ request.step = 1 => AnswerFromScheduled \in truths
        /\ request.step = 2 /\ CompleteStands => AnswerFromComplete \in truths
        /\ request.step = 3 /\ CompleteStands => request.state \in truths

\* The unique constraint of the observations.
ObservedOnce ==
    \A o, p \in observations :
        /\ o.source_id = p.source_id /\ o.observed_at = p.observed_at
        /\ o.observation_hash = p.observation_hash
        => o = p

RequestsInv ==
    /\ IsFiniteSet(DOMAIN items) /\ ObservedOnce
    /\ ClockAhead /\ LiveIsLast /\ RunsFollow
    /\ RequestTyped /\ ReadsKept

-----------------------------------------------------------------------------
(* The first row of a result                                               *)

\* A set of natural numbers has a least one.
LEMMA LeastNatural ==
    ASSUME NEW T \in SUBSET Nat, T # {}
    PROVE  \E n \in T : \A m \in T : n <= m
<1> DEFINE R == {p \in Nat \X Nat : p[1] < p[2]}
<1>1. IsWellFoundedOn(R, Nat)
  BY NatLessThanWellFounded DEF OpToRel
<1> HIDE DEF R
<1>2. PICK n \in T : \A m \in T : ~(<<m, n>> \in R)
  BY <1>1, WFMin
<1>3. ASSUME NEW m \in T
      PROVE  n <= m
  <2>1. m < n => <<m, n>> \in R
    BY DEF R
  <2>2. QED  BY <1>2, <2>1
<1>4. QED  BY <1>3

\* ORDER BY ... DESC has a first row when the column is bounded.
LEMMA Greatest ==
    ASSUME NEW S, S # {}, NEW N \in Nat, NEW f \in [S -> 0..N]
    PROVE  \E x \in S : \A y \in S : f[y] <= f[x]
<1> DEFINE T == {N - f[x] : x \in S}
<1>1. T \in SUBSET Nat /\ T # {}
  OBVIOUS
<1>2. PICK n \in T : \A m \in T : n <= m
  BY <1>1, LeastNatural
<1>3. PICK x \in S : n = N - f[x]
  OBVIOUS
<1>4. ASSUME NEW y \in S
      PROVE  f[y] <= f[x]
  <2>1. N - f[y] \in T
    OBVIOUS
  <2> HIDE DEF T
  <2>2. QED  BY <1>2, <1>3, <2>1
<1>5. QED  BY <1>4

\* Latest returns a run of the set, and none of the set is later.
LEMMA LatestIs ==
    ASSUME NEW S, S # {}, NEW column, \A r \in S : runs[r][column] \in Times
    PROVE  /\ Latest(S, column) \in S
           /\ \A q \in S : runs[q][column] <= runs[Latest(S, column)][column]
<1> DEFINE f == [r \in S |-> runs[r][column]]
<1>1. f \in [S -> 0..MaxTime] /\ MaxTime \in Nat
  BY RequestsAssumption
<1>2. PICK x \in S : \A y \in S : f[y] <= f[x]
  BY <1>1, Greatest
<1>3. \A y \in S : runs[y][column] <= runs[x][column]
  BY <1>2
<1>4. QED  BY <1>3 DEF Latest

\* What the statements over the runs return.
LatestRows ==
    /\ IF ScheduledRuns = {} THEN LatestScheduled = None
       ELSE /\ LatestScheduled \in ScheduledRuns
            /\ \A q \in ScheduledRuns : runs[q].started_at <= runs[LatestScheduled].started_at
    /\ IF CompleteRuns = {} THEN LatestComplete = None
       ELSE /\ LatestComplete \in CompleteRuns
            /\ \A q \in CompleteRuns : runs[q].finished_at <= runs[LatestComplete].finished_at
    /\ CompleteRuns # {} =>
        /\ LatestCompleteOfAll \in DOMAIN runs /\ IsComplete(LatestCompleteOfAll)
        /\ \A q \in DOMAIN runs : IsComplete(q) =>
            runs[q].started_at <= runs[LatestCompleteOfAll].started_at

\* They return it in every state in which the runs follow one another.
LEMMA LatestFacts == TypeOK /\ RunsFollow => LatestRows
<1> SUFFICES ASSUME TypeOK, RunsFollow PROVE LatestRows
  OBVIOUS
<1>1. \A r \in DOMAIN runs : runs[r].started_at \in Times
  BY DEF TypeOK, RunRows
<1>2. CompleteRuns \subseteq DOMAIN runs /\ ScheduledRuns \subseteq DOMAIN runs
  BY DEF CompleteRuns, ScheduledRuns
<1>3. \A r \in CompleteRuns : runs[r].finished_at \in Times
  BY <1>2 DEF TypeOK, RunRows, CompleteRuns, IsComplete, RunsFollow
<1>4. \A r : runs[r]["started_at"] = runs[r].started_at
             /\ runs[r]["finished_at"] = runs[r].finished_at
  OBVIOUS
<1>5. IF ScheduledRuns = {} THEN LatestScheduled = None
      ELSE /\ LatestScheduled \in ScheduledRuns
           /\ \A q \in ScheduledRuns : runs[q].started_at <= runs[LatestScheduled].started_at
  <2>1. CASE ScheduledRuns = {}
    BY <2>1 DEF LatestScheduled, Latest
  <2>2. CASE ScheduledRuns # {}
    BY <1>1, <1>2, <1>4, <2>2, LatestIs DEF LatestScheduled
  <2>3. QED  BY <2>1, <2>2
<1>6. IF CompleteRuns = {} THEN LatestComplete = None
      ELSE /\ LatestComplete \in CompleteRuns
           /\ \A q \in CompleteRuns : runs[q].finished_at <= runs[LatestComplete].finished_at
  <2>1. LatestComplete = Latest(CompleteRuns, "finished_at")
    BY DEF LatestComplete, CompleteRuns
  <2>2. CASE CompleteRuns = {}
    BY <2>1, <2>2 DEF Latest
  <2>3. CASE CompleteRuns # {}
    BY <1>3, <1>4, <2>1, <2>3, LatestIs
  <2>4. QED  BY <2>2, <2>3
<1>7. ASSUME CompleteRuns # {}
      PROVE  /\ LatestCompleteOfAll \in DOMAIN runs /\ IsComplete(LatestCompleteOfAll)
             /\ \A q \in DOMAIN runs : IsComplete(q) =>
                  runs[q].started_at <= runs[LatestCompleteOfAll].started_at
  <2> DEFINE S == {r \in DOMAIN runs : IsComplete(r)}
  <2>1. LatestCompleteOfAll = Latest(S, "started_at")
    BY DEF LatestCompleteOfAll
  <2>2. S # {} /\ S \subseteq DOMAIN runs
    BY <1>2, <1>7 DEF CompleteRuns
  <2>3. \A r \in S : runs[r]["started_at"] \in Times
    BY <1>1, <1>4
  <2> HIDE DEF S
  <2>4. /\ LatestCompleteOfAll \in S
        /\ \A q \in S : runs[q]["started_at"] <= runs[LatestCompleteOfAll]["started_at"]
    BY <2>1, <2>2, <2>3, LatestIs
  <2>5. QED  BY <1>4, <2>4 DEF S
<1>8. QED  BY <1>5, <1>6, <1>7 DEF LatestRows

\* Of complete runs that follow one another the last to start is the last to
\* finish.
LEMMA SameAge == TypeOK /\ RunsFollow => EndpointsAgree
<1> SUFFICES ASSUME TypeOK, RunsFollow, LatestComplete # None,
                    Row(LatestCompleteOfAll).mode = "scheduled"
             PROVE  Row(LatestComplete).finished_at = Row(LatestCompleteOfAll).finished_at
  BY DEF EndpointsAgree
<1> DEFINE a == LatestComplete
           b == LatestCompleteOfAll
<1>1. /\ a \in CompleteRuns /\ \A q \in CompleteRuns : runs[q].finished_at <= runs[a].finished_at
      /\ b \in DOMAIN runs /\ IsComplete(b)
      /\ \A q \in DOMAIN runs : IsComplete(q) => runs[q].started_at <= runs[b].started_at
  BY LatestFacts DEF LatestRows
<1>2. b # None /\ Row(b) = runs[b]
  BY <1>1, RequestsAssumption DEF TypeOK, Row
<1>3. b \in CompleteRuns
  BY <1>1, <1>2 DEF CompleteRuns, ScheduledRuns
<1> HIDE DEF a, b
<1>4. \A r \in CompleteRuns : /\ r \in DOMAIN runs /\ r \in ScheduledRuns /\ r # None
                              /\ IsComplete(r)
                              /\ runs[r].started_at \in Nat /\ runs[r].finished_at \in Nat
                              /\ runs[r].started_at <= runs[r].finished_at
                              /\ runs[r].finished_at # None
  BY RepositoryAssumption, RequestsAssumption
  DEF TypeOK, RunRows, CompleteRuns, ScheduledRuns, IsComplete, RunsFollow
<1>5. runs[a].finished_at = runs[b].finished_at
  <2>1. runs[b].finished_at <= runs[a].finished_at /\ runs[a].started_at <= runs[b].started_at
    BY <1>1, <1>3, <1>4
  <2>2. CASE runs[a].started_at = runs[b].started_at
    BY <1>1, <1>3, <1>4, <2>2 DEF RunsFollow
  <2>3. CASE runs[a].started_at < runs[b].started_at
    <3>1. runs[a].finished_at <= runs[b].started_at
      BY <1>1, <1>3, <1>4, <2>3 DEF RunsFollow
    <3>2. QED  BY <1>1, <1>3, <1>4, <2>1, <3>1
  <2>4. QED  BY <1>1, <1>3, <1>4, <2>1, <2>2, <2>3
<1>6. Row(a) = runs[a]
  BY <1>1, <1>4 DEF Row
<1>7. QED  BY <1>2, <1>5, <1>6 DEF a, b

-----------------------------------------------------------------------------
(* The writers                                                             *)

\* start_scrape_run adds a row; a scheduled one starts after all of its kind.
RowStarted(r) ==
    /\ r \notin DOMAIN runs /\ live' = live \cup {r}
    /\ DOMAIN runs' = DOMAIN runs \cup {r}
    /\ \A q \in DOMAIN runs : runs'[q] = runs[q]
    /\ runs'[r].started_at = now /\ runs'[r].status = "running"
    /\ runs'[r].finished_at = None
    /\ runs'[r].mode = "scheduled" =>
        \A q \in ScheduledRuns : q \notin live /\ runs[q].started_at < now
    /\ now' = now /\ request' = request

\* finish_scrape_run changes the row of a run that is alive only, and of it
\* neither the start nor the mode; what was finished before becomes failed.
RowFinished(r) ==
    /\ r \in live /\ r \in DOMAIN runs
    /\ DOMAIN runs' = DOMAIN runs
    /\ \A q \in DOMAIN runs : q # r => runs'[q] = runs[q]
    /\ runs'[r].started_at = runs[r].started_at /\ runs'[r].mode = runs[r].mode
    /\ runs'[r].status # "running" /\ runs'[r].finished_at = now
    /\ runs[r].status = "running" \/ runs'[r].status = "failed"
    /\ live' \subseteq live
    /\ runs'[r].status = "failed" => r \notin live'
    /\ now' = now /\ request' = request

\* The other steps leave the runs alone.
RunsSame ==
    /\ runs' = runs /\ live' \subseteq live /\ request' = request
    /\ now' \in Times /\ now <= now'

\* A write, or a tick of the clock, is one of the three.
LEMMA WriterCases ==
    ASSUME TypeOK, ClockAhead, LiveIsLast, Write \/ Tick
    PROVE  RunsSame \/ \E r \in RunIds : RowStarted(r) \/ RowFinished(r)
<1>1. now \in Nat /\ now \in Times
  BY RepositoryAssumption DEF ClockAhead
<1>2. ASSUME NEW r \in RunIds, NEW mode \in Modes, WriterStart(r, mode)
      PROVE  RowStarted(r)
  BY <1>2 DEF WriterStart, MayStart, StartScrapeRun, Put, RowStarted
<1>3. ASSUME NEW r \in live, NEW status \in ScrapeRunStatus, NEW coverage, NEW counts, NEW ids,
             FinishScrapeRun(r, status, coverage, counts, ids, now),
             runs[r].status = "running" \/ status = "failed",
             live' \subseteq live, status = "failed" => r \notin live',
             now' = now, request' = request
      PROVE  RowFinished(r)
  <2> DEFINE row == [runs[r] EXCEPT !.status = status, !.finished_at = now, !.counts = counts,
                                    !.completion_status = CompletionStatus(coverage)]
  <2>1. r \in DOMAIN runs /\ status # "running" /\ runs' = Put(runs, r, row)
    BY <1>3 DEF FinishScrapeRun
  <2>2. runs[r] \in RunRows
    BY <2>1 DEF TypeOK
  <2>3. /\ row.started_at = runs[r].started_at /\ row.mode = runs[r].mode
        /\ row.status = status /\ row.finished_at = now
    BY <2>2 DEF RunRows
  <2> HIDE DEF row
  <2>4. DOMAIN runs' = DOMAIN runs /\ runs'[r] = row
        /\ \A q \in DOMAIN runs : q # r => runs'[q] = runs[q]
    BY <2>1 DEF Put
  <2>5. QED  BY <1>3, <2>1, <2>3, <2>4 DEF RowFinished
<1>4. ASSUME NEW r \in RunIds, NEW status \in {"succeeded", "partial"},
             NEW coverage \in Coverages, NEW counts \in Counts, NEW ids \in SUBSET DOMAIN items,
             WriterFinish(r, status, coverage, counts, ids)
      PROVE  RowFinished(r)
  BY <1>3, <1>4 DEF WriterFinish, ScrapeRunStatus
<1>5. ASSUME NEW r \in RunIds, NEW coverage \in Coverages, NEW counts \in Counts,
             WriterFails(r, coverage, counts)
      PROVE  RowFinished(r)
  BY <1>3, <1>5 DEF WriterFails, ScrapeRunStatus
<1>6. ASSUME NEW r \in RunIds, NEW s \in SourceIds, NEW d \in DisIds,
             NEW m \in MetadataHashes, NEW h \in ObservationHashes,
             WriterPersist(r, s, d, m, h)
      PROVE  RunsSame
  <2>1. UNCHANGED <<runs, live, now, request>>
    BY <1>6 DEF WriterPersist, PersistReconciledRecord, PersistInsert, PersistOutOfOrder,
                PersistClosedSeen, PersistUpdate
  <2>2. QED  BY <1>1, <2>1 DEF RunsSame
<1>7. ASSUME NEW r \in RunIds, WriterEnds(r)
      PROVE  RunsSame
  BY <1>1, <1>7 DEF WriterEnds, tables, RunsSame
<1>8. CASE Tick
  BY <1>1, <1>8, RequestsAssumption DEF Tick, tables, RunsSame
<1>9. QED  BY <1>2, <1>4, <1>5, <1>6, <1>7, <1>8 DEF Write

\* The columns of a run that are compared.
LEMMA RunColumns ==
    TypeOK => \A r \in DOMAIN runs : /\ runs[r] \in RunRows /\ runs[r] # None /\ r # None
                                     /\ runs[r].started_at \in Nat
                                     /\ runs[r].finished_at \in Nat \cup {None}
  BY RepositoryAssumption, RequestsAssumption DEF TypeOK, RunRows

\* The lock and the clock keep the scheduled runs one after the other.
LEMMA WriterStep ==
    ASSUME TypeOK, ClockAhead, LiveIsLast, RunsFollow, Write \/ Tick
    PROVE  ClockAhead' /\ LiveIsLast' /\ RunsFollow'
<1>1. now \in Nat /\ now \in Times /\ now # None
  BY RepositoryAssumption DEF ClockAhead
<1>2. \A r \in DOMAIN runs : runs[r].started_at \in Nat
                             /\ runs[r].finished_at \in Nat \cup {None}
  BY RunColumns
<1>3. ASSUME NEW r \in RunIds, RowStarted(r)
      PROVE  ClockAhead' /\ LiveIsLast' /\ RunsFollow'
  <2>1. ClockAhead'
    BY <1>1, <1>3 DEF ClockAhead, RowStarted
  <2>2. \/ /\ runs'[r].mode = "scheduled" /\ ScheduledRuns' = ScheduledRuns \cup {r}
           /\ \A q \in ScheduledRuns : q \notin live /\ runs[q].started_at < now
        \/ ScheduledRuns' = ScheduledRuns
    BY <1>3 DEF ScheduledRuns, RowStarted
  <2>3. ScheduledRuns \subseteq DOMAIN runs /\ r \notin ScheduledRuns
    BY <1>3 DEF ScheduledRuns, RowStarted
  <2>4. LiveIsLast'
    BY <1>1, <1>2, <1>3, <2>2, <2>3 DEF LiveIsLast, RowStarted
  <2>5. IsFiniteSet(DOMAIN runs')
    BY <1>3, FS_AddElement DEF RunsFollow, RowStarted
  <2>6. \A q \in DOMAIN runs' :
          /\ runs'[q].status = "running" <=> runs'[q].finished_at = None
          /\ runs'[q].finished_at # None => runs'[q].started_at <= runs'[q].finished_at
    BY <1>3 DEF RunsFollow, RowStarted
  <2>7. ASSUME NEW p \in ScheduledRuns', NEW q \in ScheduledRuns'
        PROVE  /\ runs'[p].started_at = runs'[q].started_at => p = q
               /\ runs'[p].started_at < runs'[q].started_at /\ runs'[p].finished_at # None =>
                    runs'[p].finished_at <= runs'[q].started_at
    BY <1>1, <1>2, <1>3, <2>2, <2>3, <2>7 DEF RunsFollow, RowStarted, ClockAhead
  <2>8. QED  BY <2>1, <2>4, <2>5, <2>6, <2>7 DEF RunsFollow
<1>4. ASSUME NEW r \in RunIds, RowFinished(r)
      PROVE  ClockAhead' /\ LiveIsLast' /\ RunsFollow'
  <2>1. ClockAhead'
    BY <1>1, <1>4 DEF ClockAhead, RowFinished
  <2>2. ScheduledRuns' = ScheduledRuns /\ ScheduledRuns \subseteq DOMAIN runs
    BY <1>4 DEF ScheduledRuns, RowFinished
  <2>3. \A q \in DOMAIN runs : runs'[q].started_at = runs[q].started_at
    BY <1>4 DEF RowFinished
  <2>4. LiveIsLast'
    BY <1>4, <2>2, <2>3 DEF LiveIsLast, RowFinished
  <2>5. \A q \in DOMAIN runs' :
          /\ runs'[q].status = "running" <=> runs'[q].finished_at = None
          /\ runs'[q].finished_at # None => runs'[q].started_at <= runs'[q].finished_at
    BY <1>1, <1>4, <2>3 DEF RunsFollow, RowFinished, ClockAhead
  <2>6. ASSUME NEW p \in ScheduledRuns, NEW q \in ScheduledRuns
        PROVE  /\ runs'[p].started_at = runs'[q].started_at => p = q
               /\ runs'[p].started_at < runs'[q].started_at /\ runs'[p].finished_at # None =>
                    runs'[p].finished_at <= runs'[q].started_at
    <3>1. p = r => runs[q].started_at <= runs[p].started_at
      BY <1>4, <2>6 DEF LiveIsLast, RowFinished
    <3>2. QED  BY <1>2, <1>4, <2>2, <2>3, <2>6, <3>1 DEF RunsFollow, RowFinished
  <2>7. QED  BY <1>4, <2>1, <2>2, <2>4, <2>5, <2>6 DEF RunsFollow, RowFinished
<1>5. CASE RunsSame
  <2>1. now' \in Nat /\ ScheduledRuns' = ScheduledRuns
    BY <1>5, RepositoryAssumption DEF RunsSame, ScheduledRuns
  <2>2. ClockAhead'
    BY <1>1, <1>2, <1>5, <2>1 DEF ClockAhead, RunsSame
  <2>3. QED  BY <1>5, <2>1, <2>2 DEF LiveIsLast, RunsFollow, RunsSame
<1>6. QED  BY <1>3, <1>4, <1>5, WriterCases

\* The writer uses the store as AuctionRepository lets its callers.
LEMMA WriterSteps ==
    TypeOK /\ ClockAhead /\ LiveIsLast /\ [RequestsNext]_allVars => [Next]_vars
<1> SUFFICES ASSUME TypeOK, ClockAhead, LiveIsLast, [RequestsNext]_allVars
             PROVE  [Next]_vars
  OBVIOUS
<1>1. now \in Times
  BY DEF ClockAhead
<1>2. ASSUME NEW r \in RunIds, NEW mode \in Modes, WriterStart(r, mode)
      PROVE  Next
  BY <1>1, <1>2 DEF WriterStart, Next, Start
<1>3. ASSUME NEW r \in RunIds, NEW s \in SourceIds, NEW d \in DisIds,
             NEW m \in MetadataHashes, NEW h \in ObservationHashes,
             WriterPersist(r, s, d, m, h)
      PROVE  Next
  <2> DEFINE rec == [source_id |-> s, source_dis_id |-> d, metadata_hash |-> m,
                     observation_hash |-> h, observed_at |-> now]
  <2>1. rec \in Records /\ PersistReconciledRecord(r, rec)
    BY <1>1, <1>3 DEF WriterPersist, Records
  <2>2. QED  BY <2>1 DEF Next, Persist
<1>4. ASSUME NEW r \in RunIds, NEW status \in {"succeeded", "partial"},
             NEW coverage \in Coverages, NEW counts \in Counts, NEW ids \in SUBSET DOMAIN items,
             WriterFinish(r, status, coverage, counts, ids)
      PROVE  Next
  <2>1. ids \in SUBSET SourceIds /\ status \in ScrapeRunStatus
    BY DEF TypeOK, ScrapeRunStatus
  <2>2. FinishScrapeRun(r, status, coverage, counts, ids, now) /\ runs[r].status = "running"
    BY <1>4 DEF WriterFinish
  <2>3. QED  BY <1>1, <2>1, <2>2 DEF Next, Finish
<1>5. ASSUME NEW r \in RunIds, NEW coverage \in Coverages, NEW counts \in Counts,
             WriterFails(r, coverage, counts)
      PROVE  Next
  <2>1. {} \in SUBSET SourceIds /\ "failed" \in ScrapeRunStatus /\ "failed" # "succeeded"
    BY DEF ScrapeRunStatus
  <2>2. FinishScrapeRun(r, "failed", coverage, counts, {}, now)
    BY <1>5 DEF WriterFails
  <2>3. QED  BY <1>1, <2>1, <2>2 DEF Next, Finish
<1>6. CASE (\E r \in RunIds : WriterEnds(r)) \/ Handle \/ Tick \/ UNCHANGED allVars
  BY <1>6 DEF WriterEnds, Handle, Tick, AskOperations, OperationsStep, AskListings,
              ListingsStep, Respond, tables, vars, allVars
<1>7. QED  BY <1>2, <1>3, <1>4, <1>5, <1>6 DEF RequestsNext, Write

\* The store holds finitely many items.
LEMMA ItemsStayFinite ==
    IsFiniteSet(DOMAIN items) /\ [Next]_vars => IsFiniteSet(DOMAIN items')
<1> SUFFICES ASSUME IsFiniteSet(DOMAIN items), [Next]_vars
             PROVE  IsFiniteSet(DOMAIN items')
  OBVIOUS
<1>1. ASSUME NEW r \in RunIds, NEW rec \in Records, PersistReconciledRecord(r, rec)
      PROVE  DOMAIN items' \in {DOMAIN items, DOMAIN items \cup {rec.source_id}}
  BY <1>1 DEF PersistReconciledRecord, PersistInsert, PersistOutOfOrder, PersistClosedSeen,
              PersistUpdate, Put
<1>2. CASE Persist
  <2>1. PICK r \in RunIds, rec \in Records : PersistReconciledRecord(r, rec)
    BY <1>2 DEF Persist
  <2>2. IsFiniteSet(DOMAIN items \cup {rec.source_id})
    BY FS_AddElement
  <2>3. QED  BY <1>1, <2>1, <2>2
<1>3. CASE Start \/ Finish \/ UNCHANGED vars
  BY <1>3 DEF Start, Finish, StartScrapeRun, FinishScrapeRun, vars
<1>4. QED  BY <1>2, <1>3 DEF Next

\* ON CONFLICT DO NOTHING keeps the observations unique, whichever run makes
\* them.
LEMMA ObservedOnceStays == ObservedOnce /\ [Next]_vars => ObservedOnce'
<1> SUFFICES ASSUME ObservedOnce, [Next]_vars PROVE ObservedOnce'
  OBVIOUS
<1>1. ASSUME NEW r, NEW rec, InsertObservation(r, rec)
      PROVE  ObservedOnce'
  <2>1. CASE AlreadyObserved(rec)
    BY <1>1, <2>1 DEF InsertObservation, ObservedOnce
  <2>2. CASE ~AlreadyObserved(rec)
    <3> DEFINE row == ObservationValues(r, rec)
    <3>1. observations' = observations \cup {row}
      BY <1>1, <2>2 DEF InsertObservation
    <3>2. /\ row.source_id = rec.source_id /\ row.observed_at = rec.observed_at
          /\ row.observation_hash = rec.observation_hash
      BY DEF ObservationValues
    <3>3. \A o \in observations : ~(/\ o.source_id = rec.source_id
                                    /\ o.observed_at = rec.observed_at
                                    /\ o.observation_hash = rec.observation_hash)
      BY <2>2 DEF AlreadyObserved
    <3> HIDE DEF row
    <3>4. QED  BY <3>1, <3>2, <3>3 DEF ObservedOnce
  <2>3. QED  BY <2>1, <2>2
<1>2. CASE Persist
  <2>1. PICK r \in RunIds, rec \in Records : PersistReconciledRecord(r, rec)
    BY <1>2 DEF Persist
  <2>2. InsertObservation(r, rec) \/ observations' = observations
    BY <2>1 DEF PersistReconciledRecord, PersistInsert, PersistOutOfOrder, PersistClosedSeen,
                PersistUpdate, RecordNonterminalHistoryAfterClosure
  <2>3. QED  BY <1>1, <2>2 DEF ObservedOnce
<1>3. CASE Start \/ Finish \/ UNCHANGED vars
  BY <1>3 DEF Start, Finish, StartScrapeRun, FinishScrapeRun, vars, ObservedOnce
<1>4. QED  BY <1>2, <1>3 DEF Next

-----------------------------------------------------------------------------
(* The requests                                                            *)

\* Rows of a request are stored items.
LEMMA RowsStored ==
    TypeOK /\ IsFiniteSet(DOMAIN items) =>
        /\ Rows \in SUBSET SourceIds /\ Rows \subseteq DOMAIN items
        /\ IsFiniteSet(Rows) /\ Cardinality(Rows) \in Nat
<1> SUFFICES ASSUME TypeOK, IsFiniteSet(DOMAIN items)
             PROVE  /\ Rows \in SUBSET SourceIds /\ Rows \subseteq DOMAIN items
                    /\ IsFiniteSet(Rows) /\ Cardinality(Rows) \in Nat
  OBVIOUS
<1>1. Rows \subseteq DOMAIN items
  BY DEF Rows, Matches, CurrentListings
<1>2. DOMAIN items \subseteq SourceIds
  BY DEF TypeOK
<1>3. IsFiniteSet(Rows)
  BY <1>1, FS_Subset
<1>4. QED  BY <1>1, <1>2, <1>3, FS_CardinalityType

\* What the statements of an operations request write is well typed.
LEMMA FieldsKept ==
    ASSUME NEW q \in OperationsRequests, NEW row \in RunRows \cup {None},
           NEW state \in {"starting", "running", "stalled", "stale", "degraded", "healthy"}
    PROVE  /\ [q EXCEPT !.step = 1, !.scheduled = row] \in OperationsRequests
           /\ [q EXCEPT !.step = 1, !.scheduled = row].time = q.time
           /\ [q EXCEPT !.step = 2, !.complete = row] \in OperationsRequests
           /\ [q EXCEPT !.step = 2, !.complete = row].time = q.time
           /\ [q EXCEPT !.step = 3, !.state = state] \in OperationsRequests
           /\ [q EXCEPT !.step = 3, !.state = state].time = q.time
  BY DEF OperationsRequests

\* What those of a listings request write is well typed.
LEMMA PageFieldsKept ==
    ASSUME NEW q \in ListingsRequests, NEW total \in Nat, NEW rows \in SUBSET SourceIds
    PROVE  /\ [q EXCEPT !.step = 1, !.total = total] \in ListingsRequests
           /\ [q EXCEPT !.step = 1, !.total = total].time = q.time
           /\ [q EXCEPT !.step = 3, !.rows = rows] \in ListingsRequests
           /\ [q EXCEPT !.step = 3, !.rows = rows].time = q.time
  BY DEF ListingsRequests

\* A request keeps its fields and stays within the time of the clock.
LEMMA TypedStep ==
    ASSUME TypeOK, TypeOK', RequestsInv, ClockAhead', RequestsNext
    PROVE  RequestTyped'
<1> USE DEF RequestsInv
<1>1. now \in Nat /\ now' \in Nat /\ now \in Times
  BY RepositoryAssumption DEF ClockAhead
<1>2. CASE AskOperations
  BY <1>1, <1>2 DEF AskOperations, RequestTyped, OperationsRequests, Idle
<1>3. CASE \E f \in Filters, view \in ListingViews, page \in Pages : AskListings(f, view, page)
  BY <1>1, <1>3 DEF AskListings, RequestTyped, ListingsRequests, Idle
<1>4. \A r \in OperationsRequests \cup ListingsRequests : r # Idle
  <2>1. \A r \in OperationsRequests \cup ListingsRequests : r.kind # "none"
    BY DEF OperationsRequests, ListingsRequests
  <2>2. Idle.kind = "none"
    BY DEF Idle
  <2>3. QED  BY <2>1, <2>2
<1>5. CASE OperationsStep
  <2>1. request \in OperationsRequests /\ request.time <= now /\ now' = now /\ runs' = runs
    BY <1>4, <1>5 DEF OperationsStep, RequestTyped, ListingsRequests, Idle, tables
  <2>2. Row(LatestScheduled) \in RunRows \cup {None}
    BY LatestFacts, RunColumns DEF Row, LatestRows, ScheduledRuns
  <2>3. Row(LatestComplete) \in RunRows \cup {None}
    BY LatestFacts, RunColumns DEF Row, LatestRows, CompleteRuns, ScheduledRuns
  <2>4. request' \in OperationsRequests /\ request'.time = request.time
    <3>1. CASE ReadRuns
      <4>1. CASE request' = [request EXCEPT !.step = 1, !.scheduled = Row(LatestScheduled)]
        BY <2>1, <2>2, <4>1, FieldsKept
      <4>2. CASE request' = [request EXCEPT !.step = 2, !.complete = Row(LatestComplete)]
        BY <2>1, <2>3, <4>2, FieldsKept
      <4>3. QED  BY <3>1, <4>1, <4>2 DEF ReadRuns
    <3>2. CASE CountFailures
      <4> DEFINE state == OperationsState(request.scheduled, request.complete,
                                          ConsecutiveFailures(request.complete),
                                          request.time, MaximumRun, Freshness)
      <4>1. state \in {"starting", "running", "stalled", "stale", "degraded", "healthy"}
        BY DEF OperationsState
      <4>2. request' = [request EXCEPT !.step = 3, !.state = state]
        BY <3>2 DEF CountFailures
      <4> HIDE DEF state
      <4>3. QED  BY <2>1, <4>1, <4>2, FieldsKept
    <3>3. QED  BY <1>5, <3>1, <3>2 DEF OperationsStep
  <2>5. QED  BY <2>1, <2>4 DEF RequestTyped
<1>6. CASE ListingsStep
  <2>1. request \in ListingsRequests /\ request.time <= now /\ now' = now
    BY <1>4, <1>6 DEF ListingsStep, RequestTyped, OperationsRequests, Idle
  <2>2. /\ Cardinality(Rows) \in Nat
        /\ PageRows(Rows, DefaultListingSort(request.view), request.page, PageSize)
            \in SUBSET SourceIds
    BY RowsStored DEF PageRows
  <2>3. request' \in ListingsRequests /\ request'.time = request.time
    <3> DEFINE total == Cardinality(Rows)
               rows == PageRows(Rows, DefaultListingSort(request.view), request.page, PageSize)
    <3>1. \/ request' = [request EXCEPT !.step = 1, !.total = total]
          \/ request' = [request EXCEPT !.step = 3, !.rows = rows]
      BY <1>6 DEF ListingsStep
    <3>2. total \in Nat /\ rows \in SUBSET SourceIds
      BY <2>2
    <3> HIDE DEF total, rows
    <3>3. CASE request' = [request EXCEPT !.step = 1, !.total = total]
      BY <2>1, <3>2, <3>3, PageFieldsKept
    <3>4. CASE request' = [request EXCEPT !.step = 3, !.rows = rows]
      BY <2>1, <3>2, <3>4, PageFieldsKept
    <3>5. QED  BY <3>1, <3>3, <3>4
  <2>4. QED  BY <2>1, <2>3 DEF RequestTyped
<1>7. CASE Respond
  BY <1>7 DEF Respond, RequestTyped
<1>8. CASE Write \/ Tick
  <2>1. request' = request /\ now <= now'
    <3>1. RunsSame => request' = request /\ now <= now'
      BY DEF RunsSame
    <3>2. ASSUME NEW r \in RunIds, RowStarted(r) \/ RowFinished(r)
          PROVE  request' = request /\ now <= now'
      BY <1>1, <3>2 DEF RowStarted, RowFinished
    <3>3. QED  BY <1>8, <3>1, <3>2, WriterCases
  <2>2. request \in OperationsRequests \cup ListingsRequests => request.time \in Nat
    BY RepositoryAssumption DEF OperationsRequests, ListingsRequests
  <2>3. QED  BY <1>1, <2>1, <2>2 DEF RequestTyped
<1>9. QED  BY <1>2, <1>3, <1>5, <1>6, <1>7, <1>8 DEF RequestsNext, Handle

\* A run never loses its start or its mode, or its end, and what becomes
\* complete finishes now.
RunsGrow ==
    /\ \A r \in DOMAIN runs :
        /\ r \in DOMAIN runs' /\ runs'[r].started_at = runs[r].started_at
        /\ runs'[r].mode = runs[r].mode
        /\ runs[r].status # "running" => runs'[r].status # "running"
    /\ \A r \in DOMAIN runs' : IsComplete(r)' =>
        \/ r \in DOMAIN runs /\ runs'[r] = runs[r]
        \/ /\ runs'[r].finished_at = now
           /\ r \in DOMAIN runs /\ runs[r].status = "running"

\* The writers let the runs grow.
LEMMA WriterGrows ==
    ASSUME TypeOK, ClockAhead, LiveIsLast, Write \/ Tick
    PROVE  RunsGrow /\ request' = request
<1>1. ASSUME NEW r \in RunIds, RowStarted(r)
      PROVE  RunsGrow /\ request' = request
  BY <1>1 DEF RowStarted, RunsGrow, IsComplete
<1>2. ASSUME NEW r \in RunIds, RowFinished(r)
      PROVE  RunsGrow /\ request' = request
  BY <1>2 DEF RowFinished, RunsGrow, IsComplete
<1>3. RunsSame => RunsGrow /\ request' = request
  BY DEF RunsSame, RunsGrow, IsComplete
<1>4. QED  BY <1>1, <1>2, <1>3, WriterCases

\* An operations request that is under way.
LEMMA OperationsFields ==
    RequestTyped /\ request.kind = "operations" =>
        request \in OperationsRequests /\ request.time \in Nat /\ request.time <= now
<1> SUFFICES ASSUME RequestTyped, request.kind = "operations"
             PROVE  request \in OperationsRequests /\ request.time \in Nat
                    /\ request.time <= now
  OBVIOUS
<1>1. request # Idle /\ request \notin ListingsRequests
  BY DEF Idle, ListingsRequests
<1>2. request \in OperationsRequests /\ request.time <= now
  BY <1>1 DEF RequestTyped
<1>3. QED  BY <1>2, RepositoryAssumption DEF OperationsRequests

\* What has been read is kept by every step.
LEMMA ReadsStep ==
    ASSUME TypeOK, RequestsInv, RequestsNext
    PROVE  ReadsKept'
<1> USE DEF RequestsInv
<1>1. CASE AskOperations \/ Respond
           \/ \E f \in Filters, view \in ListingViews, page \in Pages : AskListings(f, view, page)
  BY <1>1 DEF AskOperations, Respond, AskListings, ReadsKept, Idle
<1>2. CASE ListingsStep
  <2>1. request'.kind = request.kind /\ request.kind = "listings"
    <3>1. request \in ListingsRequests
      BY <1>2 DEF ListingsStep, RequestTyped, OperationsRequests, Idle
    <3>2. QED  BY <1>2, <3>1 DEF ListingsStep, ListingsRequests
  <2>2. QED  BY <2>1 DEF ReadsKept
<1>3. CASE OperationsStep
  <2>1. /\ request.kind = "operations" /\ request \in OperationsRequests
        /\ request.time \in Nat /\ runs' = runs
    BY <1>3, OperationsFields DEF OperationsStep, tables
  <2>2. CompleteRuns' = CompleteRuns /\ ScheduledRuns' = ScheduledRuns
    BY <2>1 DEF IsComplete, CompleteRuns, ScheduledRuns
  <2>3. CASE request.step = 0 /\ ReadRuns
    <3>1. /\ request'.scheduled = Row(LatestScheduled) /\ request'.step = 1
      <4>1. request' = [request EXCEPT !.step = 1, !.scheduled = Row(LatestScheduled)]
        BY <2>3 DEF ReadRuns
      <4>2. QED  BY <2>1, <4>1 DEF OperationsRequests
    <3>2. Row(LatestScheduled) # None =>
            \E r \in ScheduledRuns : Row(LatestScheduled).started_at = runs[r].started_at
      BY LatestFacts DEF LatestRows, Row
    <3>3. QED  BY <2>1, <2>2, <3>1, <3>2 DEF ReadsKept
  <2>4. CASE request.step = 1 /\ ReadRuns
    <3>1. /\ request'.scheduled = request.scheduled /\ request'.time = request.time
          /\ request'.complete = Row(LatestComplete) /\ request'.step = 2
      <4>1. request' = [request EXCEPT !.step = 2, !.complete = Row(LatestComplete)]
        BY <2>4 DEF ReadRuns
      <4>2. QED  BY <2>1, <4>1 DEF OperationsRequests
    <3>2. IF Row(LatestComplete) = None THEN CompleteRuns = {}
          ELSE \E r \in ScheduledRuns : /\ Row(LatestComplete) = runs[r] /\ IsComplete(r)
                                       /\ runs[r].mode = "scheduled"
      BY LatestFacts, RunColumns DEF LatestRows, Row, CompleteRuns, ScheduledRuns
    <3>3. QED  BY <2>1, <2>2, <2>4, <3>1, <3>2 DEF ReadsKept, IsComplete
  <2>5. CASE request.step = 2 /\ CountFailures
    <3> DEFINE failures == ConsecutiveFailures(request.complete)
               state(n) == OperationsState(request.scheduled, request.complete, n,
                                           request.time, MaximumRun, Freshness)
    <3>1. request' = [request EXCEPT !.step = 3, !.state = state(failures)]
      BY <2>5 DEF CountFailures
    <3>2. \E n \in 0..1 : state(failures) = state(n)
      BY DEF OperationsState
    <3> HIDE DEF failures
    <3>3. /\ request'.scheduled = request.scheduled /\ request'.time = request.time
          /\ request'.complete = request.complete /\ request'.step = 3
          /\ request'.state = state(failures)
      BY <2>1, <3>1 DEF OperationsRequests
    <3>4. QED  BY <2>1, <2>2, <2>5, <3>2, <3>3 DEF ReadsKept
  <2>6. QED  BY <1>3, <2>3, <2>4, <2>5 DEF OperationsStep, ReadRuns, CountFailures
<1>4. CASE Write \/ Tick
  <2>1. RunsGrow /\ request' = request
    BY <1>4, WriterGrows
  <2>2. request.kind = "operations" => request.time <= now
    BY OperationsFields
  <2>3. \A r \in ScheduledRuns : r \in ScheduledRuns' /\ r \in DOMAIN runs
    BY <2>1 DEF RunsGrow, ScheduledRuns
  <2>4. \A r \in CompleteRuns' :
          runs'[r].finished_at = now \/ (r \in CompleteRuns /\ runs'[r] = runs[r])
    BY <2>1 DEF RunsGrow, CompleteRuns, ScheduledRuns, IsComplete
  <2>5. QED  BY <2>1, <2>2, <2>3, <2>4 DEF ReadsKept, RunsGrow
<1>5. QED  BY <1>1, <1>2, <1>3, <1>4 DEF RequestsNext, Handle

-----------------------------------------------------------------------------
(* The invariant, and what follows from it                                 *)

ServiceInv == IInv /\ RequestsInv

\* Empty tables, no run and no request.
LEMMA ServiceInit == RequestsInit => ServiceInv
<1> SUFFICES ASSUME RequestsInit PROVE ServiceInv
  OBVIOUS
<1>1. IInv
  BY InitIInv DEF RequestsInit
<1>2. IsFiniteSet(DOMAIN items) /\ IsFiniteSet(DOMAIN runs) /\ DOMAIN runs = {}
      /\ ObservedOnce
  BY FS_EmptySet DEF RequestsInit, Init, ObservedOnce
<1>3. now \in Times
  BY RequestsAssumption DEF RequestsInit
<1>4. RequestTyped /\ ReadsKept
  BY DEF RequestsInit, RequestTyped, ReadsKept, Idle
<1>5. QED
  BY <1>1, <1>2, <1>3, <1>4
  DEF ServiceInv, RequestsInv, ClockAhead, LiveIsLast, RunsFollow, RequestsInit, ScheduledRuns

\* Every step of the writers, the clock and a request keeps the invariant.
LEMMA ServiceStep == ServiceInv /\ [RequestsNext]_allVars => ServiceInv'
<1> SUFFICES ASSUME ServiceInv, [RequestsNext]_allVars PROVE ServiceInv'
  OBVIOUS
<1>1. IInv /\ TypeOK /\ RequestsInv
  BY DEF ServiceInv, IInv
<1>2. [Next]_vars
  BY <1>1, WriterSteps DEF RequestsInv
<1>3. IInv' /\ TypeOK'
  BY <1>1, <1>2, StepIInv DEF IInv
<1>4. IsFiniteSet(DOMAIN items)' /\ ObservedOnce'
  BY <1>1, <1>2, ItemsStayFinite, ObservedOnceStays DEF RequestsInv
<1>5. CASE UNCHANGED allVars
  <2>1. RequestsInv'
    BY <1>1, <1>4, <1>5
    DEF allVars, RequestsInv, ClockAhead, LiveIsLast, RunsFollow, RequestTyped, ReadsKept,
        IsComplete, ScheduledRuns, CompleteRuns
  <2>2. QED  BY <1>3, <2>1 DEF ServiceInv
<1>6. CASE RequestsNext
  <2>1. ClockAhead' /\ LiveIsLast' /\ RunsFollow'
    <3>1. CASE Write \/ Tick
      BY <1>1, <1>3, <3>1, WriterStep DEF RequestsInv
    <3>2. CASE Handle
      <4>1. UNCHANGED <<runs, live, now>>
        BY <3>2 DEF Handle, AskOperations, OperationsStep, AskListings, ListingsStep, Respond,
                    tables
      <4>2. QED  BY <1>1, <4>1 DEF RequestsInv, ClockAhead, LiveIsLast, RunsFollow, ScheduledRuns
    <3>3. QED  BY <1>6, <3>1, <3>2 DEF RequestsNext
  <2>2. RequestTyped' /\ ReadsKept'
    BY <1>1, <1>3, <1>6, <2>1, TypedStep, ReadsStep
  <2>3. QED  BY <1>3, <1>4, <2>1, <2>2 DEF ServiceInv, RequestsInv
<1>7. QED  BY <1>5, <1>6

\* The invariant holds in every state of the service.
LEMMA ServiceSafe == RequestsSpec => []ServiceInv
  BY ServiceInit, ServiceStep, PTL DEF RequestsSpec

\* Seen from the store, these scrapes are callers like any others, also when
\* they finish a run twice, so what is proved of it holds here as well.
THEOREM RequestsUseStore == RequestsSpec => Spec
<1>1. RequestsInit => Init
  BY DEF RequestsInit
<1>2. ServiceInv => TypeOK /\ ClockAhead /\ LiveIsLast
  BY DEF ServiceInv, IInv, RequestsInv
<1>3. QED  BY <1>1, <1>2, ServiceSafe, WriterSteps, PTL DEF RequestsSpec, Spec

\* The tables, the clock, the requests and the processes stay well typed: the
\* table says of no process that is alive that its run has failed, and one of
\* them is the scheduler's at most.
THEOREM RequestsTyped == RequestsSpec => []RequestsTypeOK
<1>1. ServiceInv => RequestsTypeOK
  <2> SUFFICES ASSUME ServiceInv PROVE RequestsTypeOK
    OBVIOUS
  <2>1. TypeOK /\ ClockAhead /\ LiveIsLast /\ RunsFollow /\ RequestTyped
    BY DEF ServiceInv, IInv, RequestsInv
  <2>2. request.kind \in {"none", "operations", "listings"}
    BY <2>1 DEF RequestTyped, Idle, OperationsRequests, ListingsRequests
  <2>3. request # Idle => request.step \in 0..3 /\ request.time <= now
    BY <2>1 DEF RequestTyped, OperationsRequests, ListingsRequests
  <2>4. \A q, r \in live \cap ScheduledRuns : q = r
    <3>1. \A q \in ScheduledRuns : runs[q].started_at \in Nat
      BY <2>1, RunColumns DEF ScheduledRuns
    <3>2. QED  BY <2>1, <3>1 DEF LiveIsLast, RunsFollow
  <2>5. QED  BY <2>1, <2>2, <2>3, <2>4 DEF RequestsTypeOK, ClockAhead, LiveIsLast
<1>2. QED  BY <1>1, ServiceSafe, PTL

\* The two endpoints report the age of the same moment, unless the complete run
\* that started last is one started by hand.
THEOREM EndpointsAlwaysAgree == RequestsSpec => []EndpointsAgree
<1>1. ServiceInv => EndpointsAgree
  BY SameAge DEF ServiceInv, IInv, RequestsInv
<1>2. QED  BY <1>1, ServiceSafe, PTL

\* When no scheduled run has started within the time a run may take, and the
\* last complete one, which was read, is out of date, /health/operations answers 503 and the health
\* check fails, whatever was read before which commit.
THEOREM DeadServiceIsNoticed == RequestsSpec => []DeadServiceNoticed
<1>1. ServiceInv => DeadServiceNoticed
  <2> SUFFICES ASSUME ServiceInv, Answered, request.kind = "operations", CompleteStands,
                      NEW c \in ScheduledRuns, IsComplete(c),
                      \A r \in ScheduledRuns :
                        /\ Age(request.time, runs[r].started_at) > MaximumRun
                        /\ IsComplete(r) => Age(request.time, runs[r].finished_at) > Freshness
               PROVE  Unavailable(request.state)
    BY DEF DeadServiceNoticed
  <2>1. TypeOK /\ RunsFollow /\ RequestTyped /\ ReadsKept
    BY DEF ServiceInv, IInv, RequestsInv
  <2>2. request.step = 3 /\ request.time \in Nat /\ MaximumRun \in Nat /\ Freshness \in Nat
    BY <2>1, OperationsFields, RequestsAssumption DEF Answered
  <2>3. request.scheduled # None =>
          \E r \in ScheduledRuns : request.scheduled.started_at = runs[r].started_at
    BY <2>1, <2>2 DEF ReadsKept
  <2>4. PICK n \in 0..1 : request.state =
          OperationsState(request.scheduled, request.complete, n, request.time,
                          MaximumRun, Freshness)
    BY <2>1, <2>2 DEF ReadsKept
  <2>5. c \in CompleteRuns /\ runs[c].finished_at \in Nat /\ runs[c].finished_at < request.time
    <3>1. c \in CompleteRuns /\ runs[c].finished_at \in Nat
      BY <2>1, RunColumns DEF RunsFollow, IsComplete, CompleteRuns, ScheduledRuns
    <3>2. Age(request.time, runs[c].finished_at) > Freshness
      OBVIOUS
    <3>3. QED  BY <2>2, <3>1, <3>2 DEF Age
  <2>6. request.complete # None
    BY <2>1, <2>2, <2>5 DEF ReadsKept
  <2>7. Age(request.time, request.complete.finished_at) > Freshness
    <3>1. PICK r \in DOMAIN runs : runs[r] = request.complete
      BY <2>6 DEF CompleteStands
    <3>2. r \in ScheduledRuns /\ IsComplete(r)
      BY <2>1, <2>2, <2>6, <3>1 DEF ReadsKept, ScheduledRuns, IsComplete
    <3>3. QED  BY <3>1, <3>2
  <2>8. QED  BY <2>3, <2>4, <2>6, <2>7 DEF OperationsState, Unavailable
<1>2. QED  BY <1>1, ServiceSafe, PTL

-----------------------------------------------------------------------------
(* The state reported                                                      *)

\* Whole seconds: the later it was, the younger it is, and nothing is younger
\* than zero.
LEMMA AgeFalls ==
    ASSUME NEW t \in Nat, NEW a \in Nat, NEW b \in Nat, a <= b
    PROVE  /\ Age(t, a) \in Nat /\ Age(t, b) \in Nat
           /\ Age(t, b) <= Age(t, a)
<1>1. Second \in Nat \ {0}
  BY ViewsAssumption
<1>2. ASSUME NEW m \in Nat, NEW n \in Nat, m <= n
      PROVE  /\ m \div Second \in Nat /\ n \div Second \in Nat
             /\ m \div Second <= n \div Second
  BY <1>1, <1>2
<1>3. CASE t <= a
  BY <1>3 DEF Age
<1>4. CASE a < t /\ t <= b
  <2>1. t - a \in Nat
    BY <1>4
  <2>2. (t - a) \div Second \in Nat
    BY <1>2, <2>1
  <2>3. Age(t, a) = (t - a) \div Second /\ Age(t, b) = 0
    BY <1>4 DEF Age
  <2>4. QED  BY <2>2, <2>3
<1>5. CASE b < t
  <2>1. t - a \in Nat /\ t - b \in Nat /\ t - b <= t - a
    BY <1>5
  <2>2. Age(t, a) = (t - a) \div Second /\ Age(t, b) = (t - b) \div Second
    BY <1>5 DEF Age
  <2>3. QED  BY <1>2, <2>1, <2>2
<1>6. QED  BY <1>3, <1>4, <1>5

\* Some scheduled run has failed since the last complete one.
FailedSince ==
    \E z \in ScheduledRuns : IsFailure(z) /\ \A c \in CompleteRuns :
        runs[c].started_at < runs[z].started_at

\* The state that follows from the latest scheduled row, without a choice
\* among complete runs that finished at the same moment.
Verdict(scheduled, t) ==
    IF scheduled # None /\ scheduled.status = "running"
    THEN IF Age(t, scheduled.started_at) > MaximumRun THEN "stalled" ELSE "running"
    ELSE IF CompleteRuns = {} THEN IF scheduled = None THEN "starting" ELSE "degraded"
    ELSE IF \A c \in CompleteRuns : Age(t, runs[c].finished_at) > Freshness THEN "stale"
    ELSE IF FailedSince THEN "degraded" ELSE "healthy"

\* The third statement counts something when there is something to count.
CountIsTrue ==
    \A row : row # None =>
        (ConsecutiveFailures(row) > 0
            <=> \E y \in ScheduledRuns : IsFailure(y) /\ runs[y].started_at > row.started_at)

\* It does while the runs are finitely many.
LEMMA FailureCount == RunsFollow => CountIsTrue
<1> SUFFICES ASSUME RunsFollow, NEW row, row # None
             PROVE  ConsecutiveFailures(row) > 0
                      <=> \E y \in ScheduledRuns : IsFailure(y)
                                                   /\ runs[y].started_at > row.started_at
  BY DEF CountIsTrue
<1> DEFINE F == {r \in ScheduledRuns : IsFailure(r) /\ runs[r].started_at > row.started_at}
<1>1. ConsecutiveFailures(row) = Cardinality(F)
  BY DEF ConsecutiveFailures, IsFailure
<1>2. IsFiniteSet(F)
  BY FS_Subset DEF RunsFollow, ScheduledRuns
<1>3. Cardinality(F) \in Nat /\ (Cardinality(F) = 0 <=> F = {})
  BY <1>2, FS_CardinalityType, FS_EmptySet
<1>4. QED  BY <1>1, <1>3

\* Which of several complete runs that finished at the same moment is chosen
\* makes no difference to the failures counted after it.
LEMMA FailuresSince ==
    ASSUME TypeOK, RunsFollow, CompleteRuns # {}
    PROVE  ConsecutiveFailures(Row(LatestComplete)) > 0 <=> FailedSince
<1> DEFINE c == LatestComplete
<1>1. /\ c \in CompleteRuns
      /\ \A q \in CompleteRuns : runs[q].finished_at <= runs[c].finished_at
  BY LatestFacts DEF LatestRows
<1> HIDE DEF c
<1>2. \A r \in CompleteRuns : /\ r \in DOMAIN runs /\ r \in ScheduledRuns /\ IsComplete(r)
                              /\ runs[r].finished_at \in Nat /\ runs[r].finished_at # None
  BY RunColumns DEF CompleteRuns, RunsFollow, IsComplete, ScheduledRuns
<1>3. Row(c) = runs[c] /\ runs[c] # None
  BY <1>1, <1>2, RunColumns DEF Row
<1>4. ConsecutiveFailures(Row(c)) > 0
        <=> \E z \in ScheduledRuns : IsFailure(z) /\ runs[z].started_at > runs[c].started_at
  BY <1>3, FailureCount DEF CountIsTrue
<1>5. ASSUME NEW z \in ScheduledRuns, IsFailure(z), runs[z].started_at > runs[c].started_at,
             NEW q \in CompleteRuns
      PROVE  runs[q].started_at < runs[z].started_at
  <2>1. runs[z].finished_at \in Nat /\ runs[z].finished_at # None
        /\ runs[z].started_at <= runs[z].finished_at
    BY <1>5, RunColumns DEF IsFailure, RunsFollow, ScheduledRuns
  <2>2. q # z
    BY <1>2, <1>5 DEF IsFailure
  <2>3. runs[c].finished_at <= runs[z].started_at
    BY <1>1, <1>2, <1>5 DEF RunsFollow
  <2>4. runs[q].finished_at <= runs[c].finished_at /\ runs[q].started_at <= runs[q].finished_at
    BY <1>1, <1>2 DEF RunsFollow
  <2>5. runs[z].started_at < runs[q].started_at => runs[z].finished_at <= runs[q].started_at
    BY <1>2, <2>1 DEF RunsFollow
  <2>6. runs[z].started_at # runs[q].started_at
    BY <1>2, <2>2 DEF RunsFollow
  <2>7. /\ runs[z].started_at \in Nat /\ runs[q].started_at \in Nat
        /\ runs[c].finished_at \in Nat /\ runs[q].finished_at \in Nat
    BY <1>1, <1>2, RunColumns DEF ScheduledRuns
  <2>8. QED  BY <2>1, <2>3, <2>4, <2>5, <2>6, <2>7
<1>6. FailedSince =>
        \E z \in ScheduledRuns : IsFailure(z) /\ runs[z].started_at > runs[c].started_at
  BY <1>1, <1>2, RunColumns DEF FailedSince, ScheduledRuns
<1>7. QED  BY <1>4, <1>5, <1>6 DEF FailedSince, c

\* What operations_status says on the table as it is.
LEMMA StateIsVerdict ==
    TypeOK /\ RunsFollow /\ request.time \in Nat =>
        /\ \A s : s = Row(LatestScheduled) => StateNow = Verdict(s, request.time)
        /\ AnswerFromScheduled = Verdict(request.scheduled, request.time)
<1> SUFFICES ASSUME TypeOK, RunsFollow, request.time \in Nat, NEW s
             PROVE  OperationsState(s, Row(LatestComplete),
                                    ConsecutiveFailures(Row(LatestComplete)), request.time,
                                    MaximumRun, Freshness) = Verdict(s, request.time)
  BY DEF StateNow, AnswerFromScheduled
<1>1. CASE CompleteRuns = {}
  <2>1. Row(LatestComplete) = None
    BY <1>1, LatestFacts DEF LatestRows, Row
  <2>2. QED  BY <1>1, <2>1 DEF OperationsState, Verdict
<1>2. CASE CompleteRuns # {}
  <2> DEFINE c == LatestComplete
  <2>1. c \in CompleteRuns /\ \A q \in CompleteRuns : runs[q].finished_at <= runs[c].finished_at
    BY <1>2, LatestFacts DEF LatestRows
  <2>2. \A q \in CompleteRuns : q \in DOMAIN runs /\ runs[q].finished_at \in Nat
    BY RunColumns DEF CompleteRuns, ScheduledRuns, RunsFollow, IsComplete
  <2>3. Row(c) = runs[c] /\ runs[c] # None
    BY <2>1, <2>2, RunColumns DEF Row
  <2>4. Age(request.time, runs[c].finished_at) > Freshness
          <=> \A q \in CompleteRuns : Age(request.time, runs[q].finished_at) > Freshness
    <3>1. Freshness \in Nat
      BY RequestsAssumption
    <3> HIDE DEF c
    <3>2. ASSUME NEW q \in CompleteRuns
          PROVE  /\ Age(request.time, runs[q].finished_at) \in Nat
                 /\ Age(request.time, runs[c].finished_at) \in Nat
                 /\ Age(request.time, runs[c].finished_at) <= Age(request.time, runs[q].finished_at)
      BY <2>1, <2>2, AgeFalls
    <3>3. QED  BY <2>1, <3>1, <3>2
  <2>5. ConsecutiveFailures(Row(c)) > 0 <=> FailedSince
    BY <1>2, FailuresSince
  <2> HIDE DEF c
  <2>6. QED  BY <1>2, <2>3, <2>4, <2>5 DEF OperationsState, Verdict, c
<1>3. QED  BY <1>1, <1>2

\* A step that finishes no scheduled run leaves the rows of all.
RunsQuiet ==
    /\ \A r \in ScheduledRuns : r \in ScheduledRuns' /\ runs'[r] = runs[r]
    /\ \A r \in ScheduledRuns' : r \in ScheduledRuns \/ runs'[r].status = "running"

\* A step that finishes the one that is alive finishes the latest, and leaves
\* the others.
LiveFinished(z) ==
    /\ ScheduledRuns' = ScheduledRuns /\ z \in ScheduledRuns
    /\ \A r \in ScheduledRuns : r # z => runs'[r] = runs[r]
    /\ runs'[z].status # "running"
    /\ IsFailure(z) => IsFailure(z)'
    /\ IsComplete(z)' => runs[z].status = "running"
    /\ runs'[z].started_at = runs[z].started_at
    /\ \A r \in ScheduledRuns : runs[r].started_at <= runs[z].started_at

\* The writers do one or the other.
LEMMA WriterKinds ==
    ASSUME TypeOK, ClockAhead, LiveIsLast, Write \/ Tick
    PROVE  RunsQuiet \/ \E z \in ScheduledRuns : LiveFinished(z)
<1>1. ASSUME NEW r \in RunIds, RowStarted(r)
      PROVE  RunsQuiet
  BY <1>1 DEF RowStarted, RunsQuiet, ScheduledRuns
<1>2. ASSUME NEW r \in RunIds, RowFinished(r), r \in ScheduledRuns
      PROVE  LiveFinished(r)
  <2>1. ScheduledRuns' = ScheduledRuns /\ ScheduledRuns \subseteq DOMAIN runs
    BY <1>2 DEF RowFinished, ScheduledRuns
  <2>2. \A q \in ScheduledRuns : runs[q].started_at <= runs[r].started_at
    BY <1>2 DEF RowFinished, LiveIsLast
  <2>3. (IsFailure(r) => IsFailure(r)') /\ (IsComplete(r)' => runs[r].status = "running")
    BY <1>2 DEF RowFinished, IsFailure, IsComplete
  <2>4. QED  BY <1>2, <2>1, <2>2, <2>3 DEF RowFinished, LiveFinished
<1>3. ASSUME NEW r \in RunIds, RowFinished(r), r \notin ScheduledRuns
      PROVE  RunsQuiet
  BY <1>3 DEF RowFinished, RunsQuiet, ScheduledRuns
<1>4. RunsSame => RunsQuiet
  BY DEF RunsSame, RunsQuiet, ScheduledRuns
<1>5. QED  BY <1>1, <1>2, <1>3, <1>4, WriterCases

\* What was read as a complete run is none that has become one since, so it
\* stood before if it stands now.
LEMMA StoodBefore ==
    ASSUME TypeOK, ClockAhead, LiveIsLast, RunsFollow, ReadsKept, Write \/ Tick,
           request.kind = "operations", request.step >= 2, request.complete # None,
           NEW r \in DOMAIN runs', runs'[r] = request.complete
    PROVE  r \in CompleteRuns /\ runs[r] = request.complete
<1>1. /\ RunsGrow
      /\ request.complete.mode = "scheduled" /\ request.complete.status = "succeeded"
      /\ request.complete.completion_status = "complete"
  BY WriterGrows DEF ReadsKept
<1>2. PICK q \in ScheduledRuns : request.complete.started_at = runs[q].started_at
                                /\ runs[q].status # "running"
  BY DEF ReadsKept
<1>3. IsComplete(r)'
  BY <1>1 DEF IsComplete
<1>4. r \in DOMAIN runs /\ r \in ScheduledRuns
  BY <1>1, <1>3 DEF RunsGrow, ScheduledRuns
<1>5. q = r
  BY <1>1, <1>2, <1>4 DEF RunsGrow, RunsFollow
<1>6. runs'[r] = runs[r]
  BY <1>1, <1>2, <1>3, <1>5 DEF RunsGrow
<1>7. QED  BY <1>1, <1>4, <1>6 DEF CompleteRuns, IsComplete

\* A quiet step does not change what the statements that are left would say.
LEMMA QuietAnswer ==
    ASSUME TypeOK, TypeOK', RunsFollow, RunsFollow', RunsQuiet, request' = request,
           request.time \in Nat
    PROVE  /\ AnswerFromScheduled' = AnswerFromScheduled
           /\ AnswerFromComplete' = AnswerFromComplete
<1>1. \A r \in ScheduledRuns : (IsComplete(r)' <=> IsComplete(r))
                               /\ (IsFailure(r)' <=> IsFailure(r))
  BY DEF RunsQuiet, IsComplete, IsFailure
<1>2. \A r \in ScheduledRuns' : IsComplete(r)' \/ IsFailure(r)' => r \in ScheduledRuns
  BY DEF RunsQuiet, IsComplete, IsFailure
<1>3. CompleteRuns' = CompleteRuns
  BY <1>1, <1>2 DEF RunsQuiet, CompleteRuns
<1>4. \A c \in CompleteRuns : c \in ScheduledRuns /\ runs'[c] = runs[c]
  BY DEF RunsQuiet, CompleteRuns
<1>5. FailedSince' <=> FailedSince
  BY <1>1, <1>2, <1>3, <1>4 DEF RunsQuiet, FailedSince
<1>6. Verdict(request.scheduled, request.time)' = Verdict(request.scheduled, request.time)
  BY <1>3, <1>4, <1>5 DEF Verdict
<1>7. AnswerFromScheduled = Verdict(request.scheduled, request.time)
  BY StateIsVerdict
<1>8. AnswerFromScheduled' = Verdict(request.scheduled, request.time)'
  <2>1. (request.time \in Nat)'
    OBVIOUS
  <2>2. (AnswerFromScheduled = Verdict(request.scheduled, request.time))'
    BY <2>1, StateIsVerdict, PTL
  <2>3. QED  BY <2>2
<1>9. ConsecutiveFailures(request.complete)' = ConsecutiveFailures(request.complete)
  <2>1. {r \in ScheduledRuns' : IsFailure(r)' /\ (request.complete # None =>
                                    runs'[r].started_at > request.complete.started_at)}
        = {r \in ScheduledRuns : IsFailure(r) /\ (request.complete # None =>
                                    runs[r].started_at > request.complete.started_at)}
    BY <1>1, <1>2 DEF RunsQuiet
  <2>2. QED  BY <2>1 DEF ConsecutiveFailures, IsFailure
<1>10. QED  BY <1>6, <1>7, <1>8, <1>9 DEF AnswerFromComplete

\* When a scheduled run is finished, what those statements would say stays the
\* same or becomes the truth of this moment, or that of an empty table.
LEMMA FinishAnswer ==
    ASSUME TypeOK, TypeOK', RunsFollow, RunsFollow', request' = request,
           request \in OperationsRequests, request.time \in Nat,
           NEW z \in ScheduledRuns, LiveFinished(z)
    PROVE  /\ \/ AnswerFromScheduled' \in {AnswerFromScheduled, StateNow'}
              \/ request.scheduled = None /\ AnswerFromScheduled' = "starting"
           /\ (\E k \in CompleteRuns : k \in DOMAIN runs' /\ runs'[k] = runs[k]
                                      /\ runs[k] = request.complete)
                \/ request.complete = None
              => AnswerFromComplete' \in {AnswerFromComplete, StateNow'}
<1>1. LatestScheduled' = z
  <2>1. LatestRows'
    BY LatestFacts, PTL
  <2>2. LatestScheduled' \in ScheduledRuns'
        /\ \A q \in ScheduledRuns' : runs'[q].started_at <= runs'[LatestScheduled'].started_at
    BY <2>1 DEF LatestRows, LiveFinished
  <2>3. \A r \in ScheduledRuns : runs'[r].started_at = runs[r].started_at
                                /\ runs[r].started_at \in Nat
    BY RunColumns DEF LiveFinished, ScheduledRuns
  <2>4. runs[LatestScheduled'].started_at = runs[z].started_at
    BY <2>2, <2>3 DEF LiveFinished
  <2>5. QED  BY <2>2, <2>4 DEF RunsFollow, LiveFinished
<1>2. PICK row : row = Row(LatestScheduled)'
  OBVIOUS
<1>3. row = runs'[z] /\ row # None /\ row.status # "running"
  <2>1. z # None /\ runs'[z] # None
    <3>1. (\A r \in DOMAIN runs : /\ runs[r] \in RunRows /\ runs[r] # None /\ r # None
                                  /\ runs[r].started_at \in Nat
                                  /\ runs[r].finished_at \in Nat \cup {None})'
      BY RunColumns, PTL
    <3>2. z \in DOMAIN runs'
      BY DEF LiveFinished, ScheduledRuns
    <3>3. QED  BY <3>1, <3>2
  <2>2. QED  BY <1>1, <1>2, <2>1 DEF Row, LiveFinished
<1>4. /\ StateNow' = Verdict(row, request.time)'
      /\ AnswerFromScheduled' = Verdict(request.scheduled, request.time)'
  <2>1. (request.time \in Nat)'
    OBVIOUS
  <2>2. (/\ \A s : s = Row(LatestScheduled) => StateNow = Verdict(s, request.time)
         /\ AnswerFromScheduled = Verdict(request.scheduled, request.time))'
    BY <2>1, StateIsVerdict, PTL
  <2>3. QED  BY <1>2, <2>2
<1>5. AnswerFromScheduled = Verdict(request.scheduled, request.time)
  BY StateIsVerdict
<1>6. \/ AnswerFromScheduled' \in {AnswerFromScheduled, StateNow'}
      \/ request.scheduled = None /\ AnswerFromScheduled' = "starting"
  <2>1. CASE request.scheduled # None /\ request.scheduled.status = "running"
    BY <1>4, <1>5, <2>1 DEF Verdict
  <2>2. CASE ~(request.scheduled # None /\ request.scheduled.status = "running")
    BY <1>3, <1>4, <2>2 DEF Verdict
  <2>3. QED  BY <2>1, <2>2
<1>7. CASE request.complete = None
  BY <1>6, <1>7 DEF AnswerFromComplete, OperationsState
<1>8. ASSUME NEW k \in CompleteRuns, k \in DOMAIN runs', runs'[k] = runs[k],
             runs[k] = request.complete
      PROVE  AnswerFromComplete' \in {AnswerFromComplete, StateNow'}
  <2>1. PICK c : c = request.complete
    OBVIOUS
  <2> DEFINE F == ConsecutiveFailures(c) > 0
             fresh == c # None /\ ~(Age(request.time, c.finished_at) > Freshness)
                      /\ ~(request.scheduled # None /\ request.scheduled.status = "running")
  <2>2. ~fresh \/ (F <=> F') => AnswerFromComplete' = AnswerFromComplete
    BY <2>1 DEF AnswerFromComplete, OperationsState
  <2>3. CASE fresh /\ ~(F <=> F')
    <3>1. k \in ScheduledRuns /\ IsComplete(k) /\ IsComplete(k)' /\ k \in CompleteRuns'
      BY <1>8 DEF CompleteRuns, LiveFinished, IsComplete
    <3>2. c = runs'[k]
      BY <1>8, <2>1
    <3>3. F <=> \E y \in ScheduledRuns : IsFailure(y) /\ runs[y].started_at > c.started_at
      BY <2>3, FailureCount DEF CountIsTrue
    <3>4. F' <=> \E y \in ScheduledRuns' : IsFailure(y)' /\ runs'[y].started_at > c.started_at
      <4>1. CountIsTrue'
        BY FailureCount, PTL
      <4>2. QED  BY <2>3, <4>1 DEF CountIsTrue
    <3> HIDE DEF F
    <3>5. \A y \in ScheduledRuns : y # z => (IsFailure(y)' <=> IsFailure(y))
      BY DEF LiveFinished, IsFailure, IsComplete
    <3>6. F' /\ ~F /\ IsFailure(z)'
      BY <2>3, <3>3, <3>4, <3>5 DEF LiveFinished
    <3>7. FailedSince'
      <4>1. ASSUME NEW q \in CompleteRuns'
            PROVE  runs'[q].started_at < runs'[z].started_at
        <5>1. q \in ScheduledRuns /\ q # z
          BY <3>6, <4>1 DEF CompleteRuns, IsFailure, LiveFinished
        <5>2. /\ runs[q].started_at <= runs[z].started_at
              /\ runs[q].started_at # runs[z].started_at
              /\ runs[q].started_at \in Nat /\ runs[z].started_at \in Nat
          BY <5>1, RunColumns DEF LiveFinished, RunsFollow, ScheduledRuns
        <5>3. QED  BY <5>1, <5>2 DEF LiveFinished
      <4>2. QED  BY <3>6, <4>1 DEF FailedSince, LiveFinished
    <3>8. Verdict(row, request.time)' = "degraded"
      BY <1>3, <2>3, <3>1, <3>2, <3>7 DEF Verdict
    <3>9. AnswerFromComplete' = "degraded"
      BY <2>1, <2>3, <3>6 DEF AnswerFromComplete, OperationsState, F
    <3>10. QED  BY <1>4, <3>8, <3>9
  <2>4. QED  BY <2>2, <2>3
<1>9. QED  BY <1>6, <1>7, <1>8

\* The statements read nothing but the runs.
LEMMA SameRuns ==
    ASSUME runs' = runs
    PROVE  /\ Row(LatestScheduled)' = Row(LatestScheduled)
           /\ Row(LatestComplete)' = Row(LatestComplete)
           /\ \A row : ConsecutiveFailures(row)' = ConsecutiveFailures(row)
  BY DEF Row, LatestScheduled, LatestComplete, Latest, ScheduledRuns, ConsecutiveFailures,
         IsComplete

\* Every step keeps the truth of the answer: the reads of the request turn one
\* form of it into the next, and commits between them move it only to a truth.
LEMMA AnswerStep ==
    ServiceInv /\ ServiceInv' /\ AnswerTrue /\ [RequestsNext]_allVars => AnswerTrue'
<1> SUFFICES ASSUME ServiceInv, ServiceInv', AnswerTrue, [RequestsNext]_allVars,
                    request'.kind = "operations"
             PROVE  /\ StateNow' \in truths'
                    /\ request'.step >= 1 /\ request'.scheduled = None =>
                        "starting" \in truths'
                    /\ request'.step = 1 => AnswerFromScheduled' \in truths'
                    /\ request'.step = 2 /\ CompleteStands' => AnswerFromComplete' \in truths'
                    /\ request'.step = 3 /\ CompleteStands' => request'.state \in truths'
  BY DEF AnswerTrue
<1>1. /\ TypeOK /\ RunsFollow /\ ClockAhead /\ LiveIsLast /\ RequestTyped /\ ReadsKept
      /\ TypeOK' /\ RunsFollow'
  BY DEF ServiceInv, IInv, RequestsInv
<1>2. CASE UNCHANGED allVars
  <2>1. StateNow' = StateNow /\ AnswerFromScheduled' = AnswerFromScheduled
        /\ AnswerFromComplete' = AnswerFromComplete /\ CompleteStands' = CompleteStands
    BY <1>2, SameRuns DEF allVars, StateNow, AnswerFromScheduled, AnswerFromComplete,
                          CompleteStands
  <2>2. QED  BY <1>2, <2>1 DEF allVars, AnswerTrue
<1>3. CASE RequestsNext
  <2>1. StateNow' \in truths'
    BY <1>3 DEF RequestsNext, Witness
  <2>2. request.kind = "operations" => truths \subseteq truths'
    BY <1>3 DEF RequestsNext, Witness
  <2>3. CASE AskOperations
    BY <2>1, <2>3 DEF AskOperations
  <2>4. CASE Respond \/ ListingsStep
             \/ \E f \in Filters, view \in ListingViews, page \in Pages :
                  AskListings(f, view, page)
    <3>1. ListingsStep => request \in ListingsRequests
      BY <1>1 DEF ListingsStep, RequestTyped, OperationsRequests, Idle
    <3>2. ListingsStep => request'.kind = "listings"
      BY <3>1 DEF ListingsStep, ListingsRequests
    <3>3. request'.kind # "operations"
      BY <2>4, <3>2 DEF Respond, AskListings, Idle
    <3>4. QED  BY <3>3
  <2>5. CASE OperationsStep
    <3>1. /\ request.kind = "operations" /\ request \in OperationsRequests /\ runs' = runs
      BY <1>1, <2>5, OperationsFields DEF OperationsStep, tables
    <3>2. CASE request.step = 0 /\ ReadRuns
      <4>1. request' = [request EXCEPT !.step = 1, !.scheduled = Row(LatestScheduled)]
        BY <3>2 DEF ReadRuns
      <4>2. request'.step = 1 /\ request'.scheduled = Row(LatestScheduled)
        BY <3>1, <4>1 DEF OperationsRequests
      <4>3. AnswerFromScheduled' = StateNow'
        BY <3>1, <4>2, SameRuns DEF AnswerFromScheduled, StateNow
      <4>4. request'.scheduled = None => StateNow' = "starting"
        <5>1. LatestRows
          BY <1>1, LatestFacts
        <5>2. ASSUME Row(LatestScheduled) = None
              PROVE  Row(LatestComplete) = None
          <6>1. ScheduledRuns = {}
            BY <1>1, <5>1, <5>2, RunColumns DEF LatestRows, Row, ScheduledRuns
          <6>2. CompleteRuns = {}
            BY <6>1 DEF CompleteRuns
          <6>3. QED  BY <5>1, <6>2 DEF LatestRows, Row
        <5>3. QED  BY <3>1, <4>2, <5>2, SameRuns DEF StateNow, OperationsState
      <4>5. QED  BY <2>1, <4>2, <4>3, <4>4
    <3>3. CASE request.step = 1 /\ ReadRuns
      <4>1. request' = [request EXCEPT !.step = 2, !.complete = Row(LatestComplete)]
        BY <3>3 DEF ReadRuns
      <4>2. /\ request'.step = 2 /\ request'.complete = Row(LatestComplete)
            /\ request'.scheduled = request.scheduled /\ request'.time = request.time
        BY <3>1, <4>1 DEF OperationsRequests
      <4>3. PICK row : row = Row(LatestComplete)
        OBVIOUS
      <4>4. ConsecutiveFailures(row)' = ConsecutiveFailures(row)
        BY <3>1, SameRuns
      <4>5. AnswerFromComplete' = AnswerFromScheduled
        BY <4>2, <4>3, <4>4 DEF AnswerFromComplete, AnswerFromScheduled
      <4>6. QED  BY <2>1, <2>2, <3>1, <3>3, <4>2, <4>5 DEF AnswerTrue
    <3>4. CASE CountFailures
      <4>1. request' = [request EXCEPT !.step = 3, !.state = AnswerFromComplete]
        BY <3>4 DEF CountFailures, AnswerFromComplete
      <4>2. /\ request'.step = 3 /\ request'.state = AnswerFromComplete
            /\ request'.complete = request.complete /\ request'.scheduled = request.scheduled
        BY <3>1, <4>1 DEF OperationsRequests
      <4>3. CompleteStands' => CompleteStands
        BY <3>1, <4>2 DEF CompleteStands
      <4>4. QED  BY <2>1, <2>2, <3>1, <3>4, <4>2, <4>3 DEF AnswerTrue, CountFailures
    <3>5. QED  BY <2>5, <3>2, <3>3, <3>4 DEF OperationsStep, ReadRuns
  <2>6. CASE Write \/ Tick
    <3>1. request' = request
      BY <1>1, <2>6, WriterGrows
    <3>2. request.kind = "operations" /\ request \in OperationsRequests /\ request.time \in Nat
      BY <1>1, <3>1, OperationsFields
    <3>3. ASSUME request.step >= 2, CompleteStands', request.complete # None
          PROVE  \E k \in CompleteRuns : /\ k \in DOMAIN runs' /\ runs'[k] = runs[k]
                                         /\ runs[k] = request.complete
      <4>1. PICK k \in DOMAIN runs' : runs'[k] = request.complete
        BY <3>1, <3>3 DEF CompleteStands
      <4>2. k \in CompleteRuns /\ runs[k] = request.complete
        BY <1>1, <2>6, <3>2, <3>3, <4>1, StoodBefore
      <4>3. QED  BY <4>1, <4>2
    <3>4. request.step >= 2 /\ CompleteStands' => CompleteStands
      BY <3>3 DEF CompleteStands, CompleteRuns, ScheduledRuns
    <3>5. CASE RunsQuiet
      <4>1. /\ AnswerFromScheduled' = AnswerFromScheduled
            /\ AnswerFromComplete' = AnswerFromComplete
        BY <1>1, <3>1, <3>2, <3>5, QuietAnswer
      <4>2. QED  BY <2>1, <2>2, <3>1, <3>2, <3>4, <4>1 DEF AnswerTrue
    <3>6. ASSUME NEW z \in ScheduledRuns, LiveFinished(z)
          PROVE  /\ request'.step = 1 => AnswerFromScheduled' \in truths'
                 /\ request'.step = 2 /\ CompleteStands' => AnswerFromComplete' \in truths'
      <4>1. /\ \/ AnswerFromScheduled' \in {AnswerFromScheduled, StateNow'}
               \/ request.scheduled = None /\ AnswerFromScheduled' = "starting"
            /\ (\E k \in CompleteRuns : k \in DOMAIN runs' /\ runs'[k] = runs[k]
                                       /\ runs[k] = request.complete)
                 \/ request.complete = None
               => AnswerFromComplete' \in {AnswerFromComplete, StateNow'}
        BY <1>1, <3>1, <3>2, <3>6, FinishAnswer
      <4>2. ASSUME request'.step = 1
            PROVE  AnswerFromScheduled' \in truths'
        BY <2>1, <2>2, <3>1, <3>2, <4>1, <4>2 DEF AnswerTrue
      <4>3. ASSUME request'.step = 2, CompleteStands'
            PROVE  AnswerFromComplete' \in truths'
        BY <2>1, <2>2, <3>1, <3>2, <3>3, <3>4, <4>1, <4>3 DEF AnswerTrue
      <4>4. QED  BY <4>2, <4>3
    <3>7. /\ request'.step >= 1 /\ request'.scheduled = None => "starting" \in truths'
          /\ request'.step = 3 /\ CompleteStands' => request'.state \in truths'
      BY <2>2, <3>1, <3>2, <3>4 DEF AnswerTrue
    <3>8. QED  BY <1>1, <2>1, <2>6, <3>5, <3>6, <3>7, WriterKinds
  <2>7. QED  BY <1>3, <2>3, <2>4, <2>5, <2>6 DEF RequestsNext, Handle
<1>4. QED  BY <1>2, <1>3

\* The state /health/operations reports held at some moment while the request
\* was handled, whatever committed between its three statements, provided the
\* complete run it read was not finished again before the answer.
THEOREM StatusesWereTrue == RequestsSpec => []StatusWasTrue
<1>1. RequestsInit => AnswerTrue
  BY DEF RequestsInit, AnswerTrue, Idle
<1>2. ServiceInv /\ AnswerTrue => StatusWasTrue
  BY DEF AnswerTrue, StatusWasTrue, Answered
<1>3. QED  BY <1>1, <1>2, ServiceSafe, AnswerStep, PTL DEF RequestsSpec

=============================================================================
