-------------------------- MODULE ScrapeRunProofs --------------------------
(***************************************************************************)
(* What scrape processes guarantee for any number of processes, auctions,  *)
(* product groups and changes of the source, wherever they are interrupted *)
(* or killed: they use the store as AuctionRepository allows, and the run  *)
(* they leave, its counts, the absences it causes and the exit code agree. *)
(***************************************************************************)
EXTENDS ScrapeRun, FiniteSetTheorems, TLAPS

-----------------------------------------------------------------------------
(* The inductive invariant                                                 *)

\* The points of main() before finish_scrape_run has committed.
Scraping == {"starting", "search", "pages", "details", "persist", "finish"}

\* Everything but the tables is well typed, and a batch is finite.
LocalTypes ==
    /\ proc \in [Processes -> ProcessStates]
    /\ \A p \in Processes : IsFiniteSet(proc[p].records)
    /\ listed \in [SourceIds -> SUBSET (1..Groups)]
    /\ steady \in [Processes -> SUBSET (SourceIds \X (1..Groups))]
    /\ now \in 1..MaxTime
    /\ relists \in 0..MaxRelists

\* The row of a run that start_scrape_run wrote and nobody finished.
Unfinished(row) ==
    row.status = "running" /\ row.completion_status = "pending" /\ row.counts = None

\* The row of a run that was finished with what x holds.
FinishedWith(row, x) ==
    /\ x.coverage # None /\ row.completion_status = Repo!CompletionStatus(x.coverage)
    /\ x.counts # None /\ row.counts = x.counts

\* What a process knows of its run is what is stored, but for a commit that an
\* interrupt kept it from noting.
RunTracked(x, stored, row) ==
    /\ x.pc = "idle" <=> ~stored
    /\ x.pc = "idle" => x = Fresh
    /\ x.pc = "starting" => x.processed = 0 /\ x.found = {} /\ ~x.truncated
    /\ x.pc \in Scraping => Unfinished(row) /\ ~x.run_finished /\ ~x.interrupted
    /\ x.pc \in Scraping \ {"finish"} => x.counts = None
    /\ x.pc \in (Scraping \ {"starting"}) \cup {"committed", "output"} => x.run_known
    /\ x.pc \in {"committed", "output"} =>
        /\ FinishedWith(row, x)
        /\ row.status = IF x.failures + x.save_failures > 0 THEN "partial" ELSE "succeeded"
    /\ x.pc = "handler" =>
        \/ Unfinished(row) /\ ~x.run_finished
        \/ FinishedWith(row, x) /\ x.run_known
    /\ x.pc = "handler" /\ ~x.interrupted => x.counts # None
    /\ x.pc # "done" => x.exit = None

\* The exit code of one process.
ExitMatches(x, row) ==
    /\ x.exit = 0 => row.status = "succeeded"
    /\ x.exit = 2 => row.status = "partial"
    /\ x.exit = 1 => \/ row.status \in {"running", "failed"}
                     \/ x.run_finished
                     \/ x.unreported

\* The observations stored under a run id.
StoredUnder(p) == {o \in observations : o.run_id = p}

Alive(x) == x.pc \notin {"idle", "done", "killed"}

\* A process that is alive has counted what it stored, and the run it finished
\* by itself says so.
Counted(p, x) ==
    /\ IsFiniteSet(StoredUnder(p))
    /\ p \notin DOMAIN runs => StoredUnder(p) = {}
    /\ Alive(x) =>
        /\ x.observed = Cardinality(StoredUnder(p))
        /\ x.counts # None => x.counts.observations_created = x.observed
    /\ p \in DOMAIN runs /\ runs[p].counts # None
        /\ (runs[p].status = "failed" => ~x.interrupted)
        => runs[p].counts.observations_created = Cardinality(StoredUnder(p))

\* What counts as listed without a break since a process started is still listed,
\* and unless the limit cut its search, or a detail page failed, the process has it
\* among what it found in the groups it has searched, and then in its batch.
Covered(p, x) ==
    /\ Alive(x) => \A s \in SourceIds, g \in 1..Groups :
        <<s, g>> \in steady[p] => g \in listed[s]
    /\ x.pc \in Scraping /\ ~x.truncated =>
        \A s \in Matches[p], g \in 1..x.processed : <<s, g>> \in steady[p] => s \in x.found
    /\ x.pc = "search" /\ x.truncated => Cardinality(x.found) >= Limit[p]
    /\ x.pc = "details" /\ x.failures = 0 =>
        x.found \subseteq SourceIdsOf(x.records) \cup x.pending
    /\ x.pc \in {"persist", "finish"} /\ x.failures = 0 =>
        x.found \subseteq SourceIdsOf(x.records)
    /\ x.pc = "finish" =>
        /\ x.coverage = ScrapeRunCoverage(x, x.persisted, x.save_failures)
        /\ x.coverage # None
        /\ x.counts # None

\* All that holds of process p while its variables are x.
ProcessInv(p, x) ==
    /\ RunTracked(x, p \in DOMAIN runs, runs[p])
    /\ ExitMatches(x, runs[p])
    /\ Counted(p, x)
    /\ Covered(p, x)

\* Between the pages of a group: the limit is not reached, and what counts as
\* listed without a break in this group is among what its pages show.
PagesInv ==
    /\ shown \in [Processes -> SUBSET SourceIds]
    /\ \A p \in Processes : proc[p].pc = "pages" =>
        /\ proc[p].processed < Groups /\ ~proc[p].truncated
        /\ \A s \in Matches[p] : <<s, proc[p].processed + 1>> \in steady[p] => s \in shown[p]

\* Every absence has its complete run, and there are finitely many runs.
Backed ==
    /\ IsFiniteSet(DOMAIN runs) /\ DOMAIN runs \subseteq Processes
    /\ runs \in [DOMAIN runs -> Repo!RunRows]
    /\ \A s \in DOMAIN inventory : inventory[s].complete_absence_count \in Nat
    /\ AbsencesBackedByCoverage

\* With PagesInv, the inductive invariant.
ScrapeInv ==
    /\ LocalTypes
    /\ \A p \in Processes : ProcessInv(p, proc[p])
    /\ Backed

-----------------------------------------------------------------------------
(* Steps that only move the variables of a process                         *)

\* The records _scrape_run_counts and _scrape_run_coverage build are well typed.
LEMMA ReportTypes ==
    ASSUME NEW x \in ProcessStates, IsFiniteSet(x.records)
    PROVE  /\ ScrapeRunCounts(x) \in CountRecords
           /\ \A m, n \in Nat : ScrapeRunCoverage(x, m, n) \in CoverageRecords
           /\ FailedCounts(x) \in CountRecords
           /\ NoCoverage \in CoverageRecords
           /\ Cardinality(x.found) \in Nat
<1>1. IsFiniteSet(x.found)
  BY FS_Subset, ScrapeRunAssumption DEF ProcessStates
<1>2. Cardinality(x.found) \in Nat /\ Cardinality(x.records) \in Nat
  BY <1>1, FS_CardinalityType
<1>3. /\ x.failures \in Nat /\ x.save_failures \in Nat /\ x.created \in Nat
      /\ x.updated \in Nat /\ x.observed \in Nat /\ x.processed \in Nat
      /\ x.truncated \in BOOLEAN
  BY DEF ProcessStates
<1>4. ScrapeRunCounts(x) \in CountRecords /\ FailedCounts(x) \in CountRecords
  BY <1>2, <1>3 DEF ScrapeRunCounts, FailedCounts, CountRecords
<1>5. \A m, n \in Nat : ScrapeRunCoverage(x, m, n) \in CoverageRecords
  BY <1>2, <1>3, ScrapeRunAssumption DEF ScrapeRunCoverage, CoverageRecords
<1>6. NoCoverage \in CoverageRecords
  BY DEF NoCoverage, CoverageRecords
<1>7. QED  BY <1>2, <1>4, <1>5, <1>6

\* The step moves the variables of p only, and to values that satisfy all that
\* holds of a process.
Moves(p) ==
    \E y \in ProcessStates :
        proc' = [proc EXCEPT ![p] = y] /\ IsFiniteSet(y.records) /\ ProcessInv(p, y)

\* The first page of a group.
LEMMA BeginGroupMoves ==
    ASSUME NEW p \in Processes, LocalTypes, ProcessInv(p, proc[p]), BeginGroup(p)
    PROVE  Moves(p)
<1> DEFINE x == proc[p]
           y == [x EXCEPT !.pc = "pages"]
<1>1. x \in ProcessStates /\ IsFiniteSet(x.records) /\ x.pc = "search"
  BY DEF LocalTypes, BeginGroup
<1>2. proc' = [proc EXCEPT ![p] = y]
  BY <1>1 DEF LocalTypes, BeginGroup
<1>3. y \in ProcessStates
  BY <1>1 DEF ProcessStates, PCs
<1>4. /\ y.found = x.found /\ y.processed = x.processed /\ y.truncated = x.truncated
      /\ y.pc = "pages" /\ y.run_known = x.run_known /\ y.run_finished = x.run_finished
      /\ y.interrupted = x.interrupted /\ y.unreported = x.unreported /\ y.exit = x.exit
      /\ y.records = x.records /\ y.observed = x.observed /\ y.counts = x.counts
  BY <1>1 DEF ProcessStates
<1> HIDE DEF y
<1>5. RunTracked(y, p \in DOMAIN runs, runs[p])
  BY <1>1, <1>4 DEF ProcessInv, RunTracked, Scraping
<1>6. ExitMatches(y, runs[p]) /\ Counted(p, y)
  BY <1>1, <1>4 DEF ProcessInv, ExitMatches, Counted, Alive
<1>7. Covered(p, y)
  BY <1>1, <1>4 DEF ProcessInv, Covered, Alive, Scraping
<1>8. QED  BY <1>1, <1>2, <1>3, <1>4, <1>5, <1>6, <1>7 DEF ProcessInv, Moves

\* The search of a group either takes all that its pages show or reaches the
\* limit.
LEMMA EndGroupMoves ==
    ASSUME NEW p \in Processes, LocalTypes, PagesInv, ProcessInv(p, proc[p]), EndGroup(p)
    PROVE  Moves(p)
<1> DEFINE x == proc[p]
           group == shown[p]
<1>1. /\ x \in ProcessStates /\ IsFiniteSet(x.records) /\ x.pc = "pages"
      /\ x.processed < Groups /\ ~x.truncated
      /\ \A s \in Matches[p] : <<s, x.processed + 1>> \in steady[p] => s \in group
      /\ group \subseteq SourceIds
  BY DEF LocalTypes, PagesInv, EndGroup
<1>2. PICK part \in SUBSET group :
        LET found == x.found \cup part
            reached == Cardinality(found) >= Limit[p]
        IN  /\ IF Cardinality(x.found \cup group) >= Limit[p]
               THEN Cardinality(found) = Limit[p]
               ELSE part = group
            /\ proc' = [proc EXCEPT ![p].pc = "search", ![p].found = found,
                                    ![p].processed = x.processed + 1,
                                    ![p].truncated = reached]
  BY DEF EndGroup
<1> DEFINE found == x.found \cup part
           reached == Cardinality(found) >= Limit[p]
           y == [x EXCEPT !.pc = "search", !.found = found, !.processed = x.processed + 1,
                          !.truncated = reached]
<1>3. found \in SUBSET SourceIds /\ x.processed \in Nat /\ x.processed + 1 \in 0..Groups
  BY <1>1, ScrapeRunAssumption DEF ProcessStates
<1>4. ~reached => part = group
  BY <1>2, ScrapeRunAssumption
<1>5. reached \in BOOLEAN
  OBVIOUS
<1>6. proc' = [proc EXCEPT ![p] = y]
  BY <1>1, <1>2 DEF LocalTypes
<1>7. reached => Cardinality(found) >= Limit[p]
  OBVIOUS
<1> HIDE DEF found, reached, group
<1>8. y \in ProcessStates
  BY <1>1, <1>3, <1>5 DEF ProcessStates, PCs
<1>9. /\ y.found = found /\ y.processed = x.processed + 1 /\ y.truncated = reached
      /\ y.pc = "search" /\ y.run_known = x.run_known /\ y.run_finished = x.run_finished
      /\ y.interrupted = x.interrupted /\ y.unreported = x.unreported /\ y.exit = x.exit
      /\ y.records = x.records /\ y.observed = x.observed /\ y.counts = x.counts
  BY <1>1 DEF ProcessStates
<1> HIDE DEF y
<1>10. RunTracked(y, p \in DOMAIN runs, runs[p])
  BY <1>1, <1>9 DEF ProcessInv, RunTracked, Scraping
<1>11. ExitMatches(y, runs[p]) /\ Counted(p, y)
  BY <1>1, <1>9 DEF ProcessInv, ExitMatches, Counted, Alive
<1>12. ~y.truncated => \A s \in Matches[p], g \in 1..y.processed :
                            <<s, g>> \in steady[p] => s \in y.found
  <2> SUFFICES ASSUME ~reached, NEW s \in Matches[p], NEW g \in 1..(x.processed + 1),
                      <<s, g>> \in steady[p]
               PROVE  s \in found
    BY <1>9
  <2>1. CASE g \in 1..x.processed
    BY <1>1, <2>1 DEF ProcessInv, Covered, Scraping, found
  <2>2. CASE g = x.processed + 1
    BY <1>1, <1>4, <2>2 DEF found
  <2>3. QED  BY <1>3, <2>1, <2>2
<1>13. Covered(p, y)
  BY <1>1, <1>7, <1>9, <1>12 DEF ProcessInv, Covered, Alive, Scraping
<1>14. QED  BY <1>1, <1>6, <1>8, <1>9, <1>10, <1>11, <1>13 DEF ProcessInv, Moves

\* Noting the run id, and leaving the loop over the groups.
LEMMA SearchBoundsMove ==
    ASSUME NEW p \in Processes, LocalTypes, ProcessInv(p, proc[p]),
           AssignRunId(p) \/ EndSearch(p)
    PROVE  Moves(p)
<1> DEFINE x == proc[p]
<1>1. x \in ProcessStates /\ IsFiniteSet(x.records)
  BY DEF LocalTypes
<1>2. CASE AssignRunId(p)
  <2> DEFINE y == [x EXCEPT !.pc = "search", !.run_known = TRUE]
  <2>1. proc' = [proc EXCEPT ![p] = y] /\ x.pc = "starting"
    BY <1>1, <1>2 DEF LocalTypes, AssignRunId
  <2>2. y \in ProcessStates
    BY <1>1 DEF ProcessStates, PCs
  <2>3. /\ y.pc = "search" /\ y.run_known = TRUE /\ y.run_finished = x.run_finished
        /\ y.found = x.found /\ y.processed = x.processed /\ y.truncated = x.truncated
        /\ y.interrupted = x.interrupted /\ y.unreported = x.unreported /\ y.exit = x.exit
        /\ y.records = x.records /\ y.observed = x.observed /\ y.counts = x.counts
    BY <1>1 DEF ProcessStates
  <2> HIDE DEF y
  <2>4. RunTracked(y, p \in DOMAIN runs, runs[p])
    BY <2>1, <2>3 DEF ProcessInv, RunTracked, Scraping
  <2>5. ExitMatches(y, runs[p]) /\ Counted(p, y)
    BY <2>1, <2>3 DEF ProcessInv, ExitMatches, Counted, Alive
  <2>6. Covered(p, y)
    BY <2>1, <2>3 DEF ProcessInv, RunTracked, Covered, Alive, Scraping
  <2>7. QED  BY <1>1, <2>1, <2>2, <2>3, <2>4, <2>5, <2>6 DEF ProcessInv, Moves
<1>3. CASE EndSearch(p)
  <2> DEFINE y == [x EXCEPT !.pc = "details", !.pending = x.found]
  <2>1. proc' = [proc EXCEPT ![p] = y] /\ x.pc = "search"
    BY <1>1, <1>3 DEF LocalTypes, EndSearch
  <2>2. y \in ProcessStates
    BY <1>1 DEF ProcessStates, PCs
  <2>3. /\ y.pc = "details" /\ y.pending = x.found /\ y.run_known = x.run_known
        /\ y.found = x.found /\ y.processed = x.processed /\ y.truncated = x.truncated
        /\ y.interrupted = x.interrupted /\ y.unreported = x.unreported /\ y.exit = x.exit
        /\ y.records = x.records /\ y.observed = x.observed /\ y.counts = x.counts
        /\ y.run_finished = x.run_finished
    BY <1>1 DEF ProcessStates
  <2> HIDE DEF y
  <2>4. RunTracked(y, p \in DOMAIN runs, runs[p])
    BY <2>1, <2>3 DEF ProcessInv, RunTracked, Scraping
  <2>5. ExitMatches(y, runs[p]) /\ Counted(p, y)
    BY <2>1, <2>3 DEF ProcessInv, ExitMatches, Counted, Alive
  <2>6. Covered(p, y)
    BY <2>1, <2>3 DEF ProcessInv, Covered, Alive, Scraping
  <2>7. QED  BY <1>1, <2>1, <2>2, <2>3, <2>4, <2>5, <2>6 DEF ProcessInv, Moves
<1>4. QED  BY <1>2, <1>3
\* The detail pages: each listing found leaves pending for the batch or for the
\* failures.
LEMMA DetailsMove ==
    ASSUME NEW p \in Processes, LocalTypes, ProcessInv(p, proc[p]),
           \/ \E d \in Details : FetchDetail(p, d)
           \/ \E s \in SourceIds : DetailFails(p, s)
    PROVE  Moves(p)
<1> DEFINE x == proc[p]
<1>1. x \in ProcessStates /\ IsFiniteSet(x.records)
  BY DEF LocalTypes
<1>2. ASSUME NEW d \in Details, FetchDetail(p, d)
      PROVE  Moves(p)
  <2> DEFINE y == [x EXCEPT !.pending = x.pending \ {d.source_id},
                            !.records = x.records \cup {d}]
  <2>1. proc' = [proc EXCEPT ![p] = y] /\ x.pc = "details"
    BY <1>1, <1>2 DEF LocalTypes, FetchDetail
  <2>2. y \in ProcessStates
    BY <1>1 DEF ProcessStates
  <2>3. IsFiniteSet(y.records)
    BY <1>1, FS_AddElement DEF ProcessStates
  <2>4. /\ y.pc = x.pc /\ y.run_known = x.run_known /\ y.run_finished = x.run_finished
        /\ y.found = x.found /\ y.processed = x.processed /\ y.truncated = x.truncated
        /\ y.interrupted = x.interrupted /\ y.unreported = x.unreported /\ y.exit = x.exit
        /\ y.observed = x.observed /\ y.counts = x.counts /\ y.failures = x.failures
        /\ y.pending = x.pending \ {d.source_id} /\ y.records = x.records \cup {d}
    BY <1>1 DEF ProcessStates
  <2> HIDE DEF y
  <2>5. RunTracked(y, p \in DOMAIN runs, runs[p])
    BY <2>1, <2>4 DEF ProcessInv, RunTracked, Scraping
  <2>6. ExitMatches(y, runs[p]) /\ Counted(p, y)
    BY <2>1, <2>4 DEF ProcessInv, ExitMatches, Counted, Alive
  <2>7. SourceIdsOf(y.records) = SourceIdsOf(x.records) \cup {d.source_id}
    BY <2>4 DEF SourceIdsOf
  <2>8. Covered(p, y)
    BY <2>1, <2>4, <2>7 DEF ProcessInv, Covered, Alive, Scraping
  <2>9. QED  BY <2>1, <2>2, <2>3, <2>5, <2>6, <2>8 DEF ProcessInv, Moves
<1>3. ASSUME NEW s \in SourceIds, DetailFails(p, s)
      PROVE  Moves(p)
  <2> DEFINE n == x.failures + 1
             y == [x EXCEPT !.pending = x.pending \ {s}, !.failures = n]
  <2>1. proc' = [proc EXCEPT ![p] = y] /\ x.pc = "details"
    BY <1>1, <1>3 DEF LocalTypes, DetailFails
  <2>0. n \in Nat /\ n # 0
    BY <1>1 DEF ProcessStates
  <2> HIDE DEF n
  <2>2. y \in ProcessStates
    BY <1>1, <2>0 DEF ProcessStates
  <2>3. /\ y.pc = x.pc /\ y.run_known = x.run_known /\ y.run_finished = x.run_finished
        /\ y.found = x.found /\ y.processed = x.processed /\ y.truncated = x.truncated
        /\ y.interrupted = x.interrupted /\ y.unreported = x.unreported /\ y.exit = x.exit
        /\ y.observed = x.observed /\ y.counts = x.counts /\ y.records = x.records
        /\ y.failures # 0
    BY <1>1, <2>0 DEF ProcessStates
  <2> HIDE DEF y
  <2>4. RunTracked(y, p \in DOMAIN runs, runs[p])
    BY <2>1, <2>3 DEF ProcessInv, RunTracked, Scraping
  <2>5. ExitMatches(y, runs[p]) /\ Counted(p, y)
    BY <2>1, <2>3 DEF ProcessInv, ExitMatches, Counted, Alive
  <2>6. Covered(p, y)
    BY <2>1, <2>3 DEF ProcessInv, Covered, Alive, Scraping
  <2>7. QED  BY <1>1, <2>1, <2>2, <2>3, <2>4, <2>5, <2>6 DEF ProcessInv, Moves
<1>4. QED  BY <1>2, <1>3

\* From the details to the batch, and a record of it that could not be stored.
LEMMA BatchMoves ==
    ASSUME NEW p \in Processes, LocalTypes, ProcessInv(p, proc[p]),
           EndDetails(p) \/ \E d \in proc[p].unsaved : PersistFails(p, d)
    PROVE  Moves(p)
<1> DEFINE x == proc[p]
<1>1. x \in ProcessStates /\ IsFiniteSet(x.records)
  BY DEF LocalTypes
<1>2. CASE EndDetails(p)
  <2> DEFINE coverage == ScrapeRunCoverage(x, 0, 0)
             y == [x EXCEPT !.pc = "persist", !.unsaved = x.records, !.coverage = coverage]
  <2>1. proc' = [proc EXCEPT ![p] = y] /\ x.pc = "details" /\ x.pending = {}
    BY <1>1, <1>2 DEF LocalTypes, EndDetails
  <2>2. coverage \in CoverageRecords
    BY <1>1, ReportTypes
  <2> HIDE DEF coverage
  <2>3. y \in ProcessStates
    BY <1>1, <2>2 DEF ProcessStates, PCs
  <2>4. /\ y.pc = "persist" /\ y.run_known = x.run_known /\ y.run_finished = x.run_finished
        /\ y.found = x.found /\ y.processed = x.processed /\ y.truncated = x.truncated
        /\ y.interrupted = x.interrupted /\ y.unreported = x.unreported /\ y.exit = x.exit
        /\ y.observed = x.observed /\ y.counts = x.counts /\ y.records = x.records
        /\ y.failures = x.failures
    BY <1>1 DEF ProcessStates
  <2> HIDE DEF y
  <2>5. RunTracked(y, p \in DOMAIN runs, runs[p])
    BY <2>1, <2>4 DEF ProcessInv, RunTracked, Scraping
  <2>6. ExitMatches(y, runs[p]) /\ Counted(p, y)
    BY <2>1, <2>4 DEF ProcessInv, ExitMatches, Counted, Alive
  <2>7. Covered(p, y)
    BY <2>1, <2>4 DEF ProcessInv, Covered, Alive, Scraping
  <2>8. QED  BY <1>1, <2>1, <2>3, <2>4, <2>5, <2>6, <2>7 DEF ProcessInv, Moves
<1>3. ASSUME NEW d \in x.unsaved, PersistFails(p, d)
      PROVE  Moves(p)
  <2> DEFINE n == x.save_failures + 1
             y == [x EXCEPT !.unsaved = x.unsaved \ {d}, !.save_failures = n]
  <2>1. proc' = [proc EXCEPT ![p] = y] /\ x.pc = "persist"
    BY <1>1, <1>3 DEF LocalTypes, PersistFails
  <2>0. n \in Nat
    BY <1>1 DEF ProcessStates
  <2> HIDE DEF n
  <2>2. y \in ProcessStates
    BY <1>1, <2>0 DEF ProcessStates
  <2>3. /\ y.pc = x.pc /\ y.run_known = x.run_known /\ y.run_finished = x.run_finished
        /\ y.found = x.found /\ y.processed = x.processed /\ y.truncated = x.truncated
        /\ y.interrupted = x.interrupted /\ y.unreported = x.unreported /\ y.exit = x.exit
        /\ y.observed = x.observed /\ y.counts = x.counts /\ y.records = x.records
        /\ y.failures = x.failures
    BY <1>1 DEF ProcessStates
  <2> HIDE DEF y
  <2>4. RunTracked(y, p \in DOMAIN runs, runs[p])
    BY <2>1, <2>3 DEF ProcessInv, RunTracked, Scraping
  <2>5. ExitMatches(y, runs[p]) /\ Counted(p, y)
    BY <2>1, <2>3 DEF ProcessInv, ExitMatches, Counted, Alive
  <2>6. Covered(p, y)
    BY <2>1, <2>3 DEF ProcessInv, Covered, Alive, Scraping
  <2>7. QED  BY <1>1, <2>1, <2>2, <2>3, <2>4, <2>5, <2>6 DEF ProcessInv, Moves
<1>4. QED  BY <1>2, <1>3

\* The end of the batch, by itself or by an identity conflict: counts and
\* coverage say what was stored.
LEMMA SavedMoves ==
    ASSUME NEW p \in Processes, LocalTypes, ProcessInv(p, proc[p]),
           EndPersist(p) \/ \E d \in proc[p].unsaved : PersistConflict(p, d)
    PROVE  Moves(p)
<1> DEFINE x == proc[p]
<1>1. x \in ProcessStates /\ IsFiniteSet(x.records)
  BY DEF LocalTypes
<1>2. PICK pc \in {"finish", "handler"}, n \in Nat :
        /\ x.pc = "persist"
        /\ proc' = [proc EXCEPT ![p] = Saved([x EXCEPT !.save_failures = n, !.pc = pc])]
  <2>1. CASE EndPersist(p)
    <3>1. [x EXCEPT !.pc = "finish"]
            = [x EXCEPT !.save_failures = x.save_failures, !.pc = "finish"]
      BY <1>1 DEF ProcessStates
    <3>2. x.save_failures \in Nat
      BY <1>1 DEF ProcessStates
    <3>3. x.pc = "persist" /\ proc' = [proc EXCEPT ![p] = Saved([x EXCEPT !.pc = "finish"])]
      BY <2>1 DEF EndPersist, LocalTypes
    <3>4. QED  BY <3>1, <3>2, <3>3
  <2>2. ASSUME NEW d \in x.unsaved, PersistConflict(p, d)
        PROVE  /\ x.pc = "persist"
               /\ proc' = [proc EXCEPT ![p] = Saved([x EXCEPT
                                !.save_failures = x.save_failures + 1, !.pc = "handler"])]
    BY <2>2 DEF PersistConflict, LocalTypes
  <2>3. x.save_failures + 1 \in Nat
    BY <1>1 DEF ProcessStates
  <2>4. QED  BY <2>1, <2>2, <2>3
<1> DEFINE z == [x EXCEPT !.save_failures = n, !.pc = pc]
           counts == ScrapeRunCounts(z)
           coverage == ScrapeRunCoverage(z, z.persisted, z.save_failures)
           y == [z EXCEPT !.counts = counts, !.coverage = coverage]
<1>3. z \in ProcessStates
  BY <1>1 DEF ProcessStates, PCs
<1>4. /\ z.pc = pc /\ z.run_known = x.run_known /\ z.run_finished = x.run_finished
      /\ z.found = x.found /\ z.processed = x.processed /\ z.truncated = x.truncated
      /\ z.interrupted = x.interrupted /\ z.unreported = x.unreported /\ z.exit = x.exit
      /\ z.observed = x.observed /\ z.records = x.records /\ z.failures = x.failures
  BY <1>1 DEF ProcessStates
<1> HIDE DEF z
<1>5. /\ counts \in CountRecords /\ counts # None /\ counts.observations_created = z.observed
      /\ coverage \in CoverageRecords /\ coverage # None
  <2>1. z.persisted \in Nat /\ z.save_failures \in Nat
    BY <1>3 DEF ProcessStates
  <2>2. counts \in CountRecords /\ coverage \in CoverageRecords
    BY <1>1, <1>3, <1>4, <2>1, ReportTypes
  <2>3. QED  BY <2>2, TablesAssumption DEF ScrapeRunCounts
<1>6. proc' = [proc EXCEPT ![p] = y]
  BY <1>2 DEF Saved, z
<1>7. coverage = ScrapeRunCoverage(y, y.persisted, y.save_failures)
  BY <1>3 DEF ProcessStates, ScrapeRunCoverage
<1> HIDE DEF counts, coverage
<1>8. y \in ProcessStates
  BY <1>3, <1>5 DEF ProcessStates
<1>9. /\ y.pc = pc /\ y.run_known = x.run_known /\ y.run_finished = x.run_finished
      /\ y.found = x.found /\ y.processed = x.processed /\ y.truncated = x.truncated
      /\ y.interrupted = x.interrupted /\ y.unreported = x.unreported /\ y.exit = x.exit
      /\ y.observed = x.observed /\ y.counts = counts /\ y.records = x.records
      /\ y.failures = x.failures /\ y.coverage = coverage
  BY <1>3, <1>4 DEF ProcessStates
<1> HIDE DEF y
<1>10. RunTracked(y, p \in DOMAIN runs, runs[p])
  BY <1>2, <1>5, <1>9 DEF ProcessInv, RunTracked, Scraping
<1>11. ExitMatches(y, runs[p]) /\ Counted(p, y)
  BY <1>2, <1>4, <1>5, <1>9 DEF ProcessInv, ExitMatches, Counted, Alive
<1>12. Covered(p, y)
  BY <1>2, <1>5, <1>7, <1>9 DEF ProcessInv, Covered, Alive, Scraping
<1>13. QED  BY <1>1, <1>6, <1>8, <1>9, <1>10, <1>11, <1>12 DEF ProcessInv, Moves

\* Noting that the run is finished, and an interrupt anywhere.
LEMMA MarkMoves ==
    ASSUME NEW p \in Processes, LocalTypes, ProcessInv(p, proc[p]),
           MarkFinished(p) \/ Interrupt(p)
    PROVE  Moves(p)
<1> DEFINE x == proc[p]
<1>1. x \in ProcessStates /\ IsFiniteSet(x.records)
  BY DEF LocalTypes
<1>2. CASE MarkFinished(p)
  <2> DEFINE y == [x EXCEPT !.pc = "output", !.run_finished = TRUE]
  <2>1. proc' = [proc EXCEPT ![p] = y] /\ x.pc = "committed"
    BY <1>1, <1>2 DEF LocalTypes, MarkFinished
  <2>2. y \in ProcessStates
    BY <1>1 DEF ProcessStates, PCs
  <2>3. /\ y.pc = "output" /\ y.run_known = x.run_known /\ y.run_finished = TRUE
        /\ y.interrupted = x.interrupted /\ y.unreported = x.unreported /\ y.exit = x.exit
        /\ y.observed = x.observed /\ y.counts = x.counts /\ y.records = x.records
        /\ y.failures = x.failures /\ y.save_failures = x.save_failures
        /\ y.coverage = x.coverage
    BY <1>1 DEF ProcessStates
  <2> HIDE DEF y
  <2>4. RunTracked(y, p \in DOMAIN runs, runs[p])
    BY <2>1, <2>3 DEF ProcessInv, RunTracked, Scraping, FinishedWith
  <2>5. ExitMatches(y, runs[p]) /\ Counted(p, y)
    BY <2>1, <2>3 DEF ProcessInv, ExitMatches, Counted, Alive
  <2>6. Covered(p, y)
    BY <2>1, <2>3 DEF ProcessInv, Covered, Alive, Scraping
  <2>7. QED  BY <1>1, <2>1, <2>2, <2>3, <2>4, <2>5, <2>6 DEF ProcessInv, Moves
<1>3. CASE Interrupt(p)
  <2> DEFINE y == [x EXCEPT !.pc = "handler", !.interrupted = TRUE]
  <2>1. proc' = [proc EXCEPT ![p] = y] /\ Alive(x) /\ x.pc # "handler"
    BY <1>1, <1>3 DEF LocalTypes, Interrupt, Active, Alive
  <2>2. y \in ProcessStates
    BY <1>1 DEF ProcessStates, PCs
  <2>3. /\ y.pc = "handler" /\ y.run_known = x.run_known /\ y.run_finished = x.run_finished
        /\ y.interrupted = TRUE /\ y.unreported = x.unreported /\ y.exit = x.exit
        /\ y.observed = x.observed /\ y.counts = x.counts /\ y.records = x.records
        /\ y.coverage = x.coverage
    BY <1>1 DEF ProcessStates
  <2> HIDE DEF y
  <2>4. x.pc \in Scraping \cup {"committed", "output"}
    BY <1>1, <2>1 DEF Alive, Scraping, ProcessStates, PCs
  <2>5. RunTracked(y, p \in DOMAIN runs, runs[p])
    BY <2>1, <2>3, <2>4 DEF ProcessInv, RunTracked, Scraping, FinishedWith
  <2>6. ExitMatches(y, runs[p]) /\ Counted(p, y)
    BY <2>1, <2>3 DEF ProcessInv, ExitMatches, Counted, Alive
  <2>7. Covered(p, y)
    BY <2>1, <2>3 DEF ProcessInv, Covered, Alive, Scraping
  <2>8. QED  BY <1>1, <2>1, <2>2, <2>3, <2>5, <2>6, <2>7 DEF ProcessInv, Moves
<1>4. QED  BY <1>2, <1>3

\* What a process leaves behind.
LEMMA EndedFields ==
    ASSUME NEW x \in ProcessStates, NEW pc \in {"done", "killed"},
           NEW exit \in {None, 0, 1, 2}
    PROVE  LET y == Ended(x, pc, exit) IN
           /\ y \in ProcessStates
           /\ IsFiniteSet(y.records)
           /\ y.pc = pc /\ y.exit = exit /\ ~Alive(y)
           /\ y.run_known = x.run_known /\ y.run_finished = x.run_finished
           /\ y.interrupted = x.interrupted /\ y.unreported = x.unreported
<1> DEFINE y == Ended(x, pc, exit)
<1>1. Fresh \in ProcessStates
  BY ScrapeRunAssumption DEF Fresh, ProcessStates, PCs
<1>2. y \in ProcessStates
  BY <1>1 DEF ProcessStates, PCs, Ended
<1>3. /\ y.pc = pc /\ y.exit = exit /\ y.records = {}
      /\ y.run_known = x.run_known /\ y.run_finished = x.run_finished
      /\ y.interrupted = x.interrupted /\ y.unreported = x.unreported
  BY DEF Ended, Fresh
<1>4. IsFiniteSet(y.records)
  BY <1>3, FS_EmptySet
<1>5. QED  BY <1>2, <1>3, <1>4 DEF Alive

\* The ends of a process that write nothing: with its output, with an error it
\* cannot report, with nothing to report, or killed.
LEMMA EndMoves ==
    ASSUME NEW p \in Processes, LocalTypes, ProcessInv(p, proc[p]),
           \/ WriteOutput(p)
           \/ FinalizationError(p)
           \/ Kill(p)
           \/ FinalizeFailed(p) /\ NothingToFinalize(proc[p])
    PROVE  Moves(p)
<1> DEFINE x == proc[p]
<1>1. x \in ProcessStates
  BY DEF LocalTypes
<1>2. PICK z \in ProcessStates, pc \in {"done", "killed"}, exit \in {None, 0, 1, 2} :
        /\ proc' = [proc EXCEPT ![p] = Ended(z, pc, exit)]
        /\ Alive(x)
        /\ z.interrupted = x.interrupted
        /\ exit # None => pc = "done"
        /\ ExitMatches(Ended(z, pc, exit), runs[p])
  <2>1. CASE WriteOutput(p)
    <3> DEFINE exit == IF x.failures + x.save_failures > 0 THEN 2 ELSE 0
    <3>1. proc' = [proc EXCEPT ![p] = Ended(x, "done", exit)] /\ x.pc = "output"
      BY <2>1 DEF WriteOutput, LocalTypes
    <3>2. Ended(x, "done", exit).exit = exit
      BY <1>1, EndedFields
    <3>3. runs[p].status = IF exit = 2 THEN "partial" ELSE "succeeded"
      BY <3>1 DEF ProcessInv, RunTracked
    <3>4. ExitMatches(Ended(x, "done", exit), runs[p])
      BY <3>2, <3>3 DEF ExitMatches
    <3>5. QED  BY <1>1, <3>1, <3>4 DEF Alive
  <2>2. CASE FinalizationError(p)
    <3> DEFINE z == [x EXCEPT !.unreported = TRUE]
    <3>1. proc' = [proc EXCEPT ![p] = Ended(z, "done", 1)] /\ x.pc = "handler"
      BY <2>2 DEF FinalizationError, LocalTypes
    <3>2. z \in ProcessStates /\ z.unreported /\ z.interrupted = x.interrupted
      BY <1>1 DEF ProcessStates
    <3> HIDE DEF z
    <3>3. Ended(z, "done", 1).exit = 1 /\ Ended(z, "done", 1).unreported
      BY <3>2, EndedFields
    <3>4. ExitMatches(Ended(z, "done", 1), runs[p])
      BY <3>3 DEF ExitMatches
    <3>5. QED  BY <3>1, <3>2, <3>4 DEF Alive
  <2>3. CASE Kill(p)
    <3>1. proc' = [proc EXCEPT ![p] = Ended(x, "killed", None)] /\ Alive(x)
      BY <2>3 DEF Kill, LocalTypes, Active, Alive
    <3>2. Ended(x, "killed", None).exit = None
      BY <1>1, EndedFields
    <3>3. ExitMatches(Ended(x, "killed", None), runs[p])
      BY <3>2, TablesAssumption DEF ExitMatches, Repo!RepositoryAssumption
    <3>4. QED  BY <1>1, <3>1, <3>3
  <2>4. CASE FinalizeFailed(p) /\ NothingToFinalize(x)
    <3>1. proc' = [proc EXCEPT ![p] = Ended(x, "done", 1)] /\ x.pc = "handler"
      BY <2>4 DEF FinalizeFailed, LocalTypes
    <3>2. /\ Ended(x, "done", 1).exit = 1
          /\ Ended(x, "done", 1).run_finished = x.run_finished
      BY <1>1, EndedFields
    <3>3. x.run_finished \/ runs[p].status = "running"
      BY <2>4, <3>1 DEF NothingToFinalize, ProcessInv, RunTracked, Unfinished
    <3>4. ExitMatches(Ended(x, "done", 1), runs[p])
      BY <3>2, <3>3 DEF ExitMatches
    <3>5. QED  BY <1>1, <3>1, <3>4 DEF Alive
  <2>5. QED  BY <2>1, <2>2, <2>3, <2>4
<1> DEFINE y == Ended(z, pc, exit)
<1>3. /\ y \in ProcessStates /\ IsFiniteSet(y.records)
      /\ y.pc = pc /\ y.exit = exit /\ ~Alive(y) /\ y.interrupted = z.interrupted
  BY EndedFields
<1> HIDE DEF y
<1>4. p \in DOMAIN runs
  BY <1>2 DEF ProcessInv, RunTracked, Alive
<1>5. RunTracked(y, p \in DOMAIN runs, runs[p])
  BY <1>2, <1>3, <1>4 DEF RunTracked, Scraping
<1>6. Counted(p, y) /\ Covered(p, y)
  BY <1>2, <1>3 DEF ProcessInv, Counted, Covered, Alive, Scraping
<1>7. QED  BY <1>2, <1>3, <1>5, <1>6 DEF ProcessInv, Moves, y

-----------------------------------------------------------------------------
(* Steps of the tables, the source and the clock                           *)

CompleteRuns == {p \in DOMAIN runs : runs[p].completion_status = "complete"}

\* What holds of a process is about its own run, history and source only.
LEMMA Frame ==
    ASSUME NEW q, NEW x, ProcessInv(q, x),
           q \in DOMAIN runs' <=> q \in DOMAIN runs,
           q \in DOMAIN runs => runs'[q] = runs[q],
           StoredUnder(q)' = StoredUnder(q), listed' = listed, steady'[q] = steady[q]
    PROVE  ProcessInv(q, x)'
<1>1. RunTracked(x, q \in DOMAIN runs, runs[q])' /\ ExitMatches(x, runs[q])'
  <2>1. CASE q \in DOMAIN runs
    BY <2>1 DEF ProcessInv, RunTracked, ExitMatches, Unfinished, FinishedWith,
                Repo!CompletionStatus
  <2>2. CASE q \notin DOMAIN runs
    <3>1. x = Fresh
      BY <2>2 DEF ProcessInv, RunTracked
    <3>2. x.pc = "idle" /\ x.exit = None
      BY <3>1 DEF Fresh
    <3>3. QED
      BY <2>2, <3>1, <3>2, TablesAssumption
      DEF RunTracked, ExitMatches, Scraping, Repo!RepositoryAssumption, Fresh
  <2>3. QED  BY <2>1, <2>2
<1>2. Counted(q, x)'
  BY DEF ProcessInv, Counted, Alive
<1>3. Covered(q, x)'
  BY DEF ProcessInv, Covered, Alive, ScrapeRunCoverage, SourceIdsOf
<1>4. QED  BY <1>1, <1>2, <1>3 DEF ProcessInv

\* A step of p that leaves the rows, history and source of the others alone.
LEMMA OwnStep ==
    ASSUME ScrapeInv, NEW p \in Processes, NEW y \in ProcessStates,
           proc' = [proc EXCEPT ![p] = y], IsFiniteSet(y.records), ProcessInv(p, y)',
           UNCHANGED <<listed, now, relists>>,
           steady' \in [Processes -> SUBSET (SourceIds \X (1..Groups))],
           \A q \in Processes \ {p} :
                /\ q \in DOMAIN runs' <=> q \in DOMAIN runs
                /\ q \in DOMAIN runs => runs'[q] = runs[q]
                /\ StoredUnder(q)' = StoredUnder(q)
                /\ steady'[q] = steady[q]
    PROVE  LocalTypes' /\ \A q \in Processes : ProcessInv(q, proc[q])'
<1>1. proc \in [Processes -> ProcessStates]
  BY DEF ScrapeInv, LocalTypes
<1>2. LocalTypes'
  <2>1. proc' \in [Processes -> ProcessStates]
    BY <1>1
  <2>2. \A q \in Processes : IsFiniteSet(proc'[q].records)
    BY <1>1 DEF ScrapeInv, LocalTypes
  <2>3. QED  BY <2>1, <2>2 DEF ScrapeInv, LocalTypes
<1>3. ASSUME NEW q \in Processes
      PROVE  ProcessInv(q, proc[q])'
  <2>1. PICK x : x = proc'[q]
    OBVIOUS
  <2>2. CASE q = p
    BY <1>1, <2>1, <2>2
  <2>3. CASE q # p
    <3>1. x = proc[q]
      BY <1>1, <2>1, <2>3
    <3>2. ProcessInv(q, x)
      BY <3>1 DEF ScrapeInv
    <3>3. ProcessInv(q, x)'
      BY <2>3, <3>2, Frame
    <3>4. QED  BY <2>1, <3>3
  <2>4. QED  BY <2>2, <2>3
<1>4. QED  BY <1>2, <1>3

\* A step that moves one process and no table keeps the invariant.
LEMMA LocalStep ==
    ASSUME ScrapeInv, NEW p \in Processes, Moves(p),
           UNCHANGED <<tables, listed, steady, now, relists>>
    PROVE  ScrapeInv'
<1>1. PICK y \in ProcessStates :
        proc' = [proc EXCEPT ![p] = y] /\ IsFiniteSet(y.records) /\ ProcessInv(p, y)
  BY DEF Moves
<1>2. /\ UNCHANGED <<items, inventory, observations, aliases, runs>>
      /\ UNCHANGED <<listed, steady, now, relists>>
  BY DEF tables
<1>3. \A q : StoredUnder(q)' = StoredUnder(q)
  BY <1>2 DEF StoredUnder
<1>4. ProcessInv(p, y)'
  BY <1>1, <1>2, <1>3, Frame
<1>5. LocalTypes' /\ \A q \in Processes : ProcessInv(q, proc[q])'
  BY <1>1, <1>2, <1>3, <1>4, OwnStep DEF ScrapeInv, LocalTypes
<1>6. Backed'
  BY <1>2 DEF ScrapeInv, Backed, AbsencesBackedByCoverage
<1>7. QED  BY <1>5, <1>6 DEF ScrapeInv

\* What finish_scrape_run does to the rows of runs and to the absences.
LEMMA FinishFacts ==
    ASSUME NEW p \in DOMAIN runs, Backed, NEW status \in Repo!ScrapeRunStatus,
           NEW coverage \in CoverageRecords, NEW counts \in CountRecords, NEW ids,
           now \in 1..MaxTime,
           Repo!FinishScrapeRun(p, status, coverage, counts, ids, now)
    PROVE  /\ UNCHANGED <<items, observations, aliases>>
           /\ DOMAIN runs' = DOMAIN runs
           /\ runs' \in [DOMAIN runs' -> Repo!RunRows]
           /\ \A q \in DOMAIN runs : q # p => runs'[q] = runs[q]
           /\ runs'[p].status = status
           /\ runs'[p].completion_status = Repo!CompletionStatus(coverage)
           /\ runs'[p].counts = counts
           /\ DOMAIN inventory' = DOMAIN inventory
           /\ \/ UNCHANGED inventory
              \/ /\ status = "succeeded" /\ Repo!CompletionStatus(coverage) = "complete"
                 /\ \A s \in DOMAIN inventory :
                      /\ inventory'[s].complete_absence_count \in Nat
                      /\ inventory'[s].complete_absence_count
                            <= inventory[s].complete_absence_count + 1
                      /\ s \in ids => inventory'[s].complete_absence_count
                            <= inventory[s].complete_absence_count
<1> DEFINE completion == Repo!CompletionStatus(coverage)
           row == [runs[p] EXCEPT !.status = status, !.finished_at = now, !.counts = counts,
                                  !.completion_status = completion]
<1>1. runs[p] \in Repo!RunRows
  BY DEF Backed
<1>2. completion \in Repo!ScrapeRunCompletion
  BY DEF Repo!CompletionStatus, Repo!ScrapeRunCompletion
<1>3. runs' = Repo!Put(runs, p, row) /\ UNCHANGED <<items, observations, aliases>>
  BY DEF Repo!FinishScrapeRun
<1>4. /\ status = "succeeded" /\ completion = "complete" =>
            Repo!ReconcileCompleteInventory(ids, now)
      /\ ~(status = "succeeded" /\ completion = "complete") => UNCHANGED inventory
  BY DEF Repo!FinishScrapeRun
<1> HIDE DEF completion
<1>5. /\ row \in Repo!RunRows
      /\ row.status = status /\ row.completion_status = completion /\ row.counts = counts
  BY <1>1, <1>2 DEF Repo!RunRows
<1> HIDE DEF row
<1>6. /\ DOMAIN runs' = DOMAIN runs
      /\ runs' \in [DOMAIN runs' -> Repo!RunRows]
      /\ runs'[p] = row
      /\ \A q \in DOMAIN runs : q # p => runs'[q] = runs[q]
  BY <1>3, <1>5 DEF Repo!Put, Backed
<1>7. ASSUME status = "succeeded", completion = "complete"
      PROVE  /\ DOMAIN inventory' = DOMAIN inventory
             /\ \A s \in DOMAIN inventory :
                  /\ inventory'[s].complete_absence_count \in Nat
                  /\ inventory'[s].complete_absence_count
                        <= inventory[s].complete_absence_count + 1
                  /\ s \in ids => inventory'[s].complete_absence_count
                        <= inventory[s].complete_absence_count
  <2>1. inventory' = [s \in DOMAIN inventory |->
                        IF items[s].status # "open" THEN inventory[s]
                        ELSE IF s \in ids THEN Repo!SeenRow(now)
                        ELSE Repo!AbsentRow(inventory[s], now)]
    BY <1>4, <1>7 DEF Repo!ReconcileCompleteInventory
  <2>2. Repo!SeenRow(now).complete_absence_count = 0
    BY DEF Repo!SeenRow
  <2>3. \A r : Repo!AbsentRow(r, now).complete_absence_count = r.complete_absence_count + 1
    BY DEF Repo!AbsentRow
  <2>4. \A s \in DOMAIN inventory : inventory[s].complete_absence_count \in Nat
    BY DEF Backed
  <2>5. ASSUME NEW s \in DOMAIN inventory
        PROVE  \/ inventory'[s] = inventory[s]
               \/ s \in ids /\ inventory'[s] = Repo!SeenRow(now)
               \/ s \notin ids /\ inventory'[s] = Repo!AbsentRow(inventory[s], now)
    BY <2>1
  <2>6. QED  BY <2>1, <2>2, <2>3, <2>4, <2>5
<1>8. QED  BY <1>3, <1>4, <1>5, <1>6, <1>7 DEF completion

\* finish_scrape_run counts an absence only together with a run that becomes
\* complete, and a later failure of that run leaves it complete.
LEMMA FinishBacked ==
    ASSUME NEW p \in DOMAIN runs, Backed, NEW status \in Repo!ScrapeRunStatus,
           NEW coverage \in CoverageRecords, NEW counts \in CountRecords, NEW ids,
           now \in 1..MaxTime,
           Repo!FinishScrapeRun(p, status, coverage, counts, ids, now),
           \/ p \notin CompleteRuns
           \/ status # "succeeded" /\ Repo!CompletionStatus(coverage) = "complete"
    PROVE  Backed'
<1>1. /\ DOMAIN runs' = DOMAIN runs
      /\ runs' \in [DOMAIN runs' -> Repo!RunRows]
      /\ \A q \in DOMAIN runs : q # p => runs'[q] = runs[q]
      /\ runs'[p].completion_status = Repo!CompletionStatus(coverage)
      /\ DOMAIN inventory' = DOMAIN inventory
      /\ \/ UNCHANGED inventory
         \/ /\ status = "succeeded" /\ Repo!CompletionStatus(coverage) = "complete"
            /\ \A s \in DOMAIN inventory :
                 /\ inventory'[s].complete_absence_count \in Nat
                 /\ inventory'[s].complete_absence_count
                        <= inventory[s].complete_absence_count + 1
  BY FinishFacts
<1>2. /\ IsFiniteSet(CompleteRuns) /\ Cardinality(CompleteRuns) \in Nat
      /\ IsFiniteSet(CompleteRuns') /\ Cardinality(CompleteRuns') \in Nat
  BY <1>1, FS_Subset, FS_CardinalityType DEF Backed, CompleteRuns
<1>3. \A s \in DOMAIN inventory :
        /\ inventory[s].complete_absence_count \in Nat
        /\ inventory[s].complete_absence_count <= Cardinality(CompleteRuns)
  BY DEF Backed, AbsencesBackedByCoverage, CompleteRuns
<1>4. CompleteRuns \subseteq CompleteRuns'
  BY <1>1 DEF CompleteRuns
<1>5. Cardinality(CompleteRuns) <= Cardinality(CompleteRuns')
  BY <1>2, <1>4, FS_Subset
<1>6. ASSUME NEW s \in DOMAIN inventory
      PROVE  /\ inventory'[s].complete_absence_count \in Nat
             /\ inventory'[s].complete_absence_count <= Cardinality(CompleteRuns')
  <2>1. CASE UNCHANGED inventory
    BY <1>2, <1>3, <1>5, <2>1
  <2>2. CASE ~UNCHANGED inventory
    <3>1. CompleteRuns' = CompleteRuns \cup {p} /\ p \notin CompleteRuns
      BY <1>1, <2>2 DEF CompleteRuns
    <3>2. Cardinality(CompleteRuns') = Cardinality(CompleteRuns) + 1
      BY <1>2, <3>1, FS_AddElement
    <3>3. QED  BY <1>1, <1>2, <1>3, <2>2, <3>2
  <2>3. QED  BY <2>1, <2>2
<1>7. QED  BY <1>1, <1>6 DEF Backed, AbsencesBackedByCoverage, CompleteRuns

\* finish_scrape_run at the end of main().
LEMMA FinishStep == ASSUME ScrapeInv, NEW p \in Processes, FinishRun(p) PROVE ScrapeInv'
<1> DEFINE x == proc[p]
           status == IF x.failures + x.save_failures > 0 THEN "partial" ELSE "succeeded"
           y == [x EXCEPT !.pc = "committed"]
<1>1. x \in ProcessStates /\ IsFiniteSet(x.records) /\ x.pc = "finish" /\ now \in 1..MaxTime
  BY DEF ScrapeInv, LocalTypes, FinishRun
<1>2. RunTracked(x, p \in DOMAIN runs, runs[p]) /\ ExitMatches(x, runs[p])
  BY DEF ScrapeInv, ProcessInv
<1>3. Counted(p, x) /\ Covered(p, x)
  BY DEF ScrapeInv, ProcessInv
<1>4. p \in DOMAIN runs /\ Unfinished(runs[p]) /\ x.run_known /\ ~x.interrupted /\ x.exit = None
  BY <1>1, <1>2 DEF RunTracked, Scraping
<1>5. x.coverage \in CoverageRecords /\ x.counts \in CountRecords
      /\ x.coverage # None /\ x.counts # None
  BY <1>1, <1>3 DEF Covered, ProcessStates
<1>6. status \in Repo!ScrapeRunStatus /\ status # "failed"
  BY DEF Repo!ScrapeRunStatus
<1>7. /\ Repo!FinishScrapeRun(p, status, x.coverage, x.counts, SourceIdsOf(x.records), now)
      /\ proc' = [proc EXCEPT ![p] = y]
      /\ UNCHANGED <<listed, steady, now, relists>>
  BY <1>1 DEF FinishRun, ScrapeInv, LocalTypes, source
<1>8. /\ UNCHANGED observations
      /\ DOMAIN runs' = DOMAIN runs
      /\ \A q \in DOMAIN runs : q # p => runs'[q] = runs[q]
      /\ runs'[p].status = status
      /\ runs'[p].completion_status = Repo!CompletionStatus(x.coverage)
      /\ runs'[p].counts = x.counts
  BY <1>1, <1>4, <1>5, <1>6, <1>7, FinishFacts DEF ScrapeInv
<1>9. Backed'
  <2>1. p \notin CompleteRuns
    BY <1>4 DEF Unfinished, CompleteRuns
  <2>2. QED  BY <1>1, <1>4, <1>5, <1>6, <1>7, <2>1, FinishBacked DEF ScrapeInv
<1>10. y \in ProcessStates
  BY <1>1 DEF ProcessStates, PCs
<1>11. /\ y.pc = "committed" /\ y.run_known = x.run_known /\ y.run_finished = x.run_finished
       /\ y.interrupted = x.interrupted /\ y.unreported = x.unreported /\ y.exit = x.exit
       /\ y.observed = x.observed /\ y.counts = x.counts /\ y.records = x.records
       /\ y.coverage = x.coverage /\ y.failures = x.failures
       /\ y.save_failures = x.save_failures
  BY <1>1 DEF ProcessStates
<1>12. \A q : StoredUnder(q)' = StoredUnder(q)
  BY <1>8 DEF StoredUnder
<1> HIDE DEF y
<1>13. PICK z : z = y
  OBVIOUS
<1>14. ProcessInv(p, z)'
  <2>1. RunTracked(z, p \in DOMAIN runs, runs[p])'
    BY <1>4, <1>5, <1>8, <1>11, <1>13 DEF RunTracked, Scraping, FinishedWith, Repo!CompletionStatus
  <2>2. ExitMatches(z, runs[p])'
    BY <1>4, <1>11, <1>13, TablesAssumption DEF ExitMatches, Repo!RepositoryAssumption
  <2>3. Counted(p, z)'
    BY <1>1, <1>3, <1>4, <1>5, <1>8, <1>11, <1>12, <1>13 DEF Counted, Alive
  <2>4. Covered(p, z)'
    BY <1>1, <1>3, <1>7, <1>11, <1>13 DEF Covered, Alive, Scraping
  <2>5. QED  BY <2>1, <2>2, <2>3, <2>4 DEF ProcessInv
<1>15. LocalTypes' /\ \A q \in Processes : ProcessInv(q, proc[q])'
  BY <1>1, <1>7, <1>8, <1>10, <1>11, <1>12, <1>13, <1>14, OwnStep DEF ScrapeInv, LocalTypes
<1>16. QED  BY <1>9, <1>15 DEF ScrapeInv

\* finish_scrape_run of the error handler: the run is stored as failed, over
\* whatever an interrupted commit left.
LEMMA FinalizeStep ==
    ASSUME ScrapeInv, NEW p \in Processes, FinalizeFailed(p), ~NothingToFinalize(proc[p])
    PROVE  ScrapeInv'
<1> DEFINE x == proc[p]
           coverage == IF x.coverage = None THEN NoCoverage ELSE x.coverage
           counts == IF x.counts = None THEN FailedCounts(x) ELSE x.counts
           y == Ended(x, "done", 1)
<1>1. x \in ProcessStates /\ IsFiniteSet(x.records) /\ x.pc = "handler" /\ now \in 1..MaxTime
  BY DEF ScrapeInv, LocalTypes, FinalizeFailed
<1>2. RunTracked(x, p \in DOMAIN runs, runs[p]) /\ Counted(p, x) /\ Covered(p, x)
  BY DEF ScrapeInv, ProcessInv
<1>3. p \in DOMAIN runs /\ x.run_known /\ ~x.run_finished
  BY <1>1, <1>2 DEF RunTracked, NothingToFinalize
<1>4. coverage \in CoverageRecords /\ counts \in CountRecords
  BY <1>1, ReportTypes DEF ProcessStates
<1>5. /\ Repo!FinishScrapeRun(p, "failed", coverage, counts, {}, now)
      /\ proc' = [proc EXCEPT ![p] = y]
      /\ UNCHANGED <<listed, steady, now, relists>>
  BY <1>1 DEF FinalizeFailed, ScrapeInv, LocalTypes, source
<1>6. "failed" \in Repo!ScrapeRunStatus
  BY DEF Repo!ScrapeRunStatus
<1>7. FinishedWith(runs[p], x) => coverage = x.coverage
  BY DEF FinishedWith
<1>8. x.counts # None => counts = x.counts
  OBVIOUS
<1> HIDE DEF coverage, counts
<1>9. /\ UNCHANGED observations
      /\ DOMAIN runs' = DOMAIN runs
      /\ \A q \in DOMAIN runs : q # p => runs'[q] = runs[q]
      /\ runs'[p].status = "failed"
      /\ runs'[p].counts = counts
  BY <1>1, <1>3, <1>4, <1>5, <1>6, FinishFacts DEF ScrapeInv
<1>10. Backed'
  <2>1. p \notin CompleteRuns \/ Repo!CompletionStatus(coverage) = "complete"
    BY <1>1, <1>2, <1>7 DEF RunTracked, Unfinished, FinishedWith, CompleteRuns
  <2>2. QED  BY <1>1, <1>3, <1>4, <1>5, <1>6, <2>1, FinishBacked DEF ScrapeInv
<1>11. /\ y \in ProcessStates /\ IsFiniteSet(y.records)
       /\ y.pc = "done" /\ y.exit = 1 /\ ~Alive(y) /\ y.interrupted = x.interrupted
  BY <1>1, EndedFields
<1>12. \A q : StoredUnder(q)' = StoredUnder(q)
  BY <1>9 DEF StoredUnder
<1> HIDE DEF y
<1>13. PICK z : z = y
  OBVIOUS
<1>14. ProcessInv(p, z)'
  <2>1. RunTracked(z, p \in DOMAIN runs, runs[p])'
    BY <1>3, <1>9, <1>11, <1>13 DEF RunTracked, Scraping
  <2>2. ExitMatches(z, runs[p])'
    BY <1>9, <1>11, <1>13 DEF ExitMatches
  <2>3. ~x.interrupted => counts.observations_created = Cardinality(StoredUnder(p))
    BY <1>1, <1>2, <1>8 DEF RunTracked, Counted, Alive
  <2>4. Counted(p, z)'
    BY <1>2, <1>3, <1>9, <1>11, <1>12, <1>13, <2>3 DEF Counted, Alive
  <2>5. Covered(p, z)'
    BY <1>11, <1>13 DEF Covered, Alive, Scraping
  <2>6. QED  BY <2>1, <2>2, <2>4, <2>5 DEF ProcessInv
<1>15. LocalTypes' /\ \A q \in Processes : ProcessInv(q, proc[q])'
  BY <1>5, <1>9, <1>11, <1>12, <1>13, <1>14, OwnStep DEF ScrapeInv, LocalTypes
<1>16. QED  BY <1>10, <1>15 DEF ScrapeInv

\* start_scrape_run
LEMMA StartStep == ASSUME ScrapeInv, NEW p \in Processes, StartRun(p) PROVE ScrapeInv'
<1> DEFINE x == proc[p]
           mode == IF p \in Manual THEN "detail" ELSE "scheduled"
           row == [status |-> "running", completion_status |-> "pending", mode |-> mode,
                   started_at |-> now, finished_at |-> None, counts |-> None]
           y == [x EXCEPT !.pc = "starting"]
           stable == {z \in SourceIds \X (1..Groups) : z[2] \in listed[z[1]]}
<1>1. x \in ProcessStates /\ IsFiniteSet(x.records) /\ x.pc = "idle" /\ now \in 1..MaxTime
  BY DEF ScrapeInv, LocalTypes, StartRun
<1>2. RunTracked(x, p \in DOMAIN runs, runs[p]) /\ Counted(p, x)
  BY DEF ScrapeInv, ProcessInv
<1>3. p \notin DOMAIN runs /\ x = Fresh
  BY <1>1, <1>2 DEF RunTracked
<1>4. /\ runs' = Repo!Put(runs, p, row)
      /\ UNCHANGED <<items, inventory, observations, aliases>>
      /\ proc' = [proc EXCEPT ![p] = y]
      /\ steady' = [steady EXCEPT ![p] = stable]
      /\ UNCHANGED <<listed, now, relists>>
  BY <1>1 DEF StartRun, Repo!StartScrapeRun, ScrapeInv, LocalTypes
<1>5. row \in Repo!RunRows /\ Unfinished(row)
  BY <1>1 DEF Repo!RunRows, Repo!ScrapeRunStatus, Repo!ScrapeRunCompletion, Unfinished
<1> HIDE DEF row
<1>6. /\ DOMAIN runs' = DOMAIN runs \cup {p}
      /\ runs' \in [DOMAIN runs' -> Repo!RunRows]
      /\ runs'[p] = row
      /\ \A q \in DOMAIN runs : q # p => runs'[q] = runs[q]
  BY <1>4, <1>5 DEF Repo!Put, ScrapeInv, Backed
<1>7. Backed'
  <2>1. IsFiniteSet(DOMAIN runs') /\ DOMAIN runs' \subseteq Processes
    BY <1>6, FS_AddElement DEF ScrapeInv, Backed
  <2>2. CompleteRuns' = CompleteRuns
    BY <1>3, <1>5, <1>6 DEF CompleteRuns, Unfinished
  <2>3. AbsencesBackedByCoverage'
    BY <1>4, <2>2 DEF ScrapeInv, Backed, AbsencesBackedByCoverage, CompleteRuns
  <2>4. QED  BY <1>4, <1>6, <2>1, <2>3 DEF ScrapeInv, Backed
<1>8. y \in ProcessStates
  BY <1>1 DEF ProcessStates, PCs
<1>9. /\ y.pc = "starting" /\ ~y.run_known /\ ~y.run_finished /\ ~y.interrupted
      /\ ~y.unreported /\ y.exit = None /\ y.observed = 0 /\ y.counts = None
      /\ y.records = x.records /\ y.processed = 0 /\ y.found = {} /\ ~y.truncated
  BY <1>1, <1>3 DEF Fresh
<1>10. \A q : StoredUnder(q)' = StoredUnder(q)
  BY <1>4 DEF StoredUnder
<1>11. /\ steady' \in [Processes -> SUBSET (SourceIds \X (1..Groups))]
       /\ steady'[p] = stable
       /\ \A q \in Processes \ {p} : steady'[q] = steady[q]
  BY <1>4 DEF ScrapeInv, LocalTypes
<1> HIDE DEF y
<1>12. PICK z : z = y
  OBVIOUS
<1>13. ProcessInv(p, z)'
  <2>1. RunTracked(z, p \in DOMAIN runs, runs[p])'
    BY <1>5, <1>6, <1>9, <1>12 DEF RunTracked, Scraping, Unfinished
  <2>2. ExitMatches(z, runs[p])'
    BY <1>9, <1>12, TablesAssumption DEF ExitMatches, Repo!RepositoryAssumption
  <2>3. Counted(p, z)'
    BY <1>2, <1>3, <1>5, <1>6, <1>9, <1>10, <1>12, FS_EmptySet DEF Counted, Alive, Unfinished
  <2>4. \A s \in SourceIds, g \in 1..Groups : <<s, g>> \in stable => g \in listed[s]
    OBVIOUS
  <2>5. Covered(p, z)'
    BY <1>4, <1>9, <1>11, <1>12, <2>4 DEF Covered, Alive, Scraping
  <2>6. QED  BY <2>1, <2>2, <2>3, <2>5 DEF ProcessInv
<1>14. LocalTypes' /\ \A q \in Processes : ProcessInv(q, proc[q])'
  BY <1>1, <1>4, <1>6, <1>8, <1>9, <1>10, <1>11, <1>12, <1>13, OwnStep
<1>15. QED  BY <1>7, <1>14 DEF ScrapeInv

\* persist_reconciled_record adds at most one observation, under the run it was
\* called for, and a new item starts without absences.
LEMMA PersistFacts ==
    ASSUME NEW r, NEW rec, Repo!PersistReconciledRecord(r, rec)
    PROVE  /\ UNCHANGED runs
           /\ \/ observations' = observations
              \/ \E o : /\ o \notin observations /\ o.run_id = r
                        /\ observations' = observations \cup {o}
           /\ \/ UNCHANGED inventory
              \/ inventory' = Repo!Put(inventory, rec.source_id, Repo!NewInventory)
<1>1. Repo!InsertObservation(r, rec) =>
        \/ observations' = observations
        \/ \E o : /\ o \notin observations /\ o.run_id = r
                  /\ observations' = observations \cup {o}
  <2> SUFFICES ASSUME Repo!InsertObservation(r, rec), observations' # observations
               PROVE  \E o : /\ o \notin observations /\ o.run_id = r
                             /\ observations' = observations \cup {o}
    OBVIOUS
  <2> DEFINE o == Repo!ObservationValues(r, rec)
  <2>1. observations' = observations \cup {o}
    BY DEF Repo!InsertObservation
  <2>2. o.run_id = r
    BY DEF Repo!ObservationValues
  <2> HIDE DEF o
  <2>3. o \notin observations
    BY <2>1
  <2>4. QED  BY <2>1, <2>2, <2>3
<1>2. CASE Repo!PersistInsert(r, rec)
  BY <1>1, <1>2 DEF Repo!PersistInsert
<1>3. CASE Repo!PersistOutOfOrder(r, rec)
  BY <1>1, <1>3 DEF Repo!PersistOutOfOrder
<1>4. CASE Repo!PersistClosedSeen(r, rec)
  BY <1>1, <1>4 DEF Repo!PersistClosedSeen, Repo!RecordNonterminalHistoryAfterClosure
<1>5. CASE Repo!PersistUpdate(r, rec)
  BY <1>1, <1>5 DEF Repo!PersistUpdate
<1>6. QED  BY <1>2, <1>3, <1>4, <1>5 DEF Repo!PersistReconciledRecord

\* One record of the batch is stored, and counted.
LEMMA PersistStep ==
    ASSUME ScrapeInv, NEW p \in Processes, NEW d \in proc[p].unsaved, PersistRecord(p, d)
    PROVE  ScrapeInv'
<1> DEFINE x == proc[p]
           created == IF d.source_id \in DOMAIN items THEN 0 ELSE 1
           updated == IF ResultUpdated(Observed(d)) THEN 1 ELSE 0
           observed == IF observations' = observations THEN 0 ELSE 1
           persisted2 == x.persisted + 1
           created2 == x.created + created
           updated2 == x.updated + updated
           observed2 == x.observed + observed
           y == [x EXCEPT !.unsaved = x.unsaved \ {d}, !.persisted = persisted2,
                          !.created = created2, !.updated = updated2,
                          !.observed = observed2]
<1>1. x \in ProcessStates /\ IsFiniteSet(x.records) /\ x.pc = "persist"
  BY DEF ScrapeInv, LocalTypes, PersistRecord
<1>2. RunTracked(x, p \in DOMAIN runs, runs[p]) /\ Counted(p, x) /\ Covered(p, x)
  BY DEF ScrapeInv, ProcessInv
<1>3. p \in DOMAIN runs /\ Unfinished(runs[p]) /\ x.exit = None
  BY <1>1, <1>2 DEF RunTracked, Scraping
<1>4. /\ Repo!PersistReconciledRecord(p, Observed(d))
      /\ proc' = [proc EXCEPT ![p] = y]
      /\ UNCHANGED <<listed, steady, now, relists>>
  BY <1>1 DEF PersistRecord, ScrapeInv, LocalTypes, source
<1>5. created \in Nat /\ updated \in Nat /\ observed \in Nat
  OBVIOUS
<1>6. observed = IF observations' = observations THEN 0 ELSE 1
  OBVIOUS
<1> HIDE DEF created, updated, observed
<1>6a. persisted2 \in Nat /\ created2 \in Nat /\ updated2 \in Nat /\ observed2 \in Nat
  BY <1>1, <1>5 DEF ProcessStates
<1>6b. observed2 = x.observed + observed
  OBVIOUS
<1> HIDE DEF persisted2, created2, updated2, observed2
<1>7. /\ UNCHANGED runs
      /\ \/ observations' = observations
         \/ \E o : /\ o \notin observations /\ o.run_id = p
                   /\ observations' = observations \cup {o}
      /\ \/ UNCHANGED inventory
         \/ inventory' = Repo!Put(inventory, Observed(d).source_id, Repo!NewInventory)
  BY <1>4, PersistFacts
<1>8. Backed'
  <2>1. Cardinality(CompleteRuns) \in Nat /\ IsFiniteSet(CompleteRuns)
    BY FS_Subset, FS_CardinalityType DEF ScrapeInv, Backed, CompleteRuns
  <2>2. Repo!NewInventory.complete_absence_count = 0
    BY DEF Repo!NewInventory
  <2>3. \A s \in DOMAIN inventory' :
          /\ inventory'[s].complete_absence_count \in Nat
          /\ inventory'[s].complete_absence_count <= Cardinality(CompleteRuns)
    <3>1. CASE UNCHANGED inventory
      BY <3>1 DEF ScrapeInv, Backed, AbsencesBackedByCoverage, CompleteRuns
    <3>2. CASE inventory' = Repo!Put(inventory, Observed(d).source_id, Repo!NewInventory)
      BY <2>1, <2>2, <3>2
      DEF ScrapeInv, Backed, AbsencesBackedByCoverage, CompleteRuns, Repo!Put
    <3>3. QED  BY <1>7, <3>1, <3>2
  <2>4. QED  BY <1>7, <2>3 DEF ScrapeInv, Backed, AbsencesBackedByCoverage, CompleteRuns
<1>9. y \in ProcessStates
  BY <1>1, <1>6a DEF ProcessStates
<1>10. /\ y.pc = "persist" /\ y.run_known = x.run_known /\ y.run_finished = x.run_finished
       /\ y.found = x.found /\ y.processed = x.processed /\ y.truncated = x.truncated
       /\ y.interrupted = x.interrupted /\ y.unreported = x.unreported /\ y.exit = x.exit
       /\ y.observed = x.observed + observed /\ y.counts = x.counts
       /\ y.records = x.records /\ y.failures = x.failures
  BY <1>1, <1>6b DEF ProcessStates
<1>11. \A q : q # p => StoredUnder(q)' = StoredUnder(q)
  BY <1>7 DEF StoredUnder
<1>12. /\ IsFiniteSet(StoredUnder(p)')
       /\ Cardinality(StoredUnder(p)') = Cardinality(StoredUnder(p)) + observed
  <2>1. IsFiniteSet(StoredUnder(p)) /\ Cardinality(StoredUnder(p)) \in Nat
    BY <1>2, FS_CardinalityType DEF Counted
  <2>2. CASE observations' = observations
    BY <1>6, <2>1, <2>2 DEF StoredUnder
  <2>3. CASE observations' # observations
    <3>1. PICK o : /\ o \notin observations /\ o.run_id = p
                   /\ observations' = observations \cup {o}
      BY <1>7, <2>3
    <3>2. StoredUnder(p)' = StoredUnder(p) \cup {o} /\ o \notin StoredUnder(p)
      BY <3>1 DEF StoredUnder
    <3>3. QED  BY <1>6, <2>1, <2>3, <3>2, FS_AddElement
  <2>4. QED  BY <2>2, <2>3
<1> HIDE DEF y
<1>13. PICK z : z = y
  OBVIOUS
<1>14. ProcessInv(p, z)'
  <2>1. RunTracked(z, p \in DOMAIN runs, runs[p])'
    BY <1>1, <1>2, <1>7, <1>10, <1>13 DEF RunTracked, Scraping, Unfinished
  <2>2. ExitMatches(z, runs[p])'
    BY <1>3, <1>10, <1>13, TablesAssumption DEF ExitMatches, Repo!RepositoryAssumption
  <2>3. x.observed = Cardinality(StoredUnder(p)) /\ runs[p].counts = None
    BY <1>1, <1>2, <1>3 DEF Counted, Alive, Unfinished
  <2>4. x.counts = None
    BY <1>1, <1>2 DEF RunTracked, Scraping
  <2>5. Counted(p, z)'
    BY <1>2, <1>3, <1>7, <1>10, <1>12, <1>13, <2>3, <2>4 DEF Counted, Alive
  <2>6. Covered(p, z)'
    BY <1>1, <1>2, <1>4, <1>10, <1>13 DEF Covered, Alive, Scraping
  <2>7. QED  BY <2>1, <2>2, <2>5, <2>6 DEF ProcessInv
<1>15. LocalTypes' /\ \A q \in Processes : ProcessInv(q, proc[q])'
  BY <1>1, <1>4, <1>7, <1>9, <1>10, <1>11, <1>13, <1>14, OwnStep DEF ScrapeInv, LocalTypes
<1>16. QED  BY <1>8, <1>15 DEF ScrapeInv

\* The source changes its listings: what was listed without a break shrinks.
LEMMA RelistStep ==
    ASSUME ScrapeInv, NEW s \in SourceIds, NEW groups \in SUBSET (1..Groups),
           Relist(s, groups)
    PROVE  ScrapeInv'
<1>1. /\ UNCHANGED <<items, inventory, observations, aliases, runs, proc, now>>
      /\ listed' = [listed EXCEPT ![s] = groups]
      /\ steady' = [p \in Processes |-> {z \in steady[p] : z[2] \in listed[s] \ groups =>
                                                  z[1] # s /\ ~Reading(p, z[2])}]
      /\ relists' = relists + 1 /\ relists < MaxRelists
  BY DEF Relist, tables
<1>2. LocalTypes'
  <2>1. /\ listed' \in [SourceIds -> SUBSET (1..Groups)]
        /\ steady' \in [Processes -> SUBSET (SourceIds \X (1..Groups))]
    BY <1>1 DEF ScrapeInv, LocalTypes
  <2>2. relists' \in 0..MaxRelists
    BY <1>1, ScrapeRunAssumption DEF ScrapeInv, LocalTypes
  <2>3. QED  BY <1>1, <2>1, <2>2 DEF ScrapeInv, LocalTypes
<1>3. Backed'
  BY <1>1 DEF ScrapeInv, Backed, AbsencesBackedByCoverage
<1>4. ASSUME NEW p \in Processes
      PROVE  ProcessInv(p, proc[p])'
  <2>1. PICK x : x = proc[p] /\ x = proc'[p]
    BY <1>1
  <2>2. RunTracked(x, p \in DOMAIN runs, runs[p])' /\ ExitMatches(x, runs[p])'
    BY <1>1, <2>1 DEF ScrapeInv, ProcessInv, RunTracked, ExitMatches, Unfinished,
                      FinishedWith, Repo!CompletionStatus
  <2>3. Counted(p, x)'
    BY <1>1, <2>1 DEF ScrapeInv, ProcessInv, Counted, Alive, StoredUnder
  <2>4. \A u, g : <<u, g>> \in steady'[p] =>
            <<u, g>> \in steady[p] /\ (u = s /\ g \in listed[s] => g \in groups)
    BY <1>1
  <2>5. Alive(x) => \A u \in SourceIds, g \in 1..Groups :
            <<u, g>> \in steady'[p] => g \in listed'[u]
    BY <1>1, <2>1, <2>4 DEF ScrapeInv, LocalTypes, ProcessInv, Covered
  <2>6. Covered(p, x)
    BY <2>1 DEF ScrapeInv, ProcessInv
  <2>7. Covered(p, x)'
    BY <2>4, <2>5, <2>6 DEF Covered, Alive, ScrapeRunCoverage, SourceIdsOf
  <2>8. ProcessInv(p, x)'
    BY <2>2, <2>3, <2>7 DEF ProcessInv
  <2>9. QED  BY <2>1, <2>8
<1>5. QED  BY <1>2, <1>3, <1>4 DEF ScrapeInv

\* A step of the clock alone, and none at all.
LEMMA ClockStep ==
    ASSUME ScrapeInv, now' \in 1..MaxTime,
           UNCHANGED <<items, inventory, observations, aliases, runs, proc, listed,
                       steady, relists>>
    PROVE  ScrapeInv'
<1>1. LocalTypes' /\ Backed'
  BY DEF ScrapeInv, LocalTypes, Backed, AbsencesBackedByCoverage
<1>2. ASSUME NEW p \in Processes
      PROVE  ProcessInv(p, proc[p])'
  <2>1. PICK x : x = proc[p] /\ x = proc'[p]
    OBVIOUS
  <2>2. StoredUnder(p)' = StoredUnder(p)
    BY DEF StoredUnder
  <2>3. ProcessInv(p, x)'
    BY <2>1, <2>2, Frame DEF ScrapeInv
  <2>4. QED  BY <2>1, <2>3
<1>3. QED  BY <1>1, <1>2 DEF ScrapeInv

\* Empty tables and processes that have not started.
LEMMA ScrapeInit == Init => ScrapeInv
<1> SUFFICES ASSUME Init PROVE ScrapeInv
  OBVIOUS
<1>1. Fresh \in ProcessStates /\ IsFiniteSet(Fresh.records)
  <2>1. Fresh \in ProcessStates
    BY ScrapeRunAssumption DEF Fresh, ProcessStates, PCs
  <2>2. Fresh.records = {}
    BY DEF Fresh
  <2>3. QED  BY <2>1, <2>2, FS_EmptySet
<1>2. LocalTypes
  BY <1>1, ScrapeRunAssumption DEF Init, LocalTypes
<1>3. DOMAIN runs = {} /\ DOMAIN inventory = {} /\ observations = {}
  BY DEF Init, Repo!Init
<1>4. Backed
  BY <1>3, FS_EmptySet DEF Init, Repo!Init, Backed, AbsencesBackedByCoverage
<1>5. ASSUME NEW p \in Processes
      PROVE  ProcessInv(p, proc[p])
  <2>1. proc[p] = Fresh /\ Fresh.pc = "idle" /\ Fresh.exit = None
    BY DEF Init, Fresh
  <2>2. RunTracked(Fresh, p \in DOMAIN runs, runs[p])
    BY <1>3, <2>1 DEF RunTracked, Scraping
  <2>3. ExitMatches(Fresh, runs[p])
    BY <2>1, TablesAssumption DEF ExitMatches, Repo!RepositoryAssumption
  <2>4. StoredUnder(p) = {}
    BY <1>3 DEF StoredUnder
  <2>5. Counted(p, Fresh) /\ Covered(p, Fresh)
    BY <1>3, <2>1, <2>4, FS_EmptySet DEF Counted, Covered, Alive, Scraping
  <2>6. QED  BY <2>1, <2>2, <2>3, <2>5 DEF ProcessInv
<1>6. QED  BY <1>2, <1>4, <1>5 DEF ScrapeInv

\* Every step of every process, of the source and of the clock keeps the
\* invariant.
LEMMA ScrapeStep == ScrapeInv /\ PagesInv /\ [Next]_vars => ScrapeInv'
<1> SUFFICES ASSUME ScrapeInv, PagesInv, [Next]_vars PROVE ScrapeInv'
  OBVIOUS
<1>1. ASSUME NEW p \in Processes, StartRun(p) PROVE ScrapeInv'
  BY <1>1, StartStep
<1>2. ASSUME NEW p \in Processes, Step(p) \/ Interrupt(p) \/ Kill(p)
      PROVE  ScrapeInv'
  <2> DEFINE local == UNCHANGED <<tables, listed, steady, now, relists>>
  <2>1. LocalTypes /\ ProcessInv(p, proc[p])
    BY DEF ScrapeInv
  <2>2. CASE AssignRunId(p) \/ EndSearch(p)
    BY <2>1, <2>2, SearchBoundsMove, LocalStep DEF AssignRunId, EndSearch, source
  <2>3. CASE BeginGroup(p) \/ EndGroup(p)
    <3>1. local
      BY <2>3 DEF BeginGroup, EndGroup
    <3>2. QED  BY <2>1, <2>3, <3>1, BeginGroupMoves, EndGroupMoves, LocalStep
  <2>4. CASE \/ \E d \in Details : FetchDetail(p, d)
             \/ \E s \in SourceIds : DetailFails(p, s)
    <3>1. local
      BY <2>4 DEF FetchDetail, DetailFails, source
    <3>2. QED  BY <2>1, <2>4, <3>1, DetailsMove, LocalStep
  <2>5. CASE EndDetails(p) \/ \E d \in proc[p].unsaved : PersistFails(p, d)
    <3>1. local
      BY <2>5 DEF EndDetails, PersistFails, source
    <3>2. QED  BY <2>1, <2>5, <3>1, BatchMoves, LocalStep
  <2>6. CASE EndPersist(p) \/ \E d \in proc[p].unsaved : PersistConflict(p, d)
    <3>1. local
      BY <2>6 DEF EndPersist, PersistConflict, source
    <3>2. QED  BY <2>1, <2>6, <3>1, SavedMoves, LocalStep
  <2>7. CASE \E d \in proc[p].unsaved : PersistRecord(p, d)
    BY <2>7, PersistStep
  <2>8. CASE FinishRun(p)
    BY <2>8, FinishStep
  <2>9. CASE MarkFinished(p) \/ Interrupt(p)
    <3>1. local
      BY <2>9 DEF MarkFinished, Interrupt, source
    <3>2. QED  BY <2>1, <2>9, <3>1, MarkMoves, LocalStep
  <2>10. CASE \/ WriteOutput(p)
              \/ FinalizationError(p)
              \/ Kill(p)
              \/ FinalizeFailed(p) /\ NothingToFinalize(proc[p])
    <3>1. local
      BY <2>10 DEF WriteOutput, FinalizationError, Kill, FinalizeFailed, source
    <3>2. QED  BY <2>1, <2>10, <3>1, EndMoves, LocalStep
  <2>11. CASE FinalizeFailed(p) /\ ~NothingToFinalize(proc[p])
    BY <2>11, FinalizeStep
  <2>12. QED
    BY <1>2, <2>2, <2>3, <2>4, <2>5, <2>6, <2>7, <2>8, <2>9, <2>10, <2>11 DEF Step
<1>3. ASSUME NEW s \in SourceIds, NEW groups \in SUBSET (1..Groups), Relist(s, groups)
      PROVE  ScrapeInv'
  BY <1>3, RelistStep
<1>4. CASE Tick
  <2>1. now' \in 1..MaxTime
    BY <1>4, ScrapeRunAssumption DEF Tick, ScrapeInv, LocalTypes
  <2>2. QED  BY <1>4, <2>1, ClockStep DEF Tick, tables
<1>5. CASE UNCHANGED vars
  <2>1. now' \in 1..MaxTime
    BY <1>5 DEF vars, ScrapeInv, LocalTypes
  <2>2. QED  BY <1>5, <2>1, ClockStep DEF vars
<1>6. QED  BY <1>1, <1>2, <1>3, <1>4, <1>5 DEF Next

\* Storing a record takes it out of the batch and leaves main() in its loop.
LEMMA PersistLoops ==
    ASSUME NEW p \in Processes, NEW d, PersistRecord(p, d),
           proc \in [Processes -> ProcessStates]
    PROVE  \E z : /\ proc' = [proc EXCEPT ![p] = z]
                  /\ z.pc = "persist" /\ z.unsaved = proc[p].unsaved \ {d}
<1> DEFINE x == proc[p]
           created == x.created + (IF d.source_id \in DOMAIN items THEN 0 ELSE 1)
           updated == x.updated + (IF ResultUpdated(Observed(d)) THEN 1 ELSE 0)
           observed == x.observed + (IF observations' = observations THEN 0 ELSE 1)
           persisted == x.persisted + 1
           z == [x EXCEPT !.unsaved = x.unsaved \ {d}, !.persisted = persisted,
                          !.created = created, !.updated = updated, !.observed = observed]
<1>1. proc' = [proc EXCEPT ![p] = z] /\ x.pc = "persist"
  BY ZenonT(60) DEF PersistRecord
<1> HIDE DEF created, updated, observed, persisted
<1>2. z.pc = x.pc /\ z.unsaved = x.unsaved \ {d}
  BY DEF ProcessStates
<1>3. QED  BY <1>1, <1>2, Zenon

\* What the pages of a group show keeps up with the source: only a removal from
\* the group that is being read can lose a listing, and then the history
\* variable lets go of the whole group.
LEMMA PagesStep == ScrapeInv /\ PagesInv /\ [Next]_vars => PagesInv'
<1> SUFFICES ASSUME ScrapeInv, PagesInv, [Next]_vars PROVE PagesInv'
  OBVIOUS
<1> DEFINE paged(p, x) ==
             x.pc = "pages" =>
               /\ x.processed < Groups /\ ~x.truncated
               /\ \A s \in Matches[p] : <<s, x.processed + 1>> \in steady'[p] => s \in shown'[p]
<1>1. proc \in [Processes -> ProcessStates]
  BY DEF ScrapeInv, LocalTypes
<1>2. ASSUME NEW p \in Processes, NEW y,
             proc' = [proc EXCEPT ![p] = y], paged(p, y),
             shown' \in [Processes -> SUBSET SourceIds],
             \A q \in Processes \ {p} : shown'[q] = shown[q] /\ steady'[q] = steady[q]
      PROVE  PagesInv'
  BY <1>1, <1>2 DEF PagesInv
<1>3. ASSUME NEW p \in Processes, NEW y, proc' = [proc EXCEPT ![p] = y], y.pc # "pages",
             UNCHANGED <<shown, steady>>
      PROVE  PagesInv'
  BY <1>2, <1>3 DEF PagesInv
<1>4. ASSUME NEW p \in Processes, StartRun(p)
      PROVE  PagesInv'
  <2>1. proc' = [proc EXCEPT ![p] = [proc[p] EXCEPT !.pc = "starting"]]
    BY <1>1, <1>4 DEF StartRun
  <2>2. [proc[p] EXCEPT !.pc = "starting"].pc = "starting"
    BY <1>1 DEF ProcessStates
  <2>3. \A q \in Processes \ {p} : steady'[q] = steady[q]
    BY <1>4 DEF StartRun, ScrapeInv, LocalTypes
  <2>4. QED  BY <1>2, <1>4, <2>1, <2>2, <2>3 DEF StartRun, PagesInv
<1>5. ASSUME NEW p \in Processes, BeginGroup(p)
      PROVE  PagesInv'
  <2> DEFINE x == proc[p]
             g == x.processed + 1
             group == {s \in Matches[p] : g \in listed[s]}
             y == [x EXCEPT !.pc = "pages"]
  <2>1. /\ x \in ProcessStates /\ x.pc = "search" /\ g <= Groups
        /\ Cardinality(x.found) < Limit[p] /\ IsFiniteSet(x.records)
    BY <1>1, <1>5 DEF BeginGroup, ScrapeInv, LocalTypes
  <2>2. proc' = [proc EXCEPT ![p] = y] /\ UNCHANGED steady
    BY <1>1, <1>5 DEF BeginGroup
  <2>3. /\ shown' \in [Processes -> SUBSET SourceIds] /\ shown'[p] = group
        /\ \A q \in Processes \ {p} : shown'[q] = shown[q]
    BY <1>5, ScrapeRunAssumption DEF BeginGroup, PagesInv
  <2>4. Covered(p, x)
    BY DEF ScrapeInv, ProcessInv
  <2>5. ~x.truncated
    <3>1. Cardinality(x.found) \in Nat
      BY <2>1, ReportTypes
    <3>2. QED  BY <2>1, <2>4, <3>1, ScrapeRunAssumption DEF Covered
  <2>6. g \in 1..Groups /\ x.processed < Groups
    BY <2>1, ScrapeRunAssumption DEF ProcessStates
  <2>7. ASSUME NEW s \in Matches[p], <<s, g>> \in steady[p]
        PROVE  s \in group
    <3>1. s \in SourceIds
      BY ScrapeRunAssumption
    <3>2. g \in listed[s]
      BY <2>1, <2>4, <2>6, <2>7, <3>1 DEF Covered, Alive
    <3>3. QED  BY <3>2
  <2>8. y.processed = x.processed /\ y.truncated = x.truncated
    BY <2>1 DEF ProcessStates
  <2> HIDE DEF group, y
  <2>9. paged(p, y)
    BY <2>2, <2>3, <2>5, <2>6, <2>7, <2>8
  <2>10. QED  BY <1>2, <2>2, <2>3, <2>9
<1>6. ASSUME NEW p \in Processes, EndGroup(p)
      PROVE  PagesInv'
  <2>1. PICK found, truncated :
          proc' = [proc EXCEPT ![p].pc = "search", ![p].found = found,
                               ![p].processed = proc[p].processed + 1,
                               ![p].truncated = truncated]
    BY <1>6 DEF EndGroup
  <2>2. proc' = [proc EXCEPT ![p] =
                   [proc[p] EXCEPT !.pc = "search", !.found = found,
                                   !.processed = proc[p].processed + 1,
                                   !.truncated = truncated]]
    BY <1>1, <2>1
  <2>3. [proc[p] EXCEPT !.pc = "search", !.found = found,
                        !.processed = proc[p].processed + 1, !.truncated = truncated].pc
            = "search"
    BY <1>1 DEF ProcessStates
  <2>4. /\ shown' \in [Processes -> SUBSET SourceIds] /\ UNCHANGED steady
        /\ \A q \in Processes \ {p} : shown'[q] = shown[q]
    BY <1>6 DEF EndGroup, PagesInv
  <2>5. QED  BY <1>2, <2>2, <2>3, <2>4
<1>7. ASSUME NEW p \in Processes, NEW pc \in {"done", "killed"}, NEW exit, NEW z,
             proc' = [proc EXCEPT ![p] = Ended(z, pc, exit)], UNCHANGED source
      PROVE  PagesInv'
  <2>1. Ended(z, pc, exit).pc = pc
    BY DEF Ended, Fresh
  <2>2. QED  BY <1>3, <1>7, <2>1 DEF source
<1>8. ASSUME NEW p \in Processes, Step(p) \/ Interrupt(p) \/ Kill(p),
             ~BeginGroup(p), ~EndGroup(p)
      PROVE  PagesInv'
  <2>1. UNCHANGED source
    BY <1>8
    DEF Step, Interrupt, Kill, AssignRunId, EndSearch, FetchDetail, DetailFails, EndDetails,
        PersistRecord, PersistFails, PersistConflict, EndPersist, FinishRun, MarkFinished,
        WriteOutput, FinalizeFailed, FinalizationError
  <2>2. ASSUME NEW y, proc' = [proc EXCEPT ![p] = y], y.pc # "pages"
        PROVE  PagesInv'
    BY <1>3, <2>1, <2>2 DEF source
  <2>3. CASE AssignRunId(p) \/ EndSearch(p) \/ EndDetails(p) \/ FinishRun(p)
             \/ MarkFinished(p) \/ Interrupt(p)
    <3>1. proc' = [proc EXCEPT ![p] = proc'[p]] /\ proc'[p].pc # "pages"
      BY <1>1, <2>3
      DEF AssignRunId, EndSearch, EndDetails, FinishRun, MarkFinished, Interrupt, ProcessStates
    <3>2. QED  BY <2>2, <3>1
  <2>4. CASE \/ \E d \in Details : FetchDetail(p, d)
             \/ \E s \in SourceIds : DetailFails(p, s)
             \/ \E d \in proc[p].unsaved : PersistFails(p, d)
    <3>1. proc' = [proc EXCEPT ![p] = proc'[p]] /\ proc'[p].pc = proc[p].pc
      <4>1. CASE \E d \in Details : FetchDetail(p, d)
        BY <1>1, <4>1 DEF FetchDetail, ProcessStates
      <4>2. CASE \E s \in SourceIds : DetailFails(p, s)
        BY <1>1, <4>2 DEF DetailFails, ProcessStates
      <4>3. CASE \E d \in proc[p].unsaved : PersistFails(p, d)
        BY <1>1, <4>3 DEF PersistFails, ProcessStates
      <4>4. QED  BY <2>4, <4>1, <4>2, <4>3
    <3>2. proc[p].pc \in {"details", "persist"}
      BY <2>4 DEF FetchDetail, DetailFails, PersistFails
    <3>3. QED  BY <2>2, <3>1, <3>2
  <2>5. CASE \E d \in proc[p].unsaved : PersistRecord(p, d)
    BY <1>1, <2>2, <2>5, PersistLoops
  <2>6. CASE EndPersist(p) \/ \E d \in proc[p].unsaved : PersistConflict(p, d)
    <3>1. PICK n \in Nat, pc \in {"finish", "handler"} :
            proc' = [proc EXCEPT ![p] = Saved([proc[p] EXCEPT !.save_failures = n, !.pc = pc])]
      <4>1. [proc[p] EXCEPT !.pc = "finish"]
              = [proc[p] EXCEPT !.save_failures = proc[p].save_failures, !.pc = "finish"]
        BY <1>1 DEF ProcessStates
      <4>2. EndPersist(p) =>
              proc' = [proc EXCEPT ![p] = Saved([proc[p] EXCEPT !.pc = "finish"])]
        BY <1>1 DEF EndPersist
      <4>3. \A d : PersistConflict(p, d) => proc' = [proc EXCEPT ![p] =
              Saved([proc[p] EXCEPT !.save_failures = proc[p].save_failures + 1,
                                    !.pc = "handler"])]
        BY DEF PersistConflict
      <4>4. proc[p].save_failures \in Nat /\ proc[p].save_failures + 1 \in Nat
        BY <1>1 DEF ProcessStates
      <4>5. CASE EndPersist(p)
        BY <4>1, <4>2, <4>4, <4>5, Zenon
      <4>6. CASE \E d \in proc[p].unsaved : PersistConflict(p, d)
        BY <4>3, <4>4, <4>6, Zenon
      <4>7. QED  BY <2>6, <4>5, <4>6
    <3>2. Saved([proc[p] EXCEPT !.save_failures = n, !.pc = pc]).pc = pc
      BY <1>1 DEF Saved, ProcessStates
    <3>3. QED  BY <2>2, <3>1, <3>2
  <2>7. CASE WriteOutput(p) \/ FinalizeFailed(p) \/ FinalizationError(p) \/ Kill(p)
    BY <1>1, <1>7, <2>1, <2>7 DEF WriteOutput, FinalizeFailed, FinalizationError, Kill
  <2>8. QED  BY <1>8, <2>3, <2>4, <2>5, <2>6, <2>7 DEF Step
<1>9. ASSUME NEW s \in SourceIds, NEW groups \in SUBSET (1..Groups), Relist(s, groups)
      PROVE  PagesInv'
  <2>1. /\ UNCHANGED proc /\ shown' \in [Processes -> SUBSET SourceIds]
        /\ \A p \in Processes :
             /\ shown'[p] \in Shows(p, s, listed[s], groups)
             /\ steady'[p] = {z \in steady[p] : z[2] \in listed[s] \ groups =>
                                                  z[1] # s /\ ~Reading(p, z[2])}
    BY <1>9 DEF Relist
  <2>2. ASSUME NEW p \in Processes, proc[p].pc = "pages", NEW t \in Matches[p],
               <<t, proc[p].processed + 1>> \in steady'[p]
        PROVE  t \in shown'[p]
    <3> DEFINE g == proc[p].processed + 1
    <3>1. <<t, g>> \in steady[p] /\ (g \in listed[s] \ groups => ~Reading(p, g))
      BY <2>1, <2>2
    <3>2. \A h : Reading(p, h) <=> h = g
      BY <2>2 DEF Reading
    <3>3. ~\E h \in listed[s] \ groups : Reading(p, h)
      BY <3>1, <3>2
    <3>4. shown[p] \subseteq shown'[p]
      BY <2>1, <3>3 DEF Shows
    <3>5. t \in shown[p]
      BY <2>2, <3>1 DEF PagesInv
    <3>6. QED  BY <3>4, <3>5
  <2>3. QED  BY <2>1, <2>2 DEF PagesInv
<1>10. CASE Tick \/ UNCHANGED vars
  BY <1>10 DEF Tick, vars, PagesInv
<1>11. QED  BY <1>4, <1>5, <1>6, <1>8, <1>9, <1>10 DEF Next

-----------------------------------------------------------------------------
(* Safety                                                                  *)

\* The invariant holds in every reachable state.
LEMMA ScrapeSafe == Spec => [](ScrapeInv /\ PagesInv)
<1>1. Init => PagesInv
  BY DEF Init, Fresh, PagesInv
<1>2. QED  BY <1>1, ScrapeInit, ScrapeStep, PagesStep, PTL DEF Spec

\* No item has more absences than there are runs stored with complete coverage,
\* wherever main() is interrupted between the commit and the note of it.
THEOREM AbsencesBacked == Spec => []AbsencesBackedByCoverage
<1>1. ScrapeInv => AbsencesBackedByCoverage
  BY DEF ScrapeInv, Backed
<1>2. QED  BY <1>1, ScrapeSafe, PTL

\* The observations_created of a run are those stored under its id.
THEOREM CountsAreTrue == Spec => []CountsMatchHistory
<1>1. ScrapeInv => CountsMatchHistory
  BY DEF ScrapeInv, Backed, ProcessInv, Counted, CountsMatchHistory, StoredUnder
<1>2. QED  BY <1>1, ScrapeSafe, PTL

\* The exit code of main() agrees with the run it stored.
THEOREM ExitCodesAreTrue == Spec => []ExitCodeMatchesRun
<1>1. ScrapeInv => ExitCodeMatchesRun
  BY DEF ScrapeInv, ProcessInv, ExitMatches, ExitCodeMatchesRun
<1>2. QED  BY <1>1, ScrapeSafe, PTL

-----------------------------------------------------------------------------
(* What is listed without a break                                          *)

\* Scrapes without --keyword.
NoKeyword == \A p \in Processes : Matches[p] = SourceIds

\* Only finish_scrape_run leads past the end of the batch to a committed run.
LEMMA OnlyFinishCommits ==
    ASSUME ScrapeInv, [Next]_vars, NEW p \in Processes,
           proc[p].pc = "finish", proc'[p].pc = "committed"
    PROVE  FinishRun(p)
<1>1. proc \in [Processes -> ProcessStates]
  BY DEF ScrapeInv, LocalTypes
<1>2. proc' # proc
  OBVIOUS
<1>3. PICK q \in Processes : StartRun(q) \/ Step(q) \/ Interrupt(q) \/ Kill(q)
  BY <1>2 DEF Next, Relist, Tick, vars
<1>4. CASE StartRun(q) \/ Interrupt(q) \/ Kill(q)
  <2>1. CASE StartRun(q)
    BY <1>1, <2>1 DEF StartRun
  <2>2. CASE Interrupt(q)
    BY <1>1, <2>2 DEF Interrupt, ProcessStates
  <2>3. CASE Kill(q)
    <3>1. proc' = [proc EXCEPT ![q] = Ended(proc[q], "killed", None)]
      BY <2>3 DEF Kill
    <3>2. Ended(proc[q], "killed", None).pc = "killed"
      BY <1>1, EndedFields
    <3>3. QED  BY <1>1, <3>1, <3>2
  <2>4. QED  BY <1>4, <2>1, <2>2, <2>3
<1>5. CASE AssignRunId(q) \/ BeginGroup(q) \/ EndGroup(q) \/ EndSearch(q) \/ EndDetails(q)
  BY <1>1, <1>5 DEF AssignRunId, BeginGroup, EndGroup, EndSearch, EndDetails
<1>6. CASE \/ \E d \in Details : FetchDetail(q, d)
           \/ \E s \in SourceIds : DetailFails(q, s)
  BY <1>1, <1>6 DEF FetchDetail, DetailFails
<1>7. CASE \E d \in proc[q].unsaved :
             PersistRecord(q, d) \/ PersistFails(q, d) \/ PersistConflict(q, d)
  BY <1>1, <1>7 DEF PersistRecord, PersistFails, PersistConflict
<1>8. CASE EndPersist(q) \/ MarkFinished(q) \/ WriteOutput(q)
  BY <1>1, <1>8 DEF EndPersist, MarkFinished, WriteOutput
<1>9. CASE FinalizeFailed(q) \/ FinalizationError(q)
  BY <1>1, <1>9 DEF FinalizeFailed, FinalizationError
<1>10. CASE FinishRun(q)
  BY <1>1, <1>10 DEF FinishRun
<1>11. QED  BY <1>3, <1>4, <1>5, <1>6, <1>7, <1>8, <1>9, <1>10 DEF Step

\* A succeeded run with complete coverage has every listing that was there
\* without a break in its batch, so that reconciliation counts it as seen.
LEMMA SteadySeen ==
    ASSUME NoKeyword, ScrapeInv, NEW p \in Processes, FinishRun(p), NEW s \in DOMAIN inventory,
           \E g \in 1..Groups : <<s, g>> \in steady[p]
    PROVE  inventory'[s].complete_absence_count <= inventory[s].complete_absence_count
<1> DEFINE x == proc[p]
           status == IF x.failures + x.save_failures > 0 THEN "partial" ELSE "succeeded"
           ids == SourceIdsOf(x.records)
<1>1. x \in ProcessStates /\ IsFiniteSet(x.records) /\ x.pc = "finish" /\ now \in 1..MaxTime
  BY DEF ScrapeInv, LocalTypes, FinishRun
<1>2. p \in DOMAIN runs /\ Covered(p, x)
  BY <1>1 DEF ScrapeInv, ProcessInv, RunTracked
<1>3. x.coverage \in CoverageRecords /\ x.counts \in CountRecords
      /\ x.coverage = ScrapeRunCoverage(x, x.persisted, x.save_failures)
  BY <1>1, <1>2 DEF Covered, ProcessStates
<1>4. /\ status \in Repo!ScrapeRunStatus
      /\ Repo!FinishScrapeRun(p, status, x.coverage, x.counts, ids, now)
  BY DEF FinishRun, Repo!ScrapeRunStatus
<1>5. PICK g \in 1..Groups : <<s, g>> \in steady[p]
  OBVIOUS
<1>6. s \in SourceIds
  BY <1>5 DEF ScrapeInv, LocalTypes
<1>7. inventory[s].complete_absence_count \in Nat
  BY DEF ScrapeInv, Backed
<1>8. ASSUME status = "succeeded", Repo!CompletionStatus(x.coverage) = "complete"
      PROVE  s \in ids
  <2>1. x.failures = 0
    BY <1>1, <1>8 DEF ProcessStates
  <2>2. x.coverage.enumeration_complete
    BY <1>8 DEF Repo!CompletionStatus
  <2>3. ~x.truncated /\ x.processed = Groups
    <3>1. ScrapeRunCoverage(x, x.persisted, x.save_failures).enumeration_complete
            = (~x.truncated /\ x.processed = Groups)
      BY Zenon DEF ScrapeRunCoverage
    <3>2. QED  BY <1>3, <2>2, <3>1, Zenon
  <2>4. s \in x.found
    BY <1>1, <1>2, <1>5, <1>6, <2>3 DEF Covered, Scraping, NoKeyword
  <2>5. QED  BY <1>1, <1>2, <2>1, <2>4 DEF Covered
<1> HIDE DEF status, ids
<1>9. \/ UNCHANGED inventory
      \/ /\ status = "succeeded" /\ Repo!CompletionStatus(x.coverage) = "complete"
         /\ s \in ids => inventory'[s].complete_absence_count
                            <= inventory[s].complete_absence_count
  BY <1>1, <1>2, <1>3, <1>4, FinishFacts DEF ScrapeInv
<1>10. QED  BY <1>7, <1>8, <1>9

\* A scrape without --keyword never counts a listing absent that some product
\* group listed without a break since it started, whatever the limit, failed
\* pages, failed records, interrupts and other scrapes do: unless another
\* listing was removed from that group between its pages, which nothing notices.
THEOREM SteadyListingsKept == ASSUME NoKeyword PROVE Spec => SteadyNeverAbsent
<1> DEFINE kept == \A p \in Processes : proc[p].pc = "finish" /\ proc'[p].pc = "committed" =>
                \A s \in DOMAIN inventory : (\E g \in 1..Groups : <<s, g>> \in steady[p]) =>
                    inventory'[s].complete_absence_count <= inventory[s].complete_absence_count
<1>1. ScrapeInv /\ [Next]_vars => kept
  BY OnlyFinishCommits, SteadySeen
<1>2. QED  BY <1>1, ScrapeSafe, PTL DEF Spec, SteadyNeverAbsent

-----------------------------------------------------------------------------
(* Why a scrape ends                                                       *)

\* How far main() is from its end, and how much the loop it is in has left.
Rank(pc) ==
    CASE pc = "idle" -> 9 [] pc = "starting" -> 8 [] pc \in {"search", "pages"} -> 7
      [] pc = "details" -> 6 [] pc = "persist" -> 5 [] pc = "finish" -> 4
      [] pc = "committed" -> 3 [] pc = "output" -> 2 [] pc = "handler" -> 1
      [] OTHER -> 0

Work(x) ==
    CASE x.pc = "search" -> 2 * (Groups - x.processed) + 1
      [] x.pc = "pages" -> 2 * (Groups - x.processed)
      [] x.pc = "details" -> Cardinality(x.pending)
      [] x.pc = "persist" -> Cardinality(x.unsaved)
      [] OTHER -> 0

\* The pair <<rank, work>> of naturals becomes smaller, lexicographically.
Closer(x, y) ==
    /\ Rank(x.pc) \in Nat /\ Work(x) \in Nat
    /\ Rank(y.pc) < Rank(x.pc) \/ (Rank(y.pc) = Rank(x.pc) /\ Work(y) < Work(x))

AdvanceStep == \A p \in Processes : proc'[p] = proc[p] \/ Closer(proc[p], proc'[p])

\* Whatever moves a scrape process - its own steps, an error, a signal - moves
\* it closer to its end, and nothing another process, the source or the clock
\* does takes it back: no loop of main() starts anew, and an ended process
\* never moves again.  This is the part of RunEnds that needs no fairness.
ProcessesAdvance == [][AdvanceStep]_vars

\* The loop over the batch is over a finite set.
BatchFinite == \A p \in Processes : IsFiniteSet(proc[p].unsaved)

\* What one step of a process can do to its variables.
Transition(x, y) ==
    \/ /\ Rank(y.pc) < Rank(x.pc)
       /\ y.unsaved \in {x.unsaved, x.records, {}}
    \/ /\ x.pc = "search" /\ y.pc = "pages" /\ y.unsaved = x.unsaved
       /\ x.processed < Groups /\ y.processed = x.processed
    \/ /\ x.pc = "pages" /\ y.pc = "search" /\ y.unsaved = x.unsaved
       /\ x.processed < Groups /\ y.processed = x.processed + 1
    \/ /\ x.pc = "details" /\ y.pc = "details" /\ y.unsaved = x.unsaved
       /\ \E s \in x.pending : y.pending = x.pending \ {s}
    \/ /\ x.pc = "persist" /\ y.pc = "persist"
       /\ \E d \in x.unsaved : y.unsaved = x.unsaved \ {d}

\* A step moves no process, or one of them by a transition.
LEMMA ProcessMoves ==
    ASSUME ScrapeInv, PagesInv, [Next]_vars, proc' # proc
    PROVE  \E p \in Processes, y \in ProcessStates :
               proc' = [proc EXCEPT ![p] = y] /\ Transition(proc[p], y)
<1>1. /\ proc \in [Processes -> ProcessStates]
      /\ proc' \in [Processes -> ProcessStates]
  <2>1. ScrapeInv'
    BY ScrapeStep
  <2>2. QED  BY <2>1 DEF ScrapeInv, LocalTypes
<1>2. PICK p \in Processes : StartRun(p) \/ Step(p) \/ Interrupt(p) \/ Kill(p)
  BY DEF Next, Relist, Tick, vars
<1> DEFINE x == proc[p]
           y == proc'[p]
<1>3. x \in ProcessStates /\ y \in ProcessStates
  BY <1>1
<1>4. ASSUME NEW z, proc' = [proc EXCEPT ![p] = z], Transition(x, z)
      PROVE  proc' = [proc EXCEPT ![p] = y] /\ Transition(x, y)
  <2>1. y = z
    BY <1>1, <1>4
  <2>2. QED  BY <1>4, <2>1
<1> HIDE DEF y
<1>5. ASSUME StartRun(p)
      PROVE  proc' = [proc EXCEPT ![p] = y] /\ Transition(x, y)
  <2> DEFINE z == [x EXCEPT !.pc = "starting"]
  <2>1. proc' = [proc EXCEPT ![p] = z] /\ x.pc = "idle"
    BY <1>1, <1>5 DEF StartRun
  <2>2. Transition(x, z)
    BY <1>3, <2>1 DEF Transition, Rank, ProcessStates
  <2> HIDE DEF z
  <2>3. QED  BY <1>4, <2>1, <2>2
<1>6. ASSUME Interrupt(p)
      PROVE  proc' = [proc EXCEPT ![p] = y] /\ Transition(x, y)
  <2> DEFINE z == [x EXCEPT !.pc = "handler", !.interrupted = TRUE]
  <2>1. proc' = [proc EXCEPT ![p] = z] /\ x.pc \in PCs \ {"idle", "done", "killed", "handler"}
    BY <1>1, <1>6 DEF Interrupt, Active, ProcessStates
  <2>2. Transition(x, z)
    BY <1>3, <2>1 DEF Transition, Rank, ProcessStates, PCs
  <2> HIDE DEF z
  <2>3. QED  BY <1>4, <2>1, <2>2
<1>7. ASSUME NEW z \in ProcessStates, NEW pc \in {"done", "killed"}, NEW exit,
             proc' = [proc EXCEPT ![p] = Ended(z, pc, exit)],
             x.pc \in PCs \ {"idle", "done", "killed"}
      PROVE  proc' = [proc EXCEPT ![p] = y] /\ Transition(x, y)
  <2>1. Ended(z, pc, exit).pc = pc /\ Ended(z, pc, exit).unsaved = {}
    BY DEF Ended, Fresh
  <2>2. Transition(x, Ended(z, pc, exit))
    BY <1>7, <2>1 DEF Transition, Rank, PCs
  <2>3. QED  BY <1>4, <1>7, <2>2
<1>8. ASSUME Kill(p)
      PROVE  proc' = [proc EXCEPT ![p] = y] /\ Transition(x, y)
  <2>1. x.pc \in PCs \ {"idle", "done", "killed"}
    BY <1>1, <1>8 DEF Kill, Active, ProcessStates
  <2>2. QED  BY <1>3, <1>7, <1>8, <2>1 DEF Kill
<1>9. ASSUME AssignRunId(p)
      PROVE  proc' = [proc EXCEPT ![p] = y] /\ Transition(x, y)
  <2> DEFINE z == [x EXCEPT !.pc = "search", !.run_known = TRUE]
  <2>1. proc' = [proc EXCEPT ![p] = z] /\ x.pc = "starting"
    BY <1>1, <1>9 DEF AssignRunId
  <2>2. Transition(x, z)
    BY <1>3, <2>1 DEF Transition, Rank, ProcessStates
  <2> HIDE DEF z
  <2>3. QED  BY <1>4, <2>1, <2>2
<1>10. ASSUME BeginGroup(p) \/ EndGroup(p)
       PROVE  proc' = [proc EXCEPT ![p] = y] /\ Transition(x, y)
  <2>1. CASE BeginGroup(p)
    <3> DEFINE z == [x EXCEPT !.pc = "pages"]
    <3>1. /\ proc' = [proc EXCEPT ![p] = z] /\ x.pc = "search"
          /\ x.processed + 1 <= Groups
      BY <1>1, <2>1 DEF BeginGroup
    <3>2. x.processed < Groups
      BY <1>3, <3>1, ScrapeRunAssumption DEF ProcessStates
    <3>3. Transition(x, z)
      BY <1>3, <3>1, <3>2 DEF Transition, ProcessStates
    <3> HIDE DEF z
    <3>4. QED  BY <1>4, <3>1, <3>3
  <2>2. CASE EndGroup(p)
    <3>1. PICK found, truncated :
            proc' = [proc EXCEPT ![p].pc = "search", ![p].found = found,
                                 ![p].processed = x.processed + 1,
                                 ![p].truncated = truncated]
      BY <2>2 DEF EndGroup
    <3> DEFINE z == [x EXCEPT !.pc = "search", !.found = found,
                              !.processed = x.processed + 1, !.truncated = truncated]
    <3>2. proc' = [proc EXCEPT ![p] = z] /\ x.pc = "pages" /\ x.processed < Groups
      BY <1>1, <2>2, <3>1 DEF EndGroup, PagesInv
    <3>3. Transition(x, z)
      BY <1>3, <3>2 DEF Transition, ProcessStates
    <3> HIDE DEF z
    <3>4. QED  BY <1>4, <3>2, <3>3
  <2>3. QED  BY <1>10, <2>1, <2>2
<1>11. ASSUME NEW d \in Details, FetchDetail(p, d)
       PROVE  proc' = [proc EXCEPT ![p] = y] /\ Transition(x, y)
  <2> DEFINE z == [x EXCEPT !.pending = x.pending \ {d.source_id},
                            !.records = x.records \cup {d}]
  <2>1. proc' = [proc EXCEPT ![p] = z] /\ x.pc = "details" /\ d.source_id \in x.pending
    BY <1>1, <1>11 DEF FetchDetail
  <2>2. Transition(x, z)
    BY <1>3, <2>1 DEF Transition, ProcessStates
  <2> HIDE DEF z
  <2>3. QED  BY <1>4, <2>1, <2>2
<1>12. ASSUME NEW s \in SourceIds, DetailFails(p, s)
       PROVE  proc' = [proc EXCEPT ![p] = y] /\ Transition(x, y)
  <2> DEFINE z == [x EXCEPT !.pending = x.pending \ {s}, !.failures = x.failures + 1]
  <2>1. proc' = [proc EXCEPT ![p] = z] /\ x.pc = "details" /\ s \in x.pending
    BY <1>1, <1>12 DEF DetailFails
  <2>2. Transition(x, z)
    BY <1>3, <2>1 DEF Transition, ProcessStates
  <2> HIDE DEF z
  <2>3. QED  BY <1>4, <2>1, <2>2
<1>13. ASSUME EndDetails(p)
       PROVE  proc' = [proc EXCEPT ![p] = y] /\ Transition(x, y)
  <2> DEFINE z == [x EXCEPT !.pc = "persist", !.unsaved = x.records,
                            !.coverage = ScrapeRunCoverage(x, 0, 0)]
  <2>1. proc' = [proc EXCEPT ![p] = z] /\ x.pc = "details"
    BY <1>1, <1>13 DEF EndDetails
  <2>2. Transition(x, z)
    BY <1>3, <2>1 DEF Transition, Rank, ProcessStates
  <2> HIDE DEF z
  <2>3. QED  BY <1>4, <2>1, <2>2
<1>14. ASSUME NEW d \in x.unsaved, PersistRecord(p, d)
       PROVE  proc' = [proc EXCEPT ![p] = y] /\ Transition(x, y)
  <2>1. PICK z : /\ proc' = [proc EXCEPT ![p] = z]
                 /\ z.pc = "persist" /\ z.unsaved = x.unsaved \ {d}
    BY <1>1, <1>14, PersistLoops
  <2>2. x.pc = "persist"
    BY <1>14 DEF PersistRecord
  <2>3. Transition(x, z)
    BY <2>1, <2>2 DEF Transition
  <2>4. QED  BY <1>4, <2>1, <2>3
<1>15. ASSUME NEW d \in x.unsaved, PersistFails(p, d)
       PROVE  proc' = [proc EXCEPT ![p] = y] /\ Transition(x, y)
  <2> DEFINE z == [x EXCEPT !.unsaved = x.unsaved \ {d}, !.save_failures = x.save_failures + 1]
  <2>1. proc' = [proc EXCEPT ![p] = z] /\ x.pc = "persist"
    BY <1>1, <1>15 DEF PersistFails
  <2>2. Transition(x, z)
    BY <1>3, <2>1 DEF Transition, ProcessStates
  <2> HIDE DEF z
  <2>3. QED  BY <1>4, <2>1, <2>2
<1>16. ASSUME NEW d \in x.unsaved, PersistConflict(p, d)
       PROVE  proc' = [proc EXCEPT ![p] = y] /\ Transition(x, y)
  <2> DEFINE n == x.save_failures + 1
             z == [x EXCEPT !.save_failures = n, !.pc = "handler"]
  <2>1. proc' = [proc EXCEPT ![p] = Saved(z)] /\ x.pc = "persist"
    BY <1>1, <1>16 DEF PersistConflict
  <2>0. n \in Nat
    BY <1>3 DEF ProcessStates
  <2> HIDE DEF n
  <2>2. z.pc = "handler" /\ z.unsaved = x.unsaved /\ z \in ProcessStates
    BY <1>3, <2>0 DEF ProcessStates, PCs
  <2> HIDE DEF z
  <2>3. Saved(z).pc = "handler" /\ Saved(z).unsaved = x.unsaved
    BY <2>2 DEF Saved, ProcessStates
  <2>4. Transition(x, Saved(z))
    BY <2>1, <2>3 DEF Transition, Rank
  <2>5. QED  BY <1>4, <2>1, <2>4
<1>17. ASSUME EndPersist(p)
       PROVE  proc' = [proc EXCEPT ![p] = y] /\ Transition(x, y)
  <2> DEFINE z == [x EXCEPT !.pc = "finish"]
  <2>1. proc' = [proc EXCEPT ![p] = Saved(z)] /\ x.pc = "persist"
    BY <1>1, <1>17 DEF EndPersist
  <2>2. z.pc = "finish" /\ z.unsaved = x.unsaved /\ z \in ProcessStates
    BY <1>3 DEF ProcessStates, PCs
  <2> HIDE DEF z
  <2>3. Saved(z).pc = "finish" /\ Saved(z).unsaved = x.unsaved
    BY <2>2 DEF Saved, ProcessStates
  <2>4. Transition(x, Saved(z))
    BY <2>1, <2>3 DEF Transition, Rank
  <2>5. QED  BY <1>4, <2>1, <2>4
<1>18. ASSUME FinishRun(p)
       PROVE  proc' = [proc EXCEPT ![p] = y] /\ Transition(x, y)
  <2> DEFINE z == [x EXCEPT !.pc = "committed"]
  <2>1. proc' = [proc EXCEPT ![p] = z] /\ x.pc = "finish"
    BY <1>1, <1>18 DEF FinishRun
  <2>2. Transition(x, z)
    BY <1>3, <2>1 DEF Transition, Rank, ProcessStates
  <2> HIDE DEF z
  <2>3. QED  BY <1>4, <2>1, <2>2
<1>19. ASSUME MarkFinished(p)
       PROVE  proc' = [proc EXCEPT ![p] = y] /\ Transition(x, y)
  <2> DEFINE z == [x EXCEPT !.pc = "output", !.run_finished = TRUE]
  <2>1. proc' = [proc EXCEPT ![p] = z] /\ x.pc = "committed"
    BY <1>1, <1>19 DEF MarkFinished
  <2>2. Transition(x, z)
    BY <1>3, <2>1 DEF Transition, Rank, ProcessStates
  <2> HIDE DEF z
  <2>3. QED  BY <1>4, <2>1, <2>2
<1>20. ASSUME WriteOutput(p) \/ FinalizeFailed(p)
       PROVE  proc' = [proc EXCEPT ![p] = y] /\ Transition(x, y)
  <2>1. \E exit : proc' = [proc EXCEPT ![p] = Ended(x, "done", exit)]
    BY <1>20 DEF WriteOutput, FinalizeFailed
  <2>2. x.pc \in PCs \ {"idle", "done", "killed"}
    BY <1>20 DEF WriteOutput, FinalizeFailed, PCs
  <2>3. QED  BY <1>3, <1>7, <2>1, <2>2
<1>21. ASSUME FinalizationError(p)
       PROVE  proc' = [proc EXCEPT ![p] = y] /\ Transition(x, y)
  <2>1. [x EXCEPT !.unreported = TRUE] \in ProcessStates
    BY <1>3 DEF ProcessStates
  <2>2. /\ proc' = [proc EXCEPT ![p] = Ended([x EXCEPT !.unreported = TRUE], "done", 1)]
        /\ x.pc \in PCs \ {"idle", "done", "killed"}
    BY <1>21 DEF FinalizationError, PCs
  <2>3. QED  BY <1>7, <2>1, <2>2
<1>22. ASSUME EndSearch(p)
       PROVE  proc' = [proc EXCEPT ![p] = y] /\ Transition(x, y)
  <2> DEFINE z == [x EXCEPT !.pc = "details", !.pending = x.found]
  <2>1. proc' = [proc EXCEPT ![p] = z] /\ x.pc = "search"
    BY <1>1, <1>22 DEF EndSearch
  <2>2. Transition(x, z)
    BY <1>3, <2>1 DEF Transition, Rank, ProcessStates
  <2> HIDE DEF z
  <2>3. QED  BY <1>4, <2>1, <2>2
<1>23. proc' = [proc EXCEPT ![p] = y] /\ Transition(x, y)
  BY <1>2, <1>5, <1>6, <1>8, <1>9, <1>10, <1>11, <1>12, <1>13, <1>14, <1>15, <1>16, <1>17,
     <1>18, <1>19, <1>20, <1>21, <1>22 DEF Step
<1>24. QED  BY <1>3, <1>23

\* A transition makes the pair smaller, and leaves the batch finite.
LEMMA TransitionCloser ==
    ASSUME NEW x \in ProcessStates, NEW y \in ProcessStates, Transition(x, y),
           IsFiniteSet(x.unsaved), IsFiniteSet(x.records)
    PROVE  Closer(x, y) /\ IsFiniteSet(y.unsaved)
<1>1. IsFiniteSet(x.pending) /\ Cardinality(x.pending) \in Nat /\ Cardinality(x.unsaved) \in Nat
  BY FS_Subset, FS_CardinalityType, ScrapeRunAssumption DEF ProcessStates
<1>2. Rank(x.pc) \in Nat /\ Work(x) \in Nat
  BY <1>1, ScrapeRunAssumption DEF Rank, Work, ProcessStates
<1>3. CASE Rank(y.pc) < Rank(x.pc) /\ y.unsaved \in {x.unsaved, x.records, {}}
  BY <1>2, <1>3, FS_EmptySet DEF Closer
<1>4. CASE \/ /\ x.pc = "search" /\ y.pc = "pages" /\ y.unsaved = x.unsaved
              /\ x.processed < Groups /\ y.processed = x.processed
           \/ /\ x.pc = "pages" /\ y.pc = "search" /\ y.unsaved = x.unsaved
              /\ x.processed < Groups /\ y.processed = x.processed + 1
  <2>1. Rank("search") = Rank("pages")
    BY DEF Rank
  <2>2. Work(y) < Work(x)
    BY <1>4, ScrapeRunAssumption DEF Work, ProcessStates
  <2>3. QED  BY <1>2, <1>4, <2>1, <2>2 DEF Closer
<1>5. CASE /\ x.pc = "details" /\ y.pc = "details" /\ y.unsaved = x.unsaved
           /\ \E s \in x.pending : y.pending = x.pending \ {s}
  <2>1. Cardinality(y.pending) = Cardinality(x.pending) - 1
    BY <1>1, <1>5, FS_RemoveElement
  <2>2. Cardinality(y.pending) < Cardinality(x.pending)
    BY <1>1, <2>1
  <2>3. QED  BY <1>2, <1>5, <2>2 DEF Closer, Work
<1>6. CASE /\ x.pc = "persist" /\ y.pc = "persist"
           /\ \E d \in x.unsaved : y.unsaved = x.unsaved \ {d}
  <2>1. IsFiniteSet(y.unsaved) /\ Cardinality(y.unsaved) = Cardinality(x.unsaved) - 1
    BY <1>6, FS_RemoveElement
  <2>2. Cardinality(y.unsaved) < Cardinality(x.unsaved)
    BY <1>1, <2>1
  <2>3. QED  BY <1>2, <1>6, <2>1, <2>2 DEF Closer, Work
<1>7. QED  BY <1>3, <1>4, <1>5, <1>6 DEF Transition

\* One step of any kind.
LEMMA AdvanceNext ==
    ScrapeInv /\ PagesInv /\ BatchFinite /\ [Next]_vars => AdvanceStep /\ BatchFinite'
<1> SUFFICES ASSUME ScrapeInv, PagesInv, BatchFinite, [Next]_vars
             PROVE  AdvanceStep /\ BatchFinite'
  OBVIOUS
<1>1. CASE proc' = proc
  BY <1>1 DEF AdvanceStep, BatchFinite
<1>2. CASE proc' # proc
  <2>1. PICK p \in Processes, y \in ProcessStates :
          proc' = [proc EXCEPT ![p] = y] /\ Transition(proc[p], y)
    BY <1>2, ProcessMoves
  <2>2. proc \in [Processes -> ProcessStates] /\ IsFiniteSet(proc[p].records)
    BY DEF ScrapeInv, LocalTypes
  <2>3. Closer(proc[p], y) /\ IsFiniteSet(y.unsaved)
    BY <2>1, <2>2, TransitionCloser DEF BatchFinite
  <2>4. QED  BY <2>1, <2>2, <2>3 DEF AdvanceStep, BatchFinite
<1>3. QED  BY <1>1, <1>2

\* Every scrape process takes finitely many steps, however it is interrupted
\* and whatever the source, the clock and other processes do: each step lowers
\* the pair of naturals <<rank, work>>.
THEOREM ScrapesAdvance == Spec => ProcessesAdvance
<1>1. Init => BatchFinite
  <2>1. Init => \A p \in Processes : proc[p].unsaved = {}
    BY DEF Init, Fresh
  <2>2. QED  BY <2>1, FS_EmptySet DEF BatchFinite
<1>2. QED  BY <1>1, AdvanceNext, ScrapeSafe, PTL DEF Spec, ProcessesAdvance

-----------------------------------------------------------------------------
(* The store as the scrapes use it                                         *)

\* Every step of the scrapes is a step of the store or leaves it alone.
LEMMA StoreSteps == ScrapeInv /\ [Next]_vars => [Repo!Next]_(Repo!vars)
<1> SUFFICES ASSUME ScrapeInv, [Next]_vars PROVE [Repo!Next]_(Repo!vars)
  OBVIOUS
<1>1. /\ now \in 1..MaxTime
      /\ \A p \in Processes : proc[p] \in ProcessStates /\ IsFiniteSet(proc[p].records)
  BY DEF ScrapeInv, LocalTypes
<1>2. ASSUME NEW p \in Processes, StartRun(p)
      PROVE  Repo!Start
  BY <1>1, <1>2 DEF StartRun, Repo!Start
<1>3. ASSUME NEW p \in Processes, NEW d \in proc[p].unsaved, PersistRecord(p, d)
      PROVE  Repo!Persist
  <2>1. d \in Details
    BY <1>1 DEF ProcessStates
  <2>2. Observed(d) \in Repo!Records
    BY <1>1, <2>1 DEF Observed, Details, Repo!Records
  <2>3. QED  BY <1>3, <2>2 DEF PersistRecord, Repo!Persist
<1>4. ASSUME NEW p \in Processes, FinishRun(p)
      PROVE  Repo!Finish
  <2> DEFINE x == proc[p]
             status == IF x.failures + x.save_failures > 0 THEN "partial" ELSE "succeeded"
  <2>1. x.coverage \in CoverageRecords /\ x.counts \in CountRecords
    BY <1>1, <1>4 DEF FinishRun, ScrapeInv, ProcessInv, Covered, ProcessStates
  <2>2. SourceIdsOf(x.records) \in SUBSET SourceIds
    BY <1>1 DEF SourceIdsOf, ProcessStates, Details
  <2>3. /\ status \in Repo!ScrapeRunStatus
        /\ Repo!FinishScrapeRun(p, status, x.coverage, x.counts, SourceIdsOf(x.records), now)
    BY <1>4 DEF FinishRun, Repo!ScrapeRunStatus
  <2>4. runs[p].status = "running"
    BY <1>4 DEF FinishRun, ScrapeInv, ProcessInv, RunTracked, Scraping, Unfinished
  <2> HIDE DEF status
  <2>5. QED  BY <1>1, <2>1, <2>2, <2>3, <2>4 DEF Repo!Finish
<1>5. ASSUME NEW p \in Processes, FinalizeFailed(p), ~NothingToFinalize(proc[p])
      PROVE  Repo!Finish
  <2> DEFINE x == proc[p]
             coverage == IF x.coverage = None THEN NoCoverage ELSE x.coverage
             counts == IF x.counts = None THEN FailedCounts(x) ELSE x.counts
  <2>1. coverage \in CoverageRecords /\ counts \in CountRecords
    BY <1>1, ReportTypes DEF ProcessStates
  <2>2. /\ "failed" \in Repo!ScrapeRunStatus
        /\ Repo!FinishScrapeRun(p, "failed", coverage, counts, {}, now)
    BY <1>5 DEF FinalizeFailed, Repo!ScrapeRunStatus
  <2> HIDE DEF coverage, counts
  <2>3. {} \in SUBSET SourceIds
    OBVIOUS
  <2>4. QED  BY <1>1, <2>1, <2>2, <2>3 DEF Repo!Finish
<1>6. UNCHANGED tables => UNCHANGED Repo!vars
  BY DEF tables, Repo!vars
<1>7. ASSUME NEW p \in Processes, Step(p)
      PROVE  Repo!Persist \/ Repo!Finish \/ UNCHANGED tables
  BY <1>3, <1>4, <1>5, <1>7
  DEF Step, AssignRunId, BeginGroup, EndGroup, EndSearch, FetchDetail, DetailFails, EndDetails,
      PersistFails, PersistConflict, EndPersist, MarkFinished, WriteOutput,
      FinalizeFailed, FinalizationError
<1>8. ASSUME NEW p \in Processes, Interrupt(p) \/ Kill(p)
      PROVE  UNCHANGED tables
  BY <1>8 DEF Interrupt, Kill
<1>9. CASE Tick \/ \E s \in SourceIds, groups \in SUBSET (1..Groups) : Relist(s, groups)
  BY <1>6, <1>9 DEF Tick, Relist
<1>10. CASE UNCHANGED vars
  BY <1>10 DEF vars, Repo!vars
<1>11. QED  BY <1>2, <1>6, <1>7, <1>8, <1>9, <1>10 DEF Next, Repo!Next

\* Scrapes use the store as AuctionRepository lets its callers: time stamps,
\* coverage, counts and persisted ids are all of its types, and nothing else
\* is written.
THEOREM ScrapesUseStore == Spec => Repo!Spec
<1>1. Init => Repo!Init
  BY DEF Init
<1>2. QED  BY <1>1, ScrapeSafe, StoreSteps, PTL DEF Spec, Repo!Spec

-----------------------------------------------------------------------------
(* What is proved of the store holds while scrapes use it.                 *)

Store == INSTANCE AuctionRepositoryProofs
         WITH RunIds <- Processes, Modes <- {"detail", "scheduled"}, Times <- 1..MaxTime,
              Counts <- CountRecords, Coverages <- CoverageRecords

\* The two instances of AuctionRepository have the same constants.
LEMMA StoreAssumption == Store!RepositoryAssumption
  BY TablesAssumption
  DEF Repo!RepositoryAssumption, Store!RepositoryAssumption, Repo!Statuses, Store!Statuses

\* The two instances of AuctionRepository have the same initial states and steps.
LEMMA StoreAgrees ==
    /\ Repo!Init => Store!Init
    /\ [Repo!Next]_(Repo!vars) => [Store!Next]_(Store!vars)
<1>1. Repo!Init => Store!Init
  BY DEF Repo!Init, Store!Init
<1>2. Repo!Start => Store!Start
  BY DEF Repo!Start, Store!Start, Repo!StartScrapeRun, Store!StartScrapeRun,
         Repo!Put, Store!Put
<1>3. Repo!Finish => Store!Finish
  BY Zenon
  DEF Repo!Finish, Store!Finish, Repo!FinishScrapeRun, Store!FinishScrapeRun,
      Repo!ReconcileCompleteInventory, Store!ReconcileCompleteInventory,
      Repo!CompletionStatus, Store!CompletionStatus, Repo!ScrapeRunStatus,
      Store!ScrapeRunStatus, Repo!SeenRow, Store!SeenRow, Repo!AbsentRow,
      Store!AbsentRow, Repo!Coalesce, Store!Coalesce, Repo!StaleAbsenceThreshold,
      Store!StaleAbsenceThreshold, Repo!Put, Store!Put
<1>4. Repo!Persist => Store!Persist
  <2> SUFFICES ASSUME NEW r \in Processes, NEW rec \in Repo!Records,
                      Repo!PersistReconciledRecord(r, rec)
               PROVE  rec \in Store!Records /\ Store!PersistReconciledRecord(r, rec)
    BY DEF Repo!Persist, Store!Persist
  <2>1. rec \in Store!Records
    BY Zenon DEF Repo!Records, Store!Records
  <2>2. Repo!IdentityConflict(rec) <=> Store!IdentityConflict(rec)
    BY Zenon DEF Repo!IdentityConflict, Store!IdentityConflict
  <2>3. Repo!InsertObservation(r, rec) => Store!InsertObservation(r, rec)
    BY Zenon
    DEF Repo!InsertObservation, Store!InsertObservation, Repo!AlreadyObserved,
        Store!AlreadyObserved, Repo!ObservationValues, Store!ObservationValues,
        Repo!RecordStatus, Store!RecordStatus
  <2>4. Repo!RecordLocationAlias(rec) => Store!RecordLocationAlias(rec)
    BY Zenon DEF Repo!RecordLocationAlias, Store!RecordLocationAlias, Repo!Put, Store!Put
  <2>5. Repo!RecordNonterminalHistoryAfterClosure(r, rec) =>
          Store!RecordNonterminalHistoryAfterClosure(r, rec)
    BY <2>3, Zenon
    DEF Repo!RecordNonterminalHistoryAfterClosure,
        Store!RecordNonterminalHistoryAfterClosure, Repo!RecordedLast, Store!RecordedLast,
        Repo!LatestHistory, Store!LatestHistory, Repo!History, Store!History
  <2>6. Repo!IsTerminal(Repo!RecordStatus(rec)) <=> Store!IsTerminal(Store!RecordStatus(rec))
    BY DEF Repo!IsTerminal, Store!IsTerminal, Repo!RecordStatus, Store!RecordStatus
  <2>7. \A status : Repo!IsTerminal(status) <=> Store!IsTerminal(status)
    BY DEF Repo!IsTerminal, Store!IsTerminal
  <2>8. \A f, k, row : Repo!Put(f, k, row) = Store!Put(f, k, row)
    BY Zenon DEF Repo!Put, Store!Put
  <2>9. \A at : Repo!FirstTerminalObservedAt(at, rec) = Store!FirstTerminalObservedAt(at, rec)
    BY <2>6 DEF Repo!FirstTerminalObservedAt, Store!FirstTerminalObservedAt
  <2>10. Repo!InsertedRow(rec) = Store!InsertedRow(rec) /\ Repo!NewInventory = Store!NewInventory
    BY <2>9 DEF Repo!InsertedRow, Store!InsertedRow, Repo!NewInventory, Store!NewInventory,
                Repo!RecordStatus, Store!RecordStatus
  <2>11. \A row : Repo!ClosedRowSeen(row, rec) = Store!ClosedRowSeen(row, rec)
    BY Zenon DEF Repo!ClosedRowSeen, Store!ClosedRowSeen
  <2>12. \A row : Repo!UpdatedRow(row, rec) = Store!UpdatedRow(row, rec)
    BY <2>9 DEF Repo!UpdatedRow, Store!UpdatedRow, Repo!Changed, Store!Changed,
                Repo!RecordStatus, Store!RecordStatus
  <2>13. Repo!PersistInsert(r, rec) => Store!PersistInsert(r, rec)
    BY <2>2, <2>3, <2>4, <2>8, <2>10, Zenon DEF Repo!PersistInsert, Store!PersistInsert
  <2>14. Repo!PersistOutOfOrder(r, rec) => Store!PersistOutOfOrder(r, rec)
    BY <2>2, <2>3, Zenon DEF Repo!PersistOutOfOrder, Store!PersistOutOfOrder
  <2>15. Repo!PersistClosedSeen(r, rec) => Store!PersistClosedSeen(r, rec)
    BY <2>2, <2>5, <2>6, <2>7, <2>8, <2>11, Zenon
    DEF Repo!PersistClosedSeen, Store!PersistClosedSeen
  <2>16. Repo!PersistUpdate(r, rec) => Store!PersistUpdate(r, rec)
    BY <2>2, <2>3, <2>4, <2>6, <2>7, <2>8, <2>12, Zenon
    DEF Repo!PersistUpdate, Store!PersistUpdate
  <2>17. QED
    BY <2>1, <2>13, <2>14, <2>15, <2>16
    DEF Repo!PersistReconciledRecord, Store!PersistReconciledRecord
<1>5. UNCHANGED Repo!vars => UNCHANGED Store!vars
  BY DEF Repo!vars, Store!vars
<1>6. QED  BY <1>1, <1>2, <1>3, <1>4, <1>5 DEF Repo!Next, Store!Next

\* Behaviours of scrapes are behaviours of the store that is proved about.
LEMMA ScrapesUseThatStore == Spec => Store!Spec
  BY ScrapesUseStore, StoreAgrees, PTL DEF Repo!Spec, Store!Spec

\* The local variables of main(), the source and the clock stay in their sets,
\* and so does every row the scrapes store.
THEOREM ScrapeTypes == Spec => []TypeOK
<1>1. Store!Spec => []Store!TypeOK
  BY StoreAssumption, Store!TypeCorrect
<1>2. Store!TypeOK => Repo!TypeOK
  BY Zenon
  DEF Store!TypeOK, Repo!TypeOK, Store!ItemRows, Repo!ItemRows, Store!InventoryRows,
      Repo!InventoryRows, Store!ObservationRows, Repo!ObservationRows, Store!AliasRows,
      Repo!AliasRows, Store!RunRows, Repo!RunRows, Store!Statuses, Repo!Statuses,
      Store!InventoryStates, Repo!InventoryStates, Store!ScrapeRunStatus,
      Repo!ScrapeRunStatus, Store!ScrapeRunCompletion, Repo!ScrapeRunCompletion
<1>3. Repo!TypeOK /\ ScrapeInv /\ PagesInv => TypeOK
  BY DEF ScrapeInv, PagesInv, LocalTypes, TypeOK
<1>4. QED  BY <1>1, <1>2, <1>3, ScrapesUseThatStore, ScrapeSafe, PTL

\* Interrupted and killed scrapes leave every stored item with an observation the
\* read side can join it to.  Transactions are atomic here; what is left of this
\* when two writers interleave is proved in RepositoryTransactionsProofs.
THEOREM ScrapesKeepListings == Spec => []Repo!CurrentObservationRecorded
<1>1. Store!Spec => []Store!CurrentObservationRecorded
  BY StoreAssumption, Store!ListingsNeverVanish
<1>2. Store!CurrentObservationRecorded => Repo!CurrentObservationRecorded
  BY DEF Store!CurrentObservationRecorded, Repo!CurrentObservationRecorded
<1>3. QED  BY <1>1, <1>2, ScrapesUseThatStore, PTL

\* The inventory ages in the very step in which a running scrape is stored as
\* succeeded with complete coverage: no interrupted, limited or partly failed
\* scrape, and no record stored, counts an absence, whichever runs are complete
\* already; and a complete one counts one each.
THEOREM ScrapesAgeInventory ==
    Spec => []Repo!InventoryConsistent /\ Repo!InventoryMovesWithCompleteRuns
<1> DEFINE moves ==
      \A s \in DOMAIN inventory : inventory'[s] # inventory[s] =>
        /\ items[s].status = "open"
        /\ inventory'[s].complete_absence_count \in {0, inventory[s].complete_absence_count + 1}
        /\ \E r \in DOMAIN runs :
            /\ runs[r].status = "running"
            /\ runs'[r].status = "succeeded"
            /\ runs'[r].completion_status = "complete"
<1>1. Store!Spec => []Store!InventoryConsistent /\ Store!InventoryMovesWithCompleteRuns
  BY StoreAssumption, Store!InventoryColumnsAgree, Store!InventoryMovesOnlyThen
<1>2. Store!InventoryConsistent => Repo!InventoryConsistent
  BY Zenon
  DEF Store!InventoryConsistent, Repo!InventoryConsistent, Store!StaleAbsenceThreshold,
      Repo!StaleAbsenceThreshold
<1>3. [moves]_(Store!vars) => [moves]_(Repo!vars)
  BY DEF Store!vars, Repo!vars
<1>4. QED
  BY <1>1, <1>2, <1>3, ScrapesUseThatStore, PTL
  DEF Repo!InventoryMovesWithCompleteRuns, Store!InventoryMovesWithCompleteRuns

=============================================================================
