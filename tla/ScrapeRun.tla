----------------------------- MODULE ScrapeRun -----------------------------
(***************************************************************************)
(* `python -m bc_auction scrape --persist`: main() of __main__.py from the *)
(* first row it writes to its exit code, for several invocations against   *)
(* one store and one source that keeps changing.                           *)
(*                                                                         *)
(* An invocation is a process p, and also names its run.  It searches the  *)
(* product groups in order, fetches the detail page of every listing it    *)
(* found, stores the records one transaction each, and finishes the run.   *)
(* SIGTERM raises _ScrapeInterrupted between any two of these steps,       *)
(* including after a commit and before the assignment that remembers it;   *)
(* SIGKILL ends the process where it is.                                   *)
(*                                                                         *)
(* The source (external) is the set of groups that currently list each     *)
(* auction.  A group is read page by page while it changes: BeginGroup is  *)
(* the first page and EndGroup the last.  What the pages show in between   *)
(* is what SearchEnumeration, which reads them one by one, guarantees of   *)
(* them: a listing that stays is shown, unless another one was removed and *)
(* moved it up, over the end of a page.  AuctionClient makes the requests. *)
(* Transactions are atomic; what two writers do to one item is the subject *)
(* of RepositoryTransactions.                                              *)
(***************************************************************************)
EXTENDS Integers, FiniteSets

CONSTANTS
    SourceIds, DisIds, MetadataHashes, ObservationHashes, StatusOf, LocationOf,
    Locations, None,
    Processes,
    Manual,      \* the invocations that are not the scheduler's
    Groups,      \* number of product groups of the source
    Matches,     \* the auctions the --keyword of each process matches
    Limit,       \* --limit of each process
    MaxTime,     \* bound on the clock
    MaxRelists   \* bound on the changes of the source

ASSUME ScrapeRunAssumption ==
    /\ IsFiniteSet(SourceIds)  \* the source lists finitely many auctions
    /\ Manual \subseteq Processes
    /\ Groups \in Nat \ {0}
    /\ Matches \in [Processes -> SUBSET SourceIds]
    /\ Limit \in [Processes -> Nat \ {0}]
    /\ MaxTime \in Nat \ {0}
    /\ MaxRelists \in Nat

VARIABLES
    items, inventory, observations, aliases, runs,
    proc,     \* the local variables of main(), for each process
    listed,   \* the product groups in which the source lists each auction
    shown,    \* what the pages of the group that p reads show of it
    steady,   \* history: what was listed without a break since p started, in a
              \* group that nothing was removed from while p read it
    now,      \* the clock
    relists   \* how often the source has changed

tables == <<items, inventory, observations, aliases, runs>>
source == <<listed, shown, steady, now, relists>>
vars == <<items, inventory, observations, aliases, runs, proc, listed, shown, steady,
          now, relists>>

CountRecords ==
    [items_seen: Nat, items_created: Nat, items_updated: Nat,
     observations_created: Nat, item_failures: Nat]

CoverageRecords ==
    [expected_product_groups: Nat, processed_product_groups: Nat,
     unique_listings_enumerated: Nat, detail_attempted: Nat, detail_succeeded: Nat,
     persistence_succeeded: Nat, persistence_failures: Nat, enumeration_complete: BOOLEAN]

Repo == INSTANCE AuctionRepository
        WITH RunIds <- Processes, Modes <- {"detail", "scheduled"}, Times <- 1..MaxTime,
             Counts <- CountRecords, Coverages <- CoverageRecords

ASSUME TablesAssumption ==
    /\ Repo!RepositoryAssumption
    /\ None \notin CountRecords \cup CoverageRecords

\* A listing whose search row and detail page have been reconciled.
Details ==
    [source_id: SourceIds, source_dis_id: DisIds, metadata_hash: MetadataHashes,
     observation_hash: ObservationHashes]

-----------------------------------------------------------------------------
(* Local variables of main() and of the loops it calls                     *)

Fresh ==
    [pc |-> "idle",
     processed |-> 0, found |-> {}, truncated |-> FALSE,  \* _collect_search_records
     pending |-> {}, records |-> {}, failures |-> 0,      \* _scrape_with_outcome
     unsaved |-> {}, persisted |-> 0, created |-> 0,      \* _persist_records
     updated |-> 0, observed |-> 0, save_failures |-> 0,
     counts |-> None, coverage |-> None,                  \* main
     run_known |-> FALSE, run_finished |-> FALSE,
     interrupted |-> FALSE, unreported |-> FALSE, exit |-> None]

\* What is left of a process that has ended.
Ended(x, pc, exit) ==
    [Fresh EXCEPT !.pc = pc, !.exit = exit, !.run_known = x.run_known,
                  !.run_finished = x.run_finished, !.interrupted = x.interrupted,
                  !.unreported = x.unreported]

PCs == {"idle", "starting", "search", "pages", "details", "persist", "finish",
        "committed", "output", "handler", "done", "killed"}

Active(p) == proc[p].pc \notin {"idle", "done", "killed"}

\* _scrape_run_counts
ScrapeRunCounts(x) ==
    [items_seen |-> Cardinality(x.found), items_created |-> x.created,
     items_updated |-> x.updated, observations_created |-> x.observed,
     item_failures |-> x.failures + x.save_failures]

\* _scrape_run_coverage
ScrapeRunCoverage(x, persisted, save_failures) ==
    [expected_product_groups |-> Groups, processed_product_groups |-> x.processed,
     unique_listings_enumerated |-> Cardinality(x.found),
     detail_attempted |-> Cardinality(x.found),
     detail_succeeded |-> Cardinality(x.records),
     persistence_succeeded |-> persisted, persistence_failures |-> save_failures,
     enumeration_complete |-> ~x.truncated /\ x.processed = Groups]

\* ScrapeRunCoverage(), for a run that failed before it had an outcome
NoCoverage ==
    [expected_product_groups |-> 0, processed_product_groups |-> 0,
     unique_listings_enumerated |-> 0, detail_attempted |-> 0, detail_succeeded |-> 0,
     persistence_succeeded |-> 0, persistence_failures |-> 0, enumeration_complete |-> FALSE]

\* The zero counts of _finish_failed_run; the outcome exists once coverage does.
FailedCounts(x) ==
    [items_seen |-> IF x.coverage = None THEN 0 ELSE Cardinality(x.found),
     items_created |-> 0, items_updated |-> 0, observations_created |-> 0,
     item_failures |-> IF x.coverage = None THEN 0 ELSE x.failures]

SourceIdsOf(records) == {d.source_id : d \in records}

-----------------------------------------------------------------------------
Init ==
    /\ Repo!Init
    /\ proc = [p \in Processes |-> Fresh]
    /\ listed \in [SourceIds -> SUBSET (1..Groups)]
    /\ shown = [p \in Processes |-> {}]
    /\ steady = [p \in Processes |-> {}]
    /\ now = 1
    /\ relists = 0

\* The scheduler starts a scrape only while it holds the advisory lock; a
\* scrape started by hand takes no lock.  The run row is committed here ...
StartRun(p) ==
    /\ proc[p].pc = "idle"
    /\ p \in Manual \/ \A q \in Processes \ Manual : ~Active(q)
    /\ Repo!StartScrapeRun(p, IF p \in Manual THEN "detail" ELSE "scheduled", now)
    /\ proc' = [proc EXCEPT ![p].pc = "starting"]
    /\ steady' = [steady EXCEPT ![p] = {x \in SourceIds \X (1..Groups) : x[2] \in listed[x[1]]}]
    /\ UNCHANGED <<listed, shown, now, relists>>

\* ... and its id is assigned to run_id here.
AssignRunId(p) ==
    /\ proc[p].pc = "starting"
    /\ proc' = [proc EXCEPT ![p].pc = "search", ![p].run_known = TRUE]
    /\ UNCHANGED <<tables, source>>

\* Fault: the loop over the groups has no end.
FaultSearchBeyondGroups(p) ==
    LET g == proc[p].processed + 1 IN
    /\ proc[p].pc = "search"
    /\ Cardinality(proc[p].found) < Limit[p]
    /\ proc' = [proc EXCEPT ![p].pc = "pages"]
    /\ shown' = [shown EXCEPT ![p] = {s \in Matches[p] : g \in listed[s]}]
    /\ UNCHANGED <<tables, listed, steady, now, relists>>

\* search_product_group answers with the first page of the next group.
BeginGroup(p) ==
    LET g == proc[p].processed + 1 IN
    /\ proc[p].pc = "search"
    /\ g <= Groups
    /\ Cardinality(proc[p].found) < Limit[p]
    /\ proc' = [proc EXCEPT ![p].pc = "pages"]
    /\ shown' = [shown EXCEPT ![p] = {s \in Matches[p] : g \in listed[s]}]
    /\ UNCHANGED <<tables, listed, steady, now, relists>>

\* Fault: a search that reaches the limit exactly does not count as truncated.
FaultLimitNotTruncated(p) ==
    LET x == proc[p] IN
    /\ x.pc = "pages"
    /\ \E part \in SUBSET shown[p] :
        /\ IF Cardinality(x.found \cup shown[p]) >= Limit[p]
           THEN Cardinality(x.found \cup part) = Limit[p]
           ELSE part = shown[p]
        /\ proc' = [proc EXCEPT ![p].pc = "search", ![p].found = x.found \cup part,
                                ![p].processed = x.processed + 1]
    /\ shown' = [shown EXCEPT ![p] = {}]
    /\ UNCHANGED <<tables, listed, steady, now, relists>>

\* The last page.  The collector stops at the record that reaches the limit,
\* so any part of the group of the right size may be found.
EndGroup(p) ==
    LET x == proc[p] IN
    /\ x.pc = "pages"
    /\ \E part \in SUBSET shown[p] :
        LET found == x.found \cup part
            reached == Cardinality(found) >= Limit[p]
        IN  /\ IF Cardinality(x.found \cup shown[p]) >= Limit[p]
               THEN Cardinality(found) = Limit[p]
               ELSE part = shown[p]
            /\ proc' = [proc EXCEPT ![p].pc = "search", ![p].found = found,
                                    ![p].processed = x.processed + 1,
                                    ![p].truncated = reached]
    /\ shown' = [shown EXCEPT ![p] = {}]
    /\ UNCHANGED <<tables, listed, steady, now, relists>>

\* Leave the group loop, because of the limit or at its end.
EndSearch(p) ==
    /\ proc[p].pc = "search"
    /\ proc[p].processed = Groups \/ Cardinality(proc[p].found) >= Limit[p]
    /\ proc' = [proc EXCEPT ![p].pc = "details", ![p].pending = proc[p].found]
    /\ UNCHANGED <<tables, source>>

\* One detail page, reconciled with its search row.  The search refuses two
\* auctions with one canonical URL, so a batch has no display document twice.
FetchDetail(p, d) ==
    /\ proc[p].pc = "details"
    /\ d.source_id \in proc[p].pending
    /\ \A e \in proc[p].records : e.source_dis_id # d.source_dis_id
    /\ proc' = [proc EXCEPT ![p].pending = @ \ {d.source_id}, ![p].records = @ \cup {d}]
    /\ UNCHANGED <<tables, source>>

DetailFails(p, s) ==
    /\ proc[p].pc = "details"
    /\ s \in proc[p].pending
    /\ proc' = [proc EXCEPT ![p].pending = @ \ {s}, ![p].failures = @ + 1]
    /\ UNCHANGED <<tables, source>>

EndDetails(p) ==
    /\ proc[p].pc = "details"
    /\ proc[p].pending = {}
    /\ proc' = [proc EXCEPT ![p].pc = "persist", ![p].unsaved = proc[p].records,
                            ![p].coverage = ScrapeRunCoverage(proc[p], 0, 0)]
    /\ UNCHANGED <<tables, source>>

-----------------------------------------------------------------------------
(* _persist_records                                                        *)

\* observed_at is the time of storing, not of fetching.
Observed(d) ==
    [source_id |-> d.source_id, source_dis_id |-> d.source_dis_id,
     metadata_hash |-> d.metadata_hash, observation_hash |-> d.observation_hash,
     observed_at |-> now]

\* PersistResult.updated: nothing for an insert or an out-of-order record,
\* the identity alone for a closed item seen nonterminal.
ResultUpdated(rec) ==
    /\ rec.source_id \in DOMAIN items
    /\ LET row == items[rec.source_id] IN
       /\ rec.observed_at >= row.last_seen_at
       /\ IF Repo!IsTerminal(row.status) /\ ~Repo!IsTerminal(Repo!RecordStatus(rec))
          THEN row.source_dis_id # rec.source_dis_id
          ELSE Repo!Changed(row, rec)

PersistRecord(p, d) ==
    /\ proc[p].pc = "persist"
    /\ d \in proc[p].unsaved
    /\ Repo!PersistReconciledRecord(p, Observed(d))
    /\ proc' = [proc EXCEPT
                ![p].unsaved = @ \ {d},
                ![p].persisted = @ + 1,
                ![p].created = @ + IF d.source_id \in DOMAIN items THEN 0 ELSE 1,
                ![p].updated = @ + IF ResultUpdated(Observed(d)) THEN 1 ELSE 0,
                ![p].observed = @ + IF observations' = observations THEN 0 ELSE 1]
    /\ UNCHANGED source

\* PersistenceError: recorded, and the batch goes on.
PersistFails(p, d) ==
    /\ proc[p].pc = "persist"
    /\ d \in proc[p].unsaved
    /\ proc' = [proc EXCEPT ![p].unsaved = @ \ {d}, ![p].save_failures = @ + 1]
    /\ UNCHANGED <<tables, source>>

Saved(x) ==
    [x EXCEPT !.counts = ScrapeRunCounts(x),
              !.coverage = ScrapeRunCoverage(x, x.persisted, x.save_failures)]

\* Fault: what was stored before the conflict is not noted.
FaultConflictForgetsCounts(p, d) ==
    /\ proc[p].pc = "persist"
    /\ d \in proc[p].unsaved
    /\ Repo!IdentityConflict(Observed(d))
    /\ proc' = [proc EXCEPT ![p].save_failures = @ + 1, ![p].pc = "handler"]
    /\ UNCHANGED <<tables, source>>

\* IdentityConflictError: main() notes what was stored and gives up the batch.
PersistConflict(p, d) ==
    /\ proc[p].pc = "persist"
    /\ d \in proc[p].unsaved
    /\ Repo!IdentityConflict(Observed(d))
    /\ proc' = [proc EXCEPT ![p] =
                  Saved([proc[p] EXCEPT !.save_failures = proc[p].save_failures + 1,
                                        !.pc = "handler"])]
    /\ UNCHANGED <<tables, source>>

EndPersist(p) ==
    /\ proc[p].pc = "persist"
    /\ proc[p].unsaved = {}
    /\ proc' = [proc EXCEPT ![p] = Saved([@ EXCEPT !.pc = "finish"])]
    /\ UNCHANGED <<tables, source>>

-----------------------------------------------------------------------------
\* finish_scrape_run commits here ...
FinishRun(p) ==
    /\ proc[p].pc = "finish"
    /\ Repo!FinishScrapeRun(p,
            IF proc[p].failures + proc[p].save_failures > 0 THEN "partial" ELSE "succeeded",
            proc[p].coverage, proc[p].counts, SourceIdsOf(proc[p].records), now)
    /\ proc' = [proc EXCEPT ![p].pc = "committed"]
    /\ UNCHANGED source

\* ... and run_finished = True is executed here.
MarkFinished(p) ==
    /\ proc[p].pc = "committed"
    /\ proc' = [proc EXCEPT ![p].pc = "output", ![p].run_finished = TRUE]
    /\ UNCHANGED <<tables, source>>

\* Fault: the exit code looks at the detail failures only.
FaultExitIgnoresPersistence(p) ==
    /\ proc[p].pc = "output"
    /\ proc' = [proc EXCEPT ![p] = Ended(@, "done", IF @.failures > 0 THEN 2 ELSE 0)]
    /\ UNCHANGED <<tables, source>>

WriteOutput(p) ==
    /\ proc[p].pc = "output"
    /\ proc' = [proc EXCEPT ![p] =
                  Ended(@, "done", IF @.failures + @.save_failures > 0 THEN 2 ELSE 0)]
    /\ UNCHANGED <<tables, source>>

\* SIGTERM, or an error of the source, the database or the output file, which
\* main() handles alike.  SIGTERM is ignored once the handler runs.
Interrupt(p) ==
    /\ Active(p)
    /\ proc[p].pc # "handler"
    /\ proc' = [proc EXCEPT ![p].pc = "handler", ![p].interrupted = TRUE]
    /\ UNCHANGED <<tables, source>>

\* Fault: a run that failed before it had an outcome is not finalized.
FaultOutcomeNeeded(x) == ~x.run_known \/ x.run_finished \/ x.coverage = None

\* _report_failed_run_finalization: nothing to do without a run_id, which
\* only an interrupt in the middle of the start leaves unset, or once the run
\* is known to be finished.
NothingToFinalize(x) == ~x.run_known \/ x.run_finished

\* Fault: the failed run is stored without the coverage it had.
FaultFinalizeWithoutCoverage(p) ==
    /\ proc[p].pc = "handler"
    /\ proc' = [proc EXCEPT ![p] = Ended(@, "done", 1)]
    /\ IF NothingToFinalize(proc[p]) THEN UNCHANGED tables
       ELSE Repo!FinishScrapeRun(p, "failed", NoCoverage, FailedCounts(proc[p]), {}, now)
    /\ UNCHANGED source

FinalizeFailed(p) ==
    /\ proc[p].pc = "handler"
    /\ proc' = [proc EXCEPT ![p] = Ended(@, "done", 1)]
    /\ IF NothingToFinalize(proc[p]) THEN UNCHANGED tables
       ELSE Repo!FinishScrapeRun(p, "failed",
                IF proc[p].coverage = None THEN NoCoverage ELSE proc[p].coverage,
                IF proc[p].counts = None THEN FailedCounts(proc[p]) ELSE proc[p].counts,
                {}, now)
    /\ UNCHANGED source

\* The store is unreachable for the handler too: the error is printed only.
FinalizationError(p) ==
    /\ proc[p].pc = "handler"
    /\ ~NothingToFinalize(proc[p])
    /\ proc' = [proc EXCEPT ![p] = Ended([@ EXCEPT !.unreported = TRUE], "done", 1)]
    /\ UNCHANGED <<tables, source>>

\* SIGKILL, a crash or a power failure.
Kill(p) ==
    /\ Active(p)
    /\ proc' = [proc EXCEPT ![p] = Ended(@, "killed", None)]
    /\ UNCHANGED <<tables, source>>

-----------------------------------------------------------------------------
(* The source (external) and the clock                                     *)

\* p is between the first and the last page of group g.
Reading(p, g) == proc[p].pc = "pages" /\ proc[p].processed + 1 = g

\* What the pages p reads show when s leaves the groups of old and joins those
\* of new.  A listing that joins may or may not be shown; once one leaves, any
\* of the others may have moved past, onto a page already read.  (One that is
\* pushed onto the next page and is shown twice ends the run: Interrupt.)
Shows(p, s, old, new) ==
    IF \E g \in old \ new : Reading(p, g) THEN SUBSET shown[p]
    ELSE IF s \in Matches[p] /\ \E g \in new \ old : Reading(p, g)
    THEN {shown[p], shown[p] \cup {s}}
    ELSE {shown[p]}

Relist(s, groups) ==
    /\ relists < MaxRelists
    /\ groups # listed[s]
    /\ relists' = relists + 1
    /\ listed' = [listed EXCEPT ![s] = groups]
    /\ shown' \in [Processes -> SUBSET SourceIds]
    /\ \A p \in Processes : shown'[p] \in Shows(p, s, listed[s], groups)
    /\ steady' = [p \in Processes |->
                    {x \in steady[p] : x[2] \in listed[s] \ groups =>
                                        x[1] # s /\ ~Reading(p, x[2])}]
    /\ UNCHANGED <<tables, proc, now>>

Tick ==
    /\ now < MaxTime
    /\ now' = now + 1
    /\ UNCHANGED <<tables, proc, listed, shown, steady, relists>>

-----------------------------------------------------------------------------
\* What a process does by itself once it has been started.
Step(p) ==
    \/ AssignRunId(p)
    \/ BeginGroup(p)
    \/ EndGroup(p)
    \/ EndSearch(p)
    \/ \E d \in Details : FetchDetail(p, d)
    \/ \E s \in SourceIds : DetailFails(p, s)
    \/ EndDetails(p)
    \/ \E d \in proc[p].unsaved : PersistRecord(p, d) \/ PersistFails(p, d) \/ PersistConflict(p, d)
    \/ EndPersist(p)
    \/ FinishRun(p)
    \/ MarkFinished(p)
    \/ WriteOutput(p)
    \/ FinalizeFailed(p)
    \/ FinalizationError(p)

Next ==
    \/ \E p \in Processes : StartRun(p) \/ Step(p) \/ Interrupt(p) \/ Kill(p)
    \/ \E s \in SourceIds, groups \in SUBSET (1..Groups) : Relist(s, groups)
    \/ Tick

Spec == Init /\ [][Next]_vars

\* main() does not block for ever: every request of AuctionClient has a time
\* out and finitely many retries, and its loops run over finite collections.
\* (A source that answers with an endless Retry-After is left out.)
FairSpec == Spec /\ \A p \in Processes : WF_vars(Step(p))

-----------------------------------------------------------------------------
(* Properties                                                              *)

ProcessStates ==
    [pc: PCs, processed: 0..Groups, found: SUBSET SourceIds, truncated: BOOLEAN,
     pending: SUBSET SourceIds, records: SUBSET Details, failures: Nat,
     unsaved: SUBSET Details, persisted: Nat, created: Nat, updated: Nat, observed: Nat,
     save_failures: Nat, counts: CountRecords \cup {None},
     coverage: CoverageRecords \cup {None}, run_known: BOOLEAN, run_finished: BOOLEAN,
     interrupted: BOOLEAN, unreported: BOOLEAN, exit: {None, 0, 1, 2}]

\* Tables, processes, source and clock keep their types; the tables by the
\* type invariant of AuctionRepository.
TypeOK ==
    /\ Repo!TypeOK
    /\ proc \in [Processes -> ProcessStates]
    /\ listed \in [SourceIds -> SUBSET (1..Groups)]
    /\ shown \in [Processes -> SUBSET SourceIds]
    /\ steady \in [Processes -> SUBSET (SourceIds \X (1..Groups))]
    /\ now \in 1..MaxTime
    /\ relists \in 0..MaxRelists

\* An auction that some product group listed without a break while a run was
\* under way is not counted absent by that run, whatever was truncated by the
\* limit, failed to load or failed to store: every way of not having looked
\* at a listing must keep the run from being complete.  The one exception is
\* a group from which another listing was removed while the run was between
\* its pages: nothing notices what moved up onto a page already read.
SteadyNeverAbsent ==
    [][\A p \in Processes : proc[p].pc = "finish" /\ proc'[p].pc = "committed" =>
        \A s \in DOMAIN inventory : (\E g \in 1..Groups : <<s, g>> \in steady[p]) =>
            inventory'[s].complete_absence_count <= inventory[s].complete_absence_count]_vars

\* For each absence counted against an item there is a stored run with
\* complete coverage: interrupting main() after the commit may relabel that
\* run, but neither drops its coverage nor counts the absence twice.
AbsencesBackedByCoverage ==
    \A s \in DOMAIN inventory :
        inventory[s].complete_absence_count
            <= Cardinality({p \in DOMAIN runs : runs[p].completion_status = "complete"})

\* The observations_created a run reports are the ones stored under its id,
\* for every run that ended by itself: also after the identity conflict that
\* aborts a batch half way, and with another process storing the same items.
CountsMatchHistory ==
    \A p \in DOMAIN runs :
        /\ runs[p].counts # None
        /\ runs[p].status = "failed" => ~proc[p].interrupted
        => runs[p].counts.observations_created
            = Cardinality({o \in observations : o.run_id = p})

\* The exit code, which the scheduler acts on, agrees with the stored run: 0
\* and 2 are never returned for a run stored as something else, and 1 only
\* goes with a run stored as finished when the output could not be written or
\* the failure could not be reported.
ExitCodeMatchesRun ==
    \A p \in Processes :
        /\ proc[p].exit = 0 => runs[p].status = "succeeded"
        /\ proc[p].exit = 2 => runs[p].status = "partial"
        /\ proc[p].exit = 1 => \/ runs[p].status \in {"running", "failed"}
                               \/ proc[p].run_finished
                               \/ proc[p].unreported

\* A stored run leaves "running" in the end, unless its process was killed,
\* was interrupted before it knew the run's id, or could not reach the store
\* to report its failure.
RunEnds ==
    \A p \in Processes :
        p \in DOMAIN runs ~>
            \/ p \in DOMAIN runs /\ runs[p].status # "running"
            \/ proc[p].pc = "killed"
            \/ proc[p].pc = "done" /\ (proc[p].unreported \/ ~proc[p].run_known)

=============================================================================
