------------------------- MODULE AuctionRepository -------------------------
(***************************************************************************)
(* The write side of the store: class AuctionRepository of                 *)
(* src/bc_auction/persistence.py over the tables of database.py.           *)
(*                                                                         *)
(* Every method runs in one transaction, and here every transaction is one *)
(* step.  The callers are left open: any run may persist any record at any *)
(* time stamp, in any order, and may be finished with any status, coverage *)
(* and list of persisted ids.  RepositoryTransactions splits the           *)
(* transaction into its reads and writes; ScrapeRun adds the caller.       *)
(*                                                                         *)
(* Data.  A row is keyed by its source_id (unique, like the surrogate id). *)
(* The bid, closing time and status fields of a record are represented by  *)
(* their observation_hash, the descriptive fields by their metadata_hash   *)
(* (SHA-256 of the canonical JSON, taken to be injective).  The canonical  *)
(* URL and the source_dis_id determine one another (a validator of         *)
(* PersistedAuctionRecord), so the latter stands for both.  created_at and *)
(* updated_at always equal first_seen_at and last_seen_at.                 *)
(***************************************************************************)
EXTENDS Integers

CONSTANTS
    SourceIds,          \* auction numbers
    DisIds,             \* ids of the public display documents
    MetadataHashes,     \* descriptive contents
    ObservationHashes,  \* bid contents, ordered as the hex digests are
    StatusOf,           \* the status that is part of a bid content
    LocationOf,         \* the location that is part of a descriptive content
    Locations,          \* normalized location keys
    RunIds,
    Modes,              \* "detail", "scheduled"
    Times,              \* time stamps
    Counts,             \* what ScrapeRunCounts reports
    Coverages,          \* what ScrapeRunCoverage reports
    None                \* SQL NULL

Statuses == {"open", "closed", "withdrawn", "unknown"}
ScrapeRunStatus == {"running", "succeeded", "partial", "failed"}
ScrapeRunCompletion == {"pending", "complete", "incomplete"}
InventoryStates == {"current", "not_observed", "stale"}
StaleAbsenceThreshold == 3

ASSUME RepositoryAssumption ==
    /\ Times \subseteq Nat
    /\ ObservationHashes \subseteq Nat
    /\ StatusOf \in [ObservationHashes -> Statuses]
    /\ LocationOf \in [MetadataHashes -> Locations \cup {None}]
    /\ None \notin Nat
    /\ None \notin Locations

VARIABLES
    items,         \* auction_items, the columns _persist_record writes
    inventory,     \* auction_items, the columns only reconciliation writes
    observations,  \* item_observations
    aliases,       \* location_aliases
    runs           \* scrape_runs

vars == <<items, inventory, observations, aliases, runs>>

-----------------------------------------------------------------------------
(* Rows.  A table is a function from the keys present to rows.             *)

Records ==
    [source_id: SourceIds, source_dis_id: DisIds, metadata_hash: MetadataHashes,
     observation_hash: ObservationHashes, observed_at: Times]

ItemRows ==
    [source_dis_id: DisIds, metadata_hash: MetadataHashes, status: Statuses,
     current_observation_hash: ObservationHashes, first_seen_at: Times,
     last_seen_at: Times, last_changed_at: Times, closed_at: Times \cup {None}]

InventoryRows ==
    [last_complete_seen_at: Times \cup {None}, complete_absence_count: Nat,
     inventory_state: InventoryStates, first_absent_at: Times \cup {None},
     stale_at: Times \cup {None}]

ObservationRows ==
    [source_id: SourceIds, run_id: RunIds, observed_at: Times,
     observation_hash: ObservationHashes, status: Statuses]

AliasRows == [first_seen_at: Times, last_seen_at: Times]

RunRows ==
    [status: ScrapeRunStatus, completion_status: ScrapeRunCompletion,
     mode: Modes, started_at: Times, finished_at: Times \cup {None},
     counts: Counts \cup {None}]

\* Insert or replace the row at key k.
Put(table, k, row) ==
    [j \in DOMAIN table \cup {k} |-> IF j = k THEN row ELSE table[j]]

-----------------------------------------------------------------------------
(* Helpers of persistence.py                                               *)

IsTerminal(status) == status \in {"closed", "withdrawn"}

RecordStatus(rec) == StatusOf[rec.observation_hash]

\* Fault: the owner of the display document is looked up for new items only.
FaultConflictOfInsertsOnly(rec) ==
    /\ rec.source_id \notin DOMAIN items
    /\ \E s \in DOMAIN items : items[s].source_dis_id = rec.source_dis_id

\* Another auction number already owns the record's display document:
\* persist_reconciled_record raises IdentityConflictError and changes nothing.
IdentityConflict(rec) ==
    \E s \in DOMAIN items :
        s # rec.source_id /\ items[s].source_dis_id = rec.source_dis_id

ObservationValues(r, rec) ==
    [source_id |-> rec.source_id, run_id |-> r, observed_at |-> rec.observed_at,
     observation_hash |-> rec.observation_hash, status |-> RecordStatus(rec)]

\* The unique constraint (item, observed_at, hash) that the insert defers to.
AlreadyObserved(rec) ==
    \E o \in observations :
        /\ o.source_id = rec.source_id
        /\ o.observed_at = rec.observed_at
        /\ o.observation_hash = rec.observation_hash

\* INSERT ... ON CONFLICT DO NOTHING
InsertObservation(r, rec) ==
    observations' = IF AlreadyObserved(rec) THEN observations
                    ELSE observations \cup {ObservationValues(r, rec)}

History(s) == {o \in observations : o.source_id = s}

\* ORDER BY observed_at DESC, created_at DESC, observation_hash DESC LIMIT 1
\* (created_at is the observed_at of every observation).
LatestHistory(s) ==
    {o \in History(s) : \A p \in History(s) :
        \/ p.observed_at < o.observed_at
        \/ p.observed_at = o.observed_at /\ p.observation_hash <= o.observation_hash}

RecordedLast(rec) ==
    \E o \in LatestHistory(rec.source_id) : o.observation_hash = rec.observation_hash

\* A nonterminal observation of a closed item is kept only when it differs
\* from the newest one of the history.
RecordNonterminalHistoryAfterClosure(r, rec) ==
    IF RecordedLast(rec) THEN UNCHANGED observations ELSE InsertObservation(r, rec)

\* Fault: a record without a location is upserted too.
FaultAliasOfNull(rec) ==
    aliases' = Put(aliases, LocationOf[rec.metadata_hash],
                   [first_seen_at |-> rec.observed_at, last_seen_at |-> rec.observed_at])

RecordLocationAlias(rec) ==
    LET location == LocationOf[rec.metadata_hash]
        first == IF location \in DOMAIN aliases
                 THEN aliases[location].first_seen_at ELSE rec.observed_at
    IN  aliases' = IF location = None THEN aliases
                   ELSE Put(aliases, location,
                            [first_seen_at |-> first, last_seen_at |-> rec.observed_at])

\* Fault: the last terminal observation counts, not the first.
FaultLastTerminalObservedAt(closed_at, rec) ==
    IF IsTerminal(RecordStatus(rec)) THEN rec.observed_at ELSE closed_at

FirstTerminalObservedAt(closed_at, rec) ==
    IF closed_at = None /\ IsTerminal(RecordStatus(rec)) THEN rec.observed_at ELSE closed_at

\* What PersistResult.updated reports on the ordinary path.
Changed(row, rec) ==
    \/ row.source_dis_id # rec.source_dis_id
    \/ row.metadata_hash # rec.metadata_hash
    \/ row.current_observation_hash # rec.observation_hash
    \/ row.closed_at # FirstTerminalObservedAt(row.closed_at, rec)

InsertedRow(rec) ==
    [source_dis_id |-> rec.source_dis_id, metadata_hash |-> rec.metadata_hash,
     status |-> RecordStatus(rec), current_observation_hash |-> rec.observation_hash,
     first_seen_at |-> rec.observed_at, last_seen_at |-> rec.observed_at,
     last_changed_at |-> rec.observed_at,
     closed_at |-> FirstTerminalObservedAt(None, rec)]

\* A closed item seen nonterminal again: only its identity and last_seen_at move.
ClosedRowSeen(row, rec) ==
    [row EXCEPT
        !.source_dis_id = rec.source_dis_id,
        !.last_seen_at = rec.observed_at,
        !.last_changed_at = IF row.source_dis_id # rec.source_dis_id
                            THEN rec.observed_at ELSE row.last_changed_at]

\* Fault: last_seen_at is forgotten in the update.
FaultLastSeenKept(row, rec) ==
    [source_dis_id |-> rec.source_dis_id, metadata_hash |-> rec.metadata_hash,
     status |-> RecordStatus(rec), current_observation_hash |-> rec.observation_hash,
     first_seen_at |-> row.first_seen_at, last_seen_at |-> row.last_seen_at,
     last_changed_at |-> IF Changed(row, rec) THEN rec.observed_at ELSE row.last_changed_at,
     closed_at |-> FirstTerminalObservedAt(row.closed_at, rec)]

\* Fault: the update writes the values of an insert.
FaultFirstSeenReset(row, rec) ==
    [InsertedRow(rec) EXCEPT !.closed_at = FirstTerminalObservedAt(row.closed_at, rec)]

UpdatedRow(row, rec) ==
    [source_dis_id |-> rec.source_dis_id, metadata_hash |-> rec.metadata_hash,
     status |-> RecordStatus(rec), current_observation_hash |-> rec.observation_hash,
     first_seen_at |-> row.first_seen_at, last_seen_at |-> rec.observed_at,
     last_changed_at |-> IF Changed(row, rec) THEN rec.observed_at ELSE row.last_changed_at,
     closed_at |-> FirstTerminalObservedAt(row.closed_at, rec)]

\* Server defaults of the reconciliation columns of a new row.
NewInventory ==
    [last_complete_seen_at |-> None, complete_absence_count |-> 0,
     inventory_state |-> "current", first_absent_at |-> None, stale_at |-> None]

-----------------------------------------------------------------------------
Init ==
    /\ items = [s \in {} |-> None]
    /\ inventory = [s \in {} |-> None]
    /\ observations = {}
    /\ aliases = [l \in {} |-> None]
    /\ runs = [r \in {} |-> None]

\* start_scrape_run
StartScrapeRun(r, mode, t) ==
    /\ r \notin DOMAIN runs
    /\ runs' = Put(runs, r,
                   [status |-> "running", completion_status |-> "pending", mode |-> mode,
                    started_at |-> t, finished_at |-> None, counts |-> None])
    /\ UNCHANGED <<items, inventory, observations, aliases>>

-----------------------------------------------------------------------------
(* persist_reconciled_record.  The four actions are the four ways through  *)
(* _persist_record that commit; a run that is not stored would violate the *)
(* foreign key of the observation, and the transaction would roll back.    *)

PersistInsert(r, rec) ==
    /\ rec.source_id \notin DOMAIN items
    /\ ~IdentityConflict(rec)
    /\ items' = Put(items, rec.source_id, InsertedRow(rec))
    /\ inventory' = Put(inventory, rec.source_id, NewInventory)
    /\ InsertObservation(r, rec)
    /\ RecordLocationAlias(rec)
    /\ UNCHANGED runs

\* Older than what the row already holds: history only.
PersistOutOfOrder(r, rec) ==
    /\ rec.source_id \in DOMAIN items
    /\ ~IdentityConflict(rec)
    /\ rec.observed_at < items[rec.source_id].last_seen_at
    /\ InsertObservation(r, rec)
    /\ UNCHANGED <<items, inventory, aliases, runs>>

PersistClosedSeen(r, rec) ==
    /\ rec.source_id \in DOMAIN items
    /\ ~IdentityConflict(rec)
    /\ rec.observed_at >= items[rec.source_id].last_seen_at
    /\ IsTerminal(items[rec.source_id].status)
    /\ ~IsTerminal(RecordStatus(rec))
    /\ RecordNonterminalHistoryAfterClosure(r, rec)
    /\ items' = Put(items, rec.source_id, ClosedRowSeen(items[rec.source_id], rec))
    /\ UNCHANGED <<inventory, aliases, runs>>

\* Fault: a changed content is not added to the history.
FaultUpdateWithoutHistory(r, rec) ==
    /\ rec.source_id \in DOMAIN items
    /\ ~IdentityConflict(rec)
    /\ rec.observed_at >= items[rec.source_id].last_seen_at
    /\ IsTerminal(items[rec.source_id].status) => IsTerminal(RecordStatus(rec))
    /\ items' = Put(items, rec.source_id, UpdatedRow(items[rec.source_id], rec))
    /\ RecordLocationAlias(rec)
    /\ UNCHANGED <<inventory, observations, runs>>

\* Fault: a closed item is updated like any other.
FaultUpdateReopens(r, rec) ==
    /\ rec.source_id \in DOMAIN items
    /\ ~IdentityConflict(rec)
    /\ rec.observed_at >= items[rec.source_id].last_seen_at
    /\ items' = Put(items, rec.source_id, UpdatedRow(items[rec.source_id], rec))
    /\ InsertObservation(r, rec)
    /\ RecordLocationAlias(rec)
    /\ UNCHANGED <<inventory, runs>>

PersistUpdate(r, rec) ==
    /\ rec.source_id \in DOMAIN items
    /\ ~IdentityConflict(rec)
    /\ rec.observed_at >= items[rec.source_id].last_seen_at
    /\ IsTerminal(items[rec.source_id].status) => IsTerminal(RecordStatus(rec))
    /\ items' = Put(items, rec.source_id, UpdatedRow(items[rec.source_id], rec))
    /\ IF items[rec.source_id].current_observation_hash # rec.observation_hash
       THEN InsertObservation(r, rec)
       ELSE UNCHANGED observations
    /\ RecordLocationAlias(rec)
    /\ UNCHANGED <<inventory, runs>>

PersistReconciledRecord(r, rec) ==
    /\ r \in DOMAIN runs
    /\ \/ PersistInsert(r, rec)
       \/ PersistOutOfOrder(r, rec)
       \/ PersistClosedSeen(r, rec)
       \/ PersistUpdate(r, rec)

-----------------------------------------------------------------------------
(* finish_scrape_run                                                       *)

\* ScrapeRunCoverage.completion_status
CompletionStatus(coverage) ==
    IF /\ coverage.enumeration_complete
       /\ coverage.expected_product_groups = coverage.processed_product_groups
       /\ coverage.detail_attempted = coverage.unique_listings_enumerated
       /\ coverage.detail_succeeded = coverage.unique_listings_enumerated
       /\ coverage.persistence_succeeded = coverage.unique_listings_enumerated
       /\ coverage.persistence_failures = 0
    THEN "complete"
    ELSE "incomplete"

Coalesce(value, default) == IF value = None THEN default ELSE value

SeenRow(t) ==
    [last_complete_seen_at |-> t, complete_absence_count |-> 0,
     inventory_state |-> "current", first_absent_at |-> None, stale_at |-> None]

\* Fault: the count before this absence is compared with the threshold.
FaultStaleOneLate(row, t) ==
    LET stale == row.complete_absence_count >= StaleAbsenceThreshold
    IN  [row EXCEPT !.complete_absence_count = @ + 1,
                    !.inventory_state = IF stale THEN "stale" ELSE "not_observed",
                    !.first_absent_at = Coalesce(@, t),
                    !.stale_at = IF stale THEN Coalesce(@, t) ELSE @]

AbsentRow(row, t) ==
    LET absences == row.complete_absence_count + 1
        stale == absences >= StaleAbsenceThreshold
    IN  [last_complete_seen_at |-> row.last_complete_seen_at,
         complete_absence_count |-> absences,
         inventory_state |-> IF stale THEN "stale" ELSE "not_observed",
         first_absent_at |-> Coalesce(row.first_absent_at, t),
         stale_at |-> IF stale THEN Coalesce(row.stale_at, t) ELSE row.stale_at]

\* _reconcile_complete_inventory: only open items move.
ReconcileCompleteInventory(ids, t) ==
    inventory' = [s \in DOMAIN inventory |->
                    IF items[s].status # "open" THEN inventory[s]
                    ELSE IF s \in ids THEN SeenRow(t)
                    ELSE AbsentRow(inventory[s], t)]

\* Fault: complete coverage is enough, also for a run recorded as failed.
FaultReconcileAnyStatus(r, status, coverage, counts, ids, t) ==
    /\ r \in DOMAIN runs
    /\ status # "running"
    /\ runs' = Put(runs, r,
                   [runs[r] EXCEPT !.status = status, !.finished_at = t, !.counts = counts,
                                   !.completion_status = CompletionStatus(coverage)])
    /\ IF CompletionStatus(coverage) = "complete" THEN ReconcileCompleteInventory(ids, t)
       ELSE UNCHANGED inventory
    /\ UNCHANGED <<items, observations, aliases>>

\* The UPDATE names the run by id only: whatever status it has is overwritten.
FinishScrapeRun(r, status, coverage, counts, ids, t) ==
    /\ r \in DOMAIN runs
    /\ status # "running"
    /\ runs' = Put(runs, r,
                   [runs[r] EXCEPT !.status = status, !.finished_at = t, !.counts = counts,
                                   !.completion_status = CompletionStatus(coverage)])
    /\ IF status = "succeeded" /\ CompletionStatus(coverage) = "complete"
       THEN ReconcileCompleteInventory(ids, t)
       ELSE UNCHANGED inventory
    /\ UNCHANGED <<items, observations, aliases>>

-----------------------------------------------------------------------------
Start == \E r \in RunIds, mode \in Modes, t \in Times : StartScrapeRun(r, mode, t)

Persist == \E r \in RunIds, rec \in Records : PersistReconciledRecord(r, rec)

\* main() records success once, of a run that is running.  Only the handler of
\* an interrupt may record a run a second time, and as failed.
Finish ==
    \E r \in RunIds, status \in ScrapeRunStatus, coverage \in Coverages,
       counts \in Counts, ids \in SUBSET SourceIds, t \in Times :
        /\ FinishScrapeRun(r, status, coverage, counts, ids, t)
        /\ status = "succeeded" => runs[r].status = "running"

Next == Start \/ Persist \/ Finish

Spec == Init /\ [][Next]_vars

-----------------------------------------------------------------------------
(* Properties                                                              *)

\* The tables have the columns and the value sets of database.py, every item
\* has its reconciliation columns, and no key is outside its set.
TypeOK ==
    /\ DOMAIN items \subseteq SourceIds
    /\ items \in [DOMAIN items -> ItemRows]
    /\ inventory \in [DOMAIN items -> InventoryRows]
    /\ observations \subseteq ObservationRows
    /\ DOMAIN aliases \subseteq Locations
    /\ aliases \in [DOMAIN aliases -> AliasRows]
    /\ DOMAIN runs \subseteq RunIds
    /\ runs \in [DOMAIN runs -> RunRows]

\* The read side joins an item to the observations that carry its current
\* hash, and an item without one would vanish from every listing.  After any
\* order of inserts, out-of-order records, closures and updates each item has
\* such an observation, made no later than the item was last seen.
CurrentObservationRecorded ==
    \A s \in DOMAIN items : \E o \in observations :
        /\ o.source_id = s
        /\ o.observation_hash = items[s].current_observation_hash
        /\ o.observed_at <= items[s].last_seen_at

\* An observation belongs to a stored item and a stored run, and none is newer
\* than its item's last_seen_at: what _persist_record files as history can
\* never be ahead of the row it is the history of.
HistoryBehindItem ==
    \A o \in observations :
        /\ o.source_id \in DOMAIN items
        /\ o.run_id \in DOMAIN runs
        /\ o.observed_at <= items[o.source_id].last_seen_at

\* The status column, of items and of observations, is the one hashed into the
\* hash column: a path of _persist_record that wrote only one would break it.
StatusMatchesHash ==
    /\ \A s \in DOMAIN items : items[s].status = StatusOf[items[s].current_observation_hash]
    /\ \A o \in observations : o.status = StatusOf[o.observation_hash]

\* The dates of an item are ordered: it changes within the time it is seen, and
\* closing it is one of the changes.
DatesOrdered ==
    \A s \in DOMAIN items :
        /\ items[s].first_seen_at <= items[s].last_changed_at
        /\ items[s].last_changed_at <= items[s].last_seen_at
        /\ items[s].closed_at # None =>
            /\ items[s].first_seen_at <= items[s].closed_at
            /\ items[s].closed_at <= items[s].last_changed_at

\* closed_at is set exactly on terminal items, and the history holds a terminal
\* observation of that very moment.
ClosureBacked ==
    \A s \in DOMAIN items :
        /\ IsTerminal(items[s].status) <=> items[s].closed_at # None
        /\ items[s].closed_at # None =>
            \E o \in observations :
                /\ o.source_id = s
                /\ o.observed_at = items[s].closed_at
                /\ IsTerminal(o.status)

\* No two items share a display document, whatever renumbering the source
\* does: the check in _persist_record is enough, and the unique constraints
\* on source_dis_id and canonical_source_url are never what rejects a record.
IdentityUnique ==
    \A s, u \in DOMAIN items : items[s].source_dis_id = items[u].source_dis_id => s = u

\* The five reconciliation columns agree: an item counts as current with no
\* absence recorded, stale from the third absence on, and the dates of the
\* first absence and of staleness are there exactly when they should be.
InventoryConsistent ==
    \A s \in DOMAIN inventory :
        LET row == inventory[s] IN
        /\ row.inventory_state = "current" <=> row.complete_absence_count = 0
        /\ row.inventory_state = "stale"
            <=> row.complete_absence_count >= StaleAbsenceThreshold
        /\ row.first_absent_at = None <=> row.complete_absence_count = 0
        /\ row.stale_at = None <=> row.inventory_state # "stale"

\* Every location a listing shows has a row in location_aliases, although the
\* path for closed items skips the alias upsert.
LocationAliased ==
    \A s \in DOMAIN items :
        LocationOf[items[s].metadata_hash] \in DOMAIN aliases \cup {None}

\* A row never contradicts itself or its history, in whatever order its
\* records came and whichever of the four paths of _persist_record they took:
\* the history is behind it, its status is the hashed one, its dates are
\* ordered, its location has an alias.
RowsConsistent == HistoryBehindItem /\ StatusMatchesHash /\ DatesOrdered /\ LocationAliased

\* Once an item is closed or withdrawn no later record reopens it or moves the
\* moment it was closed (terminal-to-terminal changes are allowed).
TerminalAbsorbing ==
    [][\A s \in DOMAIN items : IsTerminal(items[s].status) =>
        IsTerminal(items'[s].status) /\ items'[s].closed_at = items[s].closed_at]_vars

\* Nothing is lost and nothing moves back: rows are never deleted, history is
\* append-only, first_seen_at is fixed, last_seen_at and last_changed_at never
\* decrease, and a change of content is dated by last_changed_at.
HistoryOnlyGrows ==
    [][/\ observations \subseteq observations'
       /\ DOMAIN runs \subseteq DOMAIN runs'
       /\ DOMAIN aliases \subseteq DOMAIN aliases'
       /\ DOMAIN items \subseteq DOMAIN items'
       /\ \A s \in DOMAIN items :
            /\ items'[s].first_seen_at = items[s].first_seen_at
            /\ items'[s].last_seen_at >= items[s].last_seen_at
            /\ items'[s].last_changed_at >= items[s].last_changed_at
            /\ \/ items'[s].last_changed_at = items'[s].last_seen_at
               \/ items'[s] = [items[s] EXCEPT !.last_seen_at = items'[s].last_seen_at]]_vars

\* The reconciliation columns of a stored item move only in the step in which
\* a run goes from running to succeeded with complete coverage, and only while
\* the item is open; such a step adds at most one absence.  So no run ages the
\* inventory twice, and neither a record nor a partial or failed run ages it,
\* whatever runs were complete before.
InventoryMovesWithCompleteRuns ==
    [][\A s \in DOMAIN inventory : inventory'[s] # inventory[s] =>
        /\ items[s].status = "open"
        /\ inventory'[s].complete_absence_count \in {0, inventory[s].complete_absence_count + 1}
        /\ \E r \in DOMAIN runs :
            /\ runs[r].status = "running"
            /\ runs'[r].status = "succeeded"
            /\ runs'[r].completion_status = "complete"]_vars

=============================================================================
