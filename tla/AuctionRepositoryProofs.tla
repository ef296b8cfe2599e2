---------------------- MODULE AuctionRepositoryProofs ----------------------
(***************************************************************************)
(* What AuctionRepository guarantees for any number of items, runs, bid    *)
(* contents and time stamps.                                               *)
(***************************************************************************)
EXTENDS AuctionRepository, TLAPS

\* The rows _persist_record writes are well typed.
LEMMA RowTypes ==
    ASSUME NEW rec \in Records
    PROVE  /\ InsertedRow(rec) \in ItemRows
           /\ \A row \in ItemRows : ClosedRowSeen(row, rec) \in ItemRows
           /\ \A row \in ItemRows : UpdatedRow(row, rec) \in ItemRows
           /\ \A r \in RunIds : ObservationValues(r, rec) \in ObservationRows
  BY RepositoryAssumption
  DEF Records, ItemRows, ObservationRows, InsertedRow, ClosedRowSeen, UpdatedRow,
      ObservationValues, RecordStatus, FirstTerminalObservedAt

\* The rows reconciliation writes are well typed.
LEMMA InventoryTypes ==
    ASSUME NEW t \in Times
    PROVE  /\ NewInventory \in InventoryRows
           /\ SeenRow(t) \in InventoryRows
           /\ \A row \in InventoryRows : AbsentRow(row, t) \in InventoryRows
  BY RepositoryAssumption
  DEF InventoryRows, InventoryStates, NewInventory, SeenRow, AbsentRow, Coalesce

\* The upsert of a location keeps the alias table well typed.
LEMMA AliasType ==
    ASSUME NEW rec \in Records, RecordLocationAlias(rec),
           DOMAIN aliases \subseteq Locations, aliases \in [DOMAIN aliases -> AliasRows]
    PROVE  /\ DOMAIN aliases' \subseteq Locations
           /\ aliases' \in [DOMAIN aliases' -> AliasRows]
           /\ DOMAIN aliases \subseteq DOMAIN aliases'
           /\ LocationOf[rec.metadata_hash] \in DOMAIN aliases' \cup {None}
  BY RepositoryAssumption DEF RecordLocationAlias, AliasRows, Records, Put

\* The insert adds at most the record's own observation, and afterwards an
\* observation with its item, time and hash is there.
LEMMA InsertFacts ==
    ASSUME NEW r, NEW rec, InsertObservation(r, rec)
    PROVE  /\ observations \subseteq observations'
           /\ observations' \subseteq observations \cup {ObservationValues(r, rec)}
           /\ \E o \in observations' :
                /\ o.source_id = rec.source_id
                /\ o.observed_at = rec.observed_at
                /\ o.observation_hash = rec.observation_hash
<1>1. CASE AlreadyObserved(rec)
  BY <1>1 DEF InsertObservation, AlreadyObserved
<1>2. CASE ~AlreadyObserved(rec)
  <2>1. observations' = observations \cup {ObservationValues(r, rec)}
    BY <1>2 DEF InsertObservation
  <2>2. ObservationValues(r, rec) \in observations'
    BY <2>1
  <2>3. /\ ObservationValues(r, rec).source_id = rec.source_id
        /\ ObservationValues(r, rec).observed_at = rec.observed_at
        /\ ObservationValues(r, rec).observation_hash = rec.observation_hash
    BY DEF ObservationValues
  <2>4. QED  BY <2>1, <2>2, <2>3
<1>3. QED  BY <1>1, <1>2

-----------------------------------------------------------------------------
(* Type correctness                                                        *)

\* Empty tables are well typed.
LEMMA InitTypeOK == Init => TypeOK
  BY DEF Init, TypeOK

\* start_scrape_run keeps the types.
LEMMA StartTypeOK == TypeOK /\ Start => TypeOK'
<1> SUFFICES ASSUME TypeOK, NEW r \in RunIds, NEW mode \in Modes, NEW t \in Times,
                    StartScrapeRun(r, mode, t)
             PROVE  TypeOK'
  BY DEF Start
<1> DEFINE row == [status |-> "running", completion_status |-> "pending", mode |-> mode,
                   started_at |-> t, finished_at |-> None, counts |-> None]
<1>1. row \in RunRows
  BY DEF RunRows, ScrapeRunStatus, ScrapeRunCompletion
<1>2. runs' = Put(runs, r, row) /\ UNCHANGED <<items, inventory, observations, aliases>>
  BY DEF StartScrapeRun
<1>3. DOMAIN runs' \subseteq RunIds /\ runs' \in [DOMAIN runs' -> RunRows]
  BY <1>1, <1>2 DEF TypeOK, Put
<1>4. QED  BY <1>2, <1>3 DEF TypeOK

\* persist_reconciled_record keeps the types, on each of its four paths.
LEMMA PersistTypeOK == TypeOK /\ Persist => TypeOK'
<1> SUFFICES ASSUME TypeOK, NEW r \in RunIds, NEW rec \in Records,
                    PersistReconciledRecord(r, rec)
             PROVE  TypeOK'
  BY DEF Persist
<1> DEFINE s == rec.source_id
<1>1. s \in SourceIds
  BY DEF Records
<1>2. InsertObservation(r, rec) => observations' \subseteq ObservationRows
  BY InsertFacts, RowTypes DEF TypeOK
<1>3. RecordLocationAlias(rec) =>
        DOMAIN aliases' \subseteq Locations /\ aliases' \in [DOMAIN aliases' -> AliasRows]
  BY AliasType DEF TypeOK
<1>4. CASE PersistInsert(r, rec)
  <2>1. DOMAIN items' \subseteq SourceIds /\ items' \in [DOMAIN items' -> ItemRows]
    BY <1>1, <1>4, RowTypes DEF PersistInsert, TypeOK, Put
  <2>2. inventory' \in [DOMAIN items' -> InventoryRows]
    <3>1. NewInventory \in InventoryRows
      BY RepositoryAssumption DEF NewInventory, InventoryRows, InventoryStates
    <3>2. QED  BY <1>4, <3>1 DEF PersistInsert, TypeOK, Put
  <2>3. QED  BY <1>2, <1>3, <1>4, <2>1, <2>2 DEF PersistInsert, TypeOK
<1>5. CASE PersistOutOfOrder(r, rec)
  BY <1>2, <1>5 DEF PersistOutOfOrder, TypeOK
<1>6. CASE PersistClosedSeen(r, rec)
  <2>1. DOMAIN items' = DOMAIN items
    BY <1>6 DEF PersistClosedSeen, Put
  <2>2. items[s] \in ItemRows
    BY <1>6 DEF PersistClosedSeen, TypeOK
  <2>3. items' \in [DOMAIN items' -> ItemRows]
    BY <1>6, <2>2, RowTypes DEF PersistClosedSeen, TypeOK, Put
  <2>4. observations' \subseteq ObservationRows
    BY <1>2, <1>6 DEF PersistClosedSeen, RecordNonterminalHistoryAfterClosure, TypeOK
  <2>5. QED  BY <1>6, <2>1, <2>3, <2>4 DEF PersistClosedSeen, TypeOK
<1>7. CASE PersistUpdate(r, rec)
  <2>1. DOMAIN items' = DOMAIN items
    BY <1>7 DEF PersistUpdate, Put
  <2>2. items[s] \in ItemRows
    BY <1>7 DEF PersistUpdate, TypeOK
  <2>3. items' \in [DOMAIN items' -> ItemRows]
    BY <1>7, <2>2, RowTypes DEF PersistUpdate, TypeOK, Put
  <2>4. observations' \subseteq ObservationRows
    BY <1>2, <1>7 DEF PersistUpdate, TypeOK
  <2>5. QED  BY <1>3, <1>7, <2>1, <2>3, <2>4 DEF PersistUpdate, TypeOK
<1>8. QED  BY <1>4, <1>5, <1>6, <1>7 DEF PersistReconciledRecord

\* finish_scrape_run keeps the types, reconciling or not.
LEMMA FinishTypeOK == TypeOK /\ Finish => TypeOK'
<1> SUFFICES ASSUME TypeOK, NEW r \in RunIds, NEW status \in ScrapeRunStatus,
                    NEW coverage \in Coverages, NEW counts \in Counts,
                    NEW ids \in SUBSET SourceIds, NEW t \in Times,
                    FinishScrapeRun(r, status, coverage, counts, ids, t)
             PROVE  TypeOK'
  BY DEF Finish
<1> DEFINE row == [runs[r] EXCEPT !.status = status, !.finished_at = t, !.counts = counts,
                                  !.completion_status = CompletionStatus(coverage)]
<1>1. row \in RunRows
  <2>1. CompletionStatus(coverage) \in ScrapeRunCompletion
    BY DEF CompletionStatus, ScrapeRunCompletion
  <2>2. runs[r] \in RunRows
    BY DEF FinishScrapeRun, TypeOK
  <2>3. QED  BY <2>1, <2>2 DEF RunRows
<1>2. DOMAIN runs' \subseteq RunIds /\ runs' \in [DOMAIN runs' -> RunRows]
  BY <1>1 DEF FinishScrapeRun, TypeOK, Put
<1>3. inventory' \in [DOMAIN items -> InventoryRows]
  <2>1. CASE inventory' = inventory
    BY <2>1 DEF TypeOK
  <2>2. CASE ReconcileCompleteInventory(ids, t)
    BY <2>2, InventoryTypes DEF ReconcileCompleteInventory, TypeOK
  <2>3. QED  BY <2>1, <2>2 DEF FinishScrapeRun
<1>4. QED  BY <1>2, <1>3 DEF FinishScrapeRun, TypeOK

\* Every reachable state of the tables has the declared columns and values.
THEOREM TypeCorrect == Spec => []TypeOK
<1>1. TypeOK /\ [Next]_vars => TypeOK'
  <2>1. TypeOK /\ UNCHANGED vars => TypeOK'
    BY DEF TypeOK, vars
  <2>2. QED  BY <2>1, StartTypeOK, PersistTypeOK, FinishTypeOK DEF Next
<1>2. QED  BY <1>1, InitTypeOK, PTL DEF Spec

-----------------------------------------------------------------------------
(* The invariants.  They are proved together because the important ones    *)
(* are not inductive alone: a closed item is backed by the history because *)
(* its status is the hashed one, its hash changes when it closes, and an   *)
(* insert suppressed by the unique constraint finds an observation of the  *)
(* same hash.                                                              *)

IInv ==
    /\ TypeOK
    /\ CurrentObservationRecorded
    /\ HistoryBehindItem
    /\ StatusMatchesHash
    /\ DatesOrdered
    /\ ClosureBacked
    /\ IdentityUnique
    /\ InventoryConsistent
    /\ LocationAliased

\* The invariant holds of empty tables.
LEMMA InitIInv == Init => IInv
  BY InitTypeOK
  DEF Init, IInv, CurrentObservationRecorded, HistoryBehindItem, StatusMatchesHash,
      DatesOrdered, ClosureBacked, IdentityUnique, InventoryConsistent, LocationAliased

\* Starting a run touches no item.
LEMMA StartIInv == IInv /\ Start => IInv'
<1> SUFFICES ASSUME IInv, NEW r \in RunIds, NEW mode \in Modes, NEW t \in Times,
                    StartScrapeRun(r, mode, t), TypeOK'
             PROVE  IInv'
  BY StartTypeOK DEF Start, IInv
<1>1. UNCHANGED <<items, inventory, observations, aliases>> /\ DOMAIN runs \subseteq DOMAIN runs'
  BY DEF StartScrapeRun, Put
<1>2. QED
  BY <1>1
  DEF IInv, CurrentObservationRecorded, HistoryBehindItem, StatusMatchesHash,
      DatesOrdered, ClosureBacked, IdentityUnique, InventoryConsistent, LocationAliased

\* Finishing a run rewrites the reconciliation columns at most.
LEMMA FinishIInv == IInv /\ Finish => IInv'
<1> SUFFICES ASSUME IInv, NEW r \in RunIds, NEW status \in ScrapeRunStatus,
                    NEW coverage \in Coverages, NEW counts \in Counts,
                    NEW ids \in SUBSET SourceIds, NEW t \in Times,
                    FinishScrapeRun(r, status, coverage, counts, ids, t), TypeOK'
             PROVE  IInv'
  BY FinishTypeOK DEF Finish, IInv
<1>1. UNCHANGED <<items, observations, aliases>> /\ DOMAIN runs \subseteq DOMAIN runs'
  BY DEF FinishScrapeRun, Put
<1>2. InventoryConsistent'
  <2>1. CASE inventory' = inventory
    BY <2>1 DEF IInv, InventoryConsistent
  <2>2. CASE ReconcileCompleteInventory(ids, t)
    <3> SUFFICES ASSUME NEW s \in DOMAIN inventory
                 PROVE  LET row == inventory'[s] IN
                        /\ row.inventory_state = "current" <=> row.complete_absence_count = 0
                        /\ row.inventory_state = "stale"
                            <=> row.complete_absence_count >= StaleAbsenceThreshold
                        /\ row.first_absent_at = None <=> row.complete_absence_count = 0
                        /\ row.stale_at = None <=> row.inventory_state # "stale"
      BY <2>2 DEF ReconcileCompleteInventory, InventoryConsistent
    <3>1. inventory[s] \in InventoryRows
      BY DEF IInv, TypeOK
    <3>2. t # None
      BY RepositoryAssumption
    <3>3. CASE inventory'[s] = inventory[s]
      BY <3>3 DEF IInv, InventoryConsistent
    <3>4. CASE inventory'[s] = SeenRow(t)
      BY <3>4 DEF SeenRow, StaleAbsenceThreshold
    <3>5. CASE inventory'[s] = AbsentRow(inventory[s], t)
      BY <3>1, <3>2, <3>5
      DEF AbsentRow, Coalesce, StaleAbsenceThreshold, InventoryRows, IInv, InventoryConsistent
    <3>6. QED  BY <2>2, <3>3, <3>4, <3>5 DEF ReconcileCompleteInventory
  <2>3. QED  BY <2>1, <2>2 DEF FinishScrapeRun
<1>3. QED
  BY <1>1, <1>2
  DEF IInv, CurrentObservationRecorded, HistoryBehindItem, StatusMatchesHash,
      DatesOrdered, ClosureBacked, IdentityUnique, LocationAliased

\* A record older than its item adds history and nothing else.
LEMMA OutOfOrderIInv ==
    ASSUME IInv, NEW r \in DOMAIN runs, NEW rec \in Records, PersistOutOfOrder(r, rec), TypeOK'
    PROVE  IInv'
<1>1. UNCHANGED <<items, inventory, aliases, runs>>
  BY DEF PersistOutOfOrder
<1>2. /\ observations \subseteq observations'
      /\ observations' \subseteq observations \cup {ObservationValues(r, rec)}
  BY InsertFacts DEF PersistOutOfOrder
<1>3. CurrentObservationRecorded' /\ ClosureBacked'
  BY <1>1, <1>2 DEF IInv, CurrentObservationRecorded, ClosureBacked
<1>4. HistoryBehindItem' /\ StatusMatchesHash'
  <2>1. /\ ObservationValues(r, rec).source_id \in DOMAIN items
        /\ ObservationValues(r, rec).run_id \in DOMAIN runs
        /\ ObservationValues(r, rec).observed_at
            <= items[ObservationValues(r, rec).source_id].last_seen_at
        /\ ObservationValues(r, rec).status
            = StatusOf[ObservationValues(r, rec).observation_hash]
    <3>1. items[rec.source_id].last_seen_at \in Nat /\ rec.observed_at \in Nat
      BY RepositoryAssumption DEF PersistOutOfOrder, IInv, TypeOK, ItemRows, Records
    <3>2. QED  BY <3>1 DEF PersistOutOfOrder, ObservationValues, RecordStatus
  <2>2. QED  BY <1>1, <1>2, <2>1 DEF IInv, HistoryBehindItem, StatusMatchesHash
<1>5. QED
  BY <1>1, <1>3, <1>4 DEF IInv, DatesOrdered, IdentityUnique, InventoryConsistent, LocationAliased

-----------------------------------------------------------------------------
(* The three actions that write the row of the record's item.  The step    *)
(* leaves the other rows alone and adds at most the record's observation;  *)
(* what remains to be shown is about the written row only.                 *)

OnlyItemWritten(r, rec) ==
    /\ DOMAIN items' = DOMAIN items \cup {rec.source_id}
    /\ \A u \in DOMAIN items : u # rec.source_id => items'[u] = items[u]
    /\ runs' = runs
    /\ observations \subseteq observations'
    /\ observations' \subseteq observations \cup {ObservationValues(r, rec)}

WrittenRowCorrect(row, obs, rec) ==
    /\ row.source_dis_id = rec.source_dis_id
    /\ row.last_seen_at = rec.observed_at
    /\ row.status = StatusOf[row.current_observation_hash]
    /\ row.first_seen_at <= row.last_changed_at
    /\ row.last_changed_at <= row.last_seen_at
    /\ row.closed_at # None =>
        /\ row.first_seen_at <= row.closed_at
        /\ row.closed_at <= row.last_changed_at
        /\ \E o \in obs : /\ o.source_id = rec.source_id
                          /\ o.observed_at = row.closed_at
                          /\ IsTerminal(o.status)
    /\ IsTerminal(row.status) <=> row.closed_at # None
    /\ \E o \in obs : /\ o.source_id = rec.source_id
                      /\ o.observation_hash = row.current_observation_hash
                      /\ o.observed_at <= row.last_seen_at

\* Writing one correct row of an item keeps what is stated item by item.
LEMMA WriteKeeps ==
    ASSUME IInv, TypeOK', NEW r \in DOMAIN runs, NEW rec \in Records,
           OnlyItemWritten(r, rec),
           WrittenRowCorrect(items'[rec.source_id], observations', rec),
           rec.source_id \in DOMAIN items => items[rec.source_id].last_seen_at <= rec.observed_at,
           ~IdentityConflict(rec)
    PROVE  /\ CurrentObservationRecorded'
           /\ HistoryBehindItem'
           /\ StatusMatchesHash'
           /\ DatesOrdered'
           /\ ClosureBacked'
           /\ IdentityUnique'
<1> DEFINE s == rec.source_id
<1> DEFINE new == ObservationValues(r, rec)
<1>1. CurrentObservationRecorded'
  BY DEF OnlyItemWritten, WrittenRowCorrect, IInv, CurrentObservationRecorded
<1>2. HistoryBehindItem'
  <2>1. SUFFICES ASSUME NEW o \in observations'
                 PROVE  /\ o.source_id \in DOMAIN items'
                        /\ o.run_id \in DOMAIN runs'
                        /\ o.observed_at <= items'[o.source_id].last_seen_at
    BY DEF HistoryBehindItem
  <2>2. CASE o = new
    <3>1. new.source_id = s /\ new.run_id = r /\ new.observed_at = rec.observed_at
      BY DEF ObservationValues
    <3>2. rec.observed_at \in Nat
      BY RepositoryAssumption DEF Records
    <3>3. QED  BY <2>2, <3>1, <3>2 DEF OnlyItemWritten, WrittenRowCorrect
  <2>3. CASE o \in observations
    <3>1. /\ o.source_id \in DOMAIN items
          /\ o.run_id \in DOMAIN runs
          /\ o.observed_at <= items[o.source_id].last_seen_at
      BY <2>3 DEF IInv, HistoryBehindItem
    <3>2. CASE o.source_id # s
      BY <3>1, <3>2 DEF OnlyItemWritten
    <3>3. CASE o.source_id = s
      <4>1. o.observed_at \in Nat /\ rec.observed_at \in Nat /\ items[s].last_seen_at \in Nat
        BY <2>3, <3>1, <3>3, RepositoryAssumption
        DEF IInv, TypeOK, ObservationRows, ItemRows, Records
      <4>2. QED  BY <3>1, <3>3, <4>1 DEF OnlyItemWritten, WrittenRowCorrect
    <3>4. QED  BY <3>2, <3>3
  <2>4. QED  BY <2>2, <2>3 DEF OnlyItemWritten
<1>3. StatusMatchesHash'
  <2>1. new.status = StatusOf[new.observation_hash]
    BY DEF ObservationValues, RecordStatus
  <2>2. QED  BY <2>1 DEF OnlyItemWritten, WrittenRowCorrect, IInv, StatusMatchesHash
<1>4. DatesOrdered'
  BY DEF OnlyItemWritten, WrittenRowCorrect, IInv, DatesOrdered
<1>5. ClosureBacked'
  BY DEF OnlyItemWritten, WrittenRowCorrect, IInv, ClosureBacked
<1>6. IdentityUnique'
  BY DEF OnlyItemWritten, WrittenRowCorrect, IInv, IdentityUnique, IdentityConflict
<1>7. QED  BY <1>1, <1>2, <1>3, <1>4, <1>5, <1>6

\* The path of a new item keeps the invariant.
LEMMA InsertIInv ==
    ASSUME IInv, NEW r \in DOMAIN runs, NEW rec \in Records, PersistInsert(r, rec), TypeOK'
    PROVE  IInv'
<1> DEFINE s == rec.source_id
<1>1. OnlyItemWritten(r, rec)
  BY InsertFacts DEF PersistInsert, Put, OnlyItemWritten
<1>2. items'[s] = InsertedRow(rec)
  BY DEF PersistInsert, Put
<1>3. PICK o \in observations' : /\ o.source_id = s
                                 /\ o.observed_at = rec.observed_at
                                 /\ o.observation_hash = rec.observation_hash
  BY InsertFacts DEF PersistInsert
<1>4. o.status = RecordStatus(rec)
  BY <1>1, <1>3 DEF OnlyItemWritten, ObservationValues, RecordStatus, IInv, StatusMatchesHash
<1>5. rec.observed_at \in Nat /\ rec.observed_at # None
  BY RepositoryAssumption DEF Records
<1>6. WrittenRowCorrect(items'[s], observations', rec)
  BY <1>2, <1>3, <1>4, <1>5
  DEF InsertedRow, WrittenRowCorrect, FirstTerminalObservedAt, RecordStatus
<1>7. InventoryConsistent'
  BY DEF PersistInsert, Put, NewInventory, StaleAbsenceThreshold, IInv, InventoryConsistent
<1>8. LocationAliased'
  <2>1. /\ DOMAIN aliases \subseteq DOMAIN aliases'
        /\ LocationOf[rec.metadata_hash] \in DOMAIN aliases' \cup {None}
    BY AliasType DEF PersistInsert, IInv, TypeOK
  <2>2. items'[s].metadata_hash = rec.metadata_hash
    BY <1>2 DEF InsertedRow
  <2>3. QED  BY <1>1, <2>1, <2>2 DEF OnlyItemWritten, IInv, LocationAliased
<1>9. QED  BY <1>1, <1>6, <1>7, <1>8, WriteKeeps DEF PersistInsert, IInv

\* The path of a closed item seen nonterminal keeps the invariant.
LEMMA ClosedSeenIInv ==
    ASSUME IInv, NEW r \in DOMAIN runs, NEW rec \in Records, PersistClosedSeen(r, rec), TypeOK'
    PROVE  IInv'
<1> DEFINE s == rec.source_id
<1>1. OnlyItemWritten(r, rec)
  BY InsertFacts DEF PersistClosedSeen, RecordNonterminalHistoryAfterClosure, Put, OnlyItemWritten
<1>2. s \in DOMAIN items /\ items[s] \in ItemRows /\ items'[s] = ClosedRowSeen(items[s], rec)
  BY DEF PersistClosedSeen, Put, IInv, TypeOK
<1>3. /\ items'[s].source_dis_id = rec.source_dis_id
      /\ items'[s].last_seen_at = rec.observed_at
      /\ items'[s].last_changed_at \in {rec.observed_at, items[s].last_changed_at}
      /\ items'[s].status = items[s].status
      /\ items'[s].current_observation_hash = items[s].current_observation_hash
      /\ items'[s].metadata_hash = items[s].metadata_hash
      /\ items'[s].first_seen_at = items[s].first_seen_at
      /\ items'[s].closed_at = items[s].closed_at
  BY <1>2 DEF ClosedRowSeen, ItemRows
<1>4. /\ rec.observed_at \in Nat
      /\ items[s].last_seen_at \in Nat
      /\ items[s].last_changed_at \in Nat
      /\ items[s].first_seen_at \in Nat
      /\ items[s].closed_at # None => items[s].closed_at \in Nat
      /\ items[s].last_seen_at <= rec.observed_at
  BY <1>2, RepositoryAssumption DEF PersistClosedSeen, ItemRows, Records
<1>5. WrittenRowCorrect(items'[s], observations', rec)
  <2>1. /\ items'[s].first_seen_at <= items'[s].last_changed_at
        /\ items'[s].last_changed_at <= items'[s].last_seen_at
        /\ items'[s].closed_at # None =>
            /\ items'[s].first_seen_at <= items'[s].closed_at
            /\ items'[s].closed_at <= items'[s].last_changed_at
    BY <1>2, <1>3, <1>4 DEF IInv, DatesOrdered
  <2>2. \E o \in observations' : /\ o.source_id = s
                                 /\ o.observation_hash = items'[s].current_observation_hash
                                 /\ o.observed_at <= items'[s].last_seen_at
    <3>1. PICK o \in observations : /\ o.source_id = s
                                    /\ o.observation_hash = items[s].current_observation_hash
                                    /\ o.observed_at <= items[s].last_seen_at
      BY <1>2 DEF IInv, CurrentObservationRecorded
    <3>2. o.observed_at \in Nat
      BY RepositoryAssumption DEF IInv, TypeOK, ObservationRows
    <3>3. QED  BY <1>1, <1>3, <1>4, <3>1, <3>2 DEF OnlyItemWritten
  <2>3. QED
    BY <1>1, <1>2, <1>3, <2>1, <2>2
    DEF WrittenRowCorrect, OnlyItemWritten, IInv, StatusMatchesHash, ClosureBacked
<1>6. InventoryConsistent'
  BY DEF PersistClosedSeen, IInv, InventoryConsistent
<1>7. LocationAliased'
  BY <1>1, <1>2, <1>3 DEF PersistClosedSeen, OnlyItemWritten, IInv, LocationAliased
<1>8. QED  BY <1>1, <1>4, <1>5, <1>6, <1>7, WriteKeeps DEF PersistClosedSeen, IInv

\* The facts about an ordinary update that both the invariant and the action
\* properties rest on.
LEMMA UpdateFacts ==
    ASSUME IInv, NEW r \in DOMAIN runs, NEW rec \in Records, PersistUpdate(r, rec)
    PROVE  LET s == rec.source_id IN
           /\ OnlyItemWritten(r, rec)
           /\ s \in DOMAIN items
           /\ items[s] \in ItemRows
           /\ items'[s] = UpdatedRow(items[s], rec)
           /\ rec.observed_at \in Nat
           /\ rec.observed_at # None
           /\ items[s].last_seen_at \in Nat
           /\ items[s].last_changed_at \in Nat
           /\ items[s].first_seen_at \in Nat
           /\ items[s].closed_at # None => items[s].closed_at \in Nat
           /\ items[s].last_seen_at <= rec.observed_at
<1> DEFINE s == rec.source_id
<1>1. OnlyItemWritten(r, rec)
  <2>1. CASE items[s].current_observation_hash # rec.observation_hash
    BY <2>1, InsertFacts DEF PersistUpdate, Put, OnlyItemWritten
  <2>2. CASE items[s].current_observation_hash = rec.observation_hash
    BY <2>2 DEF PersistUpdate, Put, OnlyItemWritten
  <2>3. QED  BY <2>1, <2>2
<1>2. s \in DOMAIN items /\ items[s] \in ItemRows /\ items'[s] = UpdatedRow(items[s], rec)
  BY DEF PersistUpdate, Put, IInv, TypeOK
<1>3. QED
  BY <1>1, <1>2, RepositoryAssumption DEF PersistUpdate, ItemRows, Records

\* The ordinary update keeps the invariant.
LEMMA UpdateIInv ==
    ASSUME IInv, NEW r \in DOMAIN runs, NEW rec \in Records, PersistUpdate(r, rec), TypeOK'
    PROVE  IInv'
<1> DEFINE s == rec.source_id
<1> DEFINE old == items[s]
<1>1. OnlyItemWritten(r, rec) /\ items'[s] = UpdatedRow(old, rec)
  BY UpdateFacts
<1>2. /\ s \in DOMAIN items
      /\ old \in ItemRows
      /\ rec.observed_at \in Nat
      /\ rec.observed_at # None
      /\ old.last_seen_at \in Nat
      /\ old.last_changed_at \in Nat
      /\ old.first_seen_at \in Nat
      /\ old.closed_at # None => old.closed_at \in Nat
      /\ old.last_seen_at <= rec.observed_at
  BY UpdateFacts
<1>3. /\ items'[s].source_dis_id = rec.source_dis_id
      /\ items'[s].last_seen_at = rec.observed_at
      /\ items'[s].last_changed_at = IF Changed(old, rec) THEN rec.observed_at
                                     ELSE old.last_changed_at
      /\ items'[s].status = RecordStatus(rec)
      /\ items'[s].current_observation_hash = rec.observation_hash
      /\ items'[s].metadata_hash = rec.metadata_hash
      /\ items'[s].first_seen_at = old.first_seen_at
      /\ items'[s].closed_at = FirstTerminalObservedAt(old.closed_at, rec)
  BY <1>1 DEF UpdatedRow
<1>4. /\ old.first_seen_at <= old.last_changed_at
      /\ old.last_changed_at <= old.last_seen_at
      /\ old.closed_at # None => /\ old.first_seen_at <= old.closed_at
                                 /\ old.closed_at <= old.last_changed_at
      /\ IsTerminal(old.status) <=> old.closed_at # None
      /\ old.status = StatusOf[old.current_observation_hash]
  BY <1>2 DEF IInv, DatesOrdered, ClosureBacked, StatusMatchesHash
<1>5. /\ items'[s].first_seen_at <= items'[s].last_changed_at
      /\ items'[s].last_changed_at <= items'[s].last_seen_at
      /\ items'[s].closed_at # None =>
            /\ items'[s].first_seen_at <= items'[s].closed_at
            /\ items'[s].closed_at <= items'[s].last_changed_at
  BY <1>2, <1>3, <1>4 DEF Changed, FirstTerminalObservedAt
<1>6. \E o \in observations' : /\ o.source_id = s
                               /\ o.observation_hash = rec.observation_hash
                               /\ o.observed_at <= rec.observed_at
  <2>1. CASE old.current_observation_hash # rec.observation_hash
    BY <1>2, <2>1, InsertFacts DEF PersistUpdate
  <2>2. CASE old.current_observation_hash = rec.observation_hash
    <3>1. PICK o \in observations : /\ o.source_id = s
                                    /\ o.observation_hash = old.current_observation_hash
                                    /\ o.observed_at <= old.last_seen_at
      BY <1>2 DEF IInv, CurrentObservationRecorded
    <3>2. o.observed_at \in Nat
      BY RepositoryAssumption DEF IInv, TypeOK, ObservationRows
    <3>3. QED  BY <1>1, <1>2, <2>2, <3>1, <3>2 DEF OnlyItemWritten
  <2>3. QED  BY <2>1, <2>2
<1>7. IsTerminal(items'[s].status) <=> items'[s].closed_at # None
  BY <1>2, <1>3, <1>4 DEF PersistUpdate, FirstTerminalObservedAt
<1>8. items'[s].closed_at # None =>
        \E o \in observations' : /\ o.source_id = s
                                 /\ o.observed_at = items'[s].closed_at
                                 /\ IsTerminal(o.status)
  <2>1. CASE old.closed_at # None
    <3>1. items'[s].closed_at = old.closed_at
      BY <1>3, <2>1 DEF FirstTerminalObservedAt
    <3>2. QED  BY <1>1, <1>2, <2>1, <3>1 DEF OnlyItemWritten, IInv, ClosureBacked
  <2>2. CASE old.closed_at = None /\ IsTerminal(RecordStatus(rec))
    \* The item closes now, so its hash changes and the record is inserted.
    <3>1. old.current_observation_hash # rec.observation_hash
      BY <1>4, <2>2 DEF RecordStatus
    <3>2. PICK o \in observations' : /\ o.source_id = s
                                     /\ o.observed_at = rec.observed_at
                                     /\ o.observation_hash = rec.observation_hash
      BY <3>1, InsertFacts DEF PersistUpdate
    <3>3. o.status = RecordStatus(rec)
      BY <1>1, <3>2 DEF OnlyItemWritten, ObservationValues, RecordStatus, IInv, StatusMatchesHash
    <3>4. items'[s].closed_at = rec.observed_at
      BY <1>3, <2>2 DEF FirstTerminalObservedAt
    <3>5. QED  BY <2>2, <3>2, <3>3, <3>4
  <2>3. CASE old.closed_at = None /\ ~IsTerminal(RecordStatus(rec))
    BY <1>3, <2>3 DEF FirstTerminalObservedAt
  <2>4. QED  BY <2>1, <2>2, <2>3
<1>9. WrittenRowCorrect(items'[s], observations', rec)
  BY <1>3, <1>5, <1>6, <1>7, <1>8 DEF WrittenRowCorrect, RecordStatus
<1>10. InventoryConsistent'
  BY DEF PersistUpdate, IInv, InventoryConsistent
<1>11. LocationAliased'
  <2>1. /\ DOMAIN aliases \subseteq DOMAIN aliases'
        /\ LocationOf[rec.metadata_hash] \in DOMAIN aliases' \cup {None}
    BY AliasType DEF PersistUpdate, IInv, TypeOK
  <2>2. QED  BY <1>1, <1>3, <2>1 DEF OnlyItemWritten, IInv, LocationAliased
<1>12. QED  BY <1>1, <1>2, <1>9, <1>10, <1>11, WriteKeeps DEF PersistUpdate, IInv

\* persist_reconciled_record keeps the invariant.
LEMMA PersistIInv == IInv /\ Persist => IInv'
<1> SUFFICES ASSUME IInv, NEW r \in RunIds, NEW rec \in Records,
                    PersistReconciledRecord(r, rec), TypeOK'
             PROVE  IInv'
  BY PersistTypeOK DEF Persist, IInv
<1>1. r \in DOMAIN runs
  BY DEF PersistReconciledRecord
<1>2. QED
  BY <1>1, InsertIInv, OutOfOrderIInv, ClosedSeenIInv, UpdateIInv DEF PersistReconciledRecord

\* Every step keeps the invariant.
LEMMA StepIInv == IInv /\ [Next]_vars => IInv'
<1>1. IInv /\ UNCHANGED vars => IInv'
  BY DEF IInv, vars, TypeOK, CurrentObservationRecorded, HistoryBehindItem, StatusMatchesHash,
         DatesOrdered, ClosureBacked, IdentityUnique, InventoryConsistent, LocationAliased
<1>2. QED  BY <1>1, StartIInv, PersistIInv, FinishIInv DEF Next

\* Every safety invariant of the store, for every history of runs, records
\* and time stamps.
THEOREM RepositorySafe == Spec => []IInv
  BY InitIInv, StepIInv, PTL DEF Spec

\* No listing can drop out of the read side's join.
THEOREM ListingsNeverVanish == Spec => []CurrentObservationRecorded
<1>1. IInv => CurrentObservationRecorded
  BY DEF IInv
<1>2. QED  BY <1>1, RepositorySafe, PTL

\* closed_at is the moment of a recorded terminal observation, on exactly the
\* terminal items.
THEOREM ClosuresBacked == Spec => []ClosureBacked
<1>1. IInv => ClosureBacked
  BY DEF IInv
<1>2. QED  BY <1>1, RepositorySafe, PTL

\* No two stored items share a display document.
THEOREM IdentitiesUnique == Spec => []IdentityUnique
<1>1. IInv => IdentityUnique
  BY DEF IInv
<1>2. QED  BY <1>1, RepositorySafe, PTL

\* Every observation belongs to a stored item and run, and none is newer than
\* its item's last_seen_at.
THEOREM HistoryNeverAhead == Spec => []HistoryBehindItem
<1>1. IInv => HistoryBehindItem
  BY DEF IInv
<1>2. QED  BY <1>1, RepositorySafe, PTL

\* The status column is the one hashed into the hash column, on every path of
\* _persist_record.
THEOREM StatusIsHashed == Spec => []StatusMatchesHash
<1>1. IInv => StatusMatchesHash
  BY DEF IInv
<1>2. QED  BY <1>1, RepositorySafe, PTL

\* first_seen_at, closed_at, last_changed_at and last_seen_at keep their order,
\* in whatever order the records of an item arrive.
THEOREM DatesStayOrdered == Spec => []DatesOrdered
<1>1. IInv => DatesOrdered
  BY DEF IInv
<1>2. QED  BY <1>1, RepositorySafe, PTL

\* Every location a listing shows has an alias, although the path for closed
\* items records none.
THEOREM LocationsAliased == Spec => []LocationAliased
<1>1. IInv => LocationAliased
  BY DEF IInv
<1>2. QED  BY <1>1, RepositorySafe, PTL

\* No row contradicts itself or its history.
THEOREM RowsStayConsistent == Spec => []RowsConsistent
<1>1. IInv => RowsConsistent
  BY DEF IInv, RowsConsistent
<1>2. QED  BY <1>1, RepositorySafe, PTL

\* The five reconciliation columns agree on every item, through any number of
\* complete runs.
THEOREM InventoryColumnsAgree == Spec => []InventoryConsistent
<1>1. IInv => InventoryConsistent
  BY DEF IInv
<1>2. QED  BY <1>1, RepositorySafe, PTL

-----------------------------------------------------------------------------
(* Action properties                                                       *)

\* The step inside TerminalAbsorbing.
TerminalStep ==
    \A s \in DOMAIN items : IsTerminal(items[s].status) =>
        IsTerminal(items'[s].status) /\ items'[s].closed_at = items[s].closed_at

\* No step of the repository reopens a closed item.
LEMMA TerminalNext == IInv /\ [Next]_vars => [TerminalStep]_vars
<1> SUFFICES ASSUME IInv, Next PROVE TerminalStep
  BY DEF vars
<1>1. CASE UNCHANGED items
  BY <1>1 DEF TerminalStep
<1>2. ASSUME NEW r \in RunIds, NEW rec \in Records, PersistReconciledRecord(r, rec)
      PROVE  TerminalStep
  <2> DEFINE s == rec.source_id
  <2>1. r \in DOMAIN runs
    BY <1>2 DEF PersistReconciledRecord
  <2>2. CASE PersistInsert(r, rec)
    BY <2>2 DEF PersistInsert, Put, TerminalStep
  <2>3. CASE PersistOutOfOrder(r, rec)
    BY <1>1, <2>3 DEF PersistOutOfOrder
  <2>4. CASE PersistClosedSeen(r, rec)
    <3>1. /\ items'[s].status = items[s].status
          /\ items'[s].closed_at = items[s].closed_at
      <4>1. items[s] \in ItemRows /\ items'[s] = ClosedRowSeen(items[s], rec)
        BY <2>4 DEF PersistClosedSeen, Put, IInv, TypeOK
      <4>2. QED  BY <4>1 DEF ClosedRowSeen, ItemRows
    <3>2. \A u \in DOMAIN items : u # s => items'[u] = items[u]
      BY <2>4 DEF PersistClosedSeen, Put
    <3>3. QED  BY <3>1, <3>2 DEF TerminalStep
  <2>5. CASE PersistUpdate(r, rec)
    <3>1. /\ items'[s] = UpdatedRow(items[s], rec)
          /\ OnlyItemWritten(r, rec)
          /\ s \in DOMAIN items
      BY <2>1, <2>5, UpdateFacts
    <3>2. IsTerminal(items[s].status) =>
            /\ IsTerminal(RecordStatus(rec))
            /\ items[s].closed_at # None
      BY <2>5, <3>1 DEF PersistUpdate, IInv, ClosureBacked
    <3>3. QED
      BY <3>1, <3>2 DEF UpdatedRow, FirstTerminalObservedAt, OnlyItemWritten, TerminalStep
  <2>6. QED  BY <1>2, <2>2, <2>3, <2>4, <2>5 DEF PersistReconciledRecord
<1>3. CASE Start \/ Finish
  BY <1>1, <1>3 DEF Start, StartScrapeRun, Finish, FinishScrapeRun
<1>4. QED  BY <1>2, <1>3 DEF Next, Persist

\* A closed or withdrawn item stays so, with the closing moment it has: no
\* order of records, however stale or repeated, reopens it.
THEOREM ClosedForever == Spec => TerminalAbsorbing
<1>1. Spec => [][TerminalStep]_vars
  BY RepositorySafe, TerminalNext, PTL DEF Spec
<1>2. QED  BY <1>1 DEF TerminalStep, TerminalAbsorbing

-----------------------------------------------------------------------------
\* The step inside InventoryMovesWithCompleteRuns.
InventoryStep ==
    \A s \in DOMAIN inventory : inventory'[s] # inventory[s] =>
        /\ items[s].status = "open"
        /\ inventory'[s].complete_absence_count \in {0, inventory[s].complete_absence_count + 1}
        /\ \E r \in DOMAIN runs :
            /\ runs[r].status = "running"
            /\ runs'[r].status = "succeeded"
            /\ runs'[r].completion_status = "complete"

\* A step that moves the reconciliation columns is the one that records the
\* success of a complete run.
LEMMA InventoryNext == IInv /\ [Next]_vars => [InventoryStep]_vars
<1> SUFFICES ASSUME IInv, Next PROVE InventoryStep
  BY DEF vars
<1>1. CASE UNCHANGED inventory
  BY <1>1 DEF InventoryStep
<1>2. CASE Start
  BY <1>1, <1>2 DEF Start, StartScrapeRun
<1>3. CASE Persist
  <2>1. PICK r \in RunIds, rec \in Records : PersistReconciledRecord(r, rec)
    BY <1>3 DEF Persist
  <2>2. CASE PersistInsert(r, rec)
    BY <2>2 DEF PersistInsert, Put, InventoryStep, IInv, TypeOK
  <2>3. QED
    BY <1>1, <2>1, <2>2
    DEF PersistReconciledRecord, PersistOutOfOrder, PersistClosedSeen, PersistUpdate
<1>4. CASE Finish
  <2>1. PICK r \in RunIds, status \in ScrapeRunStatus, coverage \in Coverages,
             counts \in Counts, ids \in SUBSET SourceIds, t \in Times :
                /\ FinishScrapeRun(r, status, coverage, counts, ids, t)
                /\ status = "succeeded" => runs[r].status = "running"
    BY <1>4 DEF Finish
  <2>2. CASE status = "succeeded" /\ CompletionStatus(coverage) = "complete"
    <3>1. ReconcileCompleteInventory(ids, t)
      BY <2>1, <2>2 DEF FinishScrapeRun
    <3>2. \A s \in DOMAIN inventory : inventory'[s] # inventory[s] =>
            /\ items[s].status = "open"
            /\ inventory'[s].complete_absence_count
                \in {0, inventory[s].complete_absence_count + 1}
      BY <3>1 DEF ReconcileCompleteInventory, SeenRow, AbsentRow
    <3>3. /\ r \in DOMAIN runs
          /\ runs[r] \in RunRows
          /\ runs'[r] = [runs[r] EXCEPT !.status = status, !.finished_at = t,
                                        !.counts = counts,
                                        !.completion_status = CompletionStatus(coverage)]
      BY <2>1 DEF FinishScrapeRun, Put, IInv, TypeOK
    <3>4. /\ runs[r].status = "running"
          /\ runs'[r].status = "succeeded"
          /\ runs'[r].completion_status = "complete"
      BY <2>1, <2>2, <3>3 DEF RunRows
    <3>5. QED  BY <3>2, <3>3, <3>4 DEF InventoryStep
  <2>3. CASE ~(status = "succeeded" /\ CompletionStatus(coverage) = "complete")
    BY <1>1, <2>1, <2>3 DEF FinishScrapeRun
  <2>4. QED  BY <2>2, <2>3
<1>5. QED  BY <1>2, <1>3, <1>4 DEF Next

\* The inventory moves in the very steps in which a running run is recorded as
\* succeeded and complete: partial, failed and incomplete runs never age it,
\* no run ages it twice, and neither does persisting a record.
THEOREM InventoryMovesOnlyThen == Spec => InventoryMovesWithCompleteRuns
<1>1. Spec => [][InventoryStep]_vars
  BY RepositorySafe, InventoryNext, PTL DEF Spec
<1>2. QED  BY <1>1 DEF InventoryStep, InventoryMovesWithCompleteRuns

-----------------------------------------------------------------------------
\* The step inside HistoryOnlyGrows.
GrowthStep ==
    /\ observations \subseteq observations'
    /\ DOMAIN runs \subseteq DOMAIN runs'
    /\ DOMAIN aliases \subseteq DOMAIN aliases'
    /\ DOMAIN items \subseteq DOMAIN items'
    /\ \A s \in DOMAIN items :
        /\ items'[s].first_seen_at = items[s].first_seen_at
        /\ items'[s].last_seen_at >= items[s].last_seen_at
        /\ items'[s].last_changed_at >= items[s].last_changed_at
        /\ \/ items'[s].last_changed_at = items'[s].last_seen_at
           \/ items'[s] = [items[s] EXCEPT !.last_seen_at = items'[s].last_seen_at]

\* An item that is left alone has not moved back.
LEMMA RowKept ==
    ASSUME NEW row \in ItemRows
    PROVE  /\ row.last_seen_at >= row.last_seen_at
           /\ row.last_changed_at >= row.last_changed_at
           /\ row = [row EXCEPT !.last_seen_at = row.last_seen_at]
  BY RepositoryAssumption DEF ItemRows

\* The row that replaces one no newer than the record: no date moves back, and
\* either the change is dated or last_seen_at is all that changed.
LEMMA RowGrows ==
    ASSUME NEW row \in ItemRows, NEW rec \in Records,
           row.status = StatusOf[row.current_observation_hash],
           row.last_changed_at <= row.last_seen_at, row.last_seen_at <= rec.observed_at,
           NEW new \in {ClosedRowSeen(row, rec), UpdatedRow(row, rec)}
    PROVE  /\ new.first_seen_at = row.first_seen_at
           /\ new.last_seen_at >= row.last_seen_at
           /\ new.last_changed_at >= row.last_changed_at
           /\ \/ new.last_changed_at = new.last_seen_at
              \/ new = [row EXCEPT !.last_seen_at = new.last_seen_at]
<1>1. /\ rec.observed_at \in Nat
      /\ row.last_seen_at \in Nat
      /\ row.last_changed_at \in Nat
  BY RepositoryAssumption DEF ItemRows, Records
<1>2. CASE new = ClosedRowSeen(row, rec)
  <2>1. /\ new.first_seen_at = row.first_seen_at
        /\ new.last_seen_at = rec.observed_at
        /\ new.last_changed_at \in {rec.observed_at, row.last_changed_at}
    BY <1>2 DEF ClosedRowSeen, ItemRows
  <2>2. CASE row.source_dis_id # rec.source_dis_id
    <3>1. new.last_changed_at = rec.observed_at
      BY <1>2, <2>2 DEF ClosedRowSeen, ItemRows
    <3>2. QED  BY <1>1, <2>1, <3>1
  <2>3. CASE row.source_dis_id = rec.source_dis_id
    <3>1. new = [row EXCEPT !.last_seen_at = rec.observed_at]
      BY <1>2, <2>3 DEF ClosedRowSeen, ItemRows
    <3>2. QED  BY <1>1, <2>1, <3>1
  <2>4. QED  BY <2>2, <2>3
<1>3. CASE new = UpdatedRow(row, rec)
  <2>1. /\ new.first_seen_at = row.first_seen_at
        /\ new.last_seen_at = rec.observed_at
        /\ new.last_changed_at \in {rec.observed_at, row.last_changed_at}
    BY <1>3 DEF UpdatedRow
  <2>2. CASE Changed(row, rec)
    <3>1. new.last_changed_at = rec.observed_at
      BY <1>3, <2>2 DEF UpdatedRow
    <3>2. QED  BY <1>1, <2>1, <3>1
  <2>3. CASE ~Changed(row, rec)
    <3>1. /\ row.source_dis_id = rec.source_dis_id
          /\ row.metadata_hash = rec.metadata_hash
          /\ row.current_observation_hash = rec.observation_hash
          /\ row.closed_at = FirstTerminalObservedAt(row.closed_at, rec)
          /\ row.status = RecordStatus(rec)
      BY <2>3 DEF Changed, RecordStatus
    <3>2. new = [source_dis_id |-> row.source_dis_id, metadata_hash |-> row.metadata_hash,
                 status |-> row.status,
                 current_observation_hash |-> row.current_observation_hash,
                 first_seen_at |-> row.first_seen_at, last_seen_at |-> rec.observed_at,
                 last_changed_at |-> row.last_changed_at, closed_at |-> row.closed_at]
      BY <1>3, <2>3, <3>1 DEF UpdatedRow
    <3>3. new = [row EXCEPT !.last_seen_at = rec.observed_at]
      BY <3>2 DEF ItemRows
    <3>4. QED  BY <1>1, <2>1, <3>3
  <2>4. QED  BY <2>2, <2>3
<1>4. QED  BY <1>2, <1>3

\* No step of the repository deletes a row or moves a date of an item back.
LEMMA GrowthNext == IInv /\ [Next]_vars => [GrowthStep]_vars
<1> SUFFICES ASSUME IInv, Next PROVE GrowthStep
  BY DEF vars
<1>1. \A u \in DOMAIN items : items[u] \in ItemRows
  BY DEF IInv, TypeOK
<1>2. CASE UNCHANGED <<items, observations, aliases>> /\ DOMAIN runs \subseteq DOMAIN runs'
  BY <1>1, <1>2, RowKept DEF GrowthStep
<1>3. CASE Start
  BY <1>2, <1>3 DEF Start, StartScrapeRun, Put
<1>4. CASE Finish
  <2>1. UNCHANGED <<items, observations, aliases>> /\ DOMAIN runs \subseteq DOMAIN runs'
    BY <1>4 DEF Finish, FinishScrapeRun, Put
  <2>2. QED  BY <1>2, <2>1
<1>5. CASE Persist
  <2>1. PICK r \in RunIds, rec \in Records : PersistReconciledRecord(r, rec)
    BY <1>5 DEF Persist
  <2> DEFINE s == rec.source_id
  <2>2. UNCHANGED runs
    BY <2>1
    DEF PersistReconciledRecord, PersistInsert, PersistOutOfOrder, PersistClosedSeen, PersistUpdate
  <2>3. CASE PersistInsert(r, rec)
    <3>1. observations \subseteq observations' /\ DOMAIN aliases \subseteq DOMAIN aliases'
      BY <2>3, InsertFacts, AliasType DEF PersistInsert, IInv, TypeOK
    <3>2. /\ DOMAIN items \subseteq DOMAIN items'
          /\ \A u \in DOMAIN items : items'[u] = items[u]
      BY <2>3 DEF PersistInsert, Put
    <3>3. QED  BY <1>1, <2>2, <3>1, <3>2, RowKept DEF GrowthStep
  <2>4. CASE PersistOutOfOrder(r, rec)
    <3>1. observations \subseteq observations'
      BY <2>4, InsertFacts DEF PersistOutOfOrder
    <3>2. UNCHANGED <<items, aliases>>
      BY <2>4 DEF PersistOutOfOrder
    <3>3. QED  BY <1>1, <2>2, <3>1, <3>2, RowKept DEF GrowthStep
  <2>5. s \in DOMAIN items =>
          /\ items[s].status = StatusOf[items[s].current_observation_hash]
          /\ items[s].last_changed_at <= items[s].last_seen_at
    BY DEF IInv, StatusMatchesHash, DatesOrdered
  <2>6. CASE PersistClosedSeen(r, rec)
    <3>1. /\ observations \subseteq observations'
          /\ \A u \in DOMAIN items : u # s => items'[u] = items[u]
      BY <2>6, InsertFacts DEF PersistClosedSeen, RecordNonterminalHistoryAfterClosure, Put
    <3>2. /\ s \in DOMAIN items
          /\ DOMAIN items' = DOMAIN items
          /\ items'[s] = ClosedRowSeen(items[s], rec)
          /\ items[s].last_seen_at <= rec.observed_at
          /\ UNCHANGED aliases
      <4>1. items[s].last_seen_at \in Nat /\ rec.observed_at \in Nat
        BY <1>1, <2>6, RepositoryAssumption DEF PersistClosedSeen, ItemRows, Records
      <4>2. QED  BY <2>6, <4>1 DEF PersistClosedSeen, Put
    <3>3. QED  BY <1>1, <2>2, <2>5, <3>1, <3>2, RowGrows, RowKept DEF GrowthStep
  <2>7. CASE PersistUpdate(r, rec)
    <3>1. r \in DOMAIN runs
      BY <2>1 DEF PersistReconciledRecord
    <3>2. /\ OnlyItemWritten(r, rec)
          /\ s \in DOMAIN items
          /\ items'[s] = UpdatedRow(items[s], rec)
          /\ items[s].last_seen_at <= rec.observed_at
      BY <2>7, <3>1, UpdateFacts
    <3>3. DOMAIN aliases \subseteq DOMAIN aliases'
      BY <2>7, AliasType DEF PersistUpdate, IInv, TypeOK
    <3>4. QED
      BY <1>1, <2>2, <2>5, <3>2, <3>3, RowGrows, RowKept DEF GrowthStep, OnlyItemWritten
  <2>8. QED
    BY <2>1, <2>3, <2>4, <2>6, <2>7 DEF PersistReconciledRecord
<1>6. QED  BY <1>3, <1>4, <1>5 DEF Next

\* Rows are never deleted, history is append-only, and no date of an item
\* moves back.
THEOREM HistoryGrows == Spec => HistoryOnlyGrows
<1>1. Spec => [][GrowthStep]_vars
  BY RepositorySafe, GrowthNext, PTL DEF Spec
<1>2. QED  BY <1>1 DEF GrowthStep, HistoryOnlyGrows

=============================================================================
