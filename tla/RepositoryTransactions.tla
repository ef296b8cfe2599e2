----------------------- MODULE RepositoryTransactions -----------------------
(***************************************************************************)
(* persist_reconciled_record as PostgreSQL runs it for several writers at  *)
(* the default isolation level, READ COMMITTED.                            *)
(*                                                                         *)
(* _persist_record reads the item, then the owner of the display document, *)
(* for closed items also the newest history row, and writes values it      *)
(* computed from what it read.  No SELECT locks its row, so each of them   *)
(* sees what was committed when it ran.  The writes of one transaction     *)
(* take effect together at its commit: an UPDATE holds the row lock until  *)
(* then, a second UPDATE of the row waits and then applies its own values  *)
(* to the new version, and an INSERT or UPDATE that would repeat a unique  *)
(* key waits and then fails.  The path for closed items inserts the        *)
(* observation before it updates the item, the others the other way round, *)
(* so two writers of one item may wait for one another; PostgreSQL then    *)
(* aborts one of them, which leaves what LoseConnection leaves.            *)
(*                                                                         *)
(* Starting and finishing a run compute nothing from earlier reads; they   *)
(* are the atomic steps of AuctionRepository.                              *)
(***************************************************************************)
EXTENDS Integers

CONSTANTS
    SourceIds, DisIds, MetadataHashes, ObservationHashes, StatusOf, LocationOf,
    Locations, RunIds, Modes, Times, Counts, Coverages, None,
    Writers,  \* processes with a connection of their own
    Owns      \* the items each writer persists

ASSUME OwnsAssumption == Owns \in [Writers -> SUBSET SourceIds]

VARIABLES
    items, inventory, observations, aliases, runs,
    txn       \* the open transaction of each writer: its record, the row it has
              \* read and the statement it is at; or None

tables == <<items, inventory, observations, aliases, runs>>
vars == <<items, inventory, observations, aliases, runs, txn>>

Repo == INSTANCE AuctionRepository

ASSUME TablesAssumption == Repo!RepositoryAssumption

Init == Repo!Init /\ txn = [w \in Writers |-> None]

-----------------------------------------------------------------------------
(* The path _persist_record takes is decided by the row it has read.       *)

Inserts(x) == x.existing = None

OutOfOrder(x) == ~Inserts(x) /\ x.rec.observed_at < x.existing.last_seen_at

ClosedSeen(x) ==
    /\ ~Inserts(x)
    /\ ~OutOfOrder(x)
    /\ Repo!IsTerminal(x.existing.status)
    /\ ~Repo!IsTerminal(Repo!RecordStatus(x.rec))

Updates(x) == ~Inserts(x) /\ ~OutOfOrder(x) /\ ~ClosedSeen(x)

\* Fault: the tables have no unique key on the display document.
FaultNoUniqueDisId(x) == Inserts(x) /\ x.rec.source_id \in DOMAIN items

\* The unique keys of auction_items, checked against what is committed when
\* the transaction commits.
UniqueViolation(x) ==
    \/ Inserts(x) /\ x.rec.source_id \in DOMAIN items
    \/ ~OutOfOrder(x) /\ Repo!IdentityConflict(x.rec)

-----------------------------------------------------------------------------
\* BEGIN; SELECT ... FROM auction_items WHERE source_id = ...
ReadExisting(w, r, rec) ==
    /\ txn[w] = None
    /\ rec.source_id \in Owns[w]
    /\ r \in DOMAIN runs
    /\ txn' = [txn EXCEPT ![w] =
                [pc |-> "identity", run |-> r, rec |-> rec, recorded |-> FALSE,
                 existing |-> IF rec.source_id \in DOMAIN items
                              THEN items[rec.source_id] ELSE None]]
    /\ UNCHANGED tables

\* SELECT the owner of the display document; IdentityConflictError rolls back.
CheckIdentity(w) ==
    /\ txn[w] # None
    /\ txn[w].pc = "identity"
    /\ txn' = [txn EXCEPT ![w] =
                IF Repo!IdentityConflict(txn[w].rec) THEN None
                ELSE [txn[w] EXCEPT !.pc = IF ClosedSeen(txn[w]) THEN "history" ELSE "write"]]
    /\ UNCHANGED tables

\* SELECT the newest hash of the closed item's history.
ReadHistory(w) ==
    /\ txn[w] # None
    /\ txn[w].pc = "history"
    /\ txn' = [txn EXCEPT ![w].pc = "write", ![w].recorded = Repo!RecordedLast(txn[w].rec)]
    /\ UNCHANGED tables

\* IntegrityError becomes PersistenceError, and nothing is written.
RejectDuplicate(w) ==
    /\ txn[w] # None
    /\ txn[w].pc = "write"
    /\ UniqueViolation(txn[w])
    /\ txn' = [txn EXCEPT ![w] = None]
    /\ UNCHANGED tables

\* The process or its connection dies, or PostgreSQL picks the transaction as
\* the victim of a deadlock: it is rolled back.
LoseConnection(w) ==
    /\ txn[w] # None
    /\ txn' = [txn EXCEPT ![w] = None]
    /\ UNCHANGED tables

-----------------------------------------------------------------------------
(* The writes, with their COMMIT.  The UPDATE of an item replaces columns  *)
(* of the row as it is now by values computed from the row as it was read. *)

WriteInsert(x) ==
    /\ Inserts(x)
    /\ items' = Repo!Put(items, x.rec.source_id, Repo!InsertedRow(x.rec))
    /\ inventory' = Repo!Put(inventory, x.rec.source_id, Repo!NewInventory)
    /\ Repo!InsertObservation(x.run, x.rec)
    /\ Repo!RecordLocationAlias(x.rec)

WriteOutOfOrder(x) ==
    /\ OutOfOrder(x)
    /\ Repo!InsertObservation(x.run, x.rec)
    /\ UNCHANGED <<items, inventory, aliases>>

WriteClosedSeen(x) ==
    /\ ClosedSeen(x)
    /\ items' = [items EXCEPT ![x.rec.source_id] =
                  [@ EXCEPT !.source_dis_id = x.rec.source_dis_id,
                            !.last_seen_at = x.rec.observed_at,
                            !.last_changed_at =
                                Repo!ClosedRowSeen(x.existing, x.rec).last_changed_at]]
    /\ IF x.recorded THEN UNCHANGED observations ELSE Repo!InsertObservation(x.run, x.rec)
    /\ UNCHANGED <<inventory, aliases>>

\* The UPDATE with some columns kept from the row it meets.
UpdateKeeping(x, row) ==
    /\ Updates(x)
    /\ items' = [items EXCEPT ![x.rec.source_id] = row]
    /\ IF x.existing.current_observation_hash # x.rec.observation_hash
       THEN Repo!InsertObservation(x.run, x.rec)
       ELSE UNCHANGED observations
    /\ Repo!RecordLocationAlias(x.rec)
    /\ UNCHANGED inventory

\* Fault: the UPDATE sets closed_at to COALESCE(closed_at, ...).
FaultKeepsClosedAt(x) ==
    UpdateKeeping(x, [Repo!UpdatedRow(x.existing, x.rec) EXCEPT !.closed_at =
        Repo!Coalesce(items[x.rec.source_id].closed_at, @)])

\* Fault: the observation is inserted for items that were open only.
FaultNoHistoryOfClosed(x) ==
    /\ Updates(x)
    /\ items' = [items EXCEPT ![x.rec.source_id] = Repo!UpdatedRow(x.existing, x.rec)]
    /\ IF x.existing.closed_at = None THEN Repo!InsertObservation(x.run, x.rec)
       ELSE UNCHANGED observations
    /\ Repo!RecordLocationAlias(x.rec)
    /\ UNCHANGED inventory

WriteUpdate(x) ==
    /\ Updates(x)
    /\ items' = [items EXCEPT ![x.rec.source_id] =
                  [Repo!UpdatedRow(x.existing, x.rec) EXCEPT !.first_seen_at =
                      items[x.rec.source_id].first_seen_at]]
    /\ IF x.existing.current_observation_hash # x.rec.observation_hash
       THEN Repo!InsertObservation(x.run, x.rec)
       ELSE UNCHANGED observations
    /\ Repo!RecordLocationAlias(x.rec)
    /\ UNCHANGED inventory

Commit(w) ==
    /\ txn[w] # None
    /\ txn[w].pc = "write"
    /\ ~UniqueViolation(txn[w])
    /\ \/ WriteInsert(txn[w])
       \/ WriteOutOfOrder(txn[w])
       \/ WriteClosedSeen(txn[w])
       \/ WriteUpdate(txn[w])
    /\ txn' = [txn EXCEPT ![w] = None]
    /\ UNCHANGED runs

-----------------------------------------------------------------------------
StartRun == Repo!Start /\ UNCHANGED txn

FinishRun == Repo!Finish /\ UNCHANGED txn

Next ==
    \/ StartRun
    \/ FinishRun
    \/ \E w \in Writers :
        \/ \E r \in RunIds, rec \in Repo!Records : ReadExisting(w, r, rec)
        \/ CheckIdentity(w)
        \/ ReadHistory(w)
        \/ Commit(w)
        \/ RejectDuplicate(w)
        \/ LoseConnection(w)

Spec == Init /\ [][Next]_vars

-----------------------------------------------------------------------------
(* Properties                                                              *)

\* With one writer for each item, every interleaving of the statements is a
\* history of atomic persist steps: AuctionRepository is what is implemented.
ImplementsRepository == Repo!Spec

\* Whatever the writers share, an item is never without an observation of its
\* current hash, so that the INNER JOIN of the read side keeps every listing.
JoinNeverEmpty ==
    \A s \in DOMAIN items : \E o \in observations :
        o.source_id = s /\ o.observation_hash = items[s].current_observation_hash

\* Whatever the writers share, the columns of a row agree: the status is the
\* one its hash was made from, closed_at is set exactly on terminal items, and
\* the terminal observation of that moment is in the history - although a
\* stale UPDATE may replace status, hash and closed_at of a newer one.
ColumnsAgree == Repo!StatusMatchesHash /\ Repo!ClosureBacked

\* test_terminal_snapshot_is_not_reopened_by_a_newer_nonterminal_observation
\* states it for one writer; it needs one writer.
TerminalAbsorbing == Repo!TerminalAbsorbing

=============================================================================
