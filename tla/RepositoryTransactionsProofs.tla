-------------------- MODULE RepositoryTransactionsProofs --------------------
(***************************************************************************)
(* What the statements of concurrent persist transactions guarantee for    *)
(* any number of writers, items, runs, bid contents and time stamps: the   *)
(* row and its history agree whatever the writers share, and writers that  *)
(* share no item implement the atomic steps of AuctionRepository.          *)
(***************************************************************************)
EXTENDS RepositoryTransactions, TLAPS

Transactions ==
    [pc: {"identity", "history", "write"}, run: RunIds, rec: Repo!Records,
     recorded: BOOLEAN, existing: Repo!ItemRows \cup {None}]

\* A version of an item's row that its history accounts for: the committed one,
\* or an older one that some transaction still holds.
Backed(history, s, row) ==
    /\ row.status = StatusOf[row.current_observation_hash]
    /\ \E o \in history :
        o.source_id = s /\ o.observation_hash = row.current_observation_hash
    /\ Repo!IsTerminal(row.status) <=> row.closed_at # None
    /\ row.closed_at # None =>
        \E o \in history :
            /\ o.source_id = s
            /\ o.observed_at = row.closed_at
            /\ Repo!IsTerminal(o.status)

Typed ==
    /\ DOMAIN items \subseteq SourceIds
    /\ items \in [DOMAIN items -> Repo!ItemRows]
    /\ txn \in [Writers -> Transactions \cup {None}]

RowsBacked ==
    /\ \A s \in DOMAIN items : Backed(observations, s, items[s])
    /\ \A o \in observations : o.status = StatusOf[o.observation_hash]

\* What a transaction read stays accounted for while it is open: items are not
\* deleted and the history only grows.
ReadsBacked ==
    \A w \in Writers : txn[w] # None /\ txn[w].existing # None =>
        /\ txn[w].rec.source_id \in DOMAIN items
        /\ Backed(observations, txn[w].rec.source_id, txn[w].existing)

\* The inductive invariant for any assignment of items to writers.
SharedInv == Typed /\ RowsBacked /\ ReadsBacked /\ Repo!IdentityUnique

-----------------------------------------------------------------------------
(* Any assignment of items to writers                                      *)

\* Backing is kept while the history only grows.
LEMMA BackedStable ==
    ASSUME NEW s, NEW row, observations \subseteq observations',
           Backed(observations, s, row)
    PROVE  Backed(observations', s, row)
  BY Zenon DEF Backed, Repo!IsTerminal

\* The insert of an observation: the history grows by at most the record's own
\* observation, and holds one of its item, time and hash afterwards.
LEMMA InsertFacts ==
    ASSUME NEW r, NEW rec \in Repo!Records, Repo!InsertObservation(r, rec)
    PROVE  /\ observations \subseteq observations'
           /\ \A o \in observations' \ observations :
                /\ o.source_id = rec.source_id
                /\ o.status = StatusOf[o.observation_hash]
           /\ \E o \in observations' :
                /\ o.source_id = rec.source_id
                /\ o.observed_at = rec.observed_at
                /\ o.observation_hash = rec.observation_hash
<1>1. CASE Repo!AlreadyObserved(rec)
  BY <1>1 DEF Repo!InsertObservation, Repo!AlreadyObserved
<1>2. CASE ~Repo!AlreadyObserved(rec)
  <2> DEFINE new == Repo!ObservationValues(r, rec)
  <2>1. observations' = observations \cup {new}
    BY <1>2 DEF Repo!InsertObservation
  <2>2. /\ new.source_id = rec.source_id
        /\ new.observed_at = rec.observed_at
        /\ new.observation_hash = rec.observation_hash
        /\ new.status = StatusOf[rec.observation_hash]
    BY DEF Repo!ObservationValues, Repo!RecordStatus
  <2> HIDE DEF new
  <2>3. QED  BY <2>1, <2>2
<1>3. QED  BY <1>1, <1>2

\* The rows a commit writes are well typed.
LEMMA RowTypes ==
    ASSUME NEW rec \in Repo!Records
    PROVE  /\ Repo!InsertedRow(rec) \in Repo!ItemRows
           /\ \A row \in Repo!ItemRows : Repo!UpdatedRow(row, rec) \in Repo!ItemRows
           /\ \A row \in Repo!ItemRows : Repo!ClosedRowSeen(row, rec) \in Repo!ItemRows
  BY TablesAssumption
  DEF Repo!RepositoryAssumption, Repo!Records, Repo!ItemRows, Repo!InsertedRow,
      Repo!UpdatedRow, Repo!ClosedRowSeen, Repo!RecordStatus, Repo!FirstTerminalObservedAt

\* A commit writes one item: the history grows by observations of that item
\* only, the other rows stay, and the row it leaves is well typed, accounted
\* for by the history, and the only owner of its display document.
LEMMA CommitFacts ==
    ASSUME SharedInv, NEW w \in Writers, Commit(w)
    PROVE  LET s == txn[w].rec.source_id IN
           /\ s \in SourceIds
           /\ observations \subseteq observations'
           /\ \A o \in observations' \ observations :
                o.source_id = s /\ o.status = StatusOf[o.observation_hash]
           /\ DOMAIN items \subseteq DOMAIN items'
           /\ DOMAIN items' \subseteq DOMAIN items \cup {s}
           /\ items' = [u \in DOMAIN items' |-> items'[u]]
           /\ \A u \in DOMAIN items : u # s => items'[u] = items[u]
           /\ s \in DOMAIN items' => items'[s] \in Repo!ItemRows /\ Backed(observations', s, items'[s])
           /\ \/ items' = items
              \/ /\ items'[s].source_dis_id = txn[w].rec.source_dis_id
                 /\ ~Repo!IdentityConflict(txn[w].rec)
<1> DEFINE x == txn[w]
           rec == x.rec
           s == rec.source_id
<1>1. x \in Transactions
  BY DEF Commit, SharedInv, Typed
<1>2. /\ rec \in Repo!Records
      /\ x.existing \in Repo!ItemRows \cup {None}
      /\ x.run \in RunIds
      /\ s \in SourceIds
      /\ rec.observation_hash \in ObservationHashes
  BY <1>1 DEF Transactions, Repo!Records
<1>3. x.existing # None =>
        /\ x.existing \in Repo!ItemRows
        /\ s \in DOMAIN items
        /\ items[s] \in Repo!ItemRows
        /\ Backed(observations, s, x.existing)
        /\ Backed(observations, s, items[s])
  BY <1>2 DEF SharedInv, Typed, ReadsBacked, RowsBacked, Commit
<1>4. /\ DOMAIN items \subseteq SourceIds
      /\ items \in [DOMAIN items -> Repo!ItemRows]
  BY DEF SharedInv, Typed
<1>5. ~UniqueViolation(x)
  BY DEF Commit
<1> HIDE DEF x
<1>6. CASE WriteInsert(x)
  <2> DEFINE row == Repo!InsertedRow(rec)
  <2>1. /\ Inserts(x)
        /\ items' = Repo!Put(items, s, row)
        /\ Repo!InsertObservation(x.run, rec)
    BY <1>6 DEF WriteInsert
  <2>2. ~Repo!IdentityConflict(rec)
    BY <1>5, <2>1 DEF UniqueViolation, OutOfOrder
  <2>3. /\ row \in Repo!ItemRows
        /\ row.source_dis_id = rec.source_dis_id
        /\ row.status = StatusOf[rec.observation_hash]
        /\ row.current_observation_hash = rec.observation_hash
        /\ row.closed_at = IF Repo!IsTerminal(row.status) THEN rec.observed_at ELSE None
    BY <1>2, RowTypes DEF Repo!InsertedRow, Repo!RecordStatus, Repo!FirstTerminalObservedAt
  <2> HIDE DEF row
  <2>4. /\ DOMAIN items' = DOMAIN items \cup {s}
        /\ items' = [u \in DOMAIN items' |-> items'[u]]
        /\ items'[s] = row
        /\ \A u \in DOMAIN items : u # s => items'[u] = items[u]
    BY <2>1 DEF Repo!Put
  <2>5. /\ observations \subseteq observations'
        /\ \A o \in observations' \ observations :
             o.source_id = s /\ o.status = StatusOf[o.observation_hash]
        /\ \E o \in observations' :
             /\ o.source_id = s
             /\ o.observed_at = rec.observed_at
             /\ o.observation_hash = rec.observation_hash
    BY <1>2, <2>1, InsertFacts
  <2>6. \A o \in observations' : o.status = StatusOf[o.observation_hash]
    BY <2>5 DEF SharedInv, RowsBacked
  <2>7. rec.observed_at # None
    BY <1>2, TablesAssumption DEF Repo!RepositoryAssumption, Repo!Records
  <2>8. Backed(observations', s, row)
    BY <2>3, <2>5, <2>6, <2>7 DEF Backed
  <2>9. QED  BY <1>2, <2>2, <2>3, <2>4, <2>5, <2>8 DEF x
<1>7. CASE WriteOutOfOrder(x)
  <2>1. items' = items /\ Repo!InsertObservation(x.run, rec) /\ x.existing # None
    BY <1>7 DEF WriteOutOfOrder, OutOfOrder, Inserts
  <2>2. /\ observations \subseteq observations'
        /\ \A o \in observations' \ observations :
             o.source_id = s /\ o.status = StatusOf[o.observation_hash]
    BY <1>2, <2>1, InsertFacts
  <2>3. Backed(observations', s, items[s])
    BY <1>3, <2>1, <2>2, BackedStable
  <2>4. QED  BY <1>2, <1>3, <1>4, <2>1, <2>2, <2>3 DEF x
<1>8. CASE WriteClosedSeen(x)
  <2> DEFINE row == [items[s] EXCEPT
                        !.source_dis_id = rec.source_dis_id,
                        !.last_seen_at = rec.observed_at,
                        !.last_changed_at =
                            Repo!ClosedRowSeen(x.existing, rec).last_changed_at]
  <2>1. /\ x.existing # None
        /\ ~OutOfOrder(x)
        /\ items' = [items EXCEPT ![s] = row]
        /\ Repo!InsertObservation(x.run, rec) \/ UNCHANGED observations
    BY <1>8 DEF WriteClosedSeen, ClosedSeen, Inserts
  <2>2. ~Repo!IdentityConflict(rec)
    BY <1>5, <2>1 DEF UniqueViolation
  <2>3. Repo!ClosedRowSeen(x.existing, rec).last_changed_at \in Times
    BY <1>2, <1>3, <2>1, RowTypes DEF Repo!ItemRows
  <2>4. /\ row \in Repo!ItemRows
        /\ row.source_dis_id = rec.source_dis_id
        /\ row.status = items[s].status
        /\ row.current_observation_hash = items[s].current_observation_hash
        /\ row.closed_at = items[s].closed_at
    BY <1>2, <1>3, <2>1, <2>3 DEF Repo!ItemRows, Repo!Records
  <2> HIDE DEF row
  <2>5. /\ observations \subseteq observations'
        /\ \A o \in observations' \ observations :
             o.source_id = s /\ o.status = StatusOf[o.observation_hash]
    BY <1>2, <2>1, InsertFacts
  <2>6. Backed(observations, s, items[s]) => Backed(observations, s, row)
    BY <2>4 DEF Backed
  <2>7. Backed(observations', s, row)
    BY <1>3, <2>1, <2>5, <2>6, BackedStable
  <2>8. /\ DOMAIN items' = DOMAIN items
        /\ items' = [u \in DOMAIN items' |-> items'[u]]
        /\ items'[s] = row
        /\ \A u \in DOMAIN items : u # s => items'[u] = items[u]
    BY <1>3, <1>4, <2>1
  <2>9. QED  BY <1>2, <2>2, <2>4, <2>5, <2>7, <2>8 DEF x
<1>9. CASE WriteUpdate(x)
  <2> DEFINE row == [Repo!UpdatedRow(x.existing, rec) EXCEPT
                        !.first_seen_at = items[s].first_seen_at]
  <2>1. /\ x.existing # None
        /\ ~OutOfOrder(x)
        /\ Repo!IsTerminal(x.existing.status) =>
             Repo!IsTerminal(Repo!RecordStatus(rec))
        /\ items' = [items EXCEPT ![s] = row]
        /\ IF x.existing.current_observation_hash # rec.observation_hash
           THEN Repo!InsertObservation(x.run, rec)
           ELSE UNCHANGED observations
    BY <1>9 DEF WriteUpdate, Updates, ClosedSeen, Inserts
  <2>2. ~Repo!IdentityConflict(rec)
    BY <1>5, <2>1 DEF UniqueViolation
  <2>3. Repo!UpdatedRow(x.existing, rec) \in Repo!ItemRows
    BY <1>2, <1>3, <2>1, RowTypes
  <2>4. /\ row \in Repo!ItemRows
        /\ row.source_dis_id = rec.source_dis_id
        /\ row.status = StatusOf[rec.observation_hash]
        /\ row.current_observation_hash = rec.observation_hash
        /\ row.closed_at = Repo!FirstTerminalObservedAt(x.existing.closed_at, rec)
    <3>1. row \in Repo!ItemRows
      BY <1>3, <2>1, <2>3 DEF Repo!ItemRows
    <3>2. QED
      BY <3>1, <2>3 DEF Repo!ItemRows, Repo!UpdatedRow, Repo!RecordStatus
  <2> HIDE DEF row
  <2>5. /\ observations \subseteq observations'
        /\ \A o \in observations' \ observations :
             o.source_id = s /\ o.status = StatusOf[o.observation_hash]
    BY <1>2, <2>1, InsertFacts
  <2>6. \A o \in observations' : o.status = StatusOf[o.observation_hash]
    BY <2>5 DEF SharedInv, RowsBacked
  <2>7. Backed(observations, s, x.existing) /\ Backed(observations', s, x.existing)
    BY <1>3, <2>1, <2>5, BackedStable
  <2>8. \E o \in observations' :
           o.source_id = s /\ o.observation_hash = rec.observation_hash
    <3>1. CASE x.existing.current_observation_hash # rec.observation_hash
      BY <1>2, <2>1, <3>1, InsertFacts
    <3>2. CASE x.existing.current_observation_hash = rec.observation_hash
      BY <2>7, <3>2 DEF Backed
    <3>3. QED  BY <3>1, <3>2
  <2>9. x.existing.closed_at = None => Backed(observations', s, row)
    <3> SUFFICES ASSUME x.existing.closed_at = None
                 PROVE  Backed(observations', s, row)
      OBVIOUS
    <3>1. ~Repo!IsTerminal(x.existing.status)
      BY <2>7 DEF Backed
    <3>2. x.existing.status = StatusOf[x.existing.current_observation_hash]
      BY <2>7 DEF Backed
    <3>3. row.closed_at = IF Repo!IsTerminal(row.status) THEN rec.observed_at ELSE None
      BY <2>4 DEF Repo!FirstTerminalObservedAt, Repo!RecordStatus
    <3>4. rec.observed_at # None
      BY <1>2, TablesAssumption DEF Repo!RepositoryAssumption, Repo!Records
    <3>5. Repo!IsTerminal(row.status) =>
            \E o \in observations' :
                /\ o.source_id = s
                /\ o.observed_at = rec.observed_at
                /\ o.observation_hash = rec.observation_hash
      <4> SUFFICES ASSUME Repo!IsTerminal(row.status)
                   PROVE  x.existing.current_observation_hash # rec.observation_hash
        BY <1>2, <2>1, InsertFacts
      <4>1. QED  BY <2>4, <3>1, <3>2
    <3>6. QED
      BY <2>4, <2>6, <2>8, <3>3, <3>4, <3>5 DEF Backed
  <2>10. x.existing.closed_at # None => Backed(observations', s, row)
    <3> SUFFICES ASSUME x.existing.closed_at # None
                 PROVE  Backed(observations', s, row)
      OBVIOUS
    <3>1. row.closed_at = x.existing.closed_at
      BY <2>4 DEF Repo!FirstTerminalObservedAt
    <3>2. Repo!IsTerminal(row.status)
      BY <2>1, <2>4, <2>7 DEF Backed, Repo!RecordStatus
    <3>3. \E o \in observations' :
            /\ o.source_id = s
            /\ o.observed_at = row.closed_at
            /\ Repo!IsTerminal(o.status)
      BY <2>7, <3>1 DEF Backed, Repo!IsTerminal
    <3>4. QED
      BY <2>4, <2>8, <3>1, <3>2, <3>3 DEF Backed
  <2>11. Backed(observations', s, row)
    BY <2>9, <2>10
  <2>12. /\ DOMAIN items' = DOMAIN items
         /\ items' = [u \in DOMAIN items' |-> items'[u]]
         /\ items'[s] = row
         /\ \A u \in DOMAIN items : u # s => items'[u] = items[u]
    BY <1>3, <1>4, <2>1
  <2>13. QED  BY <1>2, <2>2, <2>4, <2>5, <2>11, <2>12 DEF x
<1>10. QED  BY <1>6, <1>7, <1>8, <1>9 DEF Commit, x

\* A step that leaves items, history and transactions alone keeps the invariant.
LEMMA SharedStutter ==
    SharedInv /\ UNCHANGED <<items, observations, txn>> => SharedInv'
  BY DEF SharedInv, Typed, RowsBacked, ReadsBacked, Backed, Repo!IdentityUnique,
         Transactions, Repo!Records, Repo!ItemRows

\* A statement that only moves its own transaction keeps the invariant, if the
\* row the transaction holds then is one it held before or the committed one.
LEMMA SharedMove ==
    ASSUME SharedInv, NEW w \in Writers, NEW y \in Transactions \cup {None},
           txn' = [txn EXCEPT ![w] = y], UNCHANGED tables,
           y # None /\ y.existing # None =>
             \/ y.rec.source_id \in DOMAIN items /\ y.existing = items[y.rec.source_id]
             \/ txn[w] # None /\ y.rec = txn[w].rec /\ y.existing = txn[w].existing
    PROVE  SharedInv'
<1>1. UNCHANGED <<items, observations>>
  BY DEF tables
<1>2. Typed'
  BY <1>1 DEF SharedInv, Typed
<1>3. RowsBacked' /\ Repo!IdentityUnique'
  BY <1>1 DEF SharedInv, RowsBacked, Repo!IdentityUnique
<1>4. ReadsBacked'
  <2> SUFFICES ASSUME NEW v \in Writers, txn'[v] # None, txn'[v].existing # None
               PROVE  /\ txn'[v].rec.source_id \in DOMAIN items'
                      /\ Backed(observations', txn'[v].rec.source_id, txn'[v].existing)
    BY DEF ReadsBacked
  <2>1. txn'[v] = IF v = w THEN y ELSE txn[v]
    BY DEF SharedInv, Typed
  <2>2. CASE v # w
    BY <1>1, <2>1, <2>2 DEF SharedInv, ReadsBacked
  <2>3. CASE v = w
    BY <1>1, <2>1, <2>3 DEF SharedInv, ReadsBacked, RowsBacked
  <2>4. QED  BY <2>2, <2>3
<1>5. QED  BY <1>2, <1>3, <1>4 DEF SharedInv

\* A commit keeps the invariant, although another transaction may have written
\* the row since this one read it.
LEMMA SharedCommit == ASSUME SharedInv, NEW w \in Writers, Commit(w) PROVE SharedInv'
<1> DEFINE rec == txn[w].rec
           s == rec.source_id
<1>1. /\ s \in SourceIds
      /\ observations \subseteq observations'
      /\ \A o \in observations' \ observations :
           o.source_id = s /\ o.status = StatusOf[o.observation_hash]
      /\ DOMAIN items \subseteq DOMAIN items'
      /\ DOMAIN items' \subseteq DOMAIN items \cup {s}
      /\ items' = [u \in DOMAIN items' |-> items'[u]]
      /\ \A u \in DOMAIN items : u # s => items'[u] = items[u]
      /\ s \in DOMAIN items' =>
           items'[s] \in Repo!ItemRows /\ Backed(observations', s, items'[s])
      /\ \/ items' = items
         \/ items'[s].source_dis_id = rec.source_dis_id /\ ~Repo!IdentityConflict(rec)
  BY CommitFacts
<1>2. txn' = [txn EXCEPT ![w] = None]
  BY DEF Commit
<1> HIDE DEF s
<1>3. Typed'
  <2>1. DOMAIN items' \subseteq SourceIds
    BY <1>1 DEF SharedInv, Typed
  <2>2. \A u \in DOMAIN items' : items'[u] \in Repo!ItemRows
    BY <1>1 DEF SharedInv, Typed
  <2>3. items' \in [DOMAIN items' -> Repo!ItemRows]
    BY <1>1, <2>2
  <2>4. QED  BY <1>2, <2>1, <2>3 DEF SharedInv, Typed
<1>4. RowsBacked'
  <2>1. \A u \in DOMAIN items' : Backed(observations', u, items'[u])
    <3> SUFFICES ASSUME NEW u \in DOMAIN items', u # s
                 PROVE  Backed(observations', u, items'[u])
      BY <1>1
    <3>1. u \in DOMAIN items /\ items'[u] = items[u]
      BY <1>1
    <3>2. QED  BY <1>1, <3>1, BackedStable DEF SharedInv, RowsBacked
  <2>2. \A o \in observations' : o.status = StatusOf[o.observation_hash]
    BY <1>1 DEF SharedInv, RowsBacked
  <2>3. QED  BY <2>1, <2>2 DEF RowsBacked
<1>5. ReadsBacked'
  <2> SUFFICES ASSUME NEW v \in Writers, txn'[v] # None, txn'[v].existing # None
               PROVE  /\ txn'[v].rec.source_id \in DOMAIN items'
                      /\ Backed(observations', txn'[v].rec.source_id, txn'[v].existing)
    BY DEF ReadsBacked
  <2>1. txn'[v] = txn[v]
    BY <1>2 DEF SharedInv, Typed
  <2>2. /\ txn[v].rec.source_id \in DOMAIN items
        /\ Backed(observations, txn[v].rec.source_id, txn[v].existing)
    BY <2>1 DEF SharedInv, ReadsBacked
  <2>3. QED  BY <1>1, <2>1, <2>2, BackedStable
<1>6. Repo!IdentityUnique'
  <2>1. CASE items' = items
    BY <2>1 DEF SharedInv, Repo!IdentityUnique
  <2>2. CASE items'[s].source_dis_id = rec.source_dis_id /\ ~Repo!IdentityConflict(rec)
    <3>1. \A u \in DOMAIN items : u # s => items[u].source_dis_id # rec.source_dis_id
      BY <2>2 DEF Repo!IdentityConflict, s
    <3>2. QED  BY <1>1, <2>2, <3>1 DEF SharedInv, Repo!IdentityUnique
  <2>3. QED  BY <1>1, <2>1, <2>2
<1>7. QED  BY <1>3, <1>4, <1>5, <1>6 DEF SharedInv

\* Every statement of every writer, and the steps of the runs, keep the invariant.
LEMMA SharedStep == SharedInv /\ [Next]_vars => SharedInv'
<1> SUFFICES ASSUME SharedInv, [Next]_vars PROVE SharedInv'
  OBVIOUS
<1>1. CASE StartRun
  BY <1>1, SharedStutter DEF StartRun, Repo!Start, Repo!StartScrapeRun
<1>2. CASE FinishRun
  BY <1>2, SharedStutter DEF FinishRun, Repo!Finish, Repo!FinishScrapeRun
<1>3. ASSUME NEW w \in Writers, NEW r \in RunIds, NEW rec \in Repo!Records,
             ReadExisting(w, r, rec)
      PROVE  SharedInv'
  <2> DEFINE y == [pc |-> "identity", run |-> r, rec |-> rec, recorded |-> FALSE,
                   existing |-> IF rec.source_id \in DOMAIN items
                                THEN items[rec.source_id] ELSE None]
  <2>1. y \in Transactions
    BY DEF Transactions, SharedInv, Typed
  <2>2. txn' = [txn EXCEPT ![w] = y] /\ UNCHANGED tables
    BY <1>3 DEF ReadExisting
  <2>3. y.existing # None =>
          y.rec.source_id \in DOMAIN items /\ y.existing = items[y.rec.source_id]
    OBVIOUS
  <2> HIDE DEF y
  <2>4. QED  BY <2>1, <2>2, <2>3, SharedMove
<1>4. ASSUME NEW w \in Writers, CheckIdentity(w)
      PROVE  SharedInv'
  <2> DEFINE y == IF Repo!IdentityConflict(txn[w].rec) THEN None
                  ELSE [txn[w] EXCEPT !.pc = IF ClosedSeen(txn[w]) THEN "history" ELSE "write"]
  <2>1. txn[w] \in Transactions
    BY <1>4 DEF CheckIdentity, SharedInv, Typed
  <2>2. y # None => y \in Transactions /\ y.rec = txn[w].rec /\ y.existing = txn[w].existing
    BY <2>1 DEF Transactions
  <2>3. txn' = [txn EXCEPT ![w] = y] /\ UNCHANGED tables /\ txn[w] # None
    BY <1>4 DEF CheckIdentity
  <2> HIDE DEF y
  <2>4. QED  BY <2>2, <2>3, SharedMove
<1>5. ASSUME NEW w \in Writers, ReadHistory(w)
      PROVE  SharedInv'
  <2> DEFINE y == [txn[w] EXCEPT !.pc = "write", !.recorded = Repo!RecordedLast(txn[w].rec)]
  <2>1. txn[w] \in Transactions
    BY <1>5 DEF ReadHistory, SharedInv, Typed
  <2>2. y \in Transactions /\ y.rec = txn[w].rec /\ y.existing = txn[w].existing
    <3>1. Repo!RecordedLast(txn[w].rec) \in BOOLEAN
      BY DEF Repo!RecordedLast
    <3>2. QED  BY <2>1, <3>1 DEF Transactions
  <2>3. txn' = [txn EXCEPT ![w] = y] /\ UNCHANGED tables /\ txn[w] # None
    BY <1>5, <2>1 DEF ReadHistory, SharedInv, Typed
  <2> HIDE DEF y
  <2>4. QED  BY <2>2, <2>3, SharedMove
<1>6. ASSUME NEW w \in Writers, RejectDuplicate(w) \/ LoseConnection(w)
      PROVE  SharedInv'
  BY <1>6, SharedMove DEF RejectDuplicate, LoseConnection
<1>7. CASE UNCHANGED vars
  BY <1>7, SharedStutter DEF vars
<1>8. QED  BY <1>1, <1>2, <1>3, <1>4, <1>5, <1>6, <1>7, SharedCommit DEF Next

\* Empty tables and no open transaction satisfy the invariant.
LEMMA SharedInit == Init => SharedInv
  BY DEF Init, Repo!Init, SharedInv, Typed, RowsBacked, ReadsBacked, Repo!IdentityUnique

\* Whatever the writers share, an item is never without an observation of its
\* current hash: the read side's INNER JOIN loses no listing to a stale UPDATE.
THEOREM JoinKeepsListings == Spec => []JoinNeverEmpty
<1>1. SharedInv => JoinNeverEmpty
  BY DEF SharedInv, RowsBacked, Backed, JoinNeverEmpty
<1>2. QED  BY <1>1, SharedInit, SharedStep, PTL DEF Spec

\* Whatever the writers share, status, hash and closed_at of a row agree with
\* one another and with the history, whichever UPDATE came last.
THEOREM SharedColumnsAgree == Spec => []ColumnsAgree
<1>1. SharedInv => ColumnsAgree
  BY DEF SharedInv, RowsBacked, Backed, ColumnsAgree,
         Repo!StatusMatchesHash, Repo!ClosureBacked
<1>2. QED  BY <1>1, SharedInit, SharedStep, PTL DEF Spec

\* Whatever the writers share, no two items have one display document: the
\* unique keys reject the commits the identity check let pass.
THEOREM SharedIdentitiesUnique == Spec => []Repo!IdentityUnique
<1>1. SharedInv => Repo!IdentityUnique
  BY DEF SharedInv
<1>2. QED  BY <1>1, SharedInit, SharedStep, PTL DEF Spec

-----------------------------------------------------------------------------
(* The dates of an item that several writers share                         *)

\* The order of the dates of a version of a row that survives stale UPDATEs.
\* closed_at may be later than last_seen_at then: a late UPDATE for a record
\* of a closed item moves last_seen_at back and leaves closed_at alone.
RowDates(row) ==
    /\ row.first_seen_at <= row.last_changed_at
    /\ row.last_changed_at <= row.last_seen_at
    /\ row.closed_at # None => row.first_seen_at <= row.closed_at

SharedDatesOrdered == \A s \in DOMAIN items : RowDates(items[s])

\* What a transaction has read has ordered dates, and still begins when the
\* committed row does.
ReadDatesOrdered ==
    \A w \in Writers : txn[w] # None /\ txn[w].existing # None =>
        /\ RowDates(txn[w].existing)
        /\ txn[w].existing.first_seen_at = items[txn[w].rec.source_id].first_seen_at

DatesInv == SharedInv /\ SharedDatesOrdered /\ ReadDatesOrdered

\* Rows and history are kept, and an item begins when it was first seen.
KeepsRows ==
    /\ observations \subseteq observations'
    /\ DOMAIN items \subseteq DOMAIN items'
    /\ \A s \in DOMAIN items : items'[s].first_seen_at = items[s].first_seen_at

\* A commit leaves ordered dates and every item's beginning, although the row
\* it has computed its dates from is an old version.
LEMMA CommitDates ==
    ASSUME DatesInv, NEW w \in Writers, Commit(w)
    PROVE  SharedDatesOrdered' /\ KeepsRows
<1> DEFINE x == txn[w]
           rec == x.rec
           s == rec.source_id
<1>1. /\ observations \subseteq observations'
      /\ DOMAIN items \subseteq DOMAIN items'
      /\ DOMAIN items' \subseteq DOMAIN items \cup {s}
      /\ \A u \in DOMAIN items : u # s => items'[u] = items[u]
  BY CommitFacts DEF DatesInv
<1>2. \A u \in DOMAIN items : RowDates(items[u])
  BY DEF DatesInv, SharedDatesOrdered
<1>3. /\ rec \in Repo!Records
      /\ rec.observed_at \in Nat
      /\ None \notin Nat
  BY TablesAssumption
  DEF Commit, DatesInv, SharedInv, Typed, Transactions, Repo!Records, Repo!RepositoryAssumption
<1>4. x.existing # None =>
        /\ x.existing \in Repo!ItemRows
        /\ s \in DOMAIN items
        /\ items[s] \in Repo!ItemRows
        /\ RowDates(x.existing)
        /\ x.existing.first_seen_at = items[s].first_seen_at
  BY DEF Commit, DatesInv, SharedInv, Typed, Transactions, ReadsBacked, ReadDatesOrdered
<1>5. \A row \in Repo!ItemRows :
        /\ row.first_seen_at \in Nat
        /\ row.last_changed_at \in Nat
        /\ row.last_seen_at \in Nat
        /\ row.closed_at \in Nat \cup {None}
  BY TablesAssumption DEF Repo!ItemRows, Repo!RepositoryAssumption
<1>6. s \in DOMAIN items' =>
        /\ RowDates(items'[s])
        /\ s \in DOMAIN items => items'[s].first_seen_at = items[s].first_seen_at
  <2> HIDE DEF x
  <2>1. CASE WriteInsert(x)
    <3>1. s \notin DOMAIN items
      BY <2>1 DEF Commit, UniqueViolation, WriteInsert, x
    <3>2. items'[s] = Repo!InsertedRow(rec)
      BY <2>1 DEF WriteInsert, Repo!Put
    <3>3. RowDates(Repo!InsertedRow(rec))
      BY <1>3 DEF RowDates, Repo!InsertedRow, Repo!FirstTerminalObservedAt
    <3>4. QED  BY <3>1, <3>2, <3>3
  <2>2. CASE WriteOutOfOrder(x)
    BY <1>2, <2>2 DEF WriteOutOfOrder
  <2>3. CASE WriteClosedSeen(x)
    <3> DEFINE changed == Repo!ClosedRowSeen(x.existing, rec).last_changed_at
               row == [items[s] EXCEPT !.source_dis_id = rec.source_dis_id,
                                       !.last_seen_at = rec.observed_at,
                                       !.last_changed_at = changed]
    <3>1. /\ x.existing # None
          /\ ~(rec.observed_at < x.existing.last_seen_at)
      BY <2>3 DEF WriteClosedSeen, ClosedSeen, OutOfOrder, Inserts
    <3>2. items'[s] = row
      BY <1>4, <2>3, <3>1 DEF WriteClosedSeen
    <3>3. changed \in {rec.observed_at, x.existing.last_changed_at}
      BY <1>4, <3>1 DEF Repo!ClosedRowSeen, Repo!ItemRows
    <3> HIDE DEF changed
    <3>4. /\ row.first_seen_at = items[s].first_seen_at
          /\ row.closed_at = items[s].closed_at
          /\ row.last_seen_at = rec.observed_at
          /\ row.last_changed_at = changed
      BY <1>4, <3>1 DEF Repo!ItemRows
    <3> HIDE DEF row
    <3>5. RowDates(items[s]) /\ RowDates(x.existing)
      BY <1>2, <1>4, <3>1
    <3>6. QED  BY <1>3, <1>4, <1>5, <3>1, <3>2, <3>3, <3>4, <3>5 DEF RowDates
  <2>4. CASE WriteUpdate(x)
    <3> DEFINE updated == Repo!UpdatedRow(x.existing, rec)
               row == [updated EXCEPT !.first_seen_at = items[s].first_seen_at]
    <3>1. /\ x.existing # None
          /\ ~(rec.observed_at < x.existing.last_seen_at)
      BY <2>4 DEF WriteUpdate, Updates, OutOfOrder, Inserts
    <3>2. items'[s] = row
      BY <1>4, <2>4, <3>1 DEF WriteUpdate
    <3>3. /\ updated \in Repo!ItemRows
          /\ updated.last_seen_at = rec.observed_at
          /\ updated.last_changed_at \in {rec.observed_at, x.existing.last_changed_at}
          /\ updated.closed_at \in {rec.observed_at, x.existing.closed_at}
      BY <1>3, <1>4, <3>1, RowTypes DEF Repo!UpdatedRow, Repo!FirstTerminalObservedAt
    <3> HIDE DEF updated
    <3>4. /\ row.first_seen_at = items[s].first_seen_at
          /\ row.closed_at = updated.closed_at
          /\ row.last_seen_at = updated.last_seen_at
          /\ row.last_changed_at = updated.last_changed_at
      BY <3>3 DEF Repo!ItemRows
    <3> HIDE DEF row
    <3>5. RowDates(x.existing)
      BY <1>4, <3>1
    <3>6. QED  BY <1>3, <1>4, <1>5, <3>1, <3>2, <3>3, <3>4, <3>5 DEF RowDates
  <2>5. QED  BY <2>1, <2>2, <2>3, <2>4 DEF Commit, x
<1> HIDE DEF s
<1>7. SharedDatesOrdered'
  <2> SUFFICES ASSUME NEW u \in DOMAIN items' PROVE RowDates(items'[u])
    BY DEF SharedDatesOrdered, RowDates
  <2>1. QED  BY <1>1, <1>2, <1>6
<1>8. QED  BY <1>1, <1>6, <1>7 DEF KeepsRows

\* The steps that write no item move at most one transaction, whose row is the
\* one it held before or the committed one.
LEMMA DatesMove ==
    ASSUME DatesInv, UNCHANGED items,
           \A w \in Writers : txn'[w] # None /\ txn'[w].existing # None =>
             \/ /\ txn'[w].rec.source_id \in DOMAIN items
                /\ txn'[w].existing = items[txn'[w].rec.source_id]
             \/ /\ txn[w] # None
                /\ txn'[w].rec = txn[w].rec
                /\ txn'[w].existing = txn[w].existing
    PROVE  SharedDatesOrdered' /\ ReadDatesOrdered'
  BY DEF DatesInv, SharedDatesOrdered, ReadDatesOrdered, RowDates

\* Every step keeps the order of the dates, and rows and history.
LEMMA DatesStep == DatesInv /\ [Next]_vars => DatesInv' /\ [KeepsRows]_vars
<1> SUFFICES ASSUME DatesInv, [Next]_vars PROVE DatesInv' /\ [KeepsRows]_vars
  OBVIOUS
<1>1. SharedInv'
  BY SharedStep DEF DatesInv
<1>2. txn \in [Writers -> Transactions \cup {None}]
  BY DEF DatesInv, SharedInv, Typed
<1>3. ASSUME NEW w \in Writers, Commit(w)
      PROVE  SharedDatesOrdered' /\ ReadDatesOrdered' /\ KeepsRows
  <2>1. SharedDatesOrdered' /\ KeepsRows
    BY <1>3, CommitDates
  <2>2. txn' = [txn EXCEPT ![w] = None]
    BY <1>3 DEF Commit
  <2> SUFFICES ASSUME NEW v \in Writers, txn'[v] # None, txn'[v].existing # None
               PROVE  /\ RowDates(txn'[v].existing)
                      /\ txn'[v].existing.first_seen_at =
                           items'[txn'[v].rec.source_id].first_seen_at
    BY <2>1 DEF ReadDatesOrdered, RowDates
  <2>3. txn'[v] = txn[v]
    BY <1>2, <2>2
  <2>4. /\ txn[v].rec.source_id \in DOMAIN items
        /\ RowDates(txn[v].existing)
        /\ txn[v].existing.first_seen_at = items[txn[v].rec.source_id].first_seen_at
    BY <2>3 DEF DatesInv, SharedInv, ReadsBacked, ReadDatesOrdered
  <2>5. QED  BY <2>1, <2>3, <2>4 DEF KeepsRows
<1>4. ASSUME NEW w \in Writers,
             \/ \E r \in RunIds, rec \in Repo!Records : ReadExisting(w, r, rec)
             \/ CheckIdentity(w)
             \/ ReadHistory(w)
             \/ RejectDuplicate(w)
             \/ LoseConnection(w)
      PROVE  SharedDatesOrdered' /\ ReadDatesOrdered' /\ KeepsRows
  <2>1. UNCHANGED <<items, observations>>
    BY <1>4 DEF ReadExisting, CheckIdentity, ReadHistory, RejectDuplicate, LoseConnection, tables
  <2>2. \A v \in Writers : v # w => txn'[v] = txn[v]
    BY <1>2, <1>4 DEF ReadExisting, CheckIdentity, ReadHistory, RejectDuplicate, LoseConnection
  <2>3. txn'[w] # None /\ txn'[w].existing # None =>
          \/ /\ txn'[w].rec.source_id \in DOMAIN items
             /\ txn'[w].existing = items[txn'[w].rec.source_id]
          \/ /\ txn[w] # None
             /\ txn'[w].rec = txn[w].rec
             /\ txn'[w].existing = txn[w].existing
    <3>1. CASE \E r \in RunIds, rec \in Repo!Records : ReadExisting(w, r, rec)
      BY <1>2, <3>1 DEF ReadExisting
    <3>2. CASE CheckIdentity(w)
      BY <1>2, <3>2 DEF CheckIdentity, Transactions
    <3>3. CASE ReadHistory(w)
      BY <1>2, <3>3 DEF ReadHistory, Transactions
    <3>4. CASE RejectDuplicate(w) \/ LoseConnection(w)
      BY <1>2, <3>4 DEF RejectDuplicate, LoseConnection
    <3>5. QED  BY <1>4, <3>1, <3>2, <3>3, <3>4
  <2>4. SharedDatesOrdered' /\ ReadDatesOrdered'
    BY <2>1, <2>2, <2>3, DatesMove
  <2>5. QED  BY <2>1, <2>4 DEF KeepsRows
<1>5. CASE StartRun \/ FinishRun \/ UNCHANGED vars
  <2>1. UNCHANGED <<items, observations, txn>>
    BY <1>5 DEF StartRun, FinishRun, Repo!Start, Repo!StartScrapeRun, Repo!Finish,
                Repo!FinishScrapeRun, vars
  <2>2. SharedDatesOrdered' /\ ReadDatesOrdered'
    BY <2>1 DEF DatesInv, SharedDatesOrdered, ReadDatesOrdered, RowDates
  <2>3. QED  BY <1>1, <2>1, <2>2 DEF DatesInv, KeepsRows
<1>6. QED  BY <1>1, <1>3, <1>4, <1>5 DEF Next, DatesInv

\* Whatever the writers share, no stale UPDATE puts a change before the first
\* sighting, a change after the last, or the closing before the first.
THEOREM SharedDates == Spec => []SharedDatesOrdered
<1>1. Init => DatesInv
  BY SharedInit DEF Init, Repo!Init, DatesInv, SharedDatesOrdered, ReadDatesOrdered
<1>2. DatesInv => SharedDatesOrdered
  BY DEF DatesInv
<1>3. QED  BY <1>1, <1>2, DatesStep, PTL DEF Spec

\* Whatever the writers share, rejected and interrupted transactions included,
\* no item or observation is lost and no item's first sighting moves: what a
\* lost update loses is in the row only, never in the history.
THEOREM SharedHistoryKept == Spec => [][KeepsRows]_vars
<1>1. Init => DatesInv
  BY SharedInit DEF Init, Repo!Init, DatesInv, SharedDatesOrdered, ReadDatesOrdered
<1>2. QED  BY <1>1, DatesStep, PTL DEF Spec

-----------------------------------------------------------------------------
(* One writer for each item                                                *)

OneWriterPerItem == \A v, w \in Writers : v # w => Owns[v] \cap Owns[w] = {}

\* The committed row of s, as a SELECT would return it.
CommittedRow(s) == IF s \in DOMAIN items THEN items[s] ELSE None

\* What transaction x of writer w has read is what it would read now.
Current(w, x) ==
    /\ x.rec.source_id \in Owns[w]
    /\ x.run \in DOMAIN runs
    /\ x.existing = CommittedRow(x.rec.source_id)
    /\ x.pc = "write" /\ ClosedSeen(x) => x.recorded = Repo!RecordedLast(x.rec)

\* The inductive invariant for one writer per item: what an open transaction
\* has read stays current, as nobody else writes its item or its history.
SerialInv ==
    /\ SharedInv
    /\ \A w \in Writers : txn[w] # None => Current(w, txn[w])

\* A step that leaves the item, its history and the stored runs of an open
\* transaction alone leaves what it has read current.
LEMMA CurrentKept ==
    ASSUME NEW w, NEW x, Current(w, x),
           DOMAIN runs \subseteq DOMAIN runs',
           CommittedRow(x.rec.source_id)' = CommittedRow(x.rec.source_id),
           Repo!History(x.rec.source_id)' = Repo!History(x.rec.source_id)
    PROVE  Current(w, x)'
<1>1. Repo!RecordedLast(x.rec)' = Repo!RecordedLast(x.rec)
  BY DEF Repo!RecordedLast, Repo!LatestHistory
<1>2. ClosedSeen(x)' = ClosedSeen(x)
  BY DEF ClosedSeen, Inserts, OutOfOrder, Repo!IsTerminal, Repo!RecordStatus
<1>3. QED  BY <1>1, <1>2 DEF Current

\* A commit leaves the rows and the history of other items alone.
LEMMA CommitLocal ==
    ASSUME SharedInv, NEW w \in Writers, Commit(w), NEW u, u # txn[w].rec.source_id
    PROVE  /\ CommittedRow(u)' = CommittedRow(u)
           /\ Repo!History(u)' = Repo!History(u)
  BY CommitFacts DEF CommittedRow, Repo!History

\* A step that leaves the tables and the transactions alone, but for the runs
\* and the reconciliation columns, leaves every read current.
LEMMA SerialStutter ==
    ASSUME SerialInv, UNCHANGED <<items, observations, txn>>,
           DOMAIN runs \subseteq DOMAIN runs'
    PROVE  SerialInv'
<1>1. SharedInv'
  BY SharedStutter DEF SerialInv
<1> SUFFICES ASSUME NEW v \in Writers, txn'[v] # None
             PROVE  Current(v, txn[v])'
  BY <1>1 DEF SerialInv
<1>2. PICK x : x = txn[v]
  OBVIOUS
<1>3. Current(v, x)
  BY <1>2 DEF SerialInv
<1>4. /\ CommittedRow(x.rec.source_id)' = CommittedRow(x.rec.source_id)
      /\ Repo!History(x.rec.source_id)' = Repo!History(x.rec.source_id)
  BY DEF CommittedRow, Repo!History
<1>5. Current(v, x)'
  BY <1>3, <1>4, CurrentKept
<1>6. x = txn'[v]
  BY <1>2
<1>7. QED  BY <1>5, <1>6

\* A statement that only moves its own transaction leaves the others' reads
\* current.
LEMMA SerialMove ==
    ASSUME SerialInv, NEW w \in Writers, NEW y \in Transactions \cup {None},
           txn' = [txn EXCEPT ![w] = y], UNCHANGED tables, SharedInv',
           y # None => Current(w, y)
    PROVE  SerialInv'
<1>1. UNCHANGED <<items, inventory, observations, aliases, runs>>
  BY DEF tables
<1> SUFFICES ASSUME NEW v \in Writers, txn'[v] # None
             PROVE  Current(v, txn[v])'
  BY DEF SerialInv
<1>2. PICK x : x = txn'[v]
  OBVIOUS
<1>3. x = IF v = w THEN y ELSE txn[v]
  BY <1>2 DEF SerialInv, SharedInv, Typed
<1>4. Current(v, x)
  BY <1>2, <1>3 DEF SerialInv
<1>5. /\ CommittedRow(x.rec.source_id)' = CommittedRow(x.rec.source_id)
      /\ Repo!History(x.rec.source_id)' = Repo!History(x.rec.source_id)
  BY <1>1 DEF CommittedRow, Repo!History
<1>6. Current(v, x)'
  BY <1>1, <1>4, <1>5, CurrentKept
<1>7. QED  BY <1>2, <1>6

\* A commit leaves what the other writers have read current.
LEMMA SerialCommit ==
    ASSUME OneWriterPerItem, SerialInv, NEW w \in Writers, Commit(w)
    PROVE  SerialInv'
<1>1. SharedInv /\ SharedInv'
  BY SharedCommit DEF SerialInv
<1>2. txn' = [txn EXCEPT ![w] = None] /\ UNCHANGED runs /\ txn[w] # None
  BY DEF Commit
<1> SUFFICES ASSUME NEW v \in Writers, txn'[v] # None
             PROVE  Current(v, txn[v])'
  BY <1>1 DEF SerialInv
<1>3. v # w /\ txn'[v] = txn[v]
  BY <1>2 DEF SerialInv, SharedInv, Typed
<1>4. PICK x : x = txn[v]
  OBVIOUS
<1>5. Current(v, x) /\ Current(w, txn[w])
  BY <1>2, <1>3, <1>4 DEF SerialInv
<1>6. x.rec.source_id # txn[w].rec.source_id
  BY <1>3, <1>5 DEF Current, OneWriterPerItem
<1>7. /\ CommittedRow(x.rec.source_id)' = CommittedRow(x.rec.source_id)
      /\ Repo!History(x.rec.source_id)' = Repo!History(x.rec.source_id)
  BY <1>1, <1>6, CommitLocal
<1>8. Current(v, x)'
  BY <1>2, <1>5, <1>7, CurrentKept
<1>9. x = txn'[v]
  BY <1>3, <1>4
<1>10. QED  BY <1>8, <1>9

\* With one writer per item, what every open transaction has read is current
\* after every step.
LEMMA SerialStep == ASSUME OneWriterPerItem PROVE SerialInv /\ [Next]_vars => SerialInv'
<1> SUFFICES ASSUME SerialInv, [Next]_vars PROVE SerialInv'
  OBVIOUS
<1>1. SharedInv /\ SharedInv'
  BY SharedStep DEF SerialInv
<1>2. CASE StartRun
  BY <1>2, SerialStutter DEF StartRun, Repo!Start, Repo!StartScrapeRun, Repo!Put
<1>3. CASE FinishRun
  BY <1>3, SerialStutter DEF FinishRun, Repo!Finish, Repo!FinishScrapeRun, Repo!Put
<1>4. ASSUME NEW w \in Writers, NEW r \in RunIds, NEW rec \in Repo!Records,
             ReadExisting(w, r, rec)
      PROVE  SerialInv'
  <2> DEFINE y == [pc |-> "identity", run |-> r, rec |-> rec, recorded |-> FALSE,
                   existing |-> CommittedRow(rec.source_id)]
  <2>1. y \in Transactions
    BY <1>1 DEF Transactions, SharedInv, Typed, CommittedRow
  <2>2. txn' = [txn EXCEPT ![w] = y] /\ UNCHANGED tables
    BY <1>4 DEF ReadExisting, CommittedRow
  <2>3. Current(w, y)
    BY <1>4 DEF Current, ReadExisting
  <2> HIDE DEF y
  <2>4. QED  BY <1>1, <2>1, <2>2, <2>3, SerialMove
<1>5. ASSUME NEW w \in Writers, CheckIdentity(w)
      PROVE  SerialInv'
  <2> DEFINE pc == IF ClosedSeen(txn[w]) THEN "history" ELSE "write"
             y == [txn[w] EXCEPT !.pc = pc]
             z == IF Repo!IdentityConflict(txn[w].rec) THEN None ELSE y
  <2>1. txn[w] \in Transactions /\ Current(w, txn[w])
    BY <1>5 DEF CheckIdentity, SerialInv, SharedInv, Typed
  <2>2. /\ y \in Transactions
        /\ y.rec = txn[w].rec
        /\ y.run = txn[w].run
        /\ y.existing = txn[w].existing
        /\ y.pc = pc
    BY <2>1 DEF Transactions
  <2>3. txn' = [txn EXCEPT ![w] = z] /\ UNCHANGED tables
    BY <1>5 DEF CheckIdentity
  <2> HIDE DEF y
  <2>4. ClosedSeen(y) <=> ClosedSeen(txn[w])
    BY <2>2 DEF ClosedSeen, Inserts, OutOfOrder
  <2>5. Current(w, y)
    BY <2>1, <2>2, <2>4 DEF Current
  <2>6. z \in Transactions \cup {None} /\ (z # None => Current(w, z))
    BY <2>2, <2>5
  <2> HIDE DEF z
  <2>7. QED  BY <1>1, <2>3, <2>6, SerialMove
<1>6. ASSUME NEW w \in Writers, ReadHistory(w)
      PROVE  SerialInv'
  <2> DEFINE y == [txn[w] EXCEPT !.pc = "write", !.recorded = Repo!RecordedLast(txn[w].rec)]
  <2>1. txn[w] \in Transactions /\ Current(w, txn[w])
    BY <1>6 DEF ReadHistory, SerialInv, SharedInv, Typed
  <2>2. Repo!RecordedLast(txn[w].rec) \in BOOLEAN
    BY DEF Repo!RecordedLast
  <2>3. /\ y \in Transactions
        /\ y.rec = txn[w].rec
        /\ y.run = txn[w].run
        /\ y.existing = txn[w].existing
        /\ y.recorded = Repo!RecordedLast(txn[w].rec)
    BY <2>1, <2>2 DEF Transactions
  <2>4. txn' = [txn EXCEPT ![w] = y] /\ UNCHANGED tables
    BY <1>1, <1>6, <2>1 DEF ReadHistory, SharedInv, Typed
  <2> HIDE DEF y
  <2>5. Current(w, y)
    BY <2>1, <2>3 DEF Current
  <2>6. QED  BY <1>1, <2>3, <2>4, <2>5, SerialMove
<1>7. ASSUME NEW w \in Writers, RejectDuplicate(w) \/ LoseConnection(w)
      PROVE  SerialInv'
  BY <1>1, <1>7, SerialMove DEF RejectDuplicate, LoseConnection
<1>8. CASE UNCHANGED vars
  BY <1>8, SerialStutter DEF vars
<1>9. QED  BY <1>2, <1>3, <1>4, <1>5, <1>6, <1>7, <1>8, SerialCommit DEF Next

\* With no open transaction there is nothing read.
LEMMA SerialInit == Init => SerialInv
  BY SharedInit DEF Init, SerialInv

\* A commit whose reads are current is one atomic persist_reconciled_record: on
\* the path it decided on long before, with the row it meets now.  An out-of-order
\* commit does not write the document it checked, so that another item may own
\* it by now: it is the atomic step of a record with the item's own document.
LEMMA CommitPersists ==
    ASSUME SerialInv, NEW w \in Writers, Commit(w)
    PROVE  Repo!Persist
<1> DEFINE x == txn[w]
           rec == x.rec
           s == rec.source_id
<1>1. x \in Transactions /\ Current(w, x)
  BY DEF Commit, SerialInv, SharedInv, Typed
<1>2. /\ rec \in Repo!Records
      /\ x.run \in RunIds
      /\ x.run \in DOMAIN runs
      /\ x.existing = CommittedRow(s)
  BY <1>1 DEF Transactions, Current
<1>3. items \in [DOMAIN items -> Repo!ItemRows] /\ Repo!IdentityUnique
  BY DEF SerialInv, SharedInv, Typed
<1>4. x.pc = "write" /\ ~UniqueViolation(x) /\ UNCHANGED runs
  BY DEF Commit
<1>5. x.existing # None =>
        /\ s \in DOMAIN items
        /\ x.existing = items[s]
        /\ items[s] \in Repo!ItemRows
        /\ items[s].last_seen_at \in Nat
        /\ rec.observed_at \in Nat
  BY <1>2, <1>3, TablesAssumption
  DEF CommittedRow, Repo!ItemRows, Repo!Records, Repo!RepositoryAssumption
<1>6. \A f : \A row : f = [u \in DOMAIN f |-> f[u]] /\ s \in DOMAIN f =>
        [f EXCEPT ![s] = row] = Repo!Put(f, s, row)
  BY DEF Repo!Put
<1>7. \A row : s \in DOMAIN items => [items EXCEPT ![s] = row] = Repo!Put(items, s, row)
  BY <1>3, <1>6
<1>8. WriteInsert(x) \/ WriteOutOfOrder(x) \/ WriteClosedSeen(x) \/ WriteUpdate(x)
  BY DEF Commit
<1> HIDE DEF x
<1>9. CASE WriteInsert(x)
  <2>1. s \notin DOMAIN items /\ ~Repo!IdentityConflict(rec)
    BY <1>4, <1>9 DEF WriteInsert, UniqueViolation, OutOfOrder
  <2>2. Repo!PersistInsert(x.run, rec)
    BY <1>4, <1>9, <2>1 DEF WriteInsert, Repo!PersistInsert
  <2>3. QED  BY <1>2, <2>2 DEF Repo!Persist, Repo!PersistReconciledRecord
<1>10. CASE WriteOutOfOrder(x)
  <2> DEFINE own == [rec EXCEPT !.source_dis_id = items[s].source_dis_id]
  <2>1. /\ x.existing # None
        /\ rec.observed_at < items[s].last_seen_at
        /\ Repo!InsertObservation(x.run, rec)
        /\ UNCHANGED <<items, inventory, aliases>>
    BY <1>5, <1>10 DEF WriteOutOfOrder, OutOfOrder, Inserts
  <2>2. items[s].source_dis_id \in DisIds
    BY <1>5, <2>1 DEF Repo!ItemRows
  <2>3. /\ own \in Repo!Records
        /\ own.source_id = s
        /\ own.source_dis_id = items[s].source_dis_id
        /\ own.observed_at = rec.observed_at
        /\ own.observation_hash = rec.observation_hash
    BY <1>2, <2>2 DEF Repo!Records
  <2> HIDE DEF own
  <2>4. ~Repo!IdentityConflict(own)
    BY <1>3, <1>5, <2>1, <2>3 DEF Repo!IdentityConflict, Repo!IdentityUnique
  <2>5. Repo!InsertObservation(x.run, own)
    BY <2>1, <2>3 DEF Repo!InsertObservation, Repo!AlreadyObserved,
                      Repo!ObservationValues, Repo!RecordStatus
  <2>6. Repo!PersistOutOfOrder(x.run, own)
    BY <1>4, <1>5, <2>1, <2>3, <2>4, <2>5 DEF Repo!PersistOutOfOrder
  <2>7. QED  BY <1>2, <2>3, <2>6 DEF Repo!Persist, Repo!PersistReconciledRecord
<1>11. CASE WriteClosedSeen(x)
  <2>1. x.existing # None /\ ClosedSeen(x) /\ ~OutOfOrder(x)
    BY <1>11 DEF WriteClosedSeen, ClosedSeen, Inserts
  <2>2. ~Repo!IdentityConflict(rec)
    BY <1>4, <2>1 DEF UniqueViolation
  <2>3. rec.observed_at >= items[s].last_seen_at
    BY <1>5, <2>1 DEF OutOfOrder, Inserts
  <2>4. Repo!IsTerminal(items[s].status) /\ ~Repo!IsTerminal(Repo!RecordStatus(rec))
    BY <1>5, <2>1 DEF ClosedSeen
  <2>5. items' = [items EXCEPT ![s] = Repo!ClosedRowSeen(items[s], rec)]
    BY <1>5, <1>11, <2>1 DEF WriteClosedSeen, Repo!ClosedRowSeen, Repo!ItemRows
  <2>6. items' = Repo!Put(items, s, Repo!ClosedRowSeen(items[s], rec))
    BY <1>5, <1>7, <2>1, <2>5
  <2>7. x.recorded = Repo!RecordedLast(rec)
    BY <1>1, <1>4, <2>1 DEF Current, x
  <2>8. Repo!RecordNonterminalHistoryAfterClosure(x.run, rec)
    BY <1>11, <2>7 DEF WriteClosedSeen, Repo!RecordNonterminalHistoryAfterClosure
  <2>9. UNCHANGED <<inventory, aliases, runs>>
    BY <1>4, <1>11 DEF WriteClosedSeen
  <2>10. Repo!PersistClosedSeen(x.run, rec)
    BY <1>5, <2>1, <2>2, <2>3, <2>4, <2>6, <2>8, <2>9 DEF Repo!PersistClosedSeen
  <2>11. QED  BY <1>2, <2>10 DEF Repo!Persist, Repo!PersistReconciledRecord
<1>12. CASE WriteUpdate(x)
  <2>1. x.existing # None /\ ~ClosedSeen(x) /\ ~OutOfOrder(x)
    BY <1>12 DEF WriteUpdate, Updates, Inserts
  <2>2. ~Repo!IdentityConflict(rec)
    BY <1>4, <2>1 DEF UniqueViolation
  <2>3. rec.observed_at >= items[s].last_seen_at
    BY <1>5, <2>1 DEF OutOfOrder, Inserts
  <2>4. Repo!IsTerminal(items[s].status) => Repo!IsTerminal(Repo!RecordStatus(rec))
    BY <1>5, <2>1 DEF ClosedSeen, Inserts
  <2>5. [Repo!UpdatedRow(items[s], rec) EXCEPT !.first_seen_at = items[s].first_seen_at]
            = Repo!UpdatedRow(items[s], rec)
    BY DEF Repo!UpdatedRow
  <2>6. items' = Repo!Put(items, s, Repo!UpdatedRow(items[s], rec))
    <3>1. items' = [items EXCEPT ![s] = [Repo!UpdatedRow(items[s], rec) EXCEPT
                        !.first_seen_at = items[s].first_seen_at]]
      BY <1>5, <1>12, <2>1 DEF WriteUpdate
    <3>2. QED  BY <1>5, <1>7, <2>1, <2>5, <3>1
  <2>7. IF items[s].current_observation_hash # rec.observation_hash
        THEN Repo!InsertObservation(x.run, rec)
        ELSE UNCHANGED observations
    BY <1>5, <1>12, <2>1 DEF WriteUpdate
  <2>8. Repo!RecordLocationAlias(rec) /\ UNCHANGED <<inventory, runs>>
    BY <1>4, <1>12 DEF WriteUpdate
  <2>9. Repo!PersistUpdate(x.run, rec)
    BY <1>5, <2>1, <2>2, <2>3, <2>4, <2>6, <2>7, <2>8 DEF Repo!PersistUpdate
  <2>10. QED  BY <1>2, <2>9 DEF Repo!Persist, Repo!PersistReconciledRecord
<1>13. QED  BY <1>8, <1>9, <1>10, <1>11, <1>12

\* Every other statement is invisible in the tables.
LEMMA StepPersists == SerialInv /\ [Next]_vars => [Repo!Next]_(Repo!vars)
<1> SUFFICES ASSUME SerialInv, [Next]_vars PROVE [Repo!Next]_(Repo!vars)
  OBVIOUS
<1>1. CASE StartRun \/ FinishRun
  BY <1>1 DEF StartRun, FinishRun, Repo!Next
<1>2. ASSUME NEW w \in Writers, Commit(w)
      PROVE  Repo!Next
  BY <1>2, CommitPersists DEF Repo!Next
<1>3. ASSUME NEW w \in Writers,
             \/ \E r \in RunIds, rec \in Repo!Records : ReadExisting(w, r, rec)
             \/ CheckIdentity(w)
             \/ ReadHistory(w)
             \/ RejectDuplicate(w)
             \/ LoseConnection(w)
      PROVE  UNCHANGED Repo!vars
  BY <1>3 DEF ReadExisting, CheckIdentity, ReadHistory, RejectDuplicate, LoseConnection,
              tables, Repo!vars
<1>4. CASE UNCHANGED vars
  BY <1>4 DEF vars, Repo!vars
<1>5. QED  BY <1>1, <1>2, <1>3, <1>4 DEF Next

\* Writers that share no item implement the store whose persist_reconciled_record
\* is one atomic step, whatever way their statements interleave, connections die
\* and commits are rejected: READ COMMITTED is enough for them.
THEOREM TransactionsRefine == ASSUME OneWriterPerItem PROVE Spec => ImplementsRepository
<1>1. Init => Repo!Init
  BY DEF Init
<1>2. SerialInv /\ [Next]_vars => SerialInv'
  BY SerialStep
<1>3. QED
  BY <1>1, <1>2, SerialInit, StepPersists, PTL DEF Spec, ImplementsRepository, Repo!Spec

-----------------------------------------------------------------------------
(* What is proved of the atomic store holds for such writers.              *)

Atomic == INSTANCE AuctionRepositoryProofs

\* The two instances of AuctionRepository have the same constants.
LEMMA AtomicAssumption == Atomic!RepositoryAssumption
  BY TablesAssumption
  DEF Repo!RepositoryAssumption, Atomic!RepositoryAssumption, Repo!Statuses, Atomic!Statuses

\* The two instances of AuctionRepository have the same initial states and steps.
LEMMA AtomicSteps ==
    /\ Repo!Init => Atomic!Init
    /\ [Repo!Next]_(Repo!vars) => [Atomic!Next]_(Atomic!vars)
<1>1. Repo!Init => Atomic!Init
  BY DEF Repo!Init, Atomic!Init
<1>2. Repo!Start => Atomic!Start
  BY DEF Repo!Start, Atomic!Start, Repo!StartScrapeRun, Atomic!StartScrapeRun,
         Repo!Put, Atomic!Put
<1>3. Repo!Finish => Atomic!Finish
  BY Zenon
  DEF Repo!Finish, Atomic!Finish, Repo!FinishScrapeRun, Atomic!FinishScrapeRun,
      Repo!ReconcileCompleteInventory, Atomic!ReconcileCompleteInventory,
      Repo!CompletionStatus, Atomic!CompletionStatus, Repo!ScrapeRunStatus,
      Atomic!ScrapeRunStatus, Repo!SeenRow, Atomic!SeenRow, Repo!AbsentRow,
      Atomic!AbsentRow, Repo!Coalesce, Atomic!Coalesce, Repo!StaleAbsenceThreshold,
      Atomic!StaleAbsenceThreshold, Repo!Put, Atomic!Put
<1>4. Repo!Persist => Atomic!Persist
  <2> SUFFICES ASSUME NEW r \in RunIds, NEW rec \in Repo!Records,
                      Repo!PersistReconciledRecord(r, rec)
               PROVE  rec \in Atomic!Records /\ Atomic!PersistReconciledRecord(r, rec)
    BY DEF Repo!Persist, Atomic!Persist
  <2>1. rec \in Atomic!Records
    BY Zenon DEF Repo!Records, Atomic!Records
  <2>2. Repo!IdentityConflict(rec) <=> Atomic!IdentityConflict(rec)
    BY Zenon DEF Repo!IdentityConflict, Atomic!IdentityConflict
  <2>3. Repo!InsertObservation(r, rec) => Atomic!InsertObservation(r, rec)
    BY Zenon
    DEF Repo!InsertObservation, Atomic!InsertObservation, Repo!AlreadyObserved,
        Atomic!AlreadyObserved, Repo!ObservationValues, Atomic!ObservationValues,
        Repo!RecordStatus, Atomic!RecordStatus
  <2>4. Repo!RecordLocationAlias(rec) => Atomic!RecordLocationAlias(rec)
    BY Zenon DEF Repo!RecordLocationAlias, Atomic!RecordLocationAlias, Repo!Put, Atomic!Put
  <2>5. Repo!RecordNonterminalHistoryAfterClosure(r, rec) =>
          Atomic!RecordNonterminalHistoryAfterClosure(r, rec)
    BY <2>3, Zenon
    DEF Repo!RecordNonterminalHistoryAfterClosure,
        Atomic!RecordNonterminalHistoryAfterClosure, Repo!RecordedLast, Atomic!RecordedLast,
        Repo!LatestHistory, Atomic!LatestHistory, Repo!History, Atomic!History
  <2>6. Repo!IsTerminal(Repo!RecordStatus(rec)) <=> Atomic!IsTerminal(Atomic!RecordStatus(rec))
    BY DEF Repo!IsTerminal, Atomic!IsTerminal, Repo!RecordStatus, Atomic!RecordStatus
  <2>7. \A status : Repo!IsTerminal(status) <=> Atomic!IsTerminal(status)
    BY DEF Repo!IsTerminal, Atomic!IsTerminal
  <2>8. \A f, k, row : Repo!Put(f, k, row) = Atomic!Put(f, k, row)
    BY Zenon DEF Repo!Put, Atomic!Put
  <2>9. \A at : Repo!FirstTerminalObservedAt(at, rec) = Atomic!FirstTerminalObservedAt(at, rec)
    BY <2>6 DEF Repo!FirstTerminalObservedAt, Atomic!FirstTerminalObservedAt
  <2>10. Repo!InsertedRow(rec) = Atomic!InsertedRow(rec) /\ Repo!NewInventory = Atomic!NewInventory
    BY <2>9 DEF Repo!InsertedRow, Atomic!InsertedRow, Repo!NewInventory, Atomic!NewInventory,
                Repo!RecordStatus, Atomic!RecordStatus
  <2>11. \A row : Repo!ClosedRowSeen(row, rec) = Atomic!ClosedRowSeen(row, rec)
    BY Zenon DEF Repo!ClosedRowSeen, Atomic!ClosedRowSeen
  <2>12. \A row : Repo!UpdatedRow(row, rec) = Atomic!UpdatedRow(row, rec)
    BY <2>9 DEF Repo!UpdatedRow, Atomic!UpdatedRow, Repo!Changed, Atomic!Changed,
                Repo!RecordStatus, Atomic!RecordStatus
  <2>13. Repo!PersistInsert(r, rec) => Atomic!PersistInsert(r, rec)
    BY <2>2, <2>3, <2>4, <2>8, <2>10, Zenon DEF Repo!PersistInsert, Atomic!PersistInsert
  <2>14. Repo!PersistOutOfOrder(r, rec) => Atomic!PersistOutOfOrder(r, rec)
    BY <2>2, <2>3, Zenon DEF Repo!PersistOutOfOrder, Atomic!PersistOutOfOrder
  <2>15. Repo!PersistClosedSeen(r, rec) => Atomic!PersistClosedSeen(r, rec)
    BY <2>2, <2>5, <2>6, <2>7, <2>8, <2>11, Zenon
    DEF Repo!PersistClosedSeen, Atomic!PersistClosedSeen
  <2>16. Repo!PersistUpdate(r, rec) => Atomic!PersistUpdate(r, rec)
    BY <2>2, <2>3, <2>4, <2>6, <2>7, <2>8, <2>12, Zenon
    DEF Repo!PersistUpdate, Atomic!PersistUpdate
  <2>17. QED
    BY <2>1, <2>13, <2>14, <2>15, <2>16
    DEF Repo!PersistReconciledRecord, Atomic!PersistReconciledRecord
<1>5. UNCHANGED Repo!vars => UNCHANGED Atomic!vars
  BY DEF Repo!vars, Atomic!vars
<1>6. QED  BY <1>1, <1>2, <1>3, <1>4, <1>5 DEF Repo!Next, Atomic!Next

\* With one writer per item no statement, however late, reopens a closed item or
\* moves the moment it was closed: the lost update needs two writers of an item.
THEOREM ClosedForeverWithOneWriter ==
    ASSUME OneWriterPerItem PROVE Spec => TerminalAbsorbing
<1>1. Spec => Atomic!Spec
  BY TransactionsRefine, AtomicSteps, PTL DEF ImplementsRepository, Repo!Spec, Atomic!Spec
<1>2. Atomic!Spec => Atomic!TerminalAbsorbing
  BY AtomicAssumption, Atomic!ClosedForever
<1>3. Atomic!TerminalAbsorbing => TerminalAbsorbing
  <2> DEFINE keeps == \A s \in DOMAIN items : Repo!IsTerminal(items[s].status) =>
                Repo!IsTerminal(items'[s].status) /\ items'[s].closed_at = items[s].closed_at
             atomicKeeps == \A s \in DOMAIN items : Atomic!IsTerminal(items[s].status) =>
                Atomic!IsTerminal(items'[s].status) /\ items'[s].closed_at = items[s].closed_at
  <2>1. [atomicKeeps]_(Atomic!vars) => [keeps]_(Repo!vars)
    BY DEF Atomic!vars, Repo!vars, Repo!IsTerminal, Atomic!IsTerminal
  <2>2. QED  BY <2>1, PTL DEF TerminalAbsorbing, Repo!TerminalAbsorbing, Atomic!TerminalAbsorbing
<1>4. QED  BY <1>1, <1>2, <1>3

\* With one writer per item no late statement moves last_seen_at or
\* last_changed_at back or leaves a row that contradicts itself or its history,
\* as a stale UPDATE of a shared item may.
THEOREM RowsKeptWithOneWriter ==
    ASSUME OneWriterPerItem PROVE Spec => []Repo!RowsConsistent /\ Repo!HistoryOnlyGrows
<1> DEFINE grows ==
      /\ observations \subseteq observations'
      /\ DOMAIN runs \subseteq DOMAIN runs'
      /\ DOMAIN aliases \subseteq DOMAIN aliases'
      /\ DOMAIN items \subseteq DOMAIN items'
      /\ \A s \in DOMAIN items :
            /\ items'[s].first_seen_at = items[s].first_seen_at
            /\ items'[s].last_seen_at >= items[s].last_seen_at
            /\ items'[s].last_changed_at >= items[s].last_changed_at
            /\ \/ items'[s].last_changed_at = items'[s].last_seen_at
               \/ items'[s] = [items[s] EXCEPT !.last_seen_at = items'[s].last_seen_at]
<1>1. Spec => Atomic!Spec
  BY TransactionsRefine, AtomicSteps, PTL DEF ImplementsRepository, Repo!Spec, Atomic!Spec
<1>2. Atomic!Spec => []Atomic!RowsConsistent /\ Atomic!HistoryOnlyGrows
  BY AtomicAssumption, Atomic!RowsStayConsistent, Atomic!HistoryGrows
<1>3. Atomic!RowsConsistent => Repo!RowsConsistent
  BY Zenon
  DEF Atomic!RowsConsistent, Repo!RowsConsistent, Atomic!HistoryBehindItem,
      Repo!HistoryBehindItem, Atomic!StatusMatchesHash, Repo!StatusMatchesHash,
      Atomic!DatesOrdered, Repo!DatesOrdered, Atomic!LocationAliased, Repo!LocationAliased
<1>4. [grows]_(Atomic!vars) => [grows]_(Repo!vars)
  BY Zenon DEF Atomic!vars, Repo!vars
<1>5. QED
  BY <1>1, <1>2, <1>3, <1>4, PTL DEF Repo!HistoryOnlyGrows, Atomic!HistoryOnlyGrows

=============================================================================
