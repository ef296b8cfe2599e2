# A TLA+ model of the BC Auction explorer

The repository scrapes a public auction site into PostgreSQL, serves the result
over a read-only HTTP API, and shows it in a web page. This directory models the
part of it that keeps state over time and can go wrong in ways tests hardly
reach: how observations become rows and history, when a run may call a listing
absent, what signals and crashes leave behind, how schedulers keep their
scrapes apart, how the client treats a site that misbehaves, what a page by page
enumeration of a changing list is worth, and what a reader of the API may see
meanwhile.

Paths below are relative to the repository's root. `PROJECT.json` maps every
definition to the lines it models.

## The system

| Part | State | Operations | Hard behaviour |
|---|---|---|---|
| Store, write side (`persistence.py`, `database.py`) | tables `auction_items`, `item_observations`, `location_aliases`, `scrape_runs` | `start_scrape_run`, `persist_reconciled_record`, `finish_scrape_run` (with `_reconcile_complete_inventory`) | out-of-order records, terminal items, unlocked read-modify-write by several processes, absence counting at a threshold |
| Scrape command (`__main__.py`) | local variables of `main()`: run id, outcome, counts, coverage, `run_finished` | search the product groups, fetch details, store, finish, write output; handlers for errors and SIGTERM | interrupts between a commit and the assignment that remembers it, partial failures, the limit, a source that changes meanwhile |
| Page enumeration (`_collect_search_records_from_page`, `SearchPageTracker`) | pages and records seen | follow "next page" links | pages that repeat, go back or shift |
| Source client (`client.py`) | cookie, time of the last request, metrics | GET, POST, three-step detail fetch | retries, redirects, Retry-After, request slot |
| Parsers (`parsers/`), `encoding.py`, `urls.py`, `locations.py`, `models.py` | none | text to records | none over time |
| Operations service (`operations.py`) | advisory lock, child process, stop event | wait, lock, scrape, unlock | loss of the lock's session, a child that does not react, restarts |
| Store, read side and API (`read_repository.py`, `api.py`) | none of its own | listing pages, facets, run status, operations status | ranking of the current observation, two statements without a snapshot, orphaned runs |
| Front end (`frontend/src`) | search in the address, query cache, minute clock | search, paging, refresh when a listing closes | stale page counts |
| Migrations, scripts, containers | | backfills, backup, restore | one-off |

Interactions. The operations service starts the scrape command as a child
process and learns its exit code; both talk to the store through sessions of
their own. A scrape started by hand takes no lock, so it can run beside a
scheduled one. The scrape command calls the store once per record, one
transaction each. The read side joins an item to the observation that carries
its `current_observation_hash`.

What makes each part correct:

* store: no listing loses its current observation, history only grows, a
  closed item stays closed at the moment it was first seen closed, identities
  stay unique, absences are counted only in the step that records a run as
  complete;
* scrape command: whatever was not looked at keeps a run from being complete, as
  far as the code can notice it; what a run reports is what it stored; every run
  ends; the exit code agrees with the stored run;
* operations service: no scrape is left to itself, scrapes do not overlap, the
  lock is given back, SIGTERM is obeyed, scrapes keep coming;
* source client: requests stay on the host, are bounded and spaced, carry the
  session of their form, are accounted for, and every operation ends;
* page enumeration: what it calls complete has every listing that stayed in its
  place; a shifted page is noticed; duplicates are counted between groups only;
* read side: an answer put together from several statements was true at some
  moment, pages split the listings, the views agree, a dead service is noticed.

## Modules

`AuctionRepository` is the abstract store: one step per transaction, and every
caller allowed (any run, any record, any time stamp, any order). Its variables
are the tables; `items` and `inventory` split the columns of `auction_items`
into those `_persist_record` writes and those only reconciliation writes. The
four disjuncts of `PersistReconciledRecord` are the four ways through
`_persist_record` (insert, out of order, closed item seen nonterminal, update),
`FinishScrapeRun` includes the reconciliation. Its callers are bound in one
respect (`Finish`): `main()` records success once, of a run that is running, and
only the handler of an interrupt records a run again, as failed. Bid contents
and descriptive contents are represented by their hashes; `StatusOf` and
`LocationOf` say which status and location a hash was made from. The identity
(`source_dis_id` and canonical URL) is one value, because a validator makes each
determine the other.

`RepositoryTransactions` runs the same method statement by statement for several
writers at READ COMMITTED, PostgreSQL's default, which `create_postgres_engine`
does not change. A transaction reads the item, then the owner of the document,
for closed items the newest history row, and then writes and commits. Its writes
are one step: row locks and unique keys make other writers wait for the commit.
Two writers of one item can wait for one another (the path for closed items
inserts the observation before it updates the item, the others the other way
round); PostgreSQL then aborts one, which is `LoseConnection`.
`INSTANCE AuctionRepository` gives it the tables, the rows and the abstract
specification it is compared with.

`ScrapeRun` is the caller: `main()` of `__main__.py` with `--persist`, for
several processes, over the atomic store. `proc[p]` holds the local variables
that the control flow reads; a commit and the assignment after it are separate
steps (`StartRun`/`AssignRunId`, `FinishRun`/`MarkFinished`), so that
`Interrupt` (SIGTERM or any error `main()` catches) and `Kill` fall in between.
`FinalizeFailed` and `FinalizationError` are the two ends of the handler. The
source is a set of product groups for each auction and may change at any time
(`Relist`). A group is read between `BeginGroup`, its first page, and `EndGroup`,
its last one; `shown` is what its pages show, and a change in between touches it:
a listing that appears may be shown or not, and once one is removed, any of the
others may have moved up onto a page already read and be missed. `Shows` is what
`SearchEnumeration` finds out about single pages, and nothing more is assumed of
them. `steady` remembers, for the properties only, what was listed without a
break since a process started, in a group nothing was removed from while the
process read it. A process starts once.

`Operations` is the scheduler loop: plan, wait, try the lock, poll the child,
terminate it, unlock. `session` and `holder` are PostgreSQL's side of the
advisory lock. `LoseSession`, `ContainerDies` and `Boot` are the surroundings,
the latter the restart policy of `compose.production.yaml`.

`AuctionClient` is the class of that name: an operation (prepare a search, search
a product group, fetch a detail, fetch a page) is a sequence of calls of
`_request`, a call a sequence of hops, a hop a sequence of tries, and each try
waits for the request slot. The site answers anything at all. Time is the ticks
since the last request (`since`) and the rest of a `time.sleep` (`sleep`).

`SearchEnumeration` is `_collect_search_records` with
`_collect_search_records_from_page`, `SearchPageTracker` and the checks of
`parse_search_results`. The source is an ordered list per group that changes
between the pages (`Appears`, `Closes`), and a page may come garbled
(`Garbled`). How many records of a page the loop takes is a number `k`, the first
at which the limit is reached, a record is refused or the page ends (`LoopEnds`).

`ReadViews` extends `AuctionRepository` with one operator per SQL statement of
`AuctionReadRepository`: the ranked join behind every listing, views,
availability, filters, order and pages, the runs of the two status endpoints.
`Age` cuts a time to whole seconds, as `int(total_seconds())` does; `Second` is the
number of ticks in one. `ReadRequests` runs the statements: a request takes the
time once and executes them one by one, and scrapes (of `AuctionRepository`'s own
actions) write in between. The scheduled ones follow one another (`MayStart`),
since the lock of `Operations`, while it is held, keeps them apart; those started
by hand overlap with everything. `live` has the runs whose process may still
write: a process that is interrupted after it has finished its run, and before it
has noted that, finishes it again, as failed (`WriterFails`), and one that ends or
is killed is heard of no more (`WriterEnds`). `truths` keeps, for `StatusWasTrue`
only, what the status would have been at each moment.

Each of these modules but `ReadViews` has its theorems in a module of its name
with `Proofs` added (those of `ReadRequests` are in two, `ReadRequestsProofs` for
the status endpoints and `ReadListingsProofs` for listings, views and pages); the
`MC*` modules give TLC finite constants (`Operations` and
`AuctionClient` need none). Definitions whose names begin with `Fault` are
broken variants of the definition below them, each a mistake one could make in
that code; `PROJECT.json` ("mutants") says which property each one violates when
it takes the definition's place. No specification uses them.

## Runs

| Run | Checks | Instance |
|---|---|---|
| `repository_history` | `TypeOK`, `CurrentObservationRecorded`, `RowsConsistent` (`HistoryBehindItem`, `StatusMatchesHash`, `DatesOrdered`, `LocationAliased`), `ClosureBacked`, `TerminalAbsorbing`, `HistoryOnlyGrows` | one item, three bid contents (open, closed, unknown), two descriptive ones, three time stamps, at most four observations |
| `repository_inventory` | `IdentityUnique`, `InventoryConsistent`, `InventoryMovesWithCompleteRuns` | two items and two documents (symmetric), open and closed, three runs, in flight at once or not, a complete and an incomplete coverage, every status, one time stamp, at most two observations, up to three absences |
| `transactions_disjoint` | `ImplementsRepository` (refinement) | two writers, an item each, two documents to quarrel over |
| `transactions_shared` | `JoinNeverEmpty`, `ColumnsAgree` | two writers of one item; open, closed, withdrawn; at most two observations |
| `transactions_lost_update` | `TerminalAbsorbing`, violated | as before, at most three observations |
| `scrape_absence` | `TypeOK`, `AbsencesBackedByCoverage`, `SteadyNeverAbsent` | a scheduled and a manual scrape, the second with a limit of one; two auctions, two product groups, two listings in all, one change of the source, between the pages of a group too |
| `scrape_overlap` | `CountsMatchHistory`, `ExitCodeMatchesRun`, `RunEnds` | a scheduled and a manual scrape at once, one group; one auction with open and closed contents, one with two documents, identity conflicts between them |
| `scrape_keyword` | `SteadyNeverAbsent`, violated | the second scrape has a keyword |
| `operations` | `ScrapeWatched`, `NoOverlapUnlessLost`, `StopHonoured`, `ScrapesKeepComing` | three schedulers; lock sessions may drop, scrapes may never end |
| `client` | `TypeOK`, `RequestsBounded`, `HopsSafe` (`StaysOnHost`, `FormFollowsMethod`, `HopsDistinct`), `MetricsAddUp`, `SearchInSession`, `RequestsSpaced`, `TaskEnds` | two URLs of the host and one elsewhere, two sessions, two redirects, one retry, an interval of two ticks, delays up to three |
| `enumeration` | `TypeOK`, `EnumerationSound`, `DuplicatesAcrossGroups`, `EnumerationEnds` | two groups of up to three listings, a listing a page, two pages at most, a limit of three, a URL shown for two auction numbers |
| `read_requests` | `RequestsTypeOK`, `StatusWasTrue`, `DeadServiceNoticed`, `EndpointsAgree`, `PageNeverShort`, `PagesPartition`, `ViewsAgree` | two runs (symmetric), both scheduled over six moments or one of them by hand and a start until the fourth, two ticks a second; or two items, three bid contents, two moments, three filters, pages of one row, beside a run, with a second, overlapping one while nothing is asked |

Why the bounds are enough to meet the interesting cases. One item suffices for
the history, because the paths of `_persist_record` relate items only through
their documents, which is what `repository_inventory` has two of. Three time
stamps give a late record a past to fall into and a closed item a future. Three
absences are the stale threshold; the fourth is cut off by the state constraint
`Bounded`, after its invariants have been checked. They take three complete
runs, and with three, one can be recorded as failed or partial after others were
complete, which is when an action that looked at any complete run would be
deceived; dates are the subject of `repository_history`, so one time stamp does.
A limit of one can be reached in the first group, in the second, and exactly.
Two groups let an auction be listed in none, one or both. Two runs give a health
check a complete one and a later one that may run, fail or die, and a scheduled
run and one by hand give the two status endpoints different runs to choose. Six
moments with two in a second let either limit of one second pass after both runs
have started, and let a request fall on either side of the second at which it
does. Two writers are enough for every pair of conflicting statements. In
`client` an interval longer than the backoff and shorter than the longest
`Retry-After` lets either be the one that counts, and three URLs allow loops,
chains that reach the limit, and targets off the host. In `enumeration` one
listing a page makes every change shift a page, two pages put the page limit
within reach, and three listings the record limit, in the middle of a group or
at its end.

Some runs cut their state space by more than constants. `scrape_absence` takes
auctions and documents as interchangeable, which they are (only compared for
equality), has two listings in all (`TwoListings`), and moves the clock between
the two scrapes only (`TickBetweenRuns`): the times within a scrape matter to
the dates of one item, which `repository_history` explores. In it an auction
keeps its document (`NoRenumbering`), and the scheduled scrape is the one that
is interrupted or killed (`ScheduledMishap`); identity conflicts and mishaps of
both are in `scrape_overlap`, which lets the content of one auction change and
the document of the other (`OneChangesEach`); the documents still collide.
`read_requests` takes run ids as interchangeable and explores either runs over
empty tables or listings (`OneOrTheOther`), because a request reads one or the
other; the clock of an operations request moves once at most while it is
handled, and a run by hand goes with an earlier end of time (`MaxManualTime`)
than two scheduled ones, since `/health/operations` does not read it. It asks
for every page of one view, the first page of the others and of a filtered one
(`AskedFor`), and does not tell apart runs no statement tells apart
(`Distinguished`). Its bounds are a conjunct of the next-state relation
(`BoundedSpec`) and not a `CONSTRAINT`, because TLC evaluates the invariants on
every state just outside a constraint. `repository_history`,
`repository_inventory` and the runs of `RepositoryTransactions` have `Bounded`.
Their safety properties are theorems as well, which no bound limits.

`CHECK_DEADLOCK FALSE` is set where the system may stop: scrape processes end,
and a scheduler that was stopped stays stopped.

Fairness. `ScrapeRun!FairSpec` has weak fairness of every process's own steps:
requests time out, retries are finite and loops run over finite collections. The
modules below it show as much: `TaskEnds` of `AuctionClient`, where the thread
runs, time passes and every request is answered or given up, and
`EnumerationEnds` of `SearchEnumeration`, where the thread runs. Two things are
assumed of the site. The delay it asks for is finite (`MaxRetryAfter`):
`_sleep_for_retry` obeys a `Retry-After` of any size. And the body of every
answer ends: the timeout of httpx is one for each read and not for a request,
and `_validate_html_response` looks at the size when the body is complete, so a
site that trickles one out can keep a request, and with it a scrape, for as long
as it likes. `Operations!FairSpec` has weak fairness of each scheduler's own
steps (its waits end by the schedule, the one-second poll and the sixty-second
timeout) and none of the children, which is why `StopHonoured` says something.
Boots, signals, losses and kills are never fair.

## What the violated properties show

* `transactions_lost_update`. A writer reads an open item; another one closes
  it and commits; the first one then commits its update and the item is open
  again, with `closed_at` empty. `test_persistence_integration.py` states the
  property for one writer. The closing observation stays in the history, and
  `transactions_shared` shows that rows remain consistent with it.
* `scrape_keyword`. `enumeration_complete` ignores the keyword, so a persisted
  keyword search that exhausts its results counts every other open item absent;
  after three of them the items are stale and leave the active view. The README
  of the repository says that a complete scrape requires full enumeration.

`operations` has no such run, but the limit of a promise: the README says that
the advisory lock keeps a second scheduler from overlapping a running scrape. The
lock goes with its session, and nobody looks at the session while the scrape
runs, so `NoOverlapUnlessLost` has to except the schedulers whose session was
lost. `ScrapeWatched` needs no exception: however a scrape ends, its scheduler
does not go on before it has ended.

Two more windows are visible in passing runs. SIGTERM between the commit of
`finish_scrape_run` and `run_finished = True` stores a complete run a second
time, as failed; `AbsencesBackedByCoverage` is the part of the guarantee that
survives (its coverage stays complete, and nothing is counted twice). A request
that has read such a run as complete may still answer by it, which is why
`StatusWasTrue` and `DeadServiceNoticed` are about requests whose complete run is
one to the end (`CompleteStands`). And
`RunEnds` has to except the interrupt between the commit of `start_scrape_run`
and the assignment of `run_id`, the kill, and the failure that cannot be stored:
such a row says running for ever, and no step of the program repairs it.

The read side has limits of its own, which the properties are stated around.
Until a complete scheduled run has finished, `/health/operations` answers
starting or degraded with status 200 however long that takes, so
`DeadServiceNoticed` presupposes one. `active_listing_count` counts the rows
whose `inventory_state` is current, the closed ones included. The two status
endpoints disagree about the age of the last complete scrape once there is a
complete one by hand: `/api/scrape-status` takes complete runs of every mode,
the one that started last, and `/health/operations` scheduled ones only, the one
that finished last. `EndpointsAgree` says that this is the only reason, and that
the two orders never are one: it holds because scheduled runs do not overlap.
The active and ended views can miss a listing that moves between the count and
the page; `PageNeverShort` is about all listings, which only grow.

What an enumeration can miss without noticing is a listing from whose group
another one was removed while its pages were being read, since what is behind the
removed one moves up, over the end of a page, and nothing compares the totals of
two pages; and a listing that moved to a group already searched. The run may be
complete nevertheless, and then counts the listing absent. `EnumerationSound` and
`SteadyNeverAbsent` except exactly that. The
parser catches the rest: a page that overlaps an earlier one, a range, a total or
a link that do not fit. A page without a range passes for a whole list if it has
no links to other pages; the model has the site show a range or links whenever
there are more pages, which is an assumption about it.

## Theorems

`AuctionRepositoryProofs`, for arbitrary sets of ids, hashes, times, counts and
coverages, from `RepositoryAssumption` (time stamps and hashes are ordered like
naturals, `StatusOf` and `LocationOf` are total, `None` is neither a time nor a
location):

* `TypeCorrect`: `Spec => []TypeOK`.
* `RepositorySafe`: `Spec => []IInv`. `IInv` is the conjunction of the type
  invariant and eight safety invariants, and the important ones are not
  inductive alone. That the newest observation of the current hash is not ahead
  of its item (`CurrentObservationRecorded`) survives an update only because
  `last_seen_at` never moves back; `ClosureBacked` needs `StatusMatchesHash` (an
  item that becomes terminal has a new hash, and only a new hash adds the
  observation that backs the closure) and `DatesOrdered` needs `ClosureBacked`
  to know when `closed_at` can change. Every path of
  `_persist_record` that writes an item writes one row; `WriteKeeps` proves once
  that writing one correct row keeps the invariants, and each path then only
  shows its row correct (`WrittenRowCorrect`).
* `ListingsNeverVanish`, `ClosuresBacked`, `IdentitiesUnique`,
  `HistoryNeverAhead`, `StatusIsHashed`, `DatesStayOrdered`, `LocationsAliased`,
  `InventoryColumnsAgree`: the eight invariants, read off `IInv`;
  `RowsStayConsistent` is four of them as the run checks them.
* `ClosedForever`: `TerminalAbsorbing`, an action property, from `IInv`.
* `InventoryMovesOnlyThen`: `InventoryMovesWithCompleteRuns`, likewise: the step
  that moves the columns is the one that takes a run from running to succeeded and
  complete, whatever runs were complete before. It rests on `Finish`, which lets
  nobody record success twice.
* `HistoryGrows`: `HistoryOnlyGrows`. A step keeps every row or writes one
  (`RowKept`, `RowGrows`); that a change of content is dated by
  `last_changed_at` needs the path for late records to leave the row alone.

`OperationsProofs`, for any number of schedulers:

* `LockInvariant`: `LockInv` ties the lock to a live session, the session to the
  critical section and the child to the part of it before the unlock.
* `LockGivenBack`: `LockNotLeaked`, a scheduler outside the scrape never holds
  the lock, even when sessions drop.
* `LockExcludes`: `NoOverlapUnlessLost`; a child without a lost session belongs
  to the holder of the lock, and there is one holder.
* `ScrapesAreWatched`: `ScrapeWatched`, a part of `LockInv`.
* `OperationsTyped`: `TypeOK`.
* `StopsAreHonoured`: a scheduler that was told to stop does not forget it, each
  of its steps lowers `StopRank` (five at most), and `PollsChild`: in the poll
  loop there is a child whose end it sees or that it terminates, so no step waits
  for the scrape. With fairness this is `StopHonoured`.

`AuctionClientProofs`, for any URLs, sessions, limits, intervals and delays, from
`ClientAssumption` (`OnHost` are URLs, the limits are naturals, `None` is not a
session):

* `CallsSafe`: `CallInv`, the inductive invariant of a call. `RequestsBounded`
  is not inductive: `Budget` says how many requests the hops before this one and
  the tries of this one can have made, and `Hops` that the visited requests are
  a finite set that has grown by one with each redirect. Every action does one of
  seven things to a call (`CallStep`), so each part is proved once for those.
* `RequestsAreBounded`, `NeverOffHost`, `FormWithPost`, `NoHopTwice`: read off it;
  `HopsAreSafe` is the last three as the run checks them.
* `MetricsExplainRequests`, `SearchesInSession`, `RequestsAreSpaced`: each from a
  small invariant of its own; the last from "a request that is ready has slept,
  or will sleep, the rest of its interval".
* `ClientTypes`: `TypeOK`. That the backoff is a natural number rests on
  `PowerOfTwo`: the power counts the subsets of an interval, which is what the
  provers' library knows of powers.
* `OperationsAreBounded`: over all its pages, hops and tries, an operation sends
  at most three times what a call may. `Attempts` charges every page that is done
  with a full budget; `UnderWay` says which pages are missing.
* `OperationsTerminate`: each step begins an operation or lowers, in this order of
  importance, the pages missing, the redirects left, the retries left, the rest of
  the try, the time to wait. A redirect gives retries back and a retry a new wait,
  but never the other way round. With fairness this is `TaskEnds`. There is no
  bound on the time it takes: a Retry-After is obeyed, however long.

`RepositoryTransactionsProofs`, for any number of writers, from
`RepositoryAssumption` for the tables and `OwnsAssumption`:

* `JoinKeepsListings` (`JoinNeverEmpty`) and `SharedColumnsAgree`
  (`ColumnsAgree`), whatever the writers share. Neither is inductive: a
  transaction writes from a row it read long ago. `SharedInv` adds that this old
  row is still backed by the history (`ReadsBacked`), which holds because items
  are not deleted and observations only added (`BackedStable`).
* `SharedIdentitiesUnique`: no two items get one document, since the unique keys
  are checked at the commit.
* `SharedDates` (`SharedDatesOrdered`): a stale UPDATE keeps the first sighting
  before the last change, that before the last sighting, and the closing after the
  first sighting. `DatesInv` adds the same order for rows read and not yet written,
  and that they begin when the committed row does. That `closed_at` is not after
  `last_changed_at`, as with one writer (`DatesOrdered`), is lost: an item
  that a lost update reopened and a later record closed again keeps that
  `closed_at` when a statement of before moves its `last_seen_at` back.
* `SharedHistoryKept`: whatever the writers share, no item and no observation is
  ever lost and no first sighting moves; a lost update loses values of the row
  only, and the history still has them.
* `TransactionsRefine` (`ImplementsRepository`), if no two writers own the same
  item (`OneWriterPerItem`). `SerialInv` says that what an open transaction has
  read is what it would read now; then its write is the atomic step of the store,
  and reading, failing and rolling back are stutters. Documents are not owned:
  two writers may want the same one, and the one that comes second rolls back.
* `ClosedForeverWithOneWriter`: under the same hypothesis closed items stay
  closed, the property that `transactions_lost_update` refutes without it.
* `RowsKeptWithOneWriter`: likewise `RowsConsistent` and `HistoryOnlyGrows`, the
  order of all dates included.

`ScrapeRunProofs`, for any number of processes, product groups and changes of the
source, from `ScrapeRunAssumption` (the source lists finitely many auctions) and
`TablesAssumption` (the store's assumption, and `None` is no record of counts or
coverage):

* `ScrapeInv` has one part for all processes (`ProcessInv`): what a process knows
  of its run is what is stored, except for a commit an interrupt kept it from
  noting (`RunTracked`); it has counted what it stored (`Counted`); what stayed
  listed is in what it found, unless its coverage says otherwise (`Covered`), and
  `PagesInv` has the same of the pages it is reading: what is steady in the group is
  shown by them. A
  step of one process changes its own variables and rows only, so each action
  shows `ProcessInv` for the process that moves, and a frame lemma does the rest.
* `CountsAreTrue` (`CountsMatchHistory`), `ExitCodesAreTrue`
  (`ExitCodeMatchesRun`) and `ScrapeTypes` (`TypeOK`) are read off it.
* `AbsencesBacked` (`AbsencesBackedByCoverage`): a reconciliation adds one to each
  side, and a run that is stored a second time had counted already, which is
  where `RunTracked` is needed.
* `SteadyListingsKept` (`SteadyNeverAbsent`), if no process has a keyword
  (`NoKeyword`); `scrape_keyword` shows that the hypothesis is needed.
* `ScrapesUseStore`: `Spec => Repo!Spec`. Scrapes are atomic here, so this carries
  theorems over to interrupted and killed scrapes, and to overlapping ones only as
  far as two of them do not write one item at once: `transactions_lost_update`
  refutes, for instance, that closed items stay closed then. Carried over are
  `ScrapesKeepListings` (`CurrentObservationRecorded`, of which
  `JoinKeepsListings` has the part that two writers of one item leave) and
  `ScrapesAgeInventory` (`InventoryConsistent`, `InventoryMovesWithCompleteRuns`,
  about columns no record writes). What holds of rows, closings and dates when
  transactions interleave is in `RepositoryTransactionsProofs`.
* `ScrapesAdvance` (`ProcessesAdvance`): whatever moves a process lowers the pair of
  its phase (`Rank`) and what the loop it is in has left (`Work`), so a scrape takes
  finitely many steps. It needs the batch to be finite (`BatchFinite`), which
  `ScrapeInv` gives. With fairness this is `RunEnds`.

`SearchEnumerationProofs`, for any number of groups, any page size, limits and
listings, from `EnumerationAssumption`:

* `EnumerationSafe`: `EnumInv`. `SteadyAhead` is its heart: a listing that stayed
  in its place has been read or is behind the last record read; an insertion
  only moves it back, and a removal ahead of it takes it out of `steady`. That
  the next page then starts exactly there needs `PagingInv` (pages read so far
  were full) and `AcceptedPages`: of the pages the site may garble, the parser
  accepts none that hides a row or the pages to come.
* `CompleteMeansAll` (`EnumerationSound`) and `EnumerationTypes` (`TypeOK`, with
  both limits) are read off it.
* `DuplicatesAreShared` (`DuplicatesAcrossGroups`): each record of a page adds one
  to `read` and one to either the listings or the duplicates (`LoopCounts`),
  because the tracker knows all that was read of the group (`ReadTracked`).
* `EnumerationTerminates`: every step of the enumeration leaves a page less of the
  `Groups * MaxPages` it may read, whatever links and pages the site shows. With
  fairness this is `EnumerationEnds`.

`ReadRequestsProofs` and `ReadListingsProofs`, for any tables, runs, filters and
page sizes, from `RequestsAssumption` (limits, page numbers and page size are
positive, time is an initial segment of the naturals, `None` is neither a run id
nor a row):

* `RequestsUseStore`: `RequestsSpec => Spec`, so that `IInv` holds beside the
  requests; `ServiceInv` is `IInv` with `RequestsInv`, which says that the scheduled
  runs follow one another (`LiveIsLast`, `RunsFollow`), while runs by hand are where
  they like, that nothing is ahead of the clock, that no item has one content twice
  at one moment (`ObservedOnce`, the unique constraint of the history), and that
  the runs a request has read are still in the table, the complete one perhaps
  with another end (`ReadsKept`).
* `RequestsTyped` (`RequestsTypeOK`), `EndpointsAlwaysAgree` (`EndpointsAgree`),
  `DeadServiceIsNoticed` (`DeadServiceNoticed`): from it. The second needs runs that
  follow one another to order the scheduled complete runs by start and by end alike;
  the third that a longer time is no fewer whole seconds (`AgeFalls`).
* `StatusesWereTrue` (`StatusWasTrue`): the answer a request would get if its
  remaining statements were executed now is always one that was true at some
  moment since it began (`AnswerTrue`). Which of several complete runs of the
  same moment a statement returns is left open by SQL; `Verdict` characterises the
  state without that choice.
* `ViewsAlwaysAgree` (`ViewsAgree`): one observation is ranked first for each item
  (`SelectedOne`): `CurrentObservationRecorded` gives a candidate, and two
  candidates that tie in every sort column are the same row (`ObservedOnce`).
* `PagesDivide` (`PagesPartition`): the row number of a listing counts those
  before it in a strict order, so it is unique and lies on one page.
* `PagesAreFull` (`PageNeverShort`): the number of listings only grows between the
  count and the page (`CountKept`), and a page of a larger list has at least the
  rows of the smaller one's; `PageCount` is a bijection between rows and numbers.

The least element of a set of naturals (`LeastNatural`), from the library's
well-founded orders, takes the place of induction where one is needed.

Every safety property that a passing run checks is also a theorem,
`SteadyNeverAbsent` without keywords only and `ImplementsRepository` for writers
of different items. Only model-checked: liveness (`RunEnds`, `StopHonoured`,
`ScrapesKeepComing`, `TaskEnds`, `EnumerationEnds`), which needs fairness and
`ENABLED` and is out of the provers' reach. For four of the five the part
without fairness is proved, a measure that every step lowers (`ScrapesAdvance`,
`StopsAreHonoured`, `OperationsTerminate`, `EnumerationTerminates`); what is
left to TLC is that some step is always possible and eventually taken.
`ScrapesKeepComing` has no measure: it says that something happens again and
again.

## Not modelled

The front end (search in the address, query cache, refresh at closing times;
written in TypeScript, a candidate for a module of its own); `next_scheduled_at`,
a pure function over time zones; the facets of `list_locations` and
`list_categories` and the matching of keywords and locations (text); which parts
of `scrape_status` come from which moment (nothing relates them); the turning of
HTML into fields, encoding, URL and location normalisation, settings, logging,
backup scripts and containers (no state over time, or pure input and output);
cookies the site sets by itself (the session is the one the pages name); runs
without `--persist` (they touch no shared state); that `initial_run_required` is
asked before the lock is held (`Operations` leaves open whether a scrape is due
because it is the initial one or by the schedule); the instant between
`failures.extend` and the assignment of `counts`; row-lock deadlocks between
reconciliation and storing, which PostgreSQL resolves by aborting a transaction
that `main()` then reports like any other error; the migrations.

## Plan

Done: `AuctionRepository`, `RepositoryTransactions`, `ScrapeRun`, `Operations`,
`AuctionClient`, `SearchEnumeration`, `ReadViews`, `ReadRequests`, and the
theorems above. Next, in this order:

1. `ListingBrowser`: address, query cache, page clamp, refresh at closing times.
2. Operators for `next_scheduled_at`, and the backfills of the migrations.
