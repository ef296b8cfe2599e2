----------------------------- MODULE Operations -----------------------------
(***************************************************************************)
(* The operations service, src/bc_auction/operations.py: schedulers that   *)
(* start a scrape as a child process while they hold a PostgreSQL advisory *)
(* lock, and that stop on SIGTERM.                                         *)
(*                                                                         *)
(* The lock belongs to a database session.  The session stays idle while   *)
(* the child runs, and when it ends for any reason the server gives the    *)
(* lock up; the scheduler learns of it only when it tries to unlock.  The  *)
(* child is a process of the same container (main() of __main__.py, see    *)
(* ScrapeRun) with database sessions of its own.  When a container dies,   *)
(* its child and its sessions go with it, and the restart policy of        *)
(* compose.production.yaml (external) starts it again.                     *)
(***************************************************************************)
EXTENDS Integers

CONSTANTS Schedulers, None

ASSUME OperationsAssumption == None \notin Schedulers

VARIABLES
    pc,              \* where main() of each scheduler is
    stop_requested,  \* the Event set by SIGTERM and SIGINT
    session,         \* the lock session of the scheduler is alive
    holder,          \* the scheduler whose session holds the lock, or None
    child,           \* the scrape process of each scheduler
    lost             \* history: the schedulers that have lost their session
                     \* since they took the lock

vars == <<pc, stop_requested, session, holder, child, lost>>

PCs == {"off", "planning", "waiting", "locking", "scraping", "terminating",
        "releasing", "stopped", "failed"}

Running(k) == pc[k] \notin {"off", "stopped", "failed"}

Init ==
    /\ pc = [k \in Schedulers |-> "off"]
    /\ stop_requested = [k \in Schedulers |-> FALSE]
    /\ session = [k \in Schedulers |-> FALSE]
    /\ holder = None
    /\ child = [k \in Schedulers |-> "none"]
    /\ lost = {}

\* The container starts, or starts again after a failure.
Boot(k) ==
    /\ pc[k] \in {"off", "failed"}
    /\ pc' = [pc EXCEPT ![k] = "planning"]
    /\ stop_requested' = [stop_requested EXCEPT ![k] = FALSE]
    /\ UNCHANGED <<session, holder, child, lost>>

\* The head of the loop.
Plan(k) ==
    /\ pc[k] = "planning"
    /\ pc' = [pc EXCEPT ![k] = IF stop_requested[k] THEN "stopped" ELSE "waiting"]
    /\ UNCHANGED <<stop_requested, session, holder, child, lost>>

\* stop_requested.wait: woken by the stop, or at the due time, which is now
\* for an initial scrape and the next time of the schedule otherwise.
Wake(k) ==
    /\ pc[k] = "waiting"
    /\ pc' = [pc EXCEPT ![k] = IF stop_requested[k] THEN "stopped" ELSE "locking"]
    /\ UNCHANGED <<stop_requested, session, holder, child, lost>>

\* pg_try_advisory_lock: start the child, or skip this scrape.
TryLock(k) ==
    /\ pc[k] = "locking"
    /\ IF holder = None
       THEN /\ holder' = k
            /\ session' = [session EXCEPT ![k] = TRUE]
            /\ child' = [child EXCEPT ![k] = "running"]
            /\ pc' = [pc EXCEPT ![k] = "scraping"]
       ELSE /\ pc' = [pc EXCEPT ![k] = "planning"]
            /\ UNCHANGED <<holder, session, child>>
    /\ UNCHANGED <<stop_requested, lost>>

\* The child ends by itself or after SIGTERM.
ChildExits(k) ==
    /\ child[k] = "running"
    /\ child' = [child EXCEPT ![k] = "exited"]
    /\ UNCHANGED <<pc, stop_requested, session, holder, lost>>

\* Fault: on a stop the lock is given up before the child has gone.
FaultUnlockBeforeWait(k) ==
    /\ pc[k] = "scraping"
    /\ \/ /\ child[k] = "exited"
          /\ pc' = [pc EXCEPT ![k] = "releasing"]
          /\ UNCHANGED <<session, holder>>
       \/ /\ child[k] = "running"
          /\ stop_requested[k]
          /\ pc' = [pc EXCEPT ![k] = "terminating"]
          /\ session' = [session EXCEPT ![k] = FALSE]
          /\ holder' = None
    /\ UNCHANGED <<stop_requested, child, lost>>

\* The poll loop of _run_scrape sees the end of the child, or the stop, on
\* which it sends SIGTERM.
Poll(k) ==
    /\ pc[k] = "scraping"
    /\ \/ child[k] = "exited" /\ pc' = [pc EXCEPT ![k] = "releasing"]
       \/ child[k] = "running" /\ stop_requested[k] /\ pc' = [pc EXCEPT ![k] = "terminating"]
    /\ UNCHANGED <<stop_requested, session, holder, child, lost>>

\* Fault: process.wait() without a timeout.
FaultNoTimeout(k) ==
    /\ pc[k] = "terminating"
    /\ child[k] = "exited"
    /\ pc' = [pc EXCEPT ![k] = "releasing"]
    /\ UNCHANGED <<stop_requested, session, holder, child, lost>>

\* Fault: TimeoutExpired is logged, and the child is not killed.
FaultTimeoutWithoutKill(k) ==
    /\ pc[k] = "terminating"
    /\ pc' = [pc EXCEPT ![k] = "releasing"]
    /\ UNCHANGED <<stop_requested, session, holder, child, lost>>

\* process.wait(timeout=60): the child has gone, or it is killed.
AwaitChild(k) ==
    /\ pc[k] = "terminating"
    /\ pc' = [pc EXCEPT ![k] = "releasing"]
    /\ child' = [child EXCEPT ![k] = "exited"]
    /\ UNCHANGED <<stop_requested, session, holder, lost>>

\* Fault: the session goes back to the pool, and the lock with it.
FaultLockKept(k) ==
    /\ pc[k] = "releasing"
    /\ pc' = [pc EXCEPT ![k] = "planning"]
    /\ child' = [child EXCEPT ![k] = "none"]
    /\ UNCHANGED <<stop_requested, session, holder, lost>>

\* pg_advisory_unlock raises on a dead session, and that ends main().
Release(k) ==
    /\ pc[k] = "releasing"
    /\ IF session[k]
       THEN /\ holder' = None
            /\ pc' = [pc EXCEPT ![k] = "planning"]
       ELSE /\ UNCHANGED holder
            /\ pc' = [pc EXCEPT ![k] = "failed"]
    /\ session' = [session EXCEPT ![k] = FALSE]
    /\ child' = [child EXCEPT ![k] = "none"]
    /\ lost' = lost \ {k}
    /\ UNCHANGED stop_requested

-----------------------------------------------------------------------------
(* The environment                                                         *)

RequestStop(k) ==
    /\ Running(k)
    /\ ~stop_requested[k]
    /\ stop_requested' = [stop_requested EXCEPT ![k] = TRUE]
    /\ UNCHANGED <<pc, session, holder, child, lost>>

\* The server frees the locks of a session that ends.
FreedBy(k) == IF holder = k THEN None ELSE holder

LoseSession(k) ==
    /\ session[k]
    /\ session' = [session EXCEPT ![k] = FALSE]
    /\ holder' = FreedBy(k)
    /\ lost' = lost \cup {k}
    /\ UNCHANGED <<pc, stop_requested, child>>

\* The container is killed, or main() cannot reach the database.
ContainerDies(k) ==
    /\ Running(k)
    /\ pc' = [pc EXCEPT ![k] = "failed"]
    /\ session' = [session EXCEPT ![k] = FALSE]
    /\ holder' = FreedBy(k)
    /\ child' = [child EXCEPT ![k] = "none"]
    /\ lost' = lost \ {k}
    /\ UNCHANGED stop_requested

-----------------------------------------------------------------------------
\* What a scheduler does by itself.
Step(k) == Plan(k) \/ Wake(k) \/ TryLock(k) \/ Poll(k) \/ AwaitChild(k) \/ Release(k)

Next == \E k \in Schedulers :
    Boot(k) \/ Step(k) \/ ChildExits(k) \/ RequestStop(k) \/ LoseSession(k) \/ ContainerDies(k)

Spec == Init /\ [][Next]_vars

\* A scheduler that is not blocked goes on: its waits are bounded by the
\* schedule, the one-second poll and the sixty-second timeout.  Nothing is
\* assumed of the scrapes.
FairSpec == Spec /\ \A k \in Schedulers : WF_vars(Step(k))

-----------------------------------------------------------------------------
(* Properties                                                              *)

\* The state of every scheduler, its session, its child and the lock.
TypeOK ==
    /\ pc \in [Schedulers -> PCs]
    /\ stop_requested \in [Schedulers -> BOOLEAN]
    /\ session \in [Schedulers -> BOOLEAN]
    /\ holder \in Schedulers \cup {None}
    /\ child \in [Schedulers -> {"none", "running", "exited"}]
    /\ lost \subseteq Schedulers

\* "a second scheduler cannot overlap a running scrape" (README.md), as far as
\* it goes: through stops, kills, restarts and skipped scrapes, two scrapes
\* run at a time only when the lock session of one of the two schedulers was
\* lost while its scrape was running.
NoOverlapUnlessLost ==
    \A k, l \in Schedulers :
        child[k] = "running" /\ child[l] = "running" => k = l \/ k \in lost \/ l \in lost

\* No scrape is left to itself: while one runs, the scheduler that started it
\* is inside _run_scrape, where it sees the end of the scrape or ends it.  So
\* the lock is not given up, the service not stopped and its container not
\* restarted with the scrape still writing.
ScrapeWatched ==
    \A k \in Schedulers : child[k] = "running" => pc[k] \in {"scraping", "terminating"}

\* The lock is never left behind: a scheduler that is not inside _run_scrape
\* or about to unlock does not hold it.
LockNotLeaked ==
    \A k \in Schedulers : holder = k => pc[k] \in {"scraping", "terminating", "releasing"}

\* SIGTERM ends a scheduler, in whatever state it is and even if the scrape it
\* started never reacts.
StopHonoured ==
    \A k \in Schedulers : stop_requested[k] ~> ~Running(k)

\* Skipping a scrape when the lock is taken never starves the service: as long
\* as one scheduler stays up, there is a scrape running again and again (or
\* one that never ends).
ScrapesKeepComing ==
    (\E k \in Schedulers : <>[]Running(k)) => []<>(\E k \in Schedulers : child[k] = "running")

=============================================================================
