-------------------------- MODULE OperationsProofs --------------------------
(***************************************************************************)
(* What the advisory lock gives any number of schedulers.                  *)
(***************************************************************************)
EXTENDS Operations, TLAPS

Critical == {"scraping", "terminating", "releasing"}

\* The lock is held through a living session, which exists only inside the
\* critical section; a scrape process exists only inside it; and the
\* critical section has its session until that is lost.
LockInv ==
    /\ TypeOK
    /\ \A k \in Schedulers : session[k] <=> holder = k
    /\ \A k \in Schedulers : session[k] => pc[k] \in Critical
    /\ \A k \in Schedulers : child[k] = "running" => pc[k] \in {"scraping", "terminating"}
    /\ \A k \in Schedulers : pc[k] \in Critical => session[k] \/ k \in lost

\* Nobody holds the lock at first.
LEMMA InitLock == Init => LockInv
  BY OperationsAssumption DEF Init, LockInv, TypeOK, PCs, Critical

\* Each step of a scheduler and of its surroundings keeps the invariant.
LEMMA StepLock ==
    ASSUME LockInv, NEW k \in Schedulers,
           Boot(k) \/ Step(k) \/ ChildExits(k) \/ RequestStop(k) \/ LoseSession(k)
            \/ ContainerDies(k)
    PROVE  LockInv'
<1> USE OperationsAssumption DEF LockInv, TypeOK, PCs, Critical
<1>1. CASE Boot(k)
  BY <1>1 DEF Boot
<1>2. CASE Plan(k)
  BY <1>2 DEF Plan
<1>3. CASE Wake(k)
  BY <1>3 DEF Wake
<1>4. CASE TryLock(k)
  <2>1. CASE holder = None
    <3>1. /\ holder' = k
          /\ session' = [session EXCEPT ![k] = TRUE]
          /\ child' = [child EXCEPT ![k] = "running"]
          /\ pc' = [pc EXCEPT ![k] = "scraping"]
          /\ UNCHANGED <<stop_requested, lost>>
      BY <1>4, <2>1 DEF TryLock
    <3>2. \A l \in Schedulers : ~session[l]
      BY <2>1
    <3>3. TypeOK'
      BY <3>1
    <3>4. \A l \in Schedulers : session'[l] <=> l = k
      BY <3>1, <3>2
    <3>5. QED  BY <3>1, <3>3, <3>4
  <2>2. CASE holder # None
    BY <1>4, <2>2 DEF TryLock
  <2>3. QED  BY <2>1, <2>2
<1>5. CASE Poll(k)
  BY <1>5 DEF Poll
<1>6. CASE AwaitChild(k)
  BY <1>6 DEF AwaitChild
<1>7. CASE Release(k)
  <2>1. CASE session[k]
    BY <1>7, <2>1 DEF Release
  <2>2. CASE ~session[k]
    BY <1>7, <2>2 DEF Release
  <2>3. QED  BY <2>1, <2>2
<1>8. CASE ChildExits(k)
  BY <1>8 DEF ChildExits
<1>9. CASE RequestStop(k)
  BY <1>9 DEF RequestStop
<1>10. CASE LoseSession(k)
  BY <1>10 DEF LoseSession, FreedBy
<1>11. CASE ContainerDies(k)
  BY <1>11 DEF ContainerDies, FreedBy
<1>12. QED
  BY <1>1, <1>2, <1>3, <1>4, <1>5, <1>6, <1>7, <1>8, <1>9, <1>10, <1>11 DEF Step

\* Every step keeps the lock invariant.
LEMMA NextLock == LockInv /\ [Next]_vars => LockInv'
<1> SUFFICES ASSUME LockInv, [Next]_vars PROVE LockInv'
  OBVIOUS
<1>1. CASE UNCHANGED vars
  BY <1>1 DEF vars, LockInv, TypeOK
<1>2. QED  BY <1>1, StepLock DEF Next

\* The lock invariant holds of every run of any number of schedulers of
\* operations.py, whether lock sessions drop or not.
THEOREM LockInvariant == Spec => []LockInv
  BY InitLock, NextLock, PTL DEF Spec

\* A scheduler that is not in the critical section does not hold the lock,
\* even when sessions drop.
THEOREM LockGivenBack == Spec => []LockNotLeaked
<1>1. LockInv => LockNotLeaked
  BY DEF LockInv, Critical, LockNotLeaked
<1>2. QED  BY <1>1, LockInvariant, PTL

\* However many schedulers there are, two scrapes overlap only after the lock
\* session of one of them was lost.
THEOREM LockExcludes == Spec => []NoOverlapUnlessLost
<1>1. LockInv => NoOverlapUnlessLost
  BY DEF LockInv, Critical, NoOverlapUnlessLost
<1>2. QED  BY <1>1, LockInvariant, PTL

\* However a scrape ends, by itself, on SIGTERM, after the timeout or with its
\* container, no scheduler goes on, unlocks or stops while its scrape runs.
THEOREM ScrapesAreWatched == Spec => []ScrapeWatched
<1>1. LockInv => ScrapeWatched
  BY DEF LockInv, ScrapeWatched
<1>2. QED  BY <1>1, LockInvariant, PTL

\* The types of the schedulers' state, as a part of the lock invariant.
THEOREM OperationsTyped == Spec => []TypeOK
<1>1. LockInv => TypeOK
  BY DEF LockInv
<1>2. QED  BY <1>1, LockInvariant, PTL

-----------------------------------------------------------------------------
(* Why a stop is honoured                                                  *)

\* The steps a scheduler that was told to stop may still take.
StopRank(at) ==
    CASE at = "locking" -> 5 [] at = "scraping" -> 4 [] at = "terminating" -> 3
      [] at = "releasing" -> 2 [] at \in {"planning", "waiting"} -> 1
      [] at \in {"off", "stopped", "failed"} -> 0

\* _run_scrape polls a child that exists: it sees its end, or a stop.
PollsChild == \A k \in Schedulers : pc[k] = "scraping" => child[k] # "none"

\* A stop is not forgotten, and whatever moves a scheduler brings it closer to
\* its end; in particular no scrape is started after the lock was refused.
StopsAdvance ==
    [][\A k \in Schedulers : stop_requested[k] /\ Running(k) =>
        \/ pc'[k] = pc[k] /\ stop_requested'[k]
        \/ StopRank(pc'[k]) < StopRank(pc[k])]_vars

\* The step inside StopsAdvance, for one scheduler.
StopStep(l) ==
    stop_requested[l] /\ Running(l) =>
        \/ pc'[l] = pc[l] /\ stop_requested'[l]
        \/ StopRank(pc'[l]) < StopRank(pc[l])

\* The order of the steps to the end.
LEMMA StopRanks ==
    /\ StopRank("locking") = 5 /\ StopRank("scraping") = 4 /\ StopRank("terminating") = 3
    /\ StopRank("releasing") = 2 /\ StopRank("planning") = 1 /\ StopRank("waiting") = 1
    /\ StopRank("stopped") = 0 /\ StopRank("failed") = 0
  BY DEF StopRank

\* The steps of one scheduler neither delay the stop of another nor forget its
\* own.
LEMMA StepStop ==
    ASSUME TypeOK, NEW k \in Schedulers, NEW l \in Schedulers,
           Boot(k) \/ Step(k) \/ ChildExits(k) \/ RequestStop(k) \/ LoseSession(k)
            \/ ContainerDies(k)
    PROVE  StopStep(l)
<1> SUFFICES ASSUME stop_requested[l], Running(l)
             PROVE  \/ pc'[l] = pc[l] /\ stop_requested'[l]
                    \/ StopRank(pc'[l]) < StopRank(pc[l])
  BY DEF StopStep
<1>1. /\ pc \in [Schedulers -> PCs]
      /\ stop_requested \in [Schedulers -> BOOLEAN]
  BY DEF TypeOK
<1>2. pc[l] \in {"planning", "waiting", "locking", "scraping", "terminating", "releasing"}
  BY <1>1 DEF Running, PCs
<1>3. CASE k # l
  <2>1. pc'[l] = pc[l] /\ stop_requested'[l] = stop_requested[l]
    BY <1>1, <1>3
    DEF Boot, Step, Plan, Wake, TryLock, Poll, AwaitChild, Release, ChildExits, RequestStop,
        LoseSession, ContainerDies
  <2>2. QED  BY <2>1
<1>4. CASE k = l
  <2>1. CASE Boot(l)
    BY <2>1 DEF Boot, Running
  <2>2. CASE Plan(l) \/ Wake(l)
    <3>1. pc[l] \in {"planning", "waiting"} /\ pc'[l] = "stopped"
      BY <1>1, <2>2 DEF Plan, Wake
    <3>2. QED  BY <3>1, StopRanks
  <2>3. CASE TryLock(l)
    <3>1. pc[l] = "locking" /\ pc'[l] \in {"scraping", "planning"}
      BY <1>1, <2>3 DEF TryLock
    <3>2. QED  BY <3>1, StopRanks
  <2>4. CASE Poll(l)
    <3>1. pc[l] = "scraping" /\ pc'[l] \in {"terminating", "releasing"}
      BY <1>1, <2>4 DEF Poll
    <3>2. QED  BY <3>1, StopRanks
  <2>5. CASE AwaitChild(l)
    <3>1. pc[l] = "terminating" /\ pc'[l] = "releasing"
      BY <1>1, <2>5 DEF AwaitChild
    <3>2. QED  BY <3>1, StopRanks
  <2>6. CASE Release(l)
    <3>1. pc[l] = "releasing" /\ pc'[l] \in {"planning", "failed"}
      BY <1>1, <2>6 DEF Release
    <3>2. QED  BY <3>1, StopRanks
  <2>7. CASE ChildExits(l) \/ RequestStop(l) \/ LoseSession(l)
    <3>1. pc'[l] = pc[l] /\ (stop_requested'[l] = stop_requested[l])
      BY <1>1, <2>7 DEF ChildExits, RequestStop, LoseSession
    <3>2. QED  BY <3>1
  <2>8. CASE ContainerDies(l)
    <3>1. pc'[l] = "failed"
      BY <1>1, <2>8 DEF ContainerDies
    <3>2. QED  BY <1>2, <3>1, StopRanks
  <2>9. QED  BY <1>4, <2>1, <2>2, <2>3, <2>4, <2>5, <2>6, <2>7, <2>8 DEF Step
<1>5. QED  BY <1>3, <1>4

\* The child is started before it is polled, and forgotten afterwards.
LEMMA StepPolls ==
    ASSUME TypeOK, PollsChild, NEW k \in Schedulers,
           Boot(k) \/ Step(k) \/ ChildExits(k) \/ RequestStop(k) \/ LoseSession(k)
            \/ ContainerDies(k)
    PROVE  PollsChild'
  BY DEF TypeOK, PollsChild, Boot, Step, Plan, Wake, TryLock, Poll, AwaitChild, Release,
         ChildExits, RequestStop, LoseSession, ContainerDies

\* A scheduler that was told to stop ends within five steps of its own, and
\* none of them has to wait for its scrape, for the lock or for another
\* scheduler: the poll loop has a child to see the end of or to terminate.
\* StopHonoured needs no more than that its thread runs.
THEOREM StopsAreHonoured == Spec => []PollsChild /\ StopsAdvance
<1>1. Init => PollsChild
  BY DEF Init, PollsChild
<1>2. ASSUME TypeOK, PollsChild, [Next]_vars
      PROVE  PollsChild' /\ [\A k \in Schedulers : StopStep(k)]_vars
  <2>1. CASE UNCHANGED vars
    BY <1>2, <2>1 DEF vars, PollsChild
  <2>2. CASE Next
    BY <1>2, <2>2, StepPolls, StepStop DEF Next
  <2>3. QED  BY <1>2, <2>1, <2>2
<1>3. Spec => []PollsChild /\ [][\A k \in Schedulers : StopStep(k)]_vars
  BY <1>1, <1>2, OperationsTyped, PTL DEF Spec
<1>4. QED  BY <1>3 DEF StopStep, StopsAdvance

=============================================================================
