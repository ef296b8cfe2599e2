------------------------ MODULE ReadListingsProofs -------------------------
(***************************************************************************)
(* What the listings of the public API show, for any number of listings,   *)
(* observations and page sizes: every stored item exactly once, in the     *)
(* view that fits, on one page.                                            *)
(***************************************************************************)
EXTENDS ReadRequestsProofs

-----------------------------------------------------------------------------
(* The observation that is selected                                        *)

\* The sort columns of the window, each from 0 to some bound.
Bit(b) == IF b THEN 1 ELSE 0
Exact(s, o) == Bit(o.observed_at = items[s].last_seen_at)
NotAfter(s, o) == Bit(o.observed_at <= items[s].last_seen_at)
RunStart(o) == runs[o.run_id].started_at

\* The window orders by the first column that differs.
LEMMA RankOrder ==
    ASSUME NEW s, NEW o, NEW p
    PROVE  RanksBefore(s, o, p) <=>
             \/ Exact(s, o) > Exact(s, p)
             \/ /\ Exact(s, o) = Exact(s, p)
                /\ \/ NotAfter(s, o) > NotAfter(s, p)
                   \/ /\ NotAfter(s, o) = NotAfter(s, p)
                      /\ \/ o.observed_at > p.observed_at
                         \/ /\ o.observed_at = p.observed_at
                            /\ RunStart(o) > RunStart(p)
<1> DEFINE K(x) == <<Exact(s, x), NotAfter(s, x), x.observed_at, RunStart(x)>>
<1>1. RanksBefore(s, o, p) <=>
        \E i \in 1..4 : K(o)[i] > K(p)[i] /\ \A j \in 1..(i - 1) : K(o)[j] = K(p)[j]
  BY Zenon DEF RanksBefore, Exact, NotAfter, RunStart, Bit
<1>2. \A x : K(x)[1] = Exact(s, x) /\ K(x)[2] = NotAfter(s, x)
             /\ K(x)[3] = x.observed_at /\ K(x)[4] = RunStart(x)
  OBVIOUS
<1> HIDE DEF K
<1>3. RanksBefore(s, o, p) <=>
        \/ K(o)[1] > K(p)[1]
        \/ K(o)[2] > K(p)[2] /\ K(o)[1] = K(p)[1]
        \/ K(o)[3] > K(p)[3] /\ K(o)[1] = K(p)[1] /\ K(o)[2] = K(p)[2]
        \/ K(o)[4] > K(p)[4] /\ K(o)[1] = K(p)[1] /\ K(o)[2] = K(p)[2] /\ K(o)[3] = K(p)[3]
  BY <1>1
<1>4. QED  BY <1>2, <1>3

\* Of the observations that carry the current hash of an item, exactly one is
\* selected: there is one, and two of the same time would be the same row.
LEMMA SelectedOne ==
    ASSUME IInv, ObservedOnce, NEW s \in DOMAIN items
    PROVE  /\ IsFiniteSet(Selected(s)) /\ Cardinality(Selected(s)) = 1
           /\ \A o \in Selected(s) : o.observation_hash = items[s].current_observation_hash
<1> DEFINE C == Candidates(s)
<1>1. \A o \in C :
        /\ o \in observations /\ o \in ObservationRows /\ o.source_id = s
        /\ o.observation_hash = items[s].current_observation_hash
        /\ o.status = StatusOf[o.observation_hash]
        /\ o.run_id \in DOMAIN runs /\ o.observed_at \in Times
  BY DEF Candidates, History, IInv, TypeOK, StatusMatchesHash, ObservationRows
<1>2. C # {}
  BY DEF Candidates, History, IInv, CurrentObservationRecorded, HistoryBehindItem
<1>3. TypeOK /\ MaxTime \in Nat /\ Times = 0..MaxTime
  BY RequestsAssumption DEF IInv
<1>4. \A o \in C : /\ Exact(s, o) \in 0..1 /\ NotAfter(s, o) \in 0..1
                   /\ o.observed_at \in 0..MaxTime /\ RunStart(o) \in 0..MaxTime
  BY <1>1, <1>3 DEF Exact, NotAfter, Bit, RunStart, TypeOK, RunRows
<1> HIDE DEF C
<1>5. \E o \in C : \A p \in C : ~RanksBefore(s, p, o)
  <2> DEFINE C1 == {o \in C : \A p \in C : Exact(s, p) <= Exact(s, o)}
             C2 == {o \in C1 : \A p \in C1 : NotAfter(s, p) <= NotAfter(s, o)}
             C3 == {o \in C2 : \A p \in C2 : p.observed_at <= o.observed_at}
             C4 == {o \in C3 : \A p \in C3 : RunStart(p) <= RunStart(o)}
  <2>1. C1 # {}
    <3> DEFINE f == [o \in C |-> Exact(s, o)]
    <3>1. f \in [C -> 0..1]
      BY <1>4
    <3>2. \E x \in C : \A y \in C : f[y] <= f[x]
      BY <1>2, <3>1, Greatest
    <3>3. QED  BY <3>2
  <2>2. C2 # {}
    <3> DEFINE f == [o \in C1 |-> NotAfter(s, o)]
    <3>1. f \in [C1 -> 0..1]
      BY <1>4
    <3> HIDE DEF C1
    <3>2. \E x \in C1 : \A y \in C1 : f[y] <= f[x]
      BY <2>1, <3>1, Greatest
    <3>3. QED  BY <3>2
  <2>3. C3 # {}
    <3> DEFINE f == [o \in C2 |-> o.observed_at]
    <3>1. f \in [C2 -> 0..MaxTime]
      BY <1>4
    <3> HIDE DEF C2
    <3>2. \E x \in C2 : \A y \in C2 : f[y] <= f[x]
      BY <1>3, <2>2, <3>1, Greatest
    <3>3. QED  BY <3>2
  <2>4. C4 # {}
    <3> DEFINE f == [o \in C3 |-> RunStart(o)]
    <3>1. f \in [C3 -> 0..MaxTime]
      BY <1>4
    <3> HIDE DEF C3
    <3>2. \E x \in C3 : \A y \in C3 : f[y] <= f[x]
      BY <1>3, <2>3, <3>1, Greatest
    <3>3. QED  BY <3>2
  <2>5. PICK o \in C4 : TRUE
    BY <2>4
  <2>6. ASSUME NEW p \in C
        PROVE  ~RanksBefore(s, p, o)
    <3>1. o \in C /\ Exact(s, p) <= Exact(s, o)
      OBVIOUS
    <3>2. Exact(s, p) = Exact(s, o) => p \in C1
      OBVIOUS
    <3>3. p \in C1 => NotAfter(s, p) <= NotAfter(s, o)
      OBVIOUS
    <3>4. p \in C1 /\ NotAfter(s, p) = NotAfter(s, o) => p \in C2
      OBVIOUS
    <3>5. p \in C2 => p.observed_at <= o.observed_at
      OBVIOUS
    <3>6. p \in C2 /\ p.observed_at = o.observed_at => p \in C3
      OBVIOUS
    <3>7. p \in C3 => RunStart(p) <= RunStart(o)
      OBVIOUS
    <3> HIDE DEF C1, C2, C3, C4
    <3>8. QED
      BY <1>4, <3>1, <3>2, <3>3, <3>4, <3>5, <3>6, <3>7, RankOrder
  <2>7. QED  BY <2>5, <2>6
<1>6. ASSUME NEW o \in C, NEW p \in C, ~RanksBefore(s, o, p), ~RanksBefore(s, p, o)
      PROVE  o = p
  <2>1. o.observed_at = p.observed_at
    BY <1>4, <1>6, RankOrder
  <2>2. QED  BY <1>1, <2>1 DEF ObservedOnce
<1>7. \E o \in C : Selected(s) = {o}
  <2>1. Selected(s) = {o \in C : \A p \in C : ~RanksBefore(s, p, o)}
    BY DEF Selected, C
  <2>2. PICK o \in C : \A p \in C : ~RanksBefore(s, p, o)
    BY <1>5
  <2>3. QED  BY <1>6, <2>1, <2>2
<1>8. QED  BY <1>1, <1>7, FS_Singleton

\* The bid content shown is the current one of the item.
LEMMA ContentShown ==
    ASSUME IInv, ObservedOnce, NEW s \in DOMAIN items
    PROVE  /\ GetListing(s)
           /\ BidContent(s) = items[s].current_observation_hash
           /\ BidContent(s) \in ObservationHashes
           /\ ClosingAt(s) \in Nat \cup {None}
<1>1. Selected(s) # {}
  BY SelectedOne, FS_EmptySet
<1>2. GetListing(s)
  BY <1>1 DEF GetListing, CurrentListings
<1>3. BidContent(s) = items[s].current_observation_hash
  BY <1>1, SelectedOne DEF BidContent
<1>4. BidContent(s) \in ObservationHashes
  BY <1>3 DEF IInv, TypeOK, ItemRows
<1>5. QED  BY <1>2, <1>3, <1>4, ViewsAssumption DEF ClosingAt

-----------------------------------------------------------------------------
(* The views                                                               *)

\* _view_condition and _availability_expression agree about an item.
LEMMA ViewsOfItem ==
    ASSUME IInv, ObservedOnce, now \in Nat, NEW s \in DOMAIN items
    PROVE  /\ InView("ended", s, now) <=>
                Availability(s, now) \in {"closed", "withdrawn", "scheduled_closing_passed"}
           /\ InView("active", s, now) => Availability(s, now) \in {"active", "unknown"}
<1>1. items[s].status \in Statuses
  BY DEF IInv, TypeOK, ItemRows
<1>2. ClosingAt(s) \in Nat \cup {None} /\ None \notin Nat
  BY ContentShown, RepositoryAssumption
<1>3. InView("ended", s, now) <=> IsTerminal(items[s].status) \/ ClosingPassed(s, now)
  BY DEF InView
<1>4. InView("active", s, now) =>
        IsOpen(s) /\ (ClosingAt(s) = None \/ ClosingAt(s) > now)
  BY DEF InView
<1>5. CASE IsTerminal(items[s].status)
  BY <1>3, <1>4, <1>5 DEF Availability, IsTerminal, IsOpen, ClosingPassed
<1>6. CASE items[s].status = "open"
  <2>1. ~IsTerminal(items[s].status) /\ IsOpen(s)
    BY <1>6 DEF IsTerminal, IsOpen
  <2>2. CASE ClosingAt(s) # None /\ ClosingAt(s) <= now
    <3>1. Availability(s, now) = "scheduled_closing_passed"
      BY <1>2, <2>1, <2>2 DEF Availability
    <3>2. QED  BY <1>2, <1>3, <1>4, <2>1, <2>2, <3>1 DEF ClosingPassed
  <2>3. CASE ClosingAt(s) # None /\ ClosingAt(s) > now
    <3>1. Availability(s, now) = "active"
      BY <1>2, <2>1, <2>3 DEF Availability
    <3>2. QED  BY <1>2, <1>3, <2>1, <2>3, <3>1 DEF ClosingPassed
  <2>4. CASE ClosingAt(s) = None
    <3>1. Availability(s, now) = "unknown"
      BY <2>1, <2>4 DEF Availability
    <3>2. QED  BY <1>3, <2>1, <2>4, <3>1 DEF ClosingPassed
  <2>5. QED  BY <1>2, <2>2, <2>3, <2>4
<1>7. CASE items[s].status = "unknown"
  <2>1. ~IsTerminal(items[s].status) /\ ~IsOpen(s)
    BY <1>7 DEF IsTerminal, IsOpen
  <2>2. Availability(s, now) = "unknown"
    BY <2>1 DEF Availability
  <2>3. QED  BY <1>3, <1>4, <2>1, <2>2 DEF ClosingPassed
<1>8. QED  BY <1>1, <1>5, <1>6, <1>7 DEF Statuses, IsTerminal

\* The items that are current and those that are stale are at most all items.
LEMMA CountsAdd ==
    ASSUME IsFiniteSet(DOMAIN items)
    PROVE  ListingCounts.active_listing_count + ListingCounts.stale_listing_count
             <= ListingCounts.listing_count
<1> DEFINE A == {s \in DOMAIN items : inventory[s].inventory_state = "current"}
           B == {s \in DOMAIN items : inventory[s].inventory_state = "stale"}
<1>1. A \cap B = {} /\ A \subseteq DOMAIN items /\ B \subseteq DOMAIN items
      /\ A \cup B \subseteq DOMAIN items
  OBVIOUS
<1>2. /\ ListingCounts.active_listing_count = Cardinality(A)
      /\ ListingCounts.stale_listing_count = Cardinality(B)
      /\ ListingCounts.listing_count = Cardinality(DOMAIN items)
  BY DEF ListingCounts
<1> HIDE DEF A, B
<1>3. IsFiniteSet(A) /\ IsFiniteSet(B)
  BY <1>1, FS_Subset
<1>4. Cardinality(A \cup B) = Cardinality(A) + Cardinality(B) - Cardinality(A \cap B)
  BY <1>3, FS_Union
<1>5. Cardinality(A \cap B) = 0
  BY <1>1, FS_EmptySet
<1>6. Cardinality(A \cup B) <= Cardinality(DOMAIN items)
  BY <1>1, FS_Subset
<1>7. Cardinality(A) \in Nat /\ Cardinality(B) \in Nat
  BY <1>3, FS_CardinalityType
<1>8. QED  BY <1>2, <1>4, <1>5, <1>6, <1>7

\* Every stored item can be fetched, is selected once, and is in the views that
\* its availability says.
THEOREM ViewsAlwaysAgree == RequestsSpec => []ViewsAgree
<1>1. ServiceInv => ViewsAgree
  <2> SUFFICES ASSUME ServiceInv PROVE ViewsAgree
    OBVIOUS
  <2>1. IInv /\ ObservedOnce /\ now \in Nat /\ IsFiniteSet(DOMAIN items)
    BY RepositoryAssumption DEF ServiceInv, RequestsInv, ClockAhead
  <2>2. \A s \in DOMAIN items :
          /\ GetListing(s) /\ Cardinality(Selected(s)) = 1
          /\ InView("ended", s, now) <=>
                Availability(s, now) \in {"closed", "withdrawn", "scheduled_closing_passed"}
          /\ InView("active", s, now) => Availability(s, now) \in {"active", "unknown"}
    BY <2>1, ContentShown, SelectedOne, ViewsOfItem
  <2>3. CurrentListings = DOMAIN items
    BY <2>2 DEF GetListing, CurrentListings
  <2>4. ListingCounts.listing_count = Cardinality(CurrentListings)
    BY <2>3 DEF ListingCounts
  <2>5. QED  BY <2>1, <2>2, <2>4, CountsAdd DEF ViewsAgree
<1>2. QED  BY <1>1, ServiceSafe, PTL

-----------------------------------------------------------------------------
(* The order of the rows                                                   *)

\* A sort column is a number or NULL.
LEMMA ColumnTyped ==
    ASSUME IInv, ObservedOnce, NEW s \in DOMAIN items, NEW sort \in ListingSorts
    PROVE  SortColumn(sort, s) \in Nat \cup {None}
<1>1. ClosingAt(s) \in Nat \cup {None} /\ BidContent(s) \in ObservationHashes
  BY ContentShown
<1>2. items[s].last_seen_at \in Nat
  BY RepositoryAssumption DEF IInv, TypeOK, ItemRows
<1>3. BidOf[BidContent(s)] \in Nat \cup {None} /\ BidCountOf[BidContent(s)] \in Nat \cup {None}
  BY <1>1, ViewsAssumption
<1>4. QED  BY <1>1, <1>2, <1>3 DEF SortColumn, ListingSorts

\* _listing_order is a strict total order of the items, whatever ties and NULLs the
\* sort column has.
LEMMA StrictOrder ==
    ASSUME IInv, ObservedOnce, NEW sort \in ListingSorts
    PROVE  /\ \A s \in DOMAIN items : ~Precedes(sort, s, s)
           /\ \A s, u \in DOMAIN items : s # u => Precedes(sort, s, u) \/ Precedes(sort, u, s)
           /\ \A s, u, v \in DOMAIN items :
                Precedes(sort, s, u) /\ Precedes(sort, u, v) => Precedes(sort, s, v)
<1> DEFINE k(s) == SortColumn(sort, s)
           up == sort \in {"closing_soon", "price_low"}
<1>1. \A s \in DOMAIN items : k(s) \in Nat \cup {None} /\ s \in Nat
  BY ColumnTyped, ViewsAssumption DEF IInv, TypeOK
<1>2. \A s, u : Precedes(sort, s, u) <=>
        \/ k(s) # None /\ k(u) = None
        \/ k(s) # None /\ k(u) # None /\ (IF up THEN k(s) < k(u) ELSE k(s) > k(u))
        \/ k(s) = k(u) /\ s < u
  BY DEF Precedes
<1>3. None \notin Nat
  BY RepositoryAssumption
<1> HIDE DEF k, up
<1>4. \A s \in DOMAIN items : ~Precedes(sort, s, s)
  BY <1>1, <1>2, <1>3
<1>5. \A s, u \in DOMAIN items : s # u => Precedes(sort, s, u) \/ Precedes(sort, u, s)
  BY <1>1, <1>2, <1>3
<1>6. ASSUME NEW s \in DOMAIN items, NEW u \in DOMAIN items, NEW v \in DOMAIN items,
             Precedes(sort, s, u), Precedes(sort, u, v)
      PROVE  Precedes(sort, s, v)
  BY <1>1, <1>2, <1>3, <1>6
<1>7. QED  BY <1>4, <1>5, <1>6

\* The number of rows before a row
RowNumber(rows, sort, s) == Cardinality({u \in rows : Precedes(sort, u, s)})

\* It is less than the number of rows ...
LEMMA RowNumberRange ==
    ASSUME IInv, ObservedOnce, NEW sort \in ListingSorts,
           NEW rows \in SUBSET DOMAIN items, IsFiniteSet(rows), NEW s \in rows
    PROVE  RowNumber(rows, sort, s) \in 0..(Cardinality(rows) - 1)
<1> DEFINE before == {u \in rows : Precedes(sort, u, s)}
<1>1. before \in SUBSET (rows \ {s})
  BY StrictOrder
<1>2. IsFiniteSet(rows \ {s}) /\ Cardinality(rows \ {s}) = Cardinality(rows) - 1
  BY FS_RemoveElement
<1> HIDE DEF before
<1>3. IsFiniteSet(before) /\ Cardinality(before) <= Cardinality(rows) - 1
  BY <1>1, <1>2, FS_Subset
<1>4. Cardinality(before) \in Nat /\ Cardinality(rows) \in Nat
  BY <1>3, FS_CardinalityType
<1>5. QED  BY <1>3, <1>4 DEF RowNumber, before

\* ... and no two rows have the same.
LEMMA RowNumberInjective ==
    ASSUME IInv, ObservedOnce, NEW sort \in ListingSorts,
           NEW rows \in SUBSET DOMAIN items, IsFiniteSet(rows), NEW s \in rows, NEW u \in rows,
           RowNumber(rows, sort, s) = RowNumber(rows, sort, u)
    PROVE  s = u
<1>1. ASSUME NEW x \in rows, NEW y \in rows, Precedes(sort, x, y)
      PROVE  RowNumber(rows, sort, x) # RowNumber(rows, sort, y)
  <2> DEFINE X == {z \in rows : Precedes(sort, z, x)}
             Y == {z \in rows : Precedes(sort, z, y)}
  <2>1. X \in SUBSET Y /\ x \in Y /\ x \notin X
    BY <1>1, StrictOrder
  <2>2. Y \in SUBSET rows
    OBVIOUS
  <2>3. RowNumber(rows, sort, x) = Cardinality(X) /\ RowNumber(rows, sort, y) = Cardinality(Y)
    BY DEF RowNumber
  <2> HIDE DEF X, Y
  <2>4. IsFiniteSet(Y)
    BY <2>2, FS_Subset
  <2>5. Cardinality(Y) = Cardinality(X) => Y = X
    BY <2>1, <2>4, FS_Subset
  <2>6. QED  BY <2>1, <2>3, <2>5
<1>2. QED  BY <1>1, StrictOrder

-----------------------------------------------------------------------------
(* The pages                                                               *)

\* A row number is on exactly one of the pages 1 .. total_pages.
LEMMA OnePage ==
    ASSUME NEW total \in Nat, NEW size \in Nat \ {0}, NEW k \in 0..(total - 1)
    PROVE  \E p \in 1..TotalPages(total, size) : \A q \in 1..TotalPages(total, size) :
                k \in ((q - 1) * size)..(q * size - 1) <=> q = p
<1> DEFINE T == {p \in Nat : k < p * size}
           last == TotalPages(total, size)
<1>1. last \in Nat /\ k < last * size
  <2> DEFINE m == total + size - 1
  <2>1. total # 0 /\ m \in Nat
    OBVIOUS
  <2>2. m \div size \in Nat /\ m < size * (m \div size) + size
    <3> HIDE DEF m
    <3>1. QED  BY <2>1
  <2>3. last = m \div size
    BY <2>1 DEF TotalPages
  <2> DEFINE d == m \div size
  <2>4. d \in Nat /\ total - 1 < size * d
    <3>1. d \in Nat /\ m < size * d + size
      BY <2>2
    <3> HIDE DEF d
    <3>2. size * d \in Nat
      BY <3>1
    <3>3. QED  BY <3>1, <3>2
  <2> HIDE DEF d
  <2>5. size * d = d * size
    BY <2>4
  <2>6. d * size \in Nat
    BY <2>4
  <2>7. QED  BY <2>3, <2>4, <2>5, <2>6 DEF d
<1> HIDE DEF last
<1>2. last \in T
  BY <1>1
<1>3. PICK p \in T : \A q \in T : p <= q
  BY <1>2, LeastNatural
<1>4. p \in Nat /\ p <= last /\ k < p * size
  BY <1>2, <1>3
<1>5. p # 0
  BY <1>4
<1>6. ASSUME NEW q \in 1..last
      PROVE  k \in ((q - 1) * size)..(q * size - 1) <=> q = p
  <2>1. q \in Nat /\ q - 1 \in Nat /\ q * size \in Nat /\ (q - 1) * size \in Nat
    OBVIOUS
  <2>2. CASE q < p
    <3>1. q \notin T
      BY <1>3, <1>4, <2>1, <2>2
    <3>2. ~(k < q * size)
      BY <2>1, <3>1
    <3>3. QED  BY <2>1, <2>2, <3>2
  <2>3. CASE q > p
    <3>1. p <= q - 1
      BY <1>4, <2>3
    <3>2. p * size <= (q - 1) * size
      BY <1>4, <2>1, <3>1
    <3>3. k < (q - 1) * size
      BY <1>4, <2>1, <3>2
    <3>4. QED  BY <1>4, <2>1, <2>3, <3>3
  <2>4. CASE q = p
    <3>1. q - 1 \notin T
      BY <1>3, <1>4, <2>1, <2>4
    <3>2. ~(k < (q - 1) * size) /\ k < q * size
      BY <1>4, <2>1, <2>4, <3>1
    <3>3. QED  BY <2>1, <2>4, <3>2
  <2>5. QED  BY <1>4, <2>1, <2>2, <2>3, <2>4
<1>7. p \in 1..last
  BY <1>1, <1>4, <1>5
<1>8. QED  BY <1>6, <1>7 DEF last

\* The pages of a request divide its rows among them.
THEOREM PagesDivide == RequestsSpec => []PagesPartition
<1>1. ServiceInv => PagesPartition
  <2> SUFFICES ASSUME ServiceInv, NEW sort \in ListingSorts, NEW s \in Rows
               PROVE  Cardinality({p \in 1..TotalPages(Cardinality(Rows), PageSize) :
                                    s \in PageRows(Rows, sort, p, PageSize)}) = 1
    BY DEF PagesPartition
  <2>1. IInv /\ TypeOK /\ ObservedOnce /\ IsFiniteSet(DOMAIN items)
    BY DEF ServiceInv, RequestsInv, IInv
  <2>2. Rows \in SUBSET DOMAIN items /\ IsFiniteSet(Rows) /\ Cardinality(Rows) \in Nat
    BY <2>1, RowsStored
  <2> DEFINE k == RowNumber(Rows, sort, s)
             pages == 1..TotalPages(Cardinality(Rows), PageSize)
  <2>3. k \in 0..(Cardinality(Rows) - 1)
    BY <2>1, <2>2, RowNumberRange
  <2>4. \A p : s \in PageRows(Rows, sort, p, PageSize) <=>
                k \in ((p - 1) * PageSize)..(p * PageSize - 1)
    BY DEF PageRows, RowNumber
  <2>5. PageSize \in Nat \ {0}
    BY RequestsAssumption
  <2> HIDE DEF k
  <2>6. PICK p \in pages : \A q \in pages : k \in ((q - 1) * PageSize)..(q * PageSize - 1) <=> q = p
    BY <2>2, <2>3, <2>5, OnePage
  <2> HIDE DEF pages
  <2>7. {q \in pages : s \in PageRows(Rows, sort, q, PageSize)} = {p}
    BY <2>4, <2>6
  <2>8. QED  BY <2>7, FS_Singleton DEF pages
<1>2. QED  BY <1>1, ServiceSafe, PTL

\* A page has as many rows as there are row numbers on it.
LEMMA PageCount ==
    ASSUME IInv, ObservedOnce, NEW sort \in ListingSorts,
           NEW rows \in SUBSET DOMAIN items, IsFiniteSet(rows),
           NEW page \in Nat \ {0}, NEW size \in Nat \ {0}
    PROVE  LET left == Cardinality(rows) - (page - 1) * size
               found == Cardinality(PageRows(rows, sort, page, size))
           IN  /\ found \in Nat /\ found <= size
               /\ left > 0 => found >= (IF left < size THEN left ELSE size)
<1> DEFINE n == Cardinality(rows)
           a == (page - 1) * size
           b == page * size - 1
           I == {i \in 0..(n - 1) : i \in a..b}
           P == PageRows(rows, sort, page, size)
           f == [s \in rows |-> RowNumber(rows, sort, s)]
           g == [s \in P |-> RowNumber(rows, sort, s)]
<1>1. n \in Nat
  BY FS_CardinalityType
<1>2. a \in Nat /\ b = a + size - 1
  OBVIOUS
<1>3. P = {s \in rows : RowNumber(rows, sort, s) \in a..b}
  BY DEF PageRows, RowNumber
<1> HIDE DEF n, a, b, P
<1>4. f \in Injection(rows, 0..(n - 1))
  BY RowNumberRange, RowNumberInjective DEF Injection, IsInjective, n
<1>5. f \in Surjection(rows, 0..(n - 1))
  <2>1. IsFiniteSet(0..(n - 1)) /\ Cardinality(0..(n - 1)) = n
    BY <1>1, FS_Interval
  <2>2. QED  BY <1>4, <2>1, FS_Injection DEF n
<1>6. g \in Bijection(P, I)
  <2>1. g \in Injection(P, I)
    BY <1>3, <1>4 DEF Injection, IsInjective
  <2>2. ASSUME NEW i \in I
        PROVE  \E s \in P : g[s] = i
    <3>1. PICK s \in rows : f[s] = i
      BY <1>5 DEF Surjection
    <3>2. QED  BY <1>3, <3>1
  <2>3. QED  BY <2>1, <2>2 DEF Bijection, Surjection, Injection
<1>7. IsFiniteSet(P)
  BY <1>3, FS_Subset
<1>8. Cardinality(P) = Cardinality(I) /\ IsFiniteSet(I)
  BY <1>6, <1>7, FS_Bijection DEF ExistsBijection
<1>9. Cardinality(I) \in Nat
  BY <1>8, FS_CardinalityType
<1>10. Cardinality(I) <= size
  <2>1. I \in SUBSET (a..b)
    OBVIOUS
  <2>2. IsFiniteSet(a..b) /\ Cardinality(a..b) = size
    BY <1>2, FS_Interval
  <2> HIDE DEF I
  <2>3. QED  BY <2>1, <2>2, FS_Subset
<1>11. ASSUME n - a > 0
       PROVE  Cardinality(I) >= (IF n - a < size THEN n - a ELSE size)
  <2> DEFINE m == IF n - a < size THEN n - a ELSE size
  <2>1. m \in Nat \ {0} /\ a + m - 1 <= n - 1 /\ a + m - 1 <= b
    BY <1>1, <1>2, <1>11
  <2> HIDE DEF m
  <2>2. a..(a + m - 1) \in SUBSET I
    BY <1>1, <1>2, <2>1
  <2>3. Cardinality(a..(a + m - 1)) = m
    BY <1>2, <2>1, FS_Interval
  <2> HIDE DEF I
  <2>4. m <= Cardinality(I)
    BY <1>8, <2>2, <2>3, FS_Subset
  <2>5. QED  BY <1>9, <2>1, <2>4 DEF m
<1>12. QED  BY <1>8, <1>9, <1>10, <1>11 DEF n, a, P

\* Without filters the view of all has every item.
LEMMA AllRows ==
    ServiceInv /\ request.view = "all" /\ Unfiltered(request.filter) => Rows = DOMAIN items
<1> SUFFICES ASSUME ServiceInv, request.view = "all", Unfiltered(request.filter),
                    NEW s \in DOMAIN items
             PROVE  s \in Rows
  BY DEF Rows, Matches, CurrentListings
<1>1. s \in CurrentListings
  BY ContentShown DEF ServiceInv, RequestsInv, GetListing
<1>2. InView(request.view, s, request.time)
  BY DEF InView
<1>3. items[s].metadata_hash \in request.filter.described
  BY DEF ServiceInv, IInv, TypeOK, ItemRows, Unfiltered
<1>4. /\ request.filter.min_price = None /\ request.filter.max_price = None
      /\ request.filter.closing_after = None /\ request.filter.closing_before = None
  BY DEF Unfiltered
<1>5. QED  BY <1>1, <1>2, <1>3, <1>4 DEF Rows, Matches, Within

\* The count a listings request holds when it asks for the rows is one there are
\* still rows for.
CountKept ==
    /\ request.kind = "listings" /\ request.step = 1
    /\ request.view = "all" /\ Unfiltered(request.filter)
    => request.total <= Cardinality(DOMAIN items)

\* Items are never deleted, so the count stays a lower bound.
LEMMA CountStep == ServiceInv /\ ServiceInv' /\ CountKept /\ [RequestsNext]_allVars => CountKept'
<1> SUFFICES ASSUME ServiceInv, ServiceInv', CountKept, [RequestsNext]_allVars,
                    request'.kind = "listings", request'.step = 1,
                    request'.view = "all", Unfiltered(request'.filter)
             PROVE  request'.total <= Cardinality(DOMAIN items')
  BY DEF CountKept, Unfiltered
<1>1. /\ IInv /\ TypeOK /\ ClockAhead /\ LiveIsLast /\ RequestTyped
      /\ IsFiniteSet(DOMAIN items) /\ IsFiniteSet(DOMAIN items')
  BY DEF ServiceInv, RequestsInv, IInv
<1>2. DOMAIN items \in SUBSET DOMAIN items'
  <2>1. [Next]_vars
    BY <1>1, WriterSteps
  <2>2. QED  BY <1>1, <2>1, GrowthNext DEF GrowthStep, vars
<1>3. /\ Cardinality(DOMAIN items) <= Cardinality(DOMAIN items')
      /\ Cardinality(DOMAIN items) \in Nat /\ Cardinality(DOMAIN items') \in Nat
  BY <1>1, <1>2, FS_Subset, FS_CardinalityType
<1>4. CASE request' = request
  <2>1. request.total \in Nat
    BY <1>1, <1>4 DEF RequestTyped, OperationsRequests, ListingsRequests, Idle
  <2>2. QED  BY <1>3, <1>4, <2>1 DEF CountKept
<1>5. CASE ListingsStep
  <2>1. request \in ListingsRequests
    BY <1>1, <1>5 DEF ListingsStep, RequestTyped, OperationsRequests, Idle
  <2>2. request' = [request EXCEPT !.step = 1, !.total = Cardinality(Rows)]
    <3> DEFINE rows == PageRows(Rows, DefaultListingSort(request.view), request.page, PageSize)
    <3>1. \/ request' = [request EXCEPT !.step = 1, !.total = Cardinality(Rows)]
          \/ request' = [request EXCEPT !.step = 3, !.rows = rows]
      BY <1>5 DEF ListingsStep
    <3> HIDE DEF rows
    <3>2. ASSUME request' = [request EXCEPT !.step = 3, !.rows = rows]
          PROVE  FALSE
      <4>1. request'.step = 3
        BY <2>1, <3>2 DEF ListingsRequests
      <4>2. QED  BY <4>1
    <3>3. QED  BY <3>1, <3>2
  <2>3. /\ request'.total = Cardinality(Rows) /\ request'.view = request.view
        /\ request'.filter = request.filter
    BY <2>1, <2>2 DEF ListingsRequests
  <2>4. Rows = DOMAIN items
    BY <2>3, AllRows
  <2>5. QED  BY <1>3, <2>3, <2>4
<1>6. CASE OperationsStep
  <2>1. request \in OperationsRequests
    BY <1>1, <1>6, OperationsFields DEF OperationsStep
  <2>2. request'.kind = "operations"
    BY <1>6, <2>1 DEF OperationsStep, ReadRuns, CountFailures, OperationsRequests
  <2>3. QED  BY <2>2
<1>7. CASE AskOperations \/ Respond
           \/ \E f \in Filters, view \in ListingViews, page \in Pages : AskListings(f, view, page)
  BY <1>7 DEF AskOperations, Respond, AskListings, Idle
<1>8. CASE Write \/ Tick
  BY <1>1, <1>4, <1>8, WriterGrows
<1>9. QED  BY <1>4, <1>5, <1>6, <1>7, <1>8 DEF RequestsNext, Handle, allVars

\* The rows are at least those the count promised.
LEMMA PageStep ==
    ServiceInv /\ CountKept /\ PageNeverShort /\ [RequestsNext]_allVars => PageNeverShort'
<1> DEFINE promised == request.total - (request.page - 1) * PageSize
           kept == /\ Cardinality(request.rows) <= PageSize
                   /\ promised > 0 => Cardinality(request.rows)
                                        >= (IF promised < PageSize THEN promised ELSE PageSize)
<1> SUFFICES ASSUME ServiceInv, CountKept, PageNeverShort, [RequestsNext]_allVars,
                    Answered', request'.kind = "listings",
                    request'.view = "all", Unfiltered(request'.filter)
             PROVE  kept'
  BY DEF PageNeverShort, Unfiltered
<1>1. /\ IInv /\ TypeOK /\ ObservedOnce /\ ClockAhead /\ LiveIsLast /\ RequestTyped
      /\ IsFiniteSet(DOMAIN items)
  BY DEF ServiceInv, RequestsInv, IInv
<1>2. CASE request' = request
  BY <1>2 DEF PageNeverShort, Answered
<1>3. CASE ListingsStep
  <2>1. request \in ListingsRequests
    BY <1>1, <1>3 DEF ListingsStep, RequestTyped, OperationsRequests, Idle
  <2>2. CASE request.step = 0
    <3>1. request' = [request EXCEPT !.step = 1, !.total = Cardinality(Rows)]
      BY <1>3, <2>2 DEF ListingsStep
    <3>2. QED  BY <2>1, <3>1 DEF Answered, ListingsRequests
  <2>3. CASE request.step = 1
    <3> DEFINE sort == DefaultListingSort(request.view)
               rows == PageRows(Rows, sort, request.page, PageSize)
               n == Cardinality(Rows)
               a == (request.page - 1) * PageSize
    <3>1. request' = [request EXCEPT !.step = 3, !.rows = rows]
      BY <1>3, <2>3 DEF ListingsStep
    <3>2. /\ request'.rows = rows /\ request'.view = request.view
          /\ request'.filter = request.filter /\ request'.page = request.page
          /\ request'.total = request.total
      BY <2>1, <3>1 DEF ListingsRequests
    <3>3. Rows = DOMAIN items
      BY <3>2, AllRows
    <3>4. request.total \in Nat /\ n \in Nat /\ request.total <= n
      BY <1>1, <2>1, <2>3, <3>2, <3>3, RowsStored DEF CountKept, ListingsRequests
    <3>5. /\ request.page \in Nat \ {0} /\ PageSize \in Nat \ {0} /\ sort \in ListingSorts
          /\ Rows \in SUBSET DOMAIN items /\ IsFiniteSet(Rows)
      BY <1>1, <2>1, <3>3, RequestsAssumption
      DEF ListingsRequests, DefaultListingSort, ListingSorts
    <3>6. /\ Cardinality(rows) \in Nat /\ Cardinality(rows) <= PageSize
          /\ n - a > 0 => Cardinality(rows) >= (IF n - a < PageSize THEN n - a ELSE PageSize)
      BY <1>1, <3>5, PageCount
    <3>7. a \in Nat
      BY <3>5
    <3>8. promised' = request.total - a
      BY <3>2
    <3> HIDE DEF n, a, rows, promised
    <3>9. QED  BY <3>2, <3>4, <3>5, <3>6, <3>7, <3>8
  <2>4. QED  BY <1>3, <2>2, <2>3 DEF ListingsStep
<1>4. CASE OperationsStep
  <2>1. request \in OperationsRequests
    BY <1>1, <1>4, OperationsFields DEF OperationsStep
  <2>2. request'.kind = "operations"
    BY <1>4, <2>1 DEF OperationsStep, ReadRuns, CountFailures, OperationsRequests
  <2>3. QED  BY <2>2
<1>5. CASE AskOperations \/ Respond
           \/ \E f \in Filters, view \in ListingViews, page \in Pages : AskListings(f, view, page)
  BY <1>5 DEF AskOperations, Respond, AskListings, Idle, Answered
<1>6. CASE Write \/ Tick
  BY <1>1, <1>2, <1>6, WriterGrows
<1>7. QED  BY <1>2, <1>3, <1>4, <1>5, <1>6 DEF RequestsNext, Handle, allVars

\* A page of all listings has the rows that its page_info promises, whatever a
\* scrape commits between the count and the rows.
THEOREM PagesAreFull == RequestsSpec => []PageNeverShort
<1>1. RequestsInit => CountKept /\ PageNeverShort
  BY DEF RequestsInit, CountKept, PageNeverShort, Answered, Idle
<1>2. QED  BY <1>1, ServiceSafe, CountStep, PageStep, PTL DEF RequestsSpec

=============================================================================
