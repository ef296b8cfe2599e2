---------------------- MODULE SearchEnumerationProofs ----------------------
(***************************************************************************)
(* What SearchEnumeration guarantees for any number of product groups, any *)
(* page size and any limits, while the source changes between the pages.   *)
(***************************************************************************)
EXTENDS SearchEnumeration, FiniteSetTheorems, SequenceTheorems, TLAPS

Reading == pc \in {"search", "page"}

\* The page the next request asks for.
Asked == IF pc = "search" THEN 1 ELSE request

\* While a group is read, the next page is the one after the last, and the
\* records of the pages read are full pages.
PagingInv ==
    /\ Reading => group <= Groups /\ Cardinality(records) < Limit
    /\ pc = "search" => tracked = {} /\ previous = [page |-> 0, record_end |-> 0]
    /\ pc = "page" => /\ request = previous.page + 1
                      /\ previous.record_end = previous.page * PageSize

\* Every listing that stayed in its place has been read or is still ahead.
SteadyAhead ==
    pc = "page" => \A l \in steady : l \in records \/
        \E i \in DOMAIN catalogue[group] : i > previous.record_end /\ catalogue[group][i] = l

\* Without a limit reached, the groups that are done left nothing out.
OwedRead == ~truncated => owed \subseteq records

\* What was read of the group at hand is tracked, and nothing was read of a
\* later one.
ReadTracked ==
    \A x \in read : x[1] <= group /\ (Reading /\ x[1] = group => x[2].source_id \in tracked)

\* DuplicatesAcrossGroups, with what counting needs.
Counted ==
    /\ IsFiniteSet(records) /\ IsFiniteSet(read)
    /\ Cardinality(read) = Cardinality(records) + duplicates

EnumInv == TypeOK /\ PagingInv /\ SteadyAhead /\ OwedRead /\ ReadTracked /\ Counted

-----------------------------------------------------------------------------
(* Lists                                                                   *)

\* The listings of a group are a sequence, and of its sequences those that
\* repeat no auction number.
LEMMA CatalogueSeqs ==
    ASSUME NEW list
    PROVE  list \in Catalogues <=>
            list \in Seq(Listings) /\ Len(list) <= MaxListed /\ Listable(list)
<1> USE EnumerationAssumption
<1>1. ASSUME list \in Catalogues PROVE list \in Seq(Listings) /\ Len(list) <= MaxListed
  <2>1. PICK m \in 0..MaxListed : list \in [1..m -> Listings]
    BY <1>1 DEF Catalogues, SeqOf
  <2>2. list \in Seq(Listings)
    BY <2>1, SeqDef
  <2>3. Len(list) = m
    BY <2>1, <2>2, LenProperties
  <2>4. QED  BY <2>2, <2>3
<1>2. ASSUME list \in Seq(Listings), Len(list) <= MaxListed
      PROVE  list \in SeqOf(Listings, MaxListed)
  <2>1. Len(list) \in 0..MaxListed /\ list \in [1..Len(list) -> Listings]
    BY <1>2, LenProperties
  <2>2. QED  BY <2>1 DEF SeqOf
<1>3. QED  BY <1>1, <1>2 DEF Catalogues

\* Nothing that is inserted changes the order of the rest.
LEMMA Inserted ==
    ASSUME NEW S, NEW s \in Seq(S), NEW i \in 1..(Len(s) + 1), NEW e \in S
    PROVE  /\ InsertAt(s, i, e) \in Seq(S)
           /\ Len(InsertAt(s, i, e)) = Len(s) + 1
           /\ \A j \in 1..Len(s) : InsertAt(s, i, e)[IF j < i THEN j ELSE j + 1] = s[j]
<1> DEFINE a == SubSeq(s, 1, i - 1)
           b == SubSeq(s, i, Len(s))
           c == a \o <<e>>
<1>1. Len(s) \in Nat /\ i \in Nat /\ (\A j \in 1..Len(s) : s[j] \in S)
  BY LenProperties, ElementOfSeq
<1>2. /\ a \in Seq(S) /\ Len(a) = i - 1
      /\ \A j \in 1..(i - 1) : a[j] = s[j]
  <2>1. \A j \in 1..(i - 1) : s[j] \in S
    BY <1>1
  <2>2. /\ a \in Seq(S) /\ Len(a) = (IF 1 <= i - 1 THEN i - 1 - 1 + 1 ELSE 0)
        /\ \A j \in 1..(i - 1 - 1 + 1) : a[j] = s[1 + j - 1]
    BY <1>1, <2>1, SubSeqProperties
  <2>3. QED  BY <1>1, <2>2
<1>3. /\ b \in Seq(S) /\ Len(b) = Len(s) - i + 1
      /\ \A j \in 1..(Len(s) - i + 1) : b[j] = s[i + j - 1]
  <2>1. \A j \in i..Len(s) : s[j] \in S
    BY <1>1
  <2>2. /\ b \in Seq(S) /\ Len(b) = (IF i <= Len(s) THEN Len(s) - i + 1 ELSE 0)
        /\ \A j \in 1..(Len(s) - i + 1) : b[j] = s[i + j - 1]
    BY <1>1, <2>1, SubSeqProperties
  <2>3. QED  BY <1>1, <2>2
<1>4. <<e>> \in Seq(S) /\ Len(<<e>>) = 1
  OBVIOUS
<1> HIDE DEF a, b
<1>5. /\ c \in Seq(S) /\ Len(c) = i
      /\ \A j \in 1..(i - 1) : c[j] = s[j]
  <2>1. /\ c \in Seq(S) /\ Len(c) = Len(a) + Len(<<e>>)
        /\ \A j \in 1..(Len(a) + Len(<<e>>)) :
                c[j] = IF j <= Len(a) THEN a[j] ELSE <<e>>[j - Len(a)]
    BY <1>2, <1>4, ConcatProperties
  <2>2. QED  BY <1>1, <1>2, <1>4, <2>1
<1> HIDE DEF c
<1> DEFINE t == c \o b
<1>6. InsertAt(s, i, e) = t
  BY DEF InsertAt, a, b, c
<1>7. /\ t \in Seq(S) /\ Len(t) = Len(c) + Len(b)
      /\ \A j \in 1..(Len(c) + Len(b)) : t[j] = IF j <= Len(c) THEN c[j] ELSE b[j - Len(c)]
  BY <1>3, <1>5, ConcatProperties
<1> HIDE DEF t
<1>8. ASSUME NEW j \in 1..Len(s) PROVE t[IF j < i THEN j ELSE j + 1] = s[j]
  <2>1. CASE j < i
    BY <1>1, <1>3, <1>5, <1>7, <2>1
  <2>2. CASE j >= i
    <3>1. j + 1 \in 1..(Len(c) + Len(b)) /\ ~(j + 1 <= Len(c)) /\ j + 1 - Len(c) = j + 1 - i
      BY <1>1, <1>3, <1>5, <2>2
    <3>2. t[j + 1] = b[j + 1 - i]
      BY <1>7, <3>1
    <3>3. j + 1 - i \in 1..(Len(s) - i + 1) /\ i + (j + 1 - i) - 1 = j
      BY <1>1, <2>2
    <3>4. b[j + 1 - i] = s[j]
      BY <1>3, <3>3
    <3>5. QED  BY <1>1, <2>2, <3>2, <3>4
  <2>3. QED  BY <1>1, <2>1, <2>2
<1>9. QED  BY <1>1, <1>3, <1>5, <1>6, <1>7, <1>8

\* What is removed lets those behind it move up.
LEMMA Removed ==
    ASSUME NEW S, NEW s \in Seq(S), NEW i \in 1..Len(s)
    PROVE  /\ RemoveAt(s, i) \in Seq(S)
           /\ Len(RemoveAt(s, i)) = Len(s) - 1
           /\ \A j \in 1..(Len(s) - 1) : RemoveAt(s, i)[j] = s[IF j < i THEN j ELSE j + 1]
<1> DEFINE a == SubSeq(s, 1, i - 1)
           b == SubSeq(s, i + 1, Len(s))
<1>1. Len(s) \in Nat /\ i \in Nat /\ (\A j \in 1..Len(s) : s[j] \in S)
  BY LenProperties, ElementOfSeq
<1>2. /\ a \in Seq(S) /\ Len(a) = i - 1
      /\ \A j \in 1..(i - 1) : a[j] = s[j]
  <2>1. \A j \in 1..(i - 1) : s[j] \in S
    BY <1>1
  <2>2. /\ a \in Seq(S) /\ Len(a) = (IF 1 <= i - 1 THEN i - 1 - 1 + 1 ELSE 0)
        /\ \A j \in 1..(i - 1 - 1 + 1) : a[j] = s[1 + j - 1]
    BY <1>1, <2>1, SubSeqProperties
  <2>3. QED  BY <1>1, <2>2
<1>3. /\ b \in Seq(S) /\ Len(b) = Len(s) - i
      /\ \A j \in 1..(Len(s) - i) : b[j] = s[i + j]
  <2>1. \A j \in (i + 1)..Len(s) : s[j] \in S
    BY <1>1
  <2>2. /\ b \in Seq(S) /\ Len(b) = (IF i + 1 <= Len(s) THEN Len(s) - (i + 1) + 1 ELSE 0)
        /\ \A j \in 1..(Len(s) - (i + 1) + 1) : b[j] = s[i + 1 + j - 1]
    BY <1>1, <2>1, SubSeqProperties
  <2>3. QED  BY <1>1, <2>2
<1> HIDE DEF a, b
<1> DEFINE t == a \o b
<1>4. RemoveAt(s, i) = t
  BY DEF RemoveAt, a, b
<1>5. /\ t \in Seq(S) /\ Len(t) = Len(a) + Len(b)
      /\ \A j \in 1..(Len(a) + Len(b)) : t[j] = IF j <= Len(a) THEN a[j] ELSE b[j - Len(a)]
  BY <1>2, <1>3, ConcatProperties
<1> HIDE DEF t
<1>6. ASSUME NEW j \in 1..(Len(s) - 1) PROVE t[j] = s[IF j < i THEN j ELSE j + 1]
  <2>1. CASE j < i
    BY <1>1, <1>2, <1>3, <1>5, <2>1
  <2>2. CASE j >= i
    <3>1. j \in 1..(Len(a) + Len(b)) /\ ~(j <= Len(a)) /\ j - Len(a) = j - i + 1
      BY <1>1, <1>2, <1>3, <2>2
    <3>2. t[j] = b[j - i + 1]
      BY <1>5, <3>1
    <3>3. j - i + 1 \in 1..(Len(s) - i) /\ i + (j - i + 1) = j + 1
      BY <1>1, <2>2
    <3>4. b[j - i + 1] = s[j + 1]
      BY <1>3, <3>3
    <3>5. QED  BY <1>1, <2>2, <3>2, <3>4
  <2>3. QED  BY <1>1, <2>1, <2>2
<1>7. QED  BY <1>1, <1>2, <1>3, <1>4, <1>5, <1>6

\* What is behind a place of a list is among the rest of it.
LEMMA Suffix ==
    ASSUME NEW S, NEW s \in Seq(S), NEW i \in 1..Len(s), NEW j \in i..Len(s)
    PROVE  s[j] \in Range(SubSeq(s, i, Len(s)))
<1> DEFINE n == Len(s)
           t == SubSeq(s, i, n)
<1>1. n \in Nat /\ i \in Nat \ {0} /\ i <= n /\ j \in Nat /\ i <= j /\ j <= n
  BY LenProperties
<1>2. \A m \in i..n : s[m] \in S
  BY <1>1, ElementOfSeq
<1> HIDE DEF n
<1>3. /\ t \in Seq(S) /\ Len(t) = (IF i <= n THEN n - i + 1 ELSE 0)
      /\ \A m \in 1..(n - i + 1) : t[m] = s[i + m - 1]
  <2>1. i \in Int /\ n \in Int
    BY <1>1
  <2>2. QED  BY <1>2, <2>1, SubSeqProperties
<1>4. DOMAIN t = 1..Len(t)
  BY <1>3, LenProperties
<1> HIDE DEF t
<1>5. j - i + 1 \in 1..(n - i + 1) /\ i + (j - i + 1) - 1 = j
  BY <1>1
<1>6. t[j - i + 1] = s[j]
  BY <1>3, <1>5
<1>7. j - i + 1 \in DOMAIN t
  BY <1>1, <1>3, <1>4, <1>5
<1>8. s[j] \in Range(t)
  BY <1>6, <1>7 DEF Range
<1>9. QED  BY <1>8 DEF t, n

\* What one group listed can be listed without a listing that has closed.
LEMMA RemovedListable ==
    ASSUME NEW list \in Catalogues, NEW i \in DOMAIN list
    PROVE  RemoveAt(list, i) \in Catalogues
<1> DEFINE t == RemoveAt(list, i)
<1>1. list \in Seq(Listings) /\ Len(list) <= MaxListed /\ Listable(list)
  BY CatalogueSeqs
<1>2. Len(list) \in Nat /\ DOMAIN list = 1..Len(list)
  BY <1>1, LenProperties
<1>3. /\ t \in Seq(Listings) /\ Len(t) = Len(list) - 1
      /\ \A j \in 1..(Len(list) - 1) : t[j] = list[IF j < i THEN j ELSE j + 1]
  BY <1>1, <1>2, Removed
<1> HIDE DEF t
<1>4. DOMAIN t = 1..(Len(list) - 1)
  BY <1>3, LenProperties
<1>5. ASSUME NEW j \in DOMAIN t, NEW k \in DOMAIN t, t[j].source_id = t[k].source_id PROVE j = k
  <2> DEFINE J == IF j < i THEN j ELSE j + 1
             K == IF k < i THEN k ELSE k + 1
  <2>1. J \in DOMAIN list /\ K \in DOMAIN list /\ t[j] = list[J] /\ t[k] = list[K]
    BY <1>2, <1>3, <1>4
  <2>2. J = K
    BY <1>1, <1>5, <2>1 DEF Listable
  <2>3. QED  BY <1>2, <1>4, <2>2
<1>6. t \in Catalogues
  <2>1. Listable(t)
    BY <1>5 DEF Listable
  <2>2. QED  BY <1>1, <1>2, <1>3, <2>1, CatalogueSeqs, EnumerationAssumption
<1>7. QED  BY <1>6 DEF t

-----------------------------------------------------------------------------
(* Pages                                                                   *)

\* A group of n listings has a page p exactly if the pages before hold fewer.
LEMMA PageExists ==
    ASSUME NEW n \in Nat, NEW p \in Nat \ {0}
    PROVE  /\ (n + PageSize - 1) \div PageSize \in Nat
           /\ p <= (n + PageSize - 1) \div PageSize <=> (p - 1) * PageSize < n
<1> DEFINE c == (n + PageSize - 1) \div PageSize
<1> USE EnumerationAssumption
<1>1. /\ c \in Nat
      /\ c * PageSize <= n + PageSize - 1
      /\ n + PageSize - 1 < c * PageSize + PageSize
  OBVIOUS
<1> HIDE DEF c
<1>2. (p - 1) * PageSize = p * PageSize - PageSize /\ p * PageSize \in Int /\ c * PageSize \in Int
  BY <1>1
<1>3. p <= c => p * PageSize <= c * PageSize
  BY <1>1
<1>4. p > c => p * PageSize >= c * PageSize + PageSize
  BY <1>1
<1>5. QED  BY <1>1, <1>2, <1>3, <1>4 DEF c

\* The page shows the listings of page q as they are, and whether there are
\* more.
ShowsPage(list, q, page) ==
    LET last == IF q * PageSize < Len(list) THEN q * PageSize ELSE Len(list) IN
    /\ (q - 1) * PageSize < Len(list)
    /\ page.current_page = q /\ page.record_end = last
    /\ page.records = SubSeq(list, (q - 1) * PageSize + 1, last)
    /\ IF page.ranged /\ page.next # 0 THEN last < Len(list) /\ page.next = q + 1 ELSE last = Len(list)

\* The parser accepts no garbled page that hides a listing or the pages to
\* come.
LEMMA AcceptedPages ==
    ASSUME NEW list \in Seq(Listings), NEW q \in Nat \ {0}, (q - 1) * PageSize < Len(list),
           NEW page \in {SourcePage(list, q)} \cup Garbled(SourcePage(list, q)), ParserAccepts(page)
    PROVE  ShowsPage(list, q, page)
<1> DEFINE first == (q - 1) * PageSize + 1
           last == IF q * PageSize < Len(list) THEN q * PageSize ELSE Len(list)
           rows == SubSeq(list, first, last)
           source == SourcePage(list, q)
<1> USE EnumerationAssumption
<1>1. Len(list) \in Nat /\ q * PageSize \in Nat /\ (q - 1) * PageSize \in Nat
      /\ q * PageSize = (q - 1) * PageSize + PageSize
  BY LenProperties
<1>2. first \in Nat \ {0} /\ last \in Nat /\ first <= last /\ last <= Len(list)
  BY <1>1
<1>3. rows \in Seq(Listings) /\ Len(rows) = last - first + 1
  <2>1. \A i \in first..last : list[i] \in Listings
    BY <1>1, <1>2, ElementOfSeq
  <2>2. QED  BY <1>2, <2>1, SubSeqProperties
<1>4. source = [records |-> rows, ranged |-> TRUE, current_page |-> q,
                record_start |-> first, record_end |-> last, total_records |-> Len(list),
                next |-> IF last < Len(list) THEN q + 1 ELSE 0]
  BY DEF SourcePage
<1> HIDE DEF first, last, rows, source
<1>5. source.current_page # 0
  BY <1>4
<1>6. page # EmptyPage
  <2>1. page.current_page = q
    BY <1>4 DEF Garbled, source
  <2>2. EmptyPage.current_page = 0
    BY DEF EmptyPage
  <2>3. QED  BY <2>1, <2>2
<1>7. IF page.ranged THEN ValidPagination(page) ELSE page.next = 0
  BY <1>6 DEF ParserAccepts
<1>8. CASE page = source
  <2>1. page.ranged /\ page.next = (IF last < Len(list) THEN q + 1 ELSE 0) /\ page.current_page = q
        /\ page.record_end = last /\ page.records = rows
    BY <1>4, <1>8
  <2>2. QED  BY <1>1, <1>2, <2>1 DEF ShowsPage, first, last, rows
<1>9. CASE page = [source EXCEPT !.ranged = FALSE]
  <2>1. ~page.ranged /\ page.next = source.next /\ page.current_page = q /\ page.record_end = last
        /\ page.records = rows
    BY <1>4, <1>9
  <2>2. last = Len(list)
    BY <1>1, <1>2, <1>4, <1>7, <2>1
  <2>3. QED  BY <1>1, <2>1, <2>2 DEF ShowsPage, first, last, rows
<1>10. CASE page = [source EXCEPT !.records = Tail(@)]
  <2>1. page.ranged /\ page.records = Tail(rows) /\ page.record_end = last /\ page.record_start = first
    BY <1>4, <1>10
  <2>2. Len(Tail(rows)) = Len(rows) - 1
    <3>1. rows # <<>>
      BY <1>2, <1>3
    <3>2. QED  BY <1>3, <3>1, HeadTailProperties
  <2>3. Len(page.records) = last - first + 1
    BY <1>7, <2>1 DEF ValidPagination
  <2>4. QED  BY <1>2, <1>3, <2>1, <2>2, <2>3
<1>11. CASE page = [source EXCEPT !.total_records = source.record_end]
  <2>1. page.ranged /\ page.records = rows /\ page.record_end = last /\ page.current_page = q
        /\ page.total_records = last /\ page.next = source.next
    BY <1>4, <1>11
  <2>2. page.next = 0
    BY <1>7, <2>1 DEF ValidPagination
  <2>3. last = Len(list)
    BY <1>1, <1>2, <1>4, <2>1, <2>2
  <2>4. QED  BY <1>1, <2>1, <2>2, <2>3 DEF ShowsPage, first, last, rows
<1>12. CASE page = [source EXCEPT !.next = 0]
  <2>1. page.ranged /\ page.records = rows /\ page.record_end = last /\ page.current_page = q
        /\ page.total_records = Len(list) /\ page.next = 0
    BY <1>4, <1>12
  <2>2. last = Len(list)
    BY <1>7, <2>1 DEF ValidPagination
  <2>3. QED  BY <1>1, <2>1, <2>2 DEF ShowsPage, first, last, rows
<1>13. CASE page = [source EXCEPT !.next = source.current_page + 1]
  <2>1. page.ranged /\ page.records = rows /\ page.record_end = last /\ page.current_page = q
        /\ page.total_records = Len(list) /\ page.next = q + 1
    BY <1>4, <1>13
  <2>2. last # Len(list)
    BY <1>7, <2>1 DEF ValidPagination
  <2>3. QED  BY <1>1, <1>2, <2>1, <2>2 DEF ShowsPage, first, last, rows
<1>14. QED  BY <1>8, <1>9, <1>10, <1>11, <1>12, <1>13 DEF Garbled, source

\* What an accepted answer to the request for page p shows: that page, or if
\* the list has become too short for it, nothing or another one.
LEMMA AcceptedAnswers ==
    ASSUME NEW list \in Catalogues, NEW p \in Nat \ {0},
           NEW page \in Answers(list, p), ParserAccepts(page)
    PROVE  \/ page = EmptyPage /\ Len(list) <= (p - 1) * PageSize
           \/ \E q \in Nat \ {0} : /\ q # p => Len(list) <= (p - 1) * PageSize
                                   /\ ShowsPage(list, q, page)
<1> DEFINE count == (Len(list) + PageSize - 1) \div PageSize
<1> USE EnumerationAssumption
<1>1. list \in Seq(Listings) /\ Len(list) \in Nat
  BY CatalogueSeqs, LenProperties
<1>2. count \in Nat /\ (\A q \in Nat \ {0} : q <= count <=> (q - 1) * PageSize < Len(list))
  BY <1>1, PageExists
<1>3. Shown(list, p) = IF p <= count THEN {SourcePage(list, p)}
                       ELSE {EmptyPage} \cup {SourcePage(list, q) : q \in 1..count}
  BY DEF Shown
<1> HIDE DEF count
<1>4. (p - 1) * PageSize \in Int
  OBVIOUS
<1>5. CASE page = EmptyPage /\ p > count
  BY <1>1, <1>2, <1>4, <1>5
<1>6. ASSUME NEW q \in Nat \ {0}, q <= count, q # p => p > count,
             page \in {SourcePage(list, q)} \cup Garbled(SourcePage(list, q))
      PROVE  \E r \in Nat \ {0} : /\ r # p => Len(list) <= (p - 1) * PageSize
                                  /\ ShowsPage(list, r, page)
  <2>1. ShowsPage(list, q, page)
    BY <1>1, <1>2, <1>6, AcceptedPages
  <2>2. q # p => Len(list) <= (p - 1) * PageSize
    BY <1>1, <1>2, <1>4, <1>6
  <2>3. QED  BY <2>1, <2>2
<1>7. PICK shown \in Shown(list, p) :
        page = shown \/ (shown # EmptyPage /\ page \in Garbled(shown))
  BY DEF Answers
<1>8. CASE p <= count
  <2>1. shown = SourcePage(list, p)
    BY <1>3, <1>7, <1>8
  <2>2. QED  BY <1>6, <1>7, <1>8, <2>1
<1>9. CASE p > count
  <2>1. shown = EmptyPage \/ \E q \in 1..count : shown = SourcePage(list, q)
    BY <1>2, <1>3, <1>7, <1>9
  <2>2. CASE shown = EmptyPage
    BY <1>5, <1>7, <1>9, <2>2
  <2>3. CASE \E q \in 1..count : shown = SourcePage(list, q)
    <3>1. PICK q \in 1..count : shown = SourcePage(list, q)
      BY <2>3
    <3>2. q \in Nat \ {0} /\ q <= count
      BY <1>2
    <3>3. QED  BY <1>6, <1>7, <1>9, <3>1, <3>2
  <2>4. QED  BY <2>1, <2>2, <2>3
<1>10. QED  BY <1>2, <1>8, <1>9

\* What a page that is accepted and advances has: the next page of the list,
\* and if it is the last one all that was ahead.
LEMMA PageCovers ==
    ASSUME TypeOK, PagingInv, Reading, NEW page \in Answers(catalogue[group], Asked),
           ParserAccepts(page), Advances(page)
    PROVE  /\ page.records \in Seq(Listings) /\ Listable(page.records)
           /\ page.ranged /\ page.next # 0 =>
                /\ page.current_page \in Nat /\ page.next = page.current_page + 1
                /\ page.record_end = page.current_page * PageSize
           /\ \A i \in DOMAIN catalogue[group] : i > previous.record_end =>
                \/ \E j \in DOMAIN page.records : page.records[j] = catalogue[group][i]
                \/ page.ranged /\ page.next # 0 /\ i > page.record_end
<1> DEFINE list == catalogue[group]
           p == Asked
           more == page.ranged /\ page.next # 0
<1> USE EnumerationAssumption
<1>1. group \in GroupIds /\ list \in Catalogues
  BY DEF TypeOK, PagingInv, GroupIds
<1>2. p \in Nat \ {0} /\ p - 1 = previous.page /\ (p - 1) * PageSize = previous.record_end
  <2>1. previous.page \in Nat
    BY DEF TypeOK
  <2>2. CASE pc = "search"
    BY <2>2 DEF PagingInv, Asked
  <2>3. CASE pc = "page"
    BY <2>1, <2>3 DEF PagingInv, Asked
  <2>4. QED  BY <2>2, <2>3 DEF Reading
<1>3. list \in Seq(Listings) /\ Len(list) \in Nat /\ DOMAIN list = 1..Len(list)
  BY <1>1, CatalogueSeqs, LenProperties
<1>4. page \in Answers(list, p)
  OBVIOUS
<1> HIDE DEF list, p
<1>5. CASE page = EmptyPage /\ Len(list) <= (p - 1) * PageSize
  <2>1. page.records = <<>> /\ page.next = 0
    BY <1>5 DEF EmptyPage
  <2>2. page.records \in Seq(Listings) /\ Listable(page.records)
    BY <2>1 DEF Listable
  <2>3. ASSUME NEW i \in DOMAIN list, i > previous.record_end PROVE FALSE
    BY <1>2, <1>3, <1>5, <2>3
  <2>4. QED  BY <2>1, <2>2, <2>3 DEF list
<1>6. ASSUME NEW q \in Nat \ {0}, q # p => Len(list) <= (p - 1) * PageSize, ShowsPage(list, q, page)
      PROVE  /\ page.records \in Seq(Listings) /\ Listable(page.records)
             /\ more =>
                  /\ page.current_page \in Nat /\ page.next = page.current_page + 1
                  /\ page.record_end = page.current_page * PageSize
             /\ \A i \in DOMAIN list : i > previous.record_end =>
                  \/ \E j \in DOMAIN page.records : page.records[j] = list[i]
                  \/ more /\ i > page.record_end
  <2> DEFINE first == (q - 1) * PageSize + 1
             last == IF q * PageSize < Len(list) THEN q * PageSize ELSE Len(list)
  <2>1. /\ (q - 1) * PageSize < Len(list)
        /\ page.current_page = q /\ page.record_end = last
        /\ page.records = SubSeq(list, first, last)
    BY <1>6 DEF ShowsPage
  <2>0. (more => last < Len(list) /\ page.next = q + 1) /\ (~more => last = Len(list))
    BY <1>6 DEF ShowsPage
  <2>2. /\ q * PageSize \in Nat /\ (q - 1) * PageSize \in Nat
        /\ q * PageSize = (q - 1) * PageSize + PageSize
    OBVIOUS
  <2>3. first \in Nat \ {0} /\ last \in Nat /\ first <= last /\ last <= Len(list)
    <3>1. Len(list) \in Nat /\ (q - 1) * PageSize < Len(list)
      BY <1>3, <2>1
    <3>2. QED  BY <2>2, <3>1
  <2>4. /\ page.records \in Seq(Listings) /\ Len(page.records) = last - first + 1
        /\ \A j \in 1..(last - first + 1) : page.records[j] = list[first + j - 1]
    <3>1. \A i \in first..last : list[i] \in Listings
      BY <1>3, <2>3, ElementOfSeq
    <3>2. first \in Int /\ last \in Int
      BY <2>3
    <3> HIDE DEF first, last
    <3>3. /\ SubSeq(list, first, last) \in Seq(Listings)
          /\ Len(SubSeq(list, first, last)) = (IF first <= last THEN last - first + 1 ELSE 0)
          /\ \A j \in 1..(last - first + 1) : SubSeq(list, first, last)[j] = list[first + j - 1]
      BY <3>1, <3>2, SubSeqProperties
    <3>4. QED  BY <2>1, <2>3, <3>3
  <2>5. Listable(page.records)
    <3>1. page # EmptyPage
      <4>1. EmptyPage.current_page = 0
        BY DEF EmptyPage
      <4>2. QED  BY <2>1, <4>1
    <3>2. QED  BY <3>1 DEF ParserAccepts
  <2>6. more => last = q * PageSize
    BY <1>3, <2>0, <2>2
  <2>7. DOMAIN page.records = 1..(last - first + 1)
    BY <2>4, LenProperties
  <2> HIDE DEF first, last
  <2>8. ASSUME NEW i \in DOMAIN list, i > previous.record_end
        PROVE  \/ \E j \in DOMAIN page.records : page.records[j] = list[i]
               \/ more /\ i > page.record_end
    <3>1. q = p
      BY <1>2, <1>3, <1>6, <2>8
    <3>2. first = previous.record_end + 1
      BY <1>2, <3>1 DEF first
    <3>3. i \in Nat /\ i <= Len(list) /\ i >= first
      BY <1>2, <1>3, <2>8, <3>2
    <3>4. CASE i > last
      <4>1. last # Len(list)
        BY <2>3, <3>3, <3>4
      <4>2. more
        BY <2>0, <4>1
      <4>3. QED  BY <2>1, <3>4, <4>2
    <3>5. CASE i <= last
      <4>1. i - first + 1 \in DOMAIN page.records /\ first + (i - first + 1) - 1 = i
        BY <2>3, <2>7, <3>3, <3>5
      <4>2. page.records[i - first + 1] = list[i]
        BY <2>4, <2>7, <4>1
      <4>3. QED  BY <4>1, <4>2
    <3>6. QED  BY <2>3, <3>3, <3>4, <3>5
  <2>9. QED  BY <2>0, <2>1, <2>4, <2>5, <2>6, <2>8
<1>7. \/ page = EmptyPage /\ Len(list) <= (p - 1) * PageSize
      \/ \E q \in Nat \ {0} : (q # p => Len(list) <= (p - 1) * PageSize) /\ ShowsPage(list, q, page)
  BY <1>1, <1>2, <1>4, AcceptedAnswers
<1>8. QED  BY <1>5, <1>6, <1>7 DEF list

-----------------------------------------------------------------------------
(* Counting                                                                *)

\* A function without repetitions has as many values as arguments.
LEMMA ImageCount ==
    ASSUME NEW I, IsFiniteSet(I), NEW f, \A i, j \in I : f[i] = f[j] => i = j
    PROVE  LET values == {f[i] : i \in I}
           IN  IsFiniteSet(values) /\ Cardinality(values) = Cardinality(I)
<1> DEFINE values == {f[i] : i \in I}
           g == [i \in I |-> f[i]]
<1>1. g \in Bijection(I, values)
  BY DEF Bijection, Injection, Surjection, IsInjective
<1>2. ExistsBijection(I, values)
  BY <1>1 DEF ExistsBijection
<1>3. QED  BY <1>2, FS_Bijection

\* Of the first k records of a page, each is either a new listing or a
\* duplicate, and all are records not read before.
LEMMA LoopCounts ==
    ASSUME NEW page, page.records \in Seq(Listings), Listable(page.records),
           NEW k \in 0..Len(page.records), IsFiniteSet(records), IsFiniteSet(read),
           \A i \in 1..k : <<group, page.records[i]>> \notin read
    PROVE  LET old == {i \in 1..k : page.records[i] \in Known(page, i - 1)}
               all == read \cup {<<group, page.records[i]>> : i \in 1..k}
           IN  /\ IsFiniteSet(Known(page, k)) /\ IsFiniteSet(all)
               /\ Cardinality(old) \in Nat
               /\ Cardinality(all) = Cardinality(read) + k
               /\ Cardinality(Known(page, k)) + Cardinality(old) = Cardinality(records) + k
<1> DEFINE rs == page.records
           old == {i \in 1..k : rs[i] \in Known(page, i - 1)}
           new == {i \in 1..k : rs[i] \notin records}
           added == {rs[i] : i \in new}
           pairs == {<<group, rs[i]>> : i \in 1..k}
<1>1. k \in Nat /\ Len(rs) \in Nat /\ DOMAIN rs = 1..Len(rs)
  BY LenProperties
<1>2. ASSUME NEW i \in 1..k, NEW j \in 1..k, rs[i] = rs[j] PROVE i = j
  BY <1>1, <1>2 DEF Listable
<1>3. IsFiniteSet(1..k) /\ Cardinality(1..k) = k
  BY <1>1, FS_Interval
<1>4. old = (1..k) \ new
  <2>1. ASSUME NEW i \in 1..k, rs[i] \in Known(page, i - 1) PROVE rs[i] \in records
    <3>1. rs[i] \in records \/ \E j \in 1..(i - 1) : rs[i] = rs[j]
      BY <2>1 DEF Known
    <3>2. ASSUME NEW j \in 1..(i - 1) PROVE rs[i] # rs[j]
      <4>1. j \in 1..k /\ j # i
        BY <1>1
      <4>2. QED  BY <1>2, <4>1
    <3>3. QED  BY <3>1, <3>2
  <2>2. QED  BY <2>1 DEF Known
<1>5. IsFiniteSet(new) /\ Cardinality(new) \in Nat
  BY <1>3, FS_Subset, FS_CardinalityType
<1>6. Cardinality(old) = k - Cardinality(new) /\ Cardinality(old) \in Nat
  <2>1. IsFiniteSet(old) /\ Cardinality(old) = Cardinality(1..k) - Cardinality((1..k) \cap new)
    <3> HIDE DEF old, new
    <3>1. /\ IsFiniteSet((1..k) \ new)
          /\ Cardinality((1..k) \ new) = Cardinality(1..k) - Cardinality((1..k) \cap new)
      BY <1>3, FS_Difference
    <3>2. QED  BY <1>4, <3>1
  <2>2. (1..k) \cap new = new
    OBVIOUS
  <2>3. Cardinality(old) \in Nat
    BY <2>1, FS_CardinalityType
  <2>4. QED  BY <1>3, <2>1, <2>2, <2>3
<1>7. IsFiniteSet(added) /\ Cardinality(added) = Cardinality(new)
  <2>1. \A i, j \in new : rs[i] = rs[j] => i = j
    BY <1>2
  <2>2. QED  BY <1>5, <2>1, ImageCount
<1>8. IsFiniteSet(pairs) /\ Cardinality(pairs) = k
  <2> DEFINE f == [i \in 1..k |-> <<group, rs[i]>>]
  <2>1. \A i, j \in 1..k : f[i] = f[j] => i = j
    BY <1>2
  <2>2. pairs = {f[i] : i \in 1..k}
    OBVIOUS
  <2> HIDE DEF f
  <2>3. IsFiniteSet({f[i] : i \in 1..k}) /\ Cardinality({f[i] : i \in 1..k}) = Cardinality(1..k)
    <3> DEFINE I == 1..k
    <3>1. IsFiniteSet(I) /\ \A i, j \in I : f[i] = f[j] => i = j
      BY <1>3, <2>1
    <3> HIDE DEF I
    <3>2. IsFiniteSet({f[i] : i \in I}) /\ Cardinality({f[i] : i \in I}) = Cardinality(I)
      BY <3>1, ImageCount
    <3>3. QED  BY <3>2 DEF I
  <2>4. QED  BY <1>3, <2>2, <2>3
<1>9. Known(page, k) = records \cup added /\ records \cap added = {}
  BY DEF Known
<1>10. read \cap pairs = {}
  OBVIOUS
<1> HIDE DEF added, pairs, old, new, rs
<1>11. /\ IsFiniteSet(Known(page, k))
       /\ Cardinality(Known(page, k)) = Cardinality(records) + Cardinality(new)
  <2>1. /\ IsFiniteSet(records \cup added)
        /\ Cardinality(records \cup added)
            = Cardinality(records) + Cardinality(added) - Cardinality(records \cap added)
    BY <1>7, FS_Union
  <2>2. Cardinality(records) \in Nat
    BY FS_CardinalityType
  <2>3. Cardinality(records \cap added) = 0
    BY <1>9, FS_EmptySet
  <2>4. QED  BY <1>5, <1>7, <1>9, <2>1, <2>2, <2>3
<1>12. IsFiniteSet(read \cup pairs) /\ Cardinality(read \cup pairs) = Cardinality(read) + k
  <2>1. /\ IsFiniteSet(read \cup pairs)
        /\ Cardinality(read \cup pairs)
            = Cardinality(read) + Cardinality(pairs) - Cardinality(read \cap pairs)
    BY <1>8, FS_Union
  <2>2. Cardinality(read) \in Nat
    BY FS_CardinalityType
  <2>3. Cardinality(read \cap pairs) = 0
    BY <1>10, FS_EmptySet
  <2>4. QED  BY <1>1, <1>8, <2>1, <2>2, <2>3
<1>13. Cardinality(records) \in Nat
  BY FS_CardinalityType
<1>14. QED
  BY <1>1, <1>5, <1>6, <1>11, <1>12, <1>13 DEF rs, old, pairs

-----------------------------------------------------------------------------
(* The invariant                                                           *)

\* Nothing has been read.
LEMMA InitEnum == Init => EnumInv
<1> SUFFICES ASSUME Init PROVE EnumInv
  OBVIOUS
<1> USE EnumerationAssumption
<1>1. Cardinality(records) = 0 /\ Cardinality(read) = 0 /\ IsFiniteSet(records) /\ IsFiniteSet(read)
  BY FS_EmptySet DEF Init
<1>2. truncated \in BOOLEAN
  BY Zenon DEF Init
<1>3. TypeOK
  <2>1. pages_seen \in 0..(MaxPages - 1) /\ group \in 1..(Groups + 1)
    BY DEF Init
  <2>2. /\ catalogue \in [GroupIds -> Catalogues]
        /\ pc \in {"search", "page", "done", "raised"}
        /\ request \in Nat /\ visited \subseteq Nat
        /\ previous \in [page: Nat, record_end: Nat]
        /\ tracked \subseteq {l.source_id : l \in Listings}
        /\ records \subseteq Listings
        /\ duplicates \in Nat
        /\ read \subseteq GroupIds \X Listings
        /\ steady \subseteq Listings /\ owed \subseteq Listings
    BY DEF Init
  <2>3. Cardinality(records) <= Limit
    BY <1>1
  <2>4. QED  BY Zenon, <1>2, <2>1, <2>2, <2>3 DEF TypeOK
<1>4. PagingInv
  BY <1>1 DEF Init, PagingInv, Reading
<1>5. SteadyAhead /\ OwedRead /\ ReadTracked
  BY DEF Init, SteadyAhead, OwedRead, ReadTracked
<1>6. Counted
  BY <1>1 DEF Init, Counted
<1>7. QED  BY <1>3, <1>4, <1>5, <1>6 DEF EnumInv

\* Whatever the source changes, what has to be read stays ahead: a listing
\* that appears only moves others back, and those that move up are no longer
\* steady.
LEMMA ChangeKeeps == EnumInv /\ Change => EnumInv'
<1> SUFFICES ASSUME EnumInv, Change PROVE EnumInv'
  OBVIOUS
<1> USE EnumerationAssumption DEF EnumInv
<1>1. ASSUME catalogue' \in [GroupIds -> Catalogues], SteadyAhead', steady' \subseteq steady,
             UNCHANGED <<pc, group, paging, records, duplicates, truncated, read, owed>>
      PROVE  EnumInv'
  <2>1. UNCHANGED <<request, visited, pages_seen, previous, tracked>>
    BY <1>1 DEF paging
  <2>2. TypeOK'
    <3>1. steady' \subseteq Listings
      BY <1>1 DEF TypeOK
    <3>2. QED  BY Zenon, <1>1, <2>1, <3>1 DEF TypeOK
  <2>3. PagingInv' /\ OwedRead' /\ ReadTracked' /\ Counted'
    BY Zenon, <1>1, <2>1 DEF PagingInv, OwedRead, ReadTracked, Counted, Reading
  <2>4. QED  BY <1>1, <2>2, <2>3
<1>2. ASSUME NEW g \in GroupIds, NEW i \in 1..MaxListed, NEW listing \in Listings,
             Appears(g, i, listing)
      PROVE  EnumInv'
  <2> DEFINE list == catalogue[g]
             longer == InsertAt(list, i, listing)
  <2>1. list \in Catalogues
    BY DEF TypeOK
  <2>2. list \in Seq(Listings) /\ Len(list) \in Nat /\ DOMAIN list = 1..Len(list)
    BY <2>1, CatalogueSeqs, LenProperties
  <2>3. /\ Len(list) < MaxListed /\ i <= Len(list) + 1 /\ Listable(longer)
        /\ catalogue' = [catalogue EXCEPT ![g] = longer]
        /\ UNCHANGED <<pc, group, paging, records, duplicates, truncated, read, steady, owed>>
    BY <1>2 DEF Appears
  <2>4. i \in 1..(Len(list) + 1)
    BY <2>2, <2>3
  <2>5. /\ longer \in Seq(Listings) /\ Len(longer) = Len(list) + 1
        /\ \A j \in 1..Len(list) : longer[IF j < i THEN j ELSE j + 1] = list[j]
    BY <2>2, <2>4, Inserted
  <2> HIDE DEF longer
  <2>6. longer \in Catalogues
    BY <2>2, <2>3, <2>5, CatalogueSeqs
  <2>7. catalogue' \in [GroupIds -> Catalogues]
    BY <2>3, <2>6 DEF TypeOK
  <2>8. SteadyAhead'
    <3> SUFFICES ASSUME pc' = "page", NEW l \in steady', l \notin records'
                 PROVE  \E j \in DOMAIN catalogue'[group'] :
                            j > previous'.record_end /\ catalogue'[group'][j] = l
      BY DEF SteadyAhead
    <3>1. /\ pc = "page" /\ l \in steady /\ l \notin records
          /\ previous' = previous /\ group' = group
      BY <2>3 DEF paging
    <3>2. PICK j \in DOMAIN catalogue[group] : j > previous.record_end /\ catalogue[group][j] = l
      BY <3>1 DEF SteadyAhead
    <3>3. group \in GroupIds /\ previous.record_end \in Nat
      BY <3>1 DEF TypeOK, PagingInv, Reading, GroupIds
    <3>4. CASE g # group
      <4>1. catalogue'[group] = catalogue[group]
        BY <2>3, <3>3, <3>4 DEF TypeOK
      <4>2. QED  BY <3>1, <3>2, <4>1
    <3>5. CASE g = group
      <4>1. catalogue'[group] = longer
        BY <2>3, <3>3, <3>5 DEF TypeOK
      <4>2. DOMAIN longer = 1..(Len(list) + 1)
        BY <2>2, <2>5, LenProperties
      <4>3. j \in 1..Len(list) /\ list[j] = l
        BY <2>2, <3>2, <3>5
      <4> DEFINE J == IF j < i THEN j ELSE j + 1
      <4>4. J \in 1..(Len(list) + 1) /\ J > previous.record_end
        BY <2>2, <3>2, <3>3, <4>3
      <4>5. longer[J] = l
        BY <2>5, <4>3
      <4> HIDE DEF J
      <4>6. QED  BY <3>1, <4>1, <4>2, <4>4, <4>5
    <3>6. QED  BY <3>4, <3>5
  <2>9. QED  BY <1>1, <2>3, <2>7, <2>8
<1>3. ASSUME NEW g \in GroupIds, NEW i \in 1..MaxListed, Closes(g, i) PROVE EnumInv'
  <2> DEFINE list == catalogue[g]
             shorter == RemoveAt(list, i)
             moved == Range(SubSeq(list, i, Len(list)))
  <2>1. list \in Catalogues
    BY DEF TypeOK
  <2>2. list \in Seq(Listings) /\ Len(list) \in Nat /\ DOMAIN list = 1..Len(list)
    BY <2>1, CatalogueSeqs, LenProperties
  <2>3. /\ i \in DOMAIN list
        /\ catalogue' = [catalogue EXCEPT ![g] = shorter]
        /\ steady' = IF g = group /\ pc = "page" THEN steady \ moved ELSE steady
        /\ UNCHANGED <<pc, group, paging, records, duplicates, truncated, read, owed>>
    BY <1>3 DEF Closes
  <2>4. /\ shorter \in Seq(Listings) /\ Len(shorter) = Len(list) - 1
        /\ \A j \in 1..(Len(list) - 1) : shorter[j] = list[IF j < i THEN j ELSE j + 1]
    <3>1. list \in Seq(Listings) /\ i \in 1..Len(list)
      BY <2>2, <2>3
    <3> HIDE DEF list
    <3>2. QED  BY <3>1, Removed
  <2>5. shorter \in Catalogues
    BY <2>1, <2>3, RemovedListable
  <2> HIDE DEF shorter
  <2>6. catalogue' \in [GroupIds -> Catalogues]
    BY <2>3, <2>5 DEF TypeOK
  <2>7. ASSUME NEW j \in i..Len(list) PROVE list[j] \in moved
    <3>1. i \in 1..Len(list)
      BY <2>2, <2>3
    <3>2. QED  BY <2>2, <3>1, Suffix
  <2>8. steady' \subseteq steady
    BY <2>3
  <2>9. SteadyAhead'
    <3> SUFFICES ASSUME pc' = "page", NEW l \in steady', l \notin records'
                 PROVE  \E j \in DOMAIN catalogue'[group'] :
                            j > previous'.record_end /\ catalogue'[group'][j] = l
      BY DEF SteadyAhead
    <3>1. /\ pc = "page" /\ l \in steady /\ l \notin records
          /\ previous' = previous /\ group' = group
      BY <2>3, <2>8 DEF paging
    <3>2. PICK j \in DOMAIN catalogue[group] : j > previous.record_end /\ catalogue[group][j] = l
      BY <3>1 DEF SteadyAhead
    <3>3. group \in GroupIds
      BY <3>1 DEF TypeOK, PagingInv, Reading, GroupIds
    <3>4. CASE g # group
      <4>1. catalogue'[group] = catalogue[group]
        BY <2>3, <3>3, <3>4 DEF TypeOK
      <4>2. QED  BY <3>1, <3>2, <4>1
    <3>5. CASE g = group
      <4>1. catalogue'[group] = shorter
        BY <2>3, <3>3, <3>5 DEF TypeOK
      <4>2. DOMAIN shorter = 1..(Len(list) - 1)
        BY <2>2, <2>4, LenProperties
      <4>3. j \in 1..Len(list) /\ list[j] = l
        BY <2>2, <3>2, <3>5
      <4>4. l \notin moved
        BY <2>3, <3>1, <3>5
      <4>5. j < i
        BY <2>2, <2>3, <2>7, <4>3, <4>4
      <4>6. j \in 1..(Len(list) - 1) /\ shorter[j] = l
        <5>1. i \in Nat /\ i <= Len(list) /\ Len(list) \in Nat
          BY <2>2, <2>3
        <5> HIDE DEF list
        <5>2. j \in 1..(Len(list) - 1)
          BY <4>3, <4>5, <5>1
        <5>3. shorter[j] = list[j]
          BY <2>4, <4>5, <5>2
        <5>4. QED  BY <4>3, <5>2, <5>3
      <4>7. QED  BY <3>1, <3>2, <4>1, <4>2, <4>6
    <3>6. QED  BY <3>4, <3>5
  <2>10. QED  BY <1>1, <2>3, <2>6, <2>8, <2>9
<1>4. QED  BY <1>2, <1>3 DEF Change

\* An exception leaves everything as it is.
LEMMA RaiseKeeps == EnumInv /\ Raise => EnumInv'
<1> SUFFICES ASSUME EnumInv, Raise PROVE EnumInv'
  OBVIOUS
<1>1. /\ pc' = "raised"
      /\ UNCHANGED <<catalogue, group, request, visited, pages_seen, previous, tracked, records,
                     duplicates, truncated, read, steady, owed>>
  BY DEF Raise, paging
<1>2. TypeOK'
  BY Zenon, <1>1 DEF EnumInv, TypeOK
<1>3. PagingInv' /\ SteadyAhead'
  BY <1>1 DEF PagingInv, SteadyAhead, Reading
<1>4. OwedRead' /\ Counted'
  BY Zenon, <1>1 DEF EnumInv, OwedRead, Counted
<1>5. ReadTracked'
  BY <1>1 DEF EnumInv, ReadTracked, Reading
<1>6. QED  BY <1>2, <1>3, <1>4, <1>5 DEF EnumInv

\* The loop over the records of a page stops in time: within the limit, and
\* short of the end of the page only because of the limit or an error.
LEMMA LoopStops ==
    ASSUME TypeOK, PagingInv, Reading, IsFiniteSet(records), NEW page,
           page.records \in Seq(Listings), NEW k \in 0..Len(page.records), LoopEnds(page, k),
           IsFiniteSet(Known(page, k))
    PROVE  /\ Cardinality(Known(page, k)) <= Limit
           /\ ~AtLimit(page, k) => Cardinality(Known(page, k)) < Limit
           /\ ~AtLimit(page, k) /\ ~Refused(page, k) => k = Len(page.records)
<1> USE EnumerationAssumption
<1>1. Len(page.records) \in Nat /\ k \in Nat
  BY LenProperties
<1>2. Cardinality(Known(page, k)) \in Nat
  BY FS_CardinalityType
<1>3. ~AtLimit(page, k) => Cardinality(Known(page, k)) < Limit
  <2>1. k = 0 => Known(page, k) = records
    BY DEF Known
  <2>2. Cardinality(records) < Limit
    BY DEF PagingInv
  <2>3. QED  BY <1>1, <1>2, <2>1, <2>2 DEF AtLimit
<1>4. ASSUME AtLimit(page, k) PROVE Cardinality(Known(page, k)) <= Limit
  <2> DEFINE before == Known(page, k - 1)
  <2>1. k - 1 \in 0..(k - 1)
    BY <1>1, <1>4 DEF AtLimit
  <2>2. ~AtLimit(page, k - 1)
    BY <2>1 DEF LoopEnds
  <2>3. Known(page, k) = before \cup {page.records[k]}
    <3>1. 1..k = (1..(k - 1)) \cup {k}
      BY <1>1, <2>1
    <3>2. QED  BY <3>1 DEF Known
  <2>4. IsFiniteSet(before) /\ Cardinality(before) \in Nat
    <3>1. before \subseteq Known(page, k)
      BY <2>3
    <3>2. QED  BY <3>1, FS_Subset, FS_CardinalityType
  <2>5. Cardinality(before) < Limit
    <3>1. k - 1 = 0 => before = records
      BY DEF Known
    <3>2. Cardinality(records) < Limit
      BY DEF PagingInv
    <3>3. k - 1 > 0 => ~(Cardinality(before) >= Limit)
      BY <2>2 DEF AtLimit
    <3>4. QED  BY <1>1, <2>1, <2>4, <3>1, <3>2, <3>3
  <2> HIDE DEF before
  <2>6. Cardinality(Known(page, k)) <= Cardinality(before) + 1
    <3>1. Cardinality(before \cup {page.records[k]})
            = IF page.records[k] \in before THEN Cardinality(before) ELSE Cardinality(before) + 1
      BY <2>4, FS_AddElement
    <3>2. QED  BY <2>3, <2>4, <3>1
  <2>7. QED  BY <1>2, <2>4, <2>5, <2>6
<1>5. ~AtLimit(page, k) /\ ~Refused(page, k) => k = Len(page.records)
  BY DEF LoopEnds
<1>6. QED  BY <1>2, <1>3, <1>4, <1>5

\* A page that is digested keeps the invariant: no listing of the group is
\* read twice, and what the page does not have is ahead of the next one.
LEMMA DigestKeeps ==
    ASSUME EnumInv, Reading, NEW page \in Answers(catalogue[group], Asked),
           NEW k \in 0..Len(page.records), LoopEnds(page, k), Digest(page, k)
    PROVE  EnumInv'
<1> DEFINE rs == page.records
           at_limit == AtLimit(page, k)
           more == page.ranged /\ page.next # 0
           present == IF pc = "search" THEN Range(catalogue[group]) ELSE steady
           old == {i \in 1..k : rs[i] \in Known(page, i - 1)}
           pairs == {<<group, rs[i]>> : i \in 1..k}
<1> USE EnumerationAssumption
<1>1. CASE Raise
  BY <1>1, RaiseKeeps
<1>2. ASSUME ~Raise PROVE EnumInv'
  <2>1. /\ ParserAccepts(page) /\ Advances(page)
        /\ at_limit \/ ~Refused(page, k)
        /\ at_limit \/ ~more \/ ~PagesExceeded
        /\ records' = Known(page, k)
        /\ duplicates' = duplicates + Cardinality(old)
        /\ read' = read \cup pairs
        /\ (more /\ ~at_limit) \/ EndGroup(present, at_limit)
        /\ ~(more /\ ~at_limit) \/ NextPage(present, page)
        /\ UNCHANGED catalogue
    BY Zenon, <1>2 DEF Digest
  <2>2. TypeOK /\ PagingInv /\ SteadyAhead /\ OwedRead /\ ReadTracked /\ Counted
    BY DEF EnumInv
  <2>3. /\ rs \in Seq(Listings) /\ Listable(rs)
        /\ more => /\ page.current_page \in Nat /\ page.next = page.current_page + 1
                   /\ page.record_end = page.current_page * PageSize
        /\ \A i \in DOMAIN catalogue[group] : i > previous.record_end =>
                \/ \E j \in DOMAIN rs : rs[j] = catalogue[group][i]
                \/ more /\ i > page.record_end
    BY <2>1, <2>2, PageCovers
  <2>4. /\ Len(rs) \in Nat /\ k \in Nat /\ DOMAIN rs = 1..Len(rs)
        /\ \A i \in DOMAIN rs : rs[i] \in Listings
    BY <2>3, LenProperties, ElementOfSeq
  <2>5. group \in GroupIds /\ group <= Groups /\ group \in Nat \ {0}
    BY <2>2 DEF TypeOK, PagingInv, GroupIds
  <2>6. \A i \in 1..k : <<group, rs[i]>> \notin read
    <3>1. ASSUME NEW i \in 1..k, <<group, rs[i]>> \in read PROVE FALSE
      <4>1. rs[i].source_id \in tracked
        BY <2>2, <3>1 DEF ReadTracked
      <4>2. i \in DOMAIN rs
        BY <2>4
      <4>3. QED  BY <2>1, <4>1, <4>2 DEF Advances
    <3>2. QED  BY <3>1
  <2>7. /\ IsFiniteSet(records') /\ IsFiniteSet(read') /\ Cardinality(old) \in Nat
        /\ Cardinality(read') = Cardinality(read) + k
        /\ Cardinality(records') + Cardinality(old) = Cardinality(records) + k
    <3>1. IsFiniteSet(records) /\ IsFiniteSet(read)
      BY <2>2 DEF Counted
    <3>2. /\ IsFiniteSet(Known(page, k)) /\ IsFiniteSet(read \cup pairs)
          /\ Cardinality(old) \in Nat
          /\ Cardinality(read \cup pairs) = Cardinality(read) + k
          /\ Cardinality(Known(page, k)) + Cardinality(old) = Cardinality(records) + k
      BY <2>3, <2>6, <3>1, LoopCounts
    <3>3. records' = Known(page, k) /\ read' = read \cup pairs
      BY <2>1
    <3> HIDE DEF old, pairs
    <3>4. QED  BY <3>2, <3>3
  <2>8. /\ Cardinality(records') <= Limit
        /\ ~at_limit => Cardinality(records') < Limit /\ k = Len(rs)
    BY <2>1, <2>2, <2>3, <2>7, LoopStops DEF Counted
  <2>9. records \subseteq records' /\ (~at_limit => \A i \in DOMAIN rs : rs[i] \in records')
    BY <2>1, <2>4, <2>8 DEF Known
  <2>10. records' \subseteq Listings /\ pairs \subseteq GroupIds \X Listings
    <3>1. \A i \in 1..k : rs[i] \in Listings
      BY <2>4
    <3>2. records' = Known(page, k) /\ records \subseteq Listings
      BY <2>1, <2>2 DEF TypeOK
    <3>3. QED  BY <2>5, <3>1, <3>2 DEF Known
  <2>11. ASSUME NEW l \in present
         PROVE  l \in records \/ \E i \in DOMAIN catalogue[group] :
                    i > previous.record_end /\ catalogue[group][i] = l
    <3>1. CASE pc = "search"
      <4>1. PICK i \in DOMAIN catalogue[group] : catalogue[group][i] = l
        BY <2>11, <3>1 DEF Range
      <4>2. previous.record_end = 0
        BY <2>2, <3>1 DEF PagingInv
      <4>3. i > 0
        <5>1. catalogue[group] \in Seq(Listings)
          BY <2>2, <2>5, CatalogueSeqs DEF TypeOK
        <5>2. QED  BY <5>1, LenProperties
      <4>4. QED  BY <4>1, <4>2, <4>3
    <3>2. CASE pc = "page"
      BY <2>2, <2>11, <3>2 DEF SteadyAhead
    <3>3. QED  BY <3>1, <3>2 DEF Reading
  <2>12. present \subseteq Listings
    <3>1. catalogue[group] \in Seq(Listings)
      BY <2>2, <2>5, CatalogueSeqs DEF TypeOK
    <3>2. Range(catalogue[group]) \subseteq Listings
      BY <3>1, LenProperties DEF Range
    <3>3. QED  BY <2>2, <3>2 DEF TypeOK
  <2>13. ASSUME ~at_limit, NEW l \in present
         PROVE  l \in records' \/ (more /\ \E i \in DOMAIN catalogue[group] :
                    i > page.record_end /\ catalogue[group][i] = l)
    <3>1. CASE l \in records
      BY <2>9, <3>1
    <3>2. CASE \E i \in DOMAIN catalogue[group] : i > previous.record_end /\ catalogue[group][i] = l
      <4>1. PICK i \in DOMAIN catalogue[group] : i > previous.record_end /\ catalogue[group][i] = l
        BY <3>2
      <4>2. (\E j \in DOMAIN rs : rs[j] = l) \/ (more /\ i > page.record_end)
        BY <2>3, <4>1
      <4>3. QED  BY <2>9, <2>13, <4>1, <4>2
    <3>3. QED  BY <2>11, <3>1, <3>2
  <2>14. Counted'
    <3>1. duplicates \in Nat /\ Cardinality(read) = Cardinality(records) + duplicates
      BY <2>2 DEF TypeOK, Counted
    <3>2. Cardinality(records) \in Nat /\ Cardinality(records') \in Nat
      BY <2>2, <2>7, FS_CardinalityType DEF Counted
    <3>3. duplicates' = duplicates + Cardinality(old)
      BY <2>1
    <3> HIDE DEF old
    <3>4. /\ k \in Nat /\ Cardinality(old) \in Nat
          /\ Cardinality(read') = Cardinality(read) + k
          /\ Cardinality(records') + Cardinality(old) = Cardinality(records) + k
      BY <2>4, <2>7
    <3>5. Cardinality(read') = Cardinality(records') + duplicates'
      <4>1. PICK o \in Nat : o = Cardinality(old)
        BY <3>4
      <4>2. PICK was \in Nat : was = Cardinality(records)
        BY <3>2
      <4>3. PICK is \in Nat : is = Cardinality(records')
        BY <3>2
      <4>4. duplicates' = duplicates + o /\ Cardinality(read) = was + duplicates
        BY <3>1, <3>3, <4>1, <4>2
      <4>5. Cardinality(read') = Cardinality(read) + k /\ is + o = was + k
        BY <3>4, <4>1, <4>2, <4>3
      <4>6. is + (duplicates + o) = was + duplicates + k
        BY <3>1, <3>4, <4>5
      <4>7. QED  BY <4>3, <4>4, <4>5, <4>6
    <3>6. QED  BY <2>7, <3>5 DEF Counted
  <2>15. duplicates' \in Nat /\ read' \subseteq GroupIds \X Listings
    <3>1. duplicates \in Nat /\ read \subseteq GroupIds \X Listings
      BY <2>2 DEF TypeOK
    <3>2. duplicates' = duplicates + Cardinality(old) /\ read' = read \cup pairs
      BY <2>1
    <3>3. Cardinality(old) \in Nat
      BY <2>7
    <3> HIDE DEF old, pairs
    <3>4. QED  BY <2>10, <3>1, <3>2, <3>3
  <2> HIDE DEF present, at_limit, more, old, pairs
  <2>16. CASE more /\ ~at_limit
    <3>1. /\ pc' = "page" /\ request' = page.next /\ visited' = visited \cup {request}
          /\ pages_seen' = pages_seen + 1
          /\ previous' = [page |-> page.current_page, record_end |-> page.record_end]
          /\ tracked' = tracked \cup {rs[i].source_id : i \in DOMAIN rs}
          /\ steady' = present /\ group' = group /\ truncated' = truncated /\ owed' = owed
      BY Zenon, <2>1, <2>16 DEF NextPage
    <3>2. /\ page.current_page \in Nat /\ page.next = page.current_page + 1
          /\ page.record_end = page.current_page * PageSize /\ page.record_end \in Nat
      BY <2>3, <2>16 DEF more
    <3>3. TypeOK'
      <4>1. pages_seen' \in 0..(MaxPages - 1)
        BY <2>1, <2>2, <2>16, <3>1 DEF TypeOK, PagesExceeded
      <4>2. request' \in Nat /\ visited' \subseteq Nat /\ previous' \in [page: Nat, record_end: Nat]
        <5>1. request \in Nat /\ visited \subseteq Nat
          BY <2>2 DEF TypeOK
        <5>2. request' \in Nat /\ visited' \subseteq Nat
          BY <3>1, <3>2, <5>1
        <5>3. previous' \in [page: Nat, record_end: Nat]
          BY <3>1, <3>2
        <5>4. QED  BY <5>2, <5>3
      <4>3. tracked' \subseteq {l.source_id : l \in Listings}
        BY <2>2, <2>4, <3>1 DEF TypeOK
      <4>4. pc' \in {"search", "page", "done", "raised"} /\ steady' \subseteq Listings
        BY <2>12, <3>1
      <4>5. truncated' \in BOOLEAN
        BY Zenon, <2>2, <3>1 DEF TypeOK
      <4>6. QED
        BY Zenon, <2>1, <2>2, <2>8, <2>10, <2>15, <3>1, <4>1, <4>2, <4>3, <4>4, <4>5 DEF TypeOK
    <3>4. PagingInv'
      <4>1. Cardinality(records') < Limit
        BY <2>8, <2>16 DEF at_limit
      <4>2. QED  BY <2>5, <3>1, <3>2, <4>1 DEF PagingInv
    <3>5. SteadyAhead'
      <4>1. ASSUME NEW l \in present, l \notin records'
            PROVE  \E i \in DOMAIN catalogue[group] :
                        i > page.record_end /\ catalogue[group][i] = l
        BY <2>13, <2>16, <4>1
      <4>2. catalogue' = catalogue /\ previous'.record_end = page.record_end
        BY <2>1, <3>1
      <4>3. QED  BY <3>1, <4>1, <4>2 DEF SteadyAhead
    <3>6. OwedRead'
      BY Zenon, <2>2, <2>9, <3>1 DEF OwedRead
    <3>7. ReadTracked'
      <4>1. ASSUME NEW x \in read' PROVE x[1] <= group /\ (x[1] = group => x[2].source_id \in tracked')
        <5>1. CASE x \in read
          BY <2>2, <3>1, <5>1 DEF ReadTracked
        <5>2. CASE x \in pairs
          <6>1. PICK i \in 1..k : x = <<group, rs[i]>>
            BY <5>2 DEF pairs
          <6>2. x[1] = group /\ x[2] = rs[i] /\ i \in DOMAIN rs
            BY <2>4, <6>1
          <6>3. QED  BY <2>5, <3>1, <6>2
        <5>3. QED  BY <2>1, <4>1, <5>1, <5>2
      <4>2. QED  BY <3>1, <4>1 DEF ReadTracked
    <3>8. QED  BY <2>14, <3>3, <3>4, <3>5, <3>6, <3>7 DEF EnumInv
  <2>17. CASE ~(more /\ ~at_limit)
    <3>1. /\ truncated' = TruncatedBy(at_limit) /\ group' = group + 1
          /\ pc' = IF at_limit \/ group = Groups THEN "done" ELSE "search"
          /\ request' = 0 /\ visited' = {} /\ pages_seen' = 0 /\ tracked' = {}
          /\ previous' = [page |-> 0, record_end |-> 0]
          /\ steady' = {} /\ owed' = owed \cup present
      BY Zenon, <2>1, <2>17 DEF EndGroup
    <3>2. truncated' \in BOOLEAN
      BY Zenon, <3>1 DEF TruncatedBy
    <3>3. TypeOK'
      <4>1. pages_seen' \in 0..(MaxPages - 1) /\ group' \in 1..(Groups + 1)
        BY <2>5, <3>1
      <4>2. request' \in Nat /\ visited' \subseteq Nat /\ previous' \in [page: Nat, record_end: Nat]
        BY <3>1
      <4>3. tracked' \subseteq {l.source_id : l \in Listings} /\ steady' \subseteq Listings
            /\ owed' \subseteq Listings
        BY <2>2, <2>12, <3>1 DEF TypeOK
      <4>4. pc' \in {"search", "page", "done", "raised"}
        BY <3>1
      <4>5. QED
        BY Zenon, <2>1, <2>2, <2>8, <2>10, <2>15, <3>1, <3>2, <4>1, <4>2, <4>3, <4>4 DEF TypeOK
    <3>4. PagingInv'
      <4>1. Reading' => ~at_limit /\ group # Groups
        BY <3>1 DEF Reading
      <4>2. Reading' => group' <= Groups
        BY <2>5, <3>1, <4>1
      <4>3. Reading' => Cardinality(records') < Limit
        BY <2>8, <4>1 DEF at_limit
      <4>4. pc' # "page" /\ tracked' = {} /\ previous' = [page |-> 0, record_end |-> 0]
        BY <3>1
      <4>5. QED  BY <4>2, <4>3, <4>4 DEF PagingInv
    <3>5. SteadyAhead'
      BY <3>1 DEF SteadyAhead
    <3>6. OwedRead'
      <4>1. ASSUME ~truncated' PROVE ~truncated /\ ~at_limit
        BY Zenon, <3>1, <4>1 DEF TruncatedBy
      <4>2. ASSUME ~truncated', NEW l \in owed' PROVE l \in records'
        <5>1. ~truncated /\ ~at_limit
          BY <4>1, <4>2
        <5>2. CASE l \in owed
          BY <2>2, <2>9, <5>1, <5>2 DEF OwedRead
        <5>3. CASE l \in present
          BY Zenon, <2>13, <2>17, <5>1, <5>3
        <5>4. QED  BY <3>1, <4>2, <5>2, <5>3
      <4>3. QED  BY <4>2 DEF OwedRead
    <3>7. ReadTracked'
      <4>1. ASSUME NEW x \in read' PROVE x[1] \in Nat /\ x[1] <= group
        <5>1. CASE x \in read
          BY <2>2, <5>1 DEF ReadTracked, TypeOK, GroupIds
        <5>2. CASE x \in pairs
          BY <2>5, <5>2 DEF pairs
        <5>3. QED  BY <2>1, <4>1, <5>1, <5>2
      <4>2. ASSUME NEW x \in read' PROVE x[1] <= group' /\ x[1] # group'
        BY <2>5, <3>1, <4>1
      <4>3. QED  BY <4>2 DEF ReadTracked
    <3>8. QED  BY <2>14, <3>3, <3>4, <3>5, <3>6, <3>7 DEF EnumInv
  <2>18. QED  BY <2>16, <2>17
<1>3. QED  BY <1>1, <1>2

\* Every step of the enumeration and of the source keeps the invariant.
LEMMA StepEnum == EnumInv /\ [Next]_vars => EnumInv'
<1> SUFFICES ASSUME EnumInv, [Next]_vars PROVE EnumInv'
  OBVIOUS
<1>1. CASE Change
  BY <1>1, ChangeKeeps
<1>2. CASE Read
  <2>1. Reading
    BY <1>2 DEF Read, Reading
  <2>2. PICK page \in Answers(catalogue[group], Asked) :
          \E k \in 0..Len(page.records) : LoopEnds(page, k) /\ Digest(page, k)
    BY Zenon, <1>2 DEF Read, Asked
  <2>3. QED  BY <2>1, <2>2, DigestKeeps
<1>3. CASE Fail
  BY <1>3, RaiseKeeps DEF Fail
<1>4. CASE UNCHANGED vars
  BY Zenon, <1>4
  DEF vars, EnumInv, TypeOK, PagingInv, SteadyAhead, OwedRead, ReadTracked, Counted, Reading
<1>5. QED  BY <1>1, <1>2, <1>3, <1>4 DEF Next, Enumerate

\* The invariant of the enumeration.
THEOREM EnumerationSafe == Spec => []EnumInv
  BY InitEnum, StepEnum, PTL DEF Spec

\* The locals of the two loops keep their types, pages_seen stays below
\* _MAX_SEARCH_PAGES and the unique listings within the limit.
THEOREM EnumerationTypes == Spec => []TypeOK
<1>1. EnumInv => TypeOK
  BY DEF EnumInv
<1>2. QED  BY <1>1, EnumerationSafe, PTL

\* A complete enumeration has every listing that stayed in its place, for any
\* page size, however the source changes between the pages and whatever single
\* part of a page it garbles.
THEOREM CompleteMeansAll == Spec => []EnumerationSound
<1>1. EnumInv => EnumerationSound
  BY DEF EnumInv, OwedRead, EnumerationSound, Complete
<1>2. QED  BY <1>1, EnumerationSafe, PTL

\* duplicate_listings counts what several groups show and nothing else, for
\* any number of groups.
THEOREM DuplicatesAreShared == Spec => []DuplicatesAcrossGroups
<1>1. EnumInv => DuplicatesAcrossGroups
  BY DEF EnumInv, Counted, DuplicatesAcrossGroups
<1>2. QED  BY <1>1, EnumerationSafe, PTL

-----------------------------------------------------------------------------
(* Why an enumeration ends: the pages that are left                        *)

\* The most pages the loops may still read.
PagesLeft ==
    IF pc \in {"done", "raised"} THEN 0
    ELSE (Groups - group) * MaxPages + (MaxPages - pages_seen)

\* Only the source changes, or a page less is left.
EnumerationAdvances ==
    [][\/ PagesLeft' < PagesLeft
       \/ UNCHANGED <<pc, group, paging, records, duplicates, truncated, read, owed>>]_vars

\* While a group is read, a page of it is left.
LEMMA PagesLeftBound ==
    ASSUME EnumInv
    PROVE  /\ PagesLeft \in 0..(Groups * MaxPages)
           /\ Reading => /\ PagesLeft = (Groups - group) * MaxPages + (MaxPages - pages_seen)
                         /\ PagesLeft > (Groups - group) * MaxPages
                         /\ (Groups - group) * MaxPages >= 0
<1> DEFINE ahead == (Groups - group) * MaxPages
<1>1. Groups \in Nat \ {0} /\ MaxPages \in Nat \ {0}
  BY EnumerationAssumption
<1>2. ASSUME Reading PROVE ahead \in Nat /\ ahead + MaxPages <= Groups * MaxPages
  <2>1. group \in 1..Groups
    BY <1>2 DEF EnumInv, TypeOK, PagingInv
  <2>2. \A a, b, c \in Nat : a <= b => a * c <= b * c
    OBVIOUS
  <2>3. (Groups - group) + 1 <= Groups /\ Groups - group \in Nat
    BY <1>1, <2>1
  <2>4. ((Groups - group) + 1) * MaxPages = ahead + MaxPages
    BY <1>1, <2>3
  <2>5. ((Groups - group) + 1) * MaxPages <= Groups * MaxPages
    BY <1>1, <2>2, <2>3
  <2>6. ahead \in Nat
    BY <1>1, <2>3
  <2>7. QED  BY <2>4, <2>5, <2>6
<1>3. pages_seen \in 0..(MaxPages - 1) /\ pc \in {"search", "page", "done", "raised"}
  BY DEF EnumInv, TypeOK
<1>4. Groups * MaxPages \in Nat
  BY <1>1
<1> HIDE DEF ahead
<1>5. ASSUME Reading PROVE PagesLeft = ahead + (MaxPages - pages_seen)
  BY <1>5 DEF PagesLeft, Reading, ahead
<1>6. CASE Reading
  <2>1. PagesLeft \in 0..(Groups * MaxPages) /\ PagesLeft > ahead
    BY <1>1, <1>2, <1>3, <1>4, <1>5, <1>6
  <2>2. QED  BY <1>2, <1>5, <1>6, <2>1 DEF ahead
<1>7. CASE ~Reading
  BY <1>3, <1>4, <1>7 DEF PagesLeft, Reading
<1>8. QED  BY <1>6, <1>7

\* A page that is read and digested is one less, or the last.
LEMMA DigestAdvances ==
    ASSUME EnumInv, EnumInv', Reading, NEW page, NEW k, Digest(page, k)
    PROVE  PagesLeft' < PagesLeft
<1> DEFINE at_limit == AtLimit(page, k)
           present == IF pc = "search" THEN Range(catalogue[group]) ELSE steady
           ahead == (Groups - group) * MaxPages
<1>1. Groups \in Nat \ {0} /\ MaxPages \in Nat \ {0}
  BY EnumerationAssumption
<1>2. /\ group \in 1..Groups /\ pages_seen \in 0..(MaxPages - 1)
      /\ PagesLeft = ahead + (MaxPages - pages_seen) /\ PagesLeft > ahead /\ ahead >= 0
  BY PagesLeftBound DEF EnumInv, TypeOK, PagingInv
<1>3. Raise \/ NextPage(present, page) \/ EndGroup(present, at_limit)
  BY Zenon DEF Digest
<1>4. ahead \in Int
  BY <1>1, <1>2
<1> HIDE DEF present, at_limit
<1>5. CASE Raise
  <2>1. PagesLeft' = 0
    BY <1>5 DEF Raise, PagesLeft
  <2>2. QED  BY <1>1, <1>2, <1>4, <2>1
<1>6. CASE NextPage(present, page)
  <2>1. PagesLeft' = ahead + (MaxPages - (pages_seen + 1))
    BY <1>6 DEF NextPage, PagesLeft
  <2> HIDE DEF ahead
  <2>2. QED  BY <1>1, <1>2, <1>4, <2>1
<1>7. CASE EndGroup(present, at_limit)
  <2>1. \/ PagesLeft' = 0
        \/ PagesLeft' = (Groups - (group + 1)) * MaxPages + (MaxPages - 0)
    BY <1>7 DEF EndGroup, PagesLeft
  <2>2. (Groups - (group + 1)) * MaxPages + (MaxPages - 0) = ahead
    BY <1>1, <1>2
  <2> HIDE DEF ahead
  <2>3. QED  BY <1>1, <1>2, <1>4, <2>1, <2>2
<1>8. QED  BY <1>3, <1>5, <1>6, <1>7

\* However the source changes and whatever it shows, an enumeration reads at
\* most _MAX_SEARCH_PAGES pages of every group: every step of its own, failures
\* included, leaves a page less.  EnumerationEnds needs no more than that the
\* thread runs.
THEOREM EnumerationTerminates ==
    Spec => [](PagesLeft \in 0..(Groups * MaxPages)) /\ EnumerationAdvances
<1> DEFINE advances ==
      \/ PagesLeft' < PagesLeft
      \/ UNCHANGED <<pc, group, paging, records, duplicates, truncated, read, owed>>
<1>1. EnumInv => PagesLeft \in 0..(Groups * MaxPages)
  BY PagesLeftBound
<1>2. ASSUME EnumInv, EnumInv', [Next]_vars PROVE [advances]_vars
  <2>1. CASE Change
    BY <2>1 DEF Change, Appears, Closes, paging
  <2>2. CASE Read
    <3>1. Reading
      BY <2>2 DEF Read, Reading
    <3>2. PICK page : \E k : Digest(page, k)
      BY Zenon, <2>2 DEF Read
    <3>3. QED  BY <1>2, <3>1, <3>2, DigestAdvances
  <2>3. CASE Fail
    <3>1. Reading /\ pc' = "raised"
      BY <2>3 DEF Fail, Raise, Reading
    <3>2. PagesLeft' = 0
      BY <3>1 DEF PagesLeft
    <3>3. PagesLeft > 0
      <4>1. (Groups - group) * MaxPages \in Int
        BY <3>1, EnumerationAssumption, <1>2 DEF EnumInv, TypeOK
      <4>2. QED  BY <1>2, <3>1, <4>1, PagesLeftBound
    <3>4. QED  BY <3>2, <3>3
  <2>4. CASE UNCHANGED vars
    BY <2>4
  <2>5. QED  BY <1>2, <2>1, <2>2, <2>3, <2>4 DEF Next, Enumerate
<1>3. QED  BY <1>1, <1>2, EnumerationSafe, PTL DEF Spec, EnumerationAdvances

=============================================================================
