------------------------- MODULE SearchEnumeration -------------------------
(***************************************************************************)
(* Enumerating the open listings: _collect_search_records and the helpers  *)
(* below it in src/bc_auction/__main__.py, with the checks of a results    *)
(* page in src/bc_auction/parsers/results.py.                              *)
(*                                                                         *)
(* The source (external) keeps an ordered list of listings per product     *)
(* group, and changes it while the pages are read.  Reading a page and     *)
(* digesting it is one step: nothing after the response depends on the     *)
(* source.  A page the client or the parser gives up on is a Fail.         *)
(*                                                                         *)
(* Data.  A listing is its source_id and its canonical_source_url.  The    *)
(* URL of a page is the page number in it, 0 for the first page, which is  *)
(* the answer to the search form.                                          *)
(***************************************************************************)
EXTENDS Integers, FiniteSets, Sequences, SequencesExt

CONSTANTS
    Listings,    \* records [source_id, url] the source may show
    Groups,      \* number of product groups
    PageSize,    \* listings on a page
    MaxListed,   \* bound on the listings of a group
    MaxPages,    \* _MAX_SEARCH_PAGES
    Limit        \* --limit

ASSUME EnumerationAssumption ==
    /\ {Groups, PageSize, MaxPages, Limit} \subseteq Nat \ {0}
    /\ MaxListed \in Nat

VARIABLES
    catalogue,   \* the source: the listings of every group
    pc,          \* "search" a group, get the next "page", "done", "raised"
    group,       \* the group at hand
    request,     \* the page to ask for
    visited,     \* visited_page_urls
    pages_seen,  \* of the group
    previous,    \* previous_page_number and previous_record_end, 0 for None
    tracked,     \* SearchPageTracker._source_ids
    records,     \* the unique listings so far
    duplicates,  \* duplicate_listings
    truncated,
    read,        \* history: the listings read, with their group
    steady, owed \* history: see Steady below

paging == <<request, visited, pages_seen, previous, tracked>>
vars == <<catalogue, pc, group, request, visited, pages_seen, previous, tracked,
          records, duplicates, truncated, read, steady, owed>>

GroupIds == 1..Groups

\* What one group can list: no auction number twice.
Listable(list) ==
    \A i, j \in DOMAIN list : list[i].source_id = list[j].source_id => i = j

Catalogues == {list \in SeqOf(Listings, MaxListed) : Listable(list)}

\* prepare_open_auction_search has found the groups.
Init ==
    /\ catalogue \in [GroupIds -> Catalogues]
    /\ pc = "search" /\ group = 1
    /\ request = 0 /\ visited = {} /\ pages_seen = 0
    /\ previous = [page |-> 0, record_end |-> 0] /\ tracked = {}
    /\ records = {} /\ duplicates = 0 /\ truncated = FALSE
    /\ read = {} /\ steady = {} /\ owed = {}

-----------------------------------------------------------------------------
(* The source                                                              *)

\* A page with its range of records, and the page its next-page link leads
\* to (0 for none).
SourcePage(list, p) ==
    LET first == (p - 1) * PageSize + 1
        last == IF p * PageSize < Len(list) THEN p * PageSize ELSE Len(list)
    IN  [records |-> SubSeq(list, first, last), ranged |-> TRUE, current_page |-> p,
         record_start |-> first, record_end |-> last, total_records |-> Len(list),
         next |-> IF last < Len(list) THEN p + 1 ELSE 0]

\* "There were no results for the specified search."
EmptyPage ==
    [records |-> <<>>, ranged |-> FALSE, current_page |-> 0, record_start |-> 0,
     record_end |-> 0, total_records |-> 0, next |-> 0]

\* The page asked for.  Beyond the end, nothing or some page that is there.
Shown(list, p) ==
    LET count == (Len(list) + PageSize - 1) \div PageSize
    IN  IF p <= count THEN {SourcePage(list, p)}
        ELSE {EmptyPage} \cup {SourcePage(list, q) : q \in 1..count}

\* A page may be garbled, in its range, its rows, its total or its link.  (A
\* list of one page may well be shown without a range.)
Garbled(page) ==
    {[page EXCEPT !.ranged = FALSE], [page EXCEPT !.records = Tail(@)],
     [page EXCEPT !.total_records = page.record_end], [page EXCEPT !.next = 0],
     [page EXCEPT !.next = page.current_page + 1]}

Answers(list, p) ==
    Shown(list, p) \cup UNION {Garbled(page) : page \in Shown(list, p) \ {EmptyPage}}

\* A listing appears in a group that has yet to be read, or is being read ...
Appears(g, i, listing) ==
    /\ pc \in {"search", "page"} /\ g >= group
    /\ Len(catalogue[g]) < MaxListed /\ i <= Len(catalogue[g]) + 1
    /\ Listable(InsertAt(catalogue[g], i, listing))
    /\ catalogue' = [catalogue EXCEPT ![g] = InsertAt(@, i, listing)]
    /\ UNCHANGED <<pc, group, paging, records, duplicates, truncated, read, steady, owed>>

\* ... or closes, and those behind it move up.
Closes(g, i) ==
    /\ pc \in {"search", "page"} /\ g >= group
    /\ i \in DOMAIN catalogue[g]
    /\ catalogue' = [catalogue EXCEPT ![g] = RemoveAt(@, i)]
    /\ steady' = IF g = group /\ pc = "page"
                 THEN steady \ Range(SubSeq(catalogue[g], i, Len(catalogue[g]))) ELSE steady
    /\ UNCHANGED <<pc, group, paging, records, duplicates, truncated, read, owed>>

-----------------------------------------------------------------------------
(* parse_search_results                                                    *)

\* Fault: the end of the range is not compared with the next-page link.
FaultLinkUnchecked(page) ==
    /\ page.record_start <= page.record_end
    /\ page.record_end <= page.total_records
    /\ page.current_page = 1 => page.record_start = 1
    /\ Len(page.records) = page.record_end - page.record_start + 1

\* _validate_pagination; next_request_url is the link of page current_page + 1,
\* so its page number is known and advances.
ValidPagination(page) ==
    /\ page.record_start <= page.record_end
    /\ page.record_end <= page.total_records
    /\ page.current_page = 1 => page.record_start = 1
    /\ Len(page.records) = page.record_end - page.record_start + 1
    /\ page.record_end = page.total_records <=> page.next = 0

\* Also: rows, unless the page says there are none, unique source ids, and no
\* links on a page without a range.
ParserAccepts(page) ==
    \/ page = EmptyPage
    \/ /\ page.records # <<>>
       /\ Listable(page.records)
       /\ IF page.ranged THEN ValidPagination(page) ELSE page.next = 0

-----------------------------------------------------------------------------
(* add_search_record, for each record until the limit is reached           *)

\* The groups disagree about a listing's URL, or reuse one.
Disagrees(known, record) ==
    \E k \in known : (k.source_id = record.source_id) # (k.url = record.url)

\* The unique listings once the first k records of the page have been added.
Known(page, k) == records \cup {page.records[i] : i \in 1..k}

\* add_search_record says that the limit is reached.
AtLimit(page, k) == k > 0 /\ Cardinality(Known(page, k)) >= Limit

\* _add_unique_search_record raises an error for the record after those.
Refused(page, k) ==
    k < Len(page.records) /\ Disagrees(Known(page, k), page.records[k + 1])

\* The loop over the records ends after k of them.
LoopEnds(page, k) ==
    LET Ends(j) == AtLimit(page, j) \/ Refused(page, j) \/ j = Len(page.records)
    IN  Ends(k) /\ \A j \in 0..(k - 1) : ~Ends(j)

-----------------------------------------------------------------------------
(* _collect_search_records_from_page                                       *)

\* Fault: pages may overlap.
FaultOverlap(page) ==
    page.ranged => /\ page.current_page > previous.page
                   /\ page.record_start > previous.record_end

\* The page is later than the one before, and SearchPageTracker.add finds no
\* source id of an earlier page (so no page repeated as a whole either).
Advances(page) ==
    /\ page.ranged => /\ page.current_page > previous.page
                      /\ page.record_start > previous.record_end
    /\ \A i \in DOMAIN page.records : page.records[i].source_id \notin tracked

\* An exception: the enumeration is over, and with it the run.
Raise ==
    /\ pc' = "raised"
    /\ UNCHANGED <<catalogue, group, paging, records, duplicates, truncated, read, steady, owed>>

\* The cap proves nothing about what is left.
TruncatedBy(at_limit) == truncated \/ at_limit

\* The group is done.  The next one is not searched once the limit is reached.
EndGroup(present, at_limit) ==
    /\ truncated' = TruncatedBy(at_limit)
    /\ group' = group + 1
    /\ pc' = IF at_limit \/ group = Groups THEN "done" ELSE "search"
    /\ request' = 0 /\ visited' = {} /\ pages_seen' = 0 /\ tracked' = {}
    /\ previous' = [page |-> 0, record_end |-> 0]
    /\ steady' = {} /\ owed' = owed \cup present

NextPage(present, page) ==
    /\ pc' = "page"
    /\ request' = page.next
    /\ visited' = visited \cup {request}
    /\ pages_seen' = pages_seen + 1
    /\ previous' = [page |-> page.current_page, record_end |-> page.record_end]
    /\ tracked' = tracked \cup {page.records[i].source_id : i \in DOMAIN page.records}
    /\ steady' = present
    /\ UNCHANGED <<group, truncated, owed>>

\* Fault: the page after the last one allowed is read too.
FaultOnePageMore == pages_seen >= MaxPages

\* There is a next page, and no page left of _MAX_SEARCH_PAGES.
PagesExceeded == pages_seen + 1 >= MaxPages

\* What the loop makes of the page, and of its first k records.
Digest(page, k) ==
    LET present == IF pc = "search" THEN Range(catalogue[group]) ELSE steady
        at_limit == AtLimit(page, k)
        more == page.ranged /\ page.next # 0
    IN  IF \/ request \in visited
           \/ ~ParserAccepts(page)
           \/ ~Advances(page)
           \/ ~at_limit /\ (Refused(page, k) \/ (more /\ PagesExceeded))
        THEN Raise
        ELSE /\ records' = Known(page, k)
             /\ duplicates' = duplicates
                    + Cardinality({i \in 1..k : page.records[i] \in Known(page, i - 1)})
             /\ read' = read \cup {<<group, page.records[i]>> : i \in 1..k}
             /\ IF more /\ ~at_limit THEN NextPage(present, page) ELSE EndGroup(present, at_limit)
             /\ UNCHANGED catalogue

\* Fault: the enumeration starts again.
FaultStartAgain ==
    /\ pc \in {"search", "page"}
    /\ pc' = "search" /\ group' = 1
    /\ request' = 0 /\ visited' = {} /\ pages_seen' = 0 /\ tracked' = {}
    /\ previous' = [page |-> 0, record_end |-> 0]
    /\ records' = {} /\ duplicates' = 0 /\ read' = {} /\ steady' = {} /\ owed' = {}
    /\ UNCHANGED <<catalogue, truncated>>

\* The client gives up, or the page is not a results page at all.
Fail ==
    /\ pc \in {"search", "page"}
    /\ Raise

-----------------------------------------------------------------------------
Change ==
    \/ \E g \in GroupIds, i \in 1..MaxListed, listing \in Listings : Appears(g, i, listing)
    \/ \E g \in GroupIds, i \in 1..MaxListed : Closes(g, i)

\* search_product_group, or client.get of the next page
Read ==
    /\ pc \in {"search", "page"}
    /\ \E page \in Answers(catalogue[group], IF pc = "search" THEN 1 ELSE request) :
        \E k \in 0..Len(page.records) : LoopEnds(page, k) /\ Digest(page, k)

Enumerate == Read \/ Fail

Next == Change \/ Enumerate

Spec == Init /\ [][Next]_vars

\* The thread of the command runs; the client ends every request (TaskEnds of
\* AuctionClient).
FairSpec == Spec /\ WF_vars(Enumerate)

-----------------------------------------------------------------------------
(* Properties                                                              *)

\* enumeration_complete of the result
Complete == pc = "done" /\ ~truncated /\ group = Groups + 1

\* The locals of the two loops; pages_seen respects _MAX_SEARCH_PAGES.
TypeOK ==
    /\ catalogue \in [GroupIds -> Catalogues]
    /\ pc \in {"search", "page", "done", "raised"}
    /\ group \in 1..(Groups + 1)
    /\ request \in Nat /\ visited \subseteq Nat
    /\ pages_seen \in 0..(MaxPages - 1)
    /\ previous \in [page: Nat, record_end: Nat]
    /\ tracked \subseteq {l.source_id : l \in Listings}
    /\ records \subseteq Listings /\ Cardinality(records) <= Limit
    /\ duplicates \in Nat /\ truncated \in BOOLEAN
    /\ read \subseteq GroupIds \X Listings
    /\ steady \subseteq Listings /\ owed \subseteq Listings

\* What a complete enumeration is worth, although the source changes between
\* the pages and may garble one: it has every listing that was in its group
\* from the first page of the group to its last, unless a listing ahead of it
\* was removed meanwhile.  A complete run counts an absence against the open
\* items it has not seen, so such a removal is the only way it can be wrong
\* about a listing that stayed where it was.
EnumerationSound == Complete => owed \subseteq records

\* duplicate_listings counts listings shown by several groups and nothing
\* else: a listing that a new one pushed from one page to the next is never
\* taken for a duplicate (nor twice for a listing).
DuplicatesAcrossGroups ==
    pc # "raised" => Cardinality(read) = Cardinality(records) + duplicates

\* However the source changes, the enumeration ends.
EnumerationEnds == <>(pc \in {"done", "raised"})

=============================================================================
