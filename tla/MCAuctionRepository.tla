------------------------ MODULE MCAuctionRepository ------------------------
(***************************************************************************)
(* Finite instances of AuctionRepository for TLC.                          *)
(***************************************************************************)
EXTENDS AuctionRepository, FiniteSets, TLC

CONSTANTS
    MaxObservations,  \* bound on the size of the history
    MaxAbsences       \* bound on complete_absence_count

\* Four bid contents, one for each status; 1 < 2 < 3 < 4 is their hash order.
MCStatusOf == [h \in ObservationHashes |->
                CASE h = 1 -> "open" [] h = 2 -> "closed"
                  [] h = 3 -> "unknown" [] OTHER -> "withdrawn"]

\* Descriptive content "bare" has no location, the other one has one.
MCLocationOf == [m \in MetadataHashes |-> IF m = "bare" THEN None ELSE "victoria"]

Coverage(expected, processed, unique, attempted, details, persisted, failed, complete) ==
    [expected_product_groups |-> expected, processed_product_groups |-> processed,
     unique_listings_enumerated |-> unique, detail_attempted |-> attempted,
     detail_succeeded |-> details, persistence_succeeded |-> persisted,
     persistence_failures |-> failed, enumeration_complete |-> complete]

\* A complete run, and one with a listing that was not stored.
MCCoverages == {Coverage(2, 2, 1, 1, 1, 1, 0, TRUE), Coverage(2, 2, 1, 1, 1, 0, 1, TRUE)}

\* Only a truncated enumeration: the inventory stays out of this instance.
MCTruncated == {Coverage(2, 2, 1, 1, 1, 1, 0, FALSE)}

MCCounts == {"counts"}

\* Auction numbers, display documents and runs are interchangeable.
Interchangeable == Permutations(SourceIds) \cup Permutations(DisIds) \cup Permutations(RunIds)

Bounded ==
    /\ Cardinality(observations) <= MaxObservations
    /\ \A s \in DOMAIN inventory : inventory[s].complete_absence_count <= MaxAbsences

=============================================================================
