---------------------- MODULE MCRepositoryTransactions ----------------------
(***************************************************************************)
(* Finite instances of RepositoryTransactions for TLC.                     *)
(***************************************************************************)
EXTENDS RepositoryTransactions, FiniteSets, TLC

CONSTANTS w1, w2, s1, s2, MaxObservations

MCStatusOf == [h \in ObservationHashes |->
                CASE h = 1 -> "open" [] h = 2 -> "closed" [] OTHER -> "withdrawn"]

MCLocationOf == [m \in MetadataHashes |-> None]

MCOwnsDisjoint == (w1 :> {s1}) @@ (w2 :> {s2})
MCOwnsShared == [w \in Writers |-> SourceIds]

MCCoverages ==
    {[expected_product_groups |-> 1, processed_product_groups |-> 1,
      unique_listings_enumerated |-> 0, detail_attempted |-> 0, detail_succeeded |-> 0,
      persistence_succeeded |-> 0, persistence_failures |-> 0, enumeration_complete |-> FALSE]}

MCCounts == {"counts"}

\* Sound where the writers own the same items.
InterchangeableWriters == Permutations(Writers)

Bounded == Cardinality(observations) <= MaxObservations

=============================================================================
