------------------------ MODULE MCSearchEnumeration ------------------------
(***************************************************************************)
(* A finite instance of SearchEnumeration for TLC.                         *)
(***************************************************************************)
EXTENDS SearchEnumeration

\* Three listings, and an auction number shown with another's URL.
MCListings ==
    {[source_id |-> "A1", url |-> "u1"], [source_id |-> "A2", url |-> "u2"],
     [source_id |-> "A3", url |-> "u3"], [source_id |-> "A4", url |-> "u3"]}

=============================================================================
