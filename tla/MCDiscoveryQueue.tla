-------------------------- MODULE MCDiscoveryQueue --------------------------
(* Instances of DiscoveryQueue for TLC. *)
EXTENDS DiscoveryQueue, TLC

CONSTANTS n1, n2, n3

ThreeNovels == {n1, n2, n3}

\* n1 is on the channel's ranking, n2 only in its catalog, and n3 comes into the
\* queue when a cohort is uploaded: three records for a batch of two.
RankedAndListed == n1 :> 100 @@ n2 :> 50 @@ n3 :> 0
=============================================================================
