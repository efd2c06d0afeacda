---------------------------- MODULE MCCatalogApi ----------------------------
(* Instances of the paged listings for TLC, over the catalogs of MCCatalog. *)
EXTENDS MCCatalog, CatalogApi

Listings ==
    {[list |-> "sources", arg |-> Work], [list |-> "observations", arg |-> w1],
     [list |-> "schemas"], [list |-> "runs", arg |-> "completed"],
     [list |-> "tasks", arg |-> 1], [list |-> "quarantine"],
     [list |-> "works", arg |-> {t1}], [list |-> "tags"], [list |-> "authors"],
     [list |-> "history", arg |-> w1], [list |-> "rank_works", arg |-> "likes"],
     [list |-> "rank_authors", arg |-> "likes"], [list |-> "rank_by_works"]}

Averages == {[list |-> "rank_averages", arg |-> "likes"]}
=============================================================================
