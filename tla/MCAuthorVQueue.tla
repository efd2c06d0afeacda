--------------------------- MODULE MCAuthorVQueue ---------------------------
(* Instances of AuthorVQueue for TLC. *)
EXTENDS AuthorVQueue, TLC

CONSTANTS j1, n1, n2

\* One job with two novels.
OneJob == {j1}
BothNovels == j1 :> {n1, n2}

\* The first novel is observed anew once, the second is collected at most.
Versions == n1 :> 2 @@ n2 :> 1
=============================================================================
