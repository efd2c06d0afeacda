----------------------------- MODULE MCCatalog -----------------------------
(* Instances of the catalog and its analytics for TLC. *)
EXTENDS TagAnalytics

CONSTANTS w1, w2, w3, w4, w5, w6, a1, a2, g1, t1, t2, t3, t4

\* Two works of one author and one of another, an author's own record and a page,
\* which the projection skips.
ListedSources == <<w1, w2, w3, a1, g1>>

Counts(v, b, l) == [views |-> v, bookmarks |-> b, likes |-> l]
NoCounts == Counts(Null, Null, Null)
Body(s, shape, author, count, tagged) ==
    [id |-> s, shape |-> shape, author |-> author, count |-> count, tags |-> tagged]

First1 == Body(w1, "s1", a1, Counts(4, 1, 1), <<t1>>)
Later1 == Body(w1, "s2", a1, Counts(5, 3, 2), <<t2, t1>>)
First2 == Body(w2, "s1", a1, Counts(Null, 1, 1), <<t1, t2>>)
Later2 == Body(w2, "s1", a1, Counts(2, 0, Null), <<t4, t1, t2, t3>>)
Only3 == Body(w3, "s1", a2, Counts(3, 2, 1), <<t1, t4, t3>>)
Person == Body(a1, "s1", a1, NoCounts, <<>>)
Thing == Body(g1, "s3", a1, NoCounts, <<>>)

Bodies == {First1, Later1, First2, Later2, Only3, Person, Thing}

Got(b, t) == [body |-> b, at |-> t, code |-> "ok"]

\* Manifests of three times; days have two ticks, so 2 and 3 are of one day.
Manifests ==
    {(w1 :> Got(Later1, 2)) @@ (w2 :> Got(Later2, 2)),
     (w1 :> [Got(First1, 2) EXCEPT !.code = "missing"])
         @@ (w2 :> [Got(Later2, 2) EXCEPT !.code = "unreadable"]),
     (w1 :> Got(First1, 3)) @@ (w2 :> Got(First2, 1)),
     (w2 :> Got(First2, 3)) @@ (w3 :> Got(Only3, 1))
         @@ (a1 :> Got(Person, 2)) @@ (g1 :> Got(Thing, 2))}

\* No policy, a strict one and one that approves more; neither lets the page pass.
Policies ==
    {NoPolicy, [checked |-> TRUE, approves |-> {"s1"}, rejects |-> {"s3"}],
     [checked |-> TRUE, approves |-> {"s1", "s2"}, rejects |-> {}]}

NamedTags == <<t1, t2, t3, t4>>
FirstThresholds == <<1, 2, 3>>
DefaultWeights == [bookmark |-> 4375, like |-> 3750, production |-> 1875]

\* Two authors of three works each, with one like among the three.
SixSources == <<w1, w2, w3, w4, w5, w6>>
Liked(w, a, n) == Body(w, "s1", a, Counts(Null, Null, n), <<>>)
SixBodies ==
    {Liked(w1, a1, 1), Liked(w2, a1, 0), Liked(w3, a1, 0),
     Liked(w4, a2, 1), Liked(w5, a2, 0), Liked(w6, a2, 0)}
SixWorks ==
    {[w \in Work |-> Got(CHOOSE b \in SixBodies : b.id = w, 1)]}
=============================================================================
