---------------------------- MODULE TagAnalytics ----------------------------
(***************************************************************************)
(* The tag endpoints: the graph of tags that occur on one work together    *)
(* and its sensitivity to the least number of such works                   *)
(* (analytics/tag_associations.py, analytics/tag_sensitivity.py,           *)
(* api/tag_analytics.py).  Every answer is cut to a limit, so whether the  *)
(* thresholds can be compared rests on the order of the edges.             *)
(***************************************************************************)
EXTENDS AuthorAnalytics

CONSTANTS
    SampleWorkLimit, \* sample_work_limit
    MaxTagsPerWork,  \* MAX_TAGS_PER_WORK
    MaxEdgeLimit,    \* MAX_EDGE_LIMIT
    CandidateLimit,  \* candidate_limit
    Thresholds       \* DEFAULT_COOCCURRENCE_THRESHOLDS

TagAssumption ==
    /\ MaxTagsPerWork \in Nat
    /\ {SampleWorkLimit, MaxEdgeLimit, CandidateLimit} \subseteq Nat \ {0}
    /\ CandidateLimit <= MaxEdgeLimit
    \* _validate_thresholds
    /\ Thresholds \in Seq(Nat \ {0}) /\ Thresholds # <<>> /\ Thresholds[1] = 1
    /\ \A i, j \in DOMAIN Thresholds : i < j => Thresholds[i] < Thresholds[j]
ASSUME TagAssumption

NoAnchor == {}

\* _load_sampled_works: the last works, all created at one time, by id.
SampledWorks ==
    {w \in DOMAIN works :
        Cardinality({v \in DOMAIN works : works[v].id > works[w].id}) < SampleWorkLimit}

\* _ratio_basis_points
RatioBasisPoints(n, d) == IF d <= 0 THEN 0 ELSE BasisPoints(n, d)

\* One pair of tags.  The PMI is the logarithm of lift[1] / lift[2]; samples this
\* small have no two lifts that its rounding to milli-bits makes equal.
Edge(W, l, r) ==
    LET both == Cardinality(Tagged(W, l) \cap Tagged(W, r))
        left == Cardinality(Tagged(W, l))
        right == Cardinality(Tagged(W, r))
    IN  [left |-> l, right |-> r, both |-> both,
         support |-> RatioBasisPoints(both, Cardinality(W)),
         jaccard |-> RatioBasisPoints(both, left + right - both),
         lift |-> <<both * Cardinality(W), left * right>>]

EdgesOf(W) ==
    UNION {{e \in {Edge(W, TagNames[i], TagNames[j])} : i < j /\ e.both > 0} :
              i, j \in DOMAIN TagNames}

\* Mutant: the edges are ordered by their Jaccard index first.
EdgeBeforeByJaccard(e, f) ==
    LET key == <<f.jaccard - e.jaccard, f.both - e.both,
                 Position(e.left) - Position(f.left),
                 Position(e.right) - Position(f.right)>>
    IN  \E i \in DOMAIN key : key[i] < 0 /\ \A j \in 1 .. i - 1 : key[j] = 0

\* edges.sort: by works, Jaccard and PMI, all descending, then by names.
EdgeBefore(e, f) ==
    LET key == <<f.both - e.both, f.jaccard - e.jaccard,
                 f.lift[1] * e.lift[2] - e.lift[1] * f.lift[2],
                 Position(e.left) - Position(f.left),
                 Position(e.right) - Position(f.right)>>
    IN  \E i \in DOMAIN key : key[i] < 0 /\ \A j \in 1 .. i - 1 : key[j] = 0

\* build_tag_association_graph, of the pairs E that some work has.
AssociationGraph(E, anchor, minimum, limit) ==
    LET edges == {e \in E :
                     /\ e.both >= minimum
                     /\ anchor = NoAnchor \/ anchor \cap {e.left, e.right} # {}}
        sorted == Ranked(edges, LAMBDA e, f : e = f \/ EdgeBefore(e, f))
    IN  [eligible |-> Len(sorted), truncated |-> Len(sorted) > limit,
         edges |-> SubSeq(sorted, 1, Min({limit, Len(sorted)}))]

EdgeKeys(graph) == {<<e.left, e.right>> : e \in Range(graph.edges)}

\* _retention_basis_points
Retention(baseline, current) ==
    IF baseline = {} THEN 0
    ELSE BasisPoints(Cardinality(baseline \cap current), Cardinality(baseline))

\* build_tag_association_sensitivity_report
SensitivityReport(E, anchor) ==
    LET graphs == [i \in DOMAIN Thresholds |->
                      AssociationGraph(E, anchor, Thresholds[i], MaxEdgeLimit)]
        keys == [i \in DOMAIN graphs |-> EdgeKeys(graphs[i])]
        baseline == graphs[1]
    IN  [points |-> [i \in DOMAIN graphs |->
             [eligible |-> graphs[i].eligible, returned |-> Len(graphs[i].edges),
              retention |-> Retention(keys[1], keys[i]),
              comparable |-> ~baseline.truncated /\ ~graphs[i].truncated]],
         candidates |->
             [n \in 1 .. Min({CandidateLimit, Len(baseline.edges)}) |->
                 LET e == baseline.edges[n] IN
                 [edge |-> e,
                  survives |-> {Thresholds[i] : i \in
                      {j \in DOMAIN Thresholds : <<e.left, e.right>> \in keys[j]}}]]]

\* A work may be projected with more tags than a graph takes: a sample with such
\* a work raises, whatever the anchor, and neither endpoint has an answer.
Answerable == \A w \in SampledWorks : Cardinality(links[w]) <= MaxTagsPerWork
Unavailable == [status |-> 503]

\* The endpoints /analytics/tags/co-occurrence and /association-sensitivity.
TagCooccurrence(anchor, minimum, limit) ==
    IF Answerable THEN AssociationGraph(EdgesOf(SampledWorks), anchor, minimum, limit)
    ELSE Unavailable

TagAssociationSensitivity(anchor) ==
    IF Answerable THEN SensitivityReport(EdgesOf(SampledWorks), anchor)
    ELSE Unavailable
-----------------------------------------------------------------------------
(* Properties *)

\* When there are answers, and however they are cut, raising the threshold only
\* takes edges away: what a threshold returns the baseline returned, so the share
\* retained is that of the edges returned and never rises, and a candidate
\* survives exactly the thresholds up to its number of works
\* (tag_sensitivity.py:88).  The candidates are the first edges of the
\* co-occurrence endpoint's answer, whatever its limit.  No edge counts more
\* works than the detail of either tag, and with one tag as the anchor the graph
\* has the edges of that tag and no other.
SensitivityIsNested ==
    Answerable => \A anchor \in {NoAnchor} \cup {{t} : t \in Range(tags)} :
        LET report == TagAssociationSensitivity(anchor)
            points == report.points
            candidates == report.candidates
            graph == TagCooccurrence(anchor, 1, CandidateLimit)
        IN
        /\ \A i \in DOMAIN points :
               /\ i > 1 => points[i].retention <= points[i - 1].retention
               /\ points[i].retention = Retention(1 .. points[1].returned,
                                                  1 .. points[i].returned)
        /\ graph.edges = [n \in DOMAIN candidates |-> candidates[n].edge]
        /\ \A c \in Range(candidates) :
               /\ c.survives = {h \in Range(Thresholds) : h <= c.edge.both}
               /\ c.edge.both <= TagDetail(c.edge.left)
               /\ c.edge.both <= TagDetail(c.edge.right)
               /\ anchor \subseteq {c.edge.left, c.edge.right}
=============================================================================
