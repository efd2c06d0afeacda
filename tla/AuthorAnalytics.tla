-------------------------- MODULE AuthorAnalytics --------------------------
(***************************************************************************)
(* What the analytics endpoints compute from the catalog: daily trends,    *)
(* matched-cohort growth, profiles, the quality map and the influence      *)
(* ranking (api/author_analytics.py, analytics/author_influence.py) and    *)
(* the plain details and aggregates (api/catalog_api.py, api/detail_api.py).*)
(* Each is one function of the tables.  Sessions read at READ COMMITTED,   *)
(* and some answers take several statements: the functions say what is     *)
(* answered while no command commits in between.  The properties relate    *)
(* endpoints that count the same rows in different ways, over every        *)
(* catalog the ingest commands can produce.                                *)
(***************************************************************************)
EXTENDS Catalog

CONSTANTS
    DayLength,   \* ticks of observed_at in one UTC day
    TagNames,    \* the tags, in the order of their names
    ProfileTagLimit, \* tags a profile lists (10)
    SampleLimit, \* limit of the samples of the quality map and the influence ranking
    Weights      \* influence weights: bookmark, like, production

FullShare == 10000   \* basis points of a whole

AnalyticsAssumption ==
    /\ DayLength \in Nat \ {0}
    /\ TagNames \in Seq(Range(TagNames))
    /\ \A b \in Payload : Range(b.tags) \subseteq Range(TagNames)
    /\ {ProfileTagLimit, SampleLimit} \subseteq Nat \ {0}
    /\ Weights \in [{"bookmark", "like", "production"} -> 0 .. FullShare]
    /\ Weights.bookmark + Weights.like + Weights.production = FullShare
ASSUME AnalyticsAssumption

WorksOf(a) == {w \in DOMAIN works : works[w].obs.body.author = a}
CountOf(w, k) == works[w].obs.body.count[k]

\* COUNT(metric) and COALESCE(SUM(metric), 0) over the works of an author.
Coverage(W, k) == Cardinality({w \in W : CountOf(w, k) # Null})
Total(W, k) ==
    SumFunctionOnSet([w \in W |-> CountOf(w, k)], {w \in W : CountOf(w, k) # Null})

\* _covered_total
CoveredTotal(coverage, total) == IF coverage > 0 THEN total ELSE Null

\* _basis_points, _signed_basis_points: rounded half away from zero.
BasisPoints(n, d) == (n * FullShare + d \div 2) \div d
SignedBasisPoints(n, d) ==
    IF n >= 0 THEN BasisPoints(n, d) ELSE -BasisPoints(-n, d)
-----------------------------------------------------------------------------
(* Details *)

\* work_detail
WorkDetail(w) == [author |-> works[w].obs.body.author,
                  count |-> works[w].obs.body.count, tags |-> links[w]]

\* author_detail, and the row of list_author_aggregates
AuthorDetail(a) ==
    [works |-> Cardinality(WorksOf(a)),
     total |-> [k \in Metric |-> Total(WorksOf(a), k)]]

Tagged(W, t) == {w \in W : t \in links[w]}

\* tag_name, as the tables order it
Position(t) == CHOOSE i \in DOMAIN TagNames : TagNames[i] = t

\* tag_detail, and the row of list_tag_aggregates
TagDetail(t) == Cardinality(Tagged(DOMAIN works, t))

\* catalog_freshness
Freshness ==
    [latest |-> IF snaps = <<>> THEN Null
                ELSE Max({snaps[i].at : i \in 1 .. Len(snaps)}),
     authors |-> Cardinality(DOMAIN authors), works |-> Cardinality(DOMAIN works),
     tags |-> Len(tags), snapshots |-> Len(snaps)]

\* _complete_rate: only when every work shows both counts.
CompleteRate(W, k) ==
    IF \/ W = {} \/ Total(W, "views") = 0
       \/ \E w \in W : Null \in {CountOf(w, "views"), CountOf(w, k)}
    THEN Null ELSE BasisPoints(Total(W, k), Total(W, "views"))

\* Mutant: the tags with the fewest works come first.
TopTagsAscending(W) ==
    LET size(t) == Cardinality(Tagged(W, t))
        rows == Ranked({t \in Range(tags) : Tagged(W, t) # {}},
                    LAMBDA t, u : \/ size(t) < size(u)
                                  \/ size(t) = size(u) /\ Position(t) <= Position(u))
    IN  [i \in 1 .. Min({ProfileTagLimit, Len(rows)}) |->
            [tag |-> rows[i], works |-> size(rows[i])]]

\* The tags of the most works among W, equals by name; no two tags share a name.
TopTags(W) ==
    LET size(t) == Cardinality(Tagged(W, t))
        rows == Ranked({t \in Range(tags) : Tagged(W, t) # {}},
                    LAMBDA t, u : \/ size(t) > size(u)
                                  \/ size(t) = size(u) /\ Position(t) <= Position(u))
    IN  [i \in 1 .. Min({ProfileTagLimit, Len(rows)}) |->
            [tag |-> rows[i], works |-> size(rows[i])]]

\* author_analytics_profile: the author, the totals and the tags are three
\* statements.  A tag's share is BasisPoints of its works in all of them.
AuthorProfile(a) ==
    LET W == WorksOf(a) IN
    [works |-> Cardinality(W),
     total |-> [k \in Metric |-> CoveredTotal(Coverage(W, k), Total(W, k))],
     rate |-> [k \in {"bookmarks", "likes"} |-> CompleteRate(W, k)],
     tags |-> TopTags(W)]
-----------------------------------------------------------------------------
(* Trends and growth *)

Day(t) == t \div DayLength
Days == {Day(snaps[i].at) : i \in 1 .. Len(snaps)}

SnapsOn(w, d) ==
    {i \in 1 .. Len(snaps) : snaps[i].source = w /\ Day(snaps[i].at) = d}
SeenOn(W, d) == {w \in W : SnapsOn(w, d) # {}}

\* daily_rank = 1: the last snapshot of a work on a day, by time and then id.
Daily(w, d, k) ==
    LET last == CHOOSE i \in SnapsOn(w, d) :
                    \A j \in SnapsOn(w, d) :
                        \/ snaps[j].at < snaps[i].at
                        \/ snaps[j].at = snaps[i].at /\ j <= i
    IN  snaps[last].body.count[k]

CoveredOn(W, d, k) == {w \in SeenOn(W, d) : Daily(w, d, k) # Null}
DailyTotal(W, d, k) == SumFunctionOnSet([w \in W |-> Daily(w, d, k)], W)
TotalOn(W, d, k) == DailyTotal(CoveredOn(W, d, k), d, k)

\* list_metric_trends: a day without a snapshot has no item.
MetricTrends ==
    [d \in Days |->
        [works |-> Cardinality(SeenOn(DOMAIN works, d)),
         total |-> [k \in Metric |-> TotalOn(DOMAIN works, d, k)]]]

\* Mutant: every snapshot of the day is counted.
AuthorMetricTrendsAll(a) ==
    [d \in {e \in Days : SeenOn(WorksOf(a), e) # {}} |->
        [works |-> MapThenSumSet(LAMBDA w : Cardinality(SnapsOn(w, d)),
                                 SeenOn(WorksOf(a), d)),
         coverage |-> [k \in Metric |-> Cardinality(CoveredOn(WorksOf(a), d, k))],
         total |-> [k \in Metric |->
                       CoveredTotal(Cardinality(CoveredOn(WorksOf(a), d, k)),
                                    TotalOn(WorksOf(a), d, k))]]]

\* author_metric_trends, where total is Null without coverage.
AuthorMetricTrends(a) ==
    [d \in {e \in Days : SeenOn(WorksOf(a), e) # {}} |->
        [works |-> Cardinality(SeenOn(WorksOf(a), d)),
         coverage |-> [k \in Metric |-> Cardinality(CoveredOn(WorksOf(a), d, k))],
         total |-> [k \in Metric |->
                       CoveredTotal(Cardinality(CoveredOn(WorksOf(a), d, k)),
                                    TotalOn(WorksOf(a), d, k))]]]

\* The works seen on both days, and those that show the metric on both.
Matched(a, d1, d2) == SeenOn(WorksOf(a), d1) \cap SeenOn(WorksOf(a), d2)

Complete(a, d1, d2, k) ==
    CoveredOn(WorksOf(a), d1, k) \cap CoveredOn(WorksOf(a), d2, k)

\* _metric_cohort_growth
MetricCohortGrowth(complete, start, end) ==
    IF complete = 0
    THEN [complete |-> 0, start |-> Null, change |-> Null, growth |-> Null]
    ELSE [complete |-> complete, start |-> start, change |-> end - start,
          growth |-> IF start > 0 THEN SignedBasisPoints(end - start, start)
                     ELSE Null]

\* author_cohort_growth
Growth(a, d1, d2) ==
    LET S == SeenOn(WorksOf(a), d1)
        E == SeenOn(WorksOf(a), d2)
        metric(k) ==
            LET C == Complete(a, d1, d2, k) IN
            MetricCohortGrowth(Cardinality(C),
                               DailyTotal(C, d1, k), DailyTotal(C, d2, k))
    IN  [start |-> Cardinality(S), end |-> Cardinality(E),
         matched |-> Cardinality(Matched(a, d1, d2)),
         start_only |-> Cardinality(S \ E), end_only |-> Cardinality(E \ S),
         metric |-> [k \in Metric |-> metric(k)]]
-----------------------------------------------------------------------------
(* Samples of authors *)

Average(a, k) == (Total(WorksOf(a), k) * 100) \div Coverage(WorksOf(a), k)

\* sorted(values)
Ascending(s) ==
    LET at == Ranked(1 .. Len(s),
                     LAMBDA i, j : s[i] < s[j] \/ (s[i] = s[j] /\ i <= j))
    IN  [k \in 1 .. Len(s) |-> s[at[k]]]

\* Mutant: the two middle values of an even sample are added, not averaged.
MedianScaledSum(s) ==
    LET n == Len(s)
        o == Ascending(s)
    IN  IF n = 0 THEN 0
        ELSE IF n % 2 = 1 THEN o[n \div 2 + 1] ELSE o[n \div 2] + o[n \div 2 + 1]

\* _median_scaled, with the mean of the middle two rounded down.
MedianScaled(s) ==
    LET n == Len(s)
        o == Ascending(s)
    IN  IF n = 0 THEN 0
        ELSE IF n % 2 = 1 THEN o[n \div 2 + 1]
        ELSE (o[n \div 2] + o[n \div 2 + 1]) \div 2

\* classify_author_quality
Quadrant(volume, quality) ==
    CASE volume /\ quality -> "core"
      [] ~volume /\ quality -> "boutique"
      [] volume /\ ~quality -> "volume"
      [] OTHER -> "ordinary"

\* author_quality_map: the authors with the most works among those that show a
\* bookmark count at all, each against the medians of that sample.
QualityMap ==
    LET eligible == {a \in DOMAIN authors : Coverage(WorksOf(a), "bookmarks") > 0}
        size(a) == Cardinality(WorksOf(a))
        rows == Ranked(eligible,
                    LAMBDA a, b : \/ size(a) > size(b)
                                  \/ size(a) = size(b) /\ authors[a].id <= authors[b].id)
        sample == SubSeq(rows, 1, Min({SampleLimit, Len(rows)}))
        volume == MedianScaled([i \in 1 .. Len(sample) |-> size(sample[i]) * 100])
        quality == MedianScaled([i \in 1 .. Len(sample) |->
                                    Average(sample[i], "bookmarks")])
    IN  [a \in Range(sample) |->
            Quadrant(size(a) * 100 >= volume, Average(a, "bookmarks") >= quality)]

\* _relative_basis_points
RelativeBasisPoints(value, maximum) ==
    IF maximum = 0 THEN 0 ELSE BasisPoints(value, maximum)

InfluenceInput(a) ==
    [bookmark |-> Average(a, "bookmarks"), like |-> Average(a, "likes"),
     production |-> Cardinality(WorksOf(a))]

\* Mutant: the number of works is not taken relative to the sample's maximum.
ScoreOneAbsolute(x, top) ==
    (RelativeBasisPoints(x.bookmark, top.bookmark) * Weights.bookmark
        + RelativeBasisPoints(x.like, top.like) * Weights.like
        + x.production * FullShare * Weights.production + FullShare \div 2) \div FullShare

\* _score_one
ScoreOne(x, top) ==
    (RelativeBasisPoints(x.bookmark, top.bookmark) * Weights.bookmark
        + RelativeBasisPoints(x.like, top.like) * Weights.like
        + RelativeBasisPoints(x.production, top.production) * Weights.production
        + FullShare \div 2) \div FullShare

\* The first authors, by id, all of whose works show bookmarks and likes.
InfluenceSample ==
    LET eligible == {a \in DOMAIN authors :
            /\ WorksOf(a) # {}
            /\ \A k \in {"bookmarks", "likes"} :
                   Coverage(WorksOf(a), k) = Cardinality(WorksOf(a))}
    IN  {a \in eligible :
            Cardinality({b \in eligible : authors[b].id < authors[a].id}) < SampleLimit}

\* score_author_influence, as author_influence_ranking calls it.
Influence ==
    LET top == [c \in {"bookmark", "like", "production"} |->
                   Max({InfluenceInput(a)[c] : a \in InfluenceSample})]
    IN  [a \in InfluenceSample |-> ScoreOne(InfluenceInput(a), top)]
-----------------------------------------------------------------------------
(* Properties *)

\* Endpoints that count the same rows agree when no command commits between
\* their statements: the freshness time is that of the newest work row, so no
\* replay makes the catalog look fresher than its rows; an author's detail has
\* the totals of the profile and of the works' own details.  The list of a
\* profile's tags is cut at its limit, and what it shows stands for what it does
\* not: a tag has as many works as the works' details show, and one that is
\* left out has none, or the list is full of tags that have no fewer.  A tag's
\* detail counts these works over all authors (author_analytics.py:446,
\* catalog_api.py:455).
ViewsReconcile ==
    LET profile == [a \in DOMAIN authors |-> AuthorProfile(a)]
        tagged(a, t) == Cardinality({w \in DOMAIN works :
                            WorkDetail(w).author = a /\ t \in WorkDetail(w).tags})
    IN
    /\ DOMAIN works # {} =>
           Freshness.latest = Max({works[w].obs.at : w \in DOMAIN works})
    /\ \A a \in DOMAIN authors, k \in Metric :
           /\ AuthorDetail(a).works = profile[a].works
           /\ profile[a].total[k] \in {Null, AuthorDetail(a).total[k]}
           /\ profile[a].total[k] = Null =>
                  \A w \in DOMAIN works :
                      WorkDetail(w).author = a => WorkDetail(w).count[k] = Null
    /\ \A a \in DOMAIN authors, t \in Range(tags) :
           LET top == profile[a].tags IN
           \/ \E i \in DOMAIN top : top[i] = [tag |-> t, works |-> tagged(a, t)]
           \/ tagged(a, t) = 0
           \/ /\ Len(top) = ProfileTagLimit
              /\ \A i \in DOMAIN top : top[i].tag # t /\ tagged(a, t) <= top[i].works
    /\ \A t \in Range(tags) :
           TagDetail(t) = SumFunctionOnSet([a \in DOMAIN authors |-> tagged(a, t)],
                                           DOMAIN authors)

\* The trends of the authors add up to the trend of the catalog, day by day, and
\* growth between two days counts the works these trends count: no work is
\* complete that was not covered on both days, and when all of them are, the
\* change is the difference of the two days' totals (author_analytics.py:749).
TrendsAddUp ==
    LET trend == [a \in DOMAIN authors |-> AuthorMetricTrends(a)]
        on(d) == {a \in DOMAIN authors : d \in DOMAIN trend[a]}
        seen(a, d) == IF d \in DOMAIN trend[a] THEN trend[a][d].works ELSE 0
    IN
    /\ \A d \in Days :
           /\ MetricTrends[d].works = SumFunctionOnSet([a \in on(d) |-> trend[a][d].works], on(d))
           /\ \A k \in Metric :
                  MetricTrends[d].total[k] =
                      SumFunctionOnSet([a \in on(d) |-> trend[a][d].total[k]],
                                       {a \in on(d) : trend[a][d].total[k] # Null})
    /\ \A a \in DOMAIN authors, d1, d2 \in Days :
           d1 < d2 =>
           LET g == Growth(a, d1, d2) IN
           /\ g.start = seen(a, d1) /\ g.end = seen(a, d2)
           /\ g.start_only + g.matched = g.start /\ g.end_only + g.matched = g.end
           /\ \A k \in Metric :
                  LET n == g.metric[k].complete IN
                  /\ n > 0 => /\ n <= trend[a][d1].coverage[k]
                              /\ n <= trend[a][d2].coverage[k]
                  /\ n > 0 /\ n = g.start /\ n = g.end =>
                         g.metric[k].change =
                             trend[a][d2].total[k] - trend[a][d1].total[k]

\* At least half of the authors on the quality map are high in volume, at least
\* half in quality, so the map is never empty of leaders: "classifies four
\* quadrants against medians calculated from the returned sample"
\* (phase4-author-analytics.md:50).
SampleIsHalved ==
    LET map == QualityMap
        high(S) == 2 * Cardinality({a \in DOMAIN map : map[a] \in S})
                       >= Cardinality(DOMAIN map)
    IN  high({"core", "volume"}) /\ high({"core", "boutique"})

\* An influence score is a share of 10000, one who leads in nothing is never above
\* one who is at least as good in everything, and the one who leads in all three
\* components has all of it (author_influence.py:109).
InfluenceIsMonotone ==
    LET score == Influence
        input == [a \in InfluenceSample |-> InfluenceInput(a)]
        covers(a, b) == \A c \in DOMAIN input[a] : input[a][c] >= input[b][c]
    IN
    \A a \in DOMAIN score :
        /\ score[a] \in 0 .. FullShare
        /\ \A b \in DOMAIN score : covers(a, b) => score[a] >= score[b]
        /\ (/\ \A b \in DOMAIN score : covers(a, b)
            /\ \A c \in DOMAIN input[a] : input[a][c] > 0)
           => score[a] = FullShare
=============================================================================
