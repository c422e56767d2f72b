----------------------------- MODULE NewsStories -----------------------------
(***************************************************************************)
(* The news engine (news/engine.py, news/dedup.py): each fetch clusters    *)
(* what the feeds show into stories, each with the headline of its first   *)
(* article for an id, and flags re-runs of what earlier fetches told of.    *)
(*                                                                         *)
(* Abstractions.  A headline is its set of content words, after the outlet *)
(* furniture is gone.  Weights are in hundredths.  One unit of time is      *)
(* longer than the slack for misdated articles.  Classification, sentiment  *)
(* and importance are left out.                                             *)
(***************************************************************************)
EXTENDS Integers, Sequences, SequencesExt, FiniteSetsExt

CONSTANTS
    Outlets,      \* the feeds, in the order they are configured
    Undated,      \* outlets whose articles carry no date
    Words,        \* the headlines there are, each with its content words
    Copies,       \* what may be run: outlet, headline, and by how much its date lies ahead
    Logs,         \* 100 times the natural logarithm of 1, 2, ...
    Threshold,    \* _SIMILARITY_THRESHOLD, in percent
    LeastWeight,  \* _MIN_TOKEN_WEIGHT
    RecycleAfter, \* _RECYCLE_AFTER
    NewsAge,      \* max_age
    FeedLength,   \* articles a feed shows: its own, and max_items_per_feed
    KnownKept,    \* clusters an engine remembers: keep
    LastDay,      \* bound on time
    MostArticles  \* bound on articles

ASSUME NewsAssumption ==
    /\ Outlets \in Seq(STRING) /\ FeedLength \in Nat /\ KnownKept \in Nat
    /\ Copies \subseteq [outlet : DOMAIN Outlets, headline : DOMAIN Words, ahead : Nat]

\* day: the clock; feeds: newest first; known: what the engine remembers; events: of the
\* last fetch; told: every story the engine told of before the last fetch.
VARIABLE news

NewsInit ==
    news = [day |-> 0, feeds |-> [o \in DOMAIN Outlets |-> <<>>], articles |-> 0, known |-> <<>>,
            events |-> {}, told |-> {}]

\* An outlet runs a headline, perhaps with a date that lies ahead.
PublishArticle ==
    /\ news.articles < MostArticles
    /\ \E copy \in Copies :
           LET shown == <<[headline |-> copy.headline, at |-> news.day + copy.ahead]>>
                           \o news.feeds[copy.outlet]
           IN  news' = [news EXCEPT
                   !.articles = @ + 1,
                   !.feeds[copy.outlet] = SubSeq(shown, 1, Min({FeedLength, Len(shown)}))]

DayPasses == news.day < LastDay /\ news' = [news EXCEPT !.day = @ + 1]

\* A new process: an engine that remembers nothing.
NewEngine == news' = [news EXCEPT !.known = <<>>, !.told = {}, !.events = {}]

\* fetch_all: a feed that fails costs only its own articles.  What has no date is of now.
ShownItem(o, k) ==
    [source |-> o, place |-> k, headline |-> news.feeds[o][k].headline,
     at |-> IF Outlets[o] \in Undated THEN news.day ELSE news.feeds[o][k].at]
FetchedItems(answering) ==
    UNION {{ShownItem(o, k) : k \in DOMAIN news.feeds[o]} : o \in answering}

\* The order of a stable sort by time of what the feeds show one after the other.
NoLater(i, j) ==
    \/ i.at < j.at
    \/ i.at = j.at /\ (i.source < j.source \/ (i.source = j.source /\ i.place <= j.place))
UpToItem(items, i) == {j \in items : NoLater(j, i)}

\* What lies ahead is left out.
OldestFirst(items) ==
    LET usable == {i \in items : i.at <= news.day}
    IN  [k \in 1 .. Cardinality(usable) |->
            CHOOSE i \in usable : Cardinality(UpToItem(usable, i)) = k]

Frequency(items, word) == Cardinality({k \in DOMAIN items : word \in Words[items[k].headline]})

WordWeight(items, word) ==
    Max({LeastWeight, Logs[Len(items) + 1] - Logs[Frequency(items, word) + 1]})

\* What each word weighs; one the batch does not have, as much as its heaviest.
Weights(items) ==
    LET held == UNION {Words[items[k].headline] : k \in DOMAIN items}
        most == Max({WordWeight(items, v) : v \in held})
    IN  [w \in UNION Range(Words) |-> IF w \in held THEN WordWeight(items, w) ELSE most]

\* weighted_similarity as a fraction: what two signatures share, of what they have.
Similarity(weights, s, t) ==
    [shared |-> MapThenSumSet(LAMBDA w : weights[w], s \cap t),
     union  |-> MapThenSumSet(LAMBDA w : weights[w], s \cup t)]
Closer(f, g) == f.shared * g.union > g.shared * f.union
SameStory(f) == f.shared * 100 >= Threshold * f.union

JoinedStory(cluster, item) ==
    [cluster EXCEPT !.latest = item.at, !.outlets = @ \cup {item.source},
                    !.signature = @ \cup Words[item.headline]]

\* The first of the closest clusters takes the article if it is close enough, and its
\* signature grows; else the article opens a cluster under its own headline.
Assigned(weights, clusters, item) ==
    LET s == Words[item.headline]
        to   == [k \in DOMAIN clusters |-> Similarity(weights, s, clusters[k].signature)]
        best == {k \in DOMAIN clusters :
                    SameStory(to[k]) /\ \A j \in DOMAIN clusters : ~Closer(to[j], to[k])}
    IN  IF best = {}
        THEN Append(clusters, [id |-> item.headline, first |-> item.at, latest |-> item.at,
                               outlets |-> {item.source}, signature |-> s])
        ELSE [clusters EXCEPT ![Min(best)] = JoinedStory(@, item)]

Clusterings(weights, items) ==
    LET after[k \in 0 .. Len(items)] ==
            IF k = 0 THEN <<>> ELSE Assigned(weights, after[k - 1], items[k])
    IN  after
Clustered(weights, items) == Clusterings(weights, items)[Len(items)]

\* Cluster first, filter second: by the most recent coverage of the story.
Live(clusters) == {k \in DOMAIN clusters : clusters[k].latest >= news.day - NewsAge}

\* What is known and, after it, the live clusters; a cluster of an id already there only
\* brings its articles.
AllClusters(clusters) == news.known \o clusters
Places(clusters) == DOMAIN news.known \cup {Len(news.known) + k : k \in Live(clusters)}
Keepers(clusters) ==
    {p \in Places(clusters) : \A q \in Places(clusters) :
        q < p => AllClusters(clusters)[q].id # AllClusters(clusters)[p].id}
FirstOf(clusters, p) ==
    LET same == {q \in Places(clusters) : AllClusters(clusters)[q].id = AllClusters(clusters)[p].id}
    IN  Min({AllClusters(clusters)[q].first : q \in same})

\* The order of a stable sort by time, the newest first.
NoSooner(clusters, p, q) ==
    \/ FirstOf(clusters, p) > FirstOf(clusters, q)
    \/ FirstOf(clusters, p) = FirstOf(clusters, q) /\ p <= q
UpToPlace(clusters, p) == {q \in Keepers(clusters) : NoSooner(clusters, q, p)}

\* _remember: the newest first, and no more than are kept.
Remembered(clusters) ==
    [k \in 1 .. Min({KnownKept, Cardinality(Keepers(clusters))}) |->
        LET p == CHOOSE q \in Keepers(clusters) : Cardinality(UpToPlace(clusters, q)) = k
        IN  [id |-> AllClusters(clusters)[p].id, first |-> FirstOf(clusters, p),
             signature |-> AllClusters(clusters)[p].signature]]

IsRerun(weights, cluster, previous) ==
    /\ previous.id # cluster.id
    /\ SameStory(Similarity(weights, cluster.signature, previous.signature))
    /\ cluster.first - previous.first > RecycleAfter

\* Mutant of Reruns: remembers the batch before it looks for re-runs in it.
RerunsOfTheBatch(weights, clusters) ==
    {clusters[k].id : k \in {j \in Live(clusters) :
        \E p \in DOMAIN Remembered(clusters) :
            IsRerun(weights, clusters[j], Remembered(clusters)[p])}}

\* find_recycled: the ids of re-runs; clusters of one id share the flag.
Reruns(weights, clusters) ==
    {clusters[k].id : k \in {j \in Live(clusters) :
        \E p \in DOMAIN news.known : IsRerun(weights, clusters[j], news.known[p])}}

\* process: one batch, with the weights of its words.
Processed(items, weights) ==
    LET clusters == Clustered(weights, items)
        reruns   == Reruns(weights, clusters)
    IN  /\ Live(clusters) # {}
        /\ news' = [news EXCEPT
               !.told = @ \cup {[id |-> e.id, first |-> e.first] : e \in news.events},
               !.events = {[id |-> clusters[k].id, first |-> clusters[k].first,
                            coverage |-> Cardinality(clusters[k].outlets),
                            rerun |-> clusters[k].id \in reruns] : k \in Live(clusters)},
               !.known = Remembered(clusters)]

FetchNews ==
    \E answering \in SUBSET DOMAIN Outlets :
        \E items \in {OldestFirst(FetchedItems(answering))} :
            items # <<>> /\ \E weights \in {Weights(items)} : Processed(items, weights)

NewsNext == PublishArticle \/ DayPasses \/ NewEngine \/ FetchNews
NewsSpec == NewsInit /\ [][NewsNext]_news

\* Nothing in a fetch makes another of its stories old: an id is flagged a re-run, and left
\* out of sentiment and impact, only if a story of that id broke more than RecycleAfter
\* after another that this engine told of in an earlier fetch, whatever fetches, failing
\* feeds and forgetting lie between.  Whether the two are one story is not said here: a
\* story whose first article has left the feed goes by another id, and is told against
\* itself.
RerunsWereToldBefore ==
    \A e \in news.events : e.rerun =>
        \E f \in news.events, t \in news.told :
            f.id = e.id /\ t.id # e.id /\ f.first - t.first > RecycleAfter
=============================================================================
